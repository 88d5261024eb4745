--------------------------------- MODULE Htmt ---------------------------------
(***************************************************************************)
(* The pages of the translator (Translator/src/Source.cpp).  A page is HTML*)
(* with tags of its own: <HTMT:key> repeats its content for each object    *)
(* under a key, <HTMTCODE:code> and <HTMTCOND:condition> show theirs for   *)
(* one status code or when a condition holds, <HTMTVAL:key> and            *)
(* <HTMTQUERY:name> stand for a value.  translation::parse takes a page    *)
(* apart when the translator starts, apply fills it in for each answer.    *)
(***************************************************************************)
EXTENDS ResponseFormat, RequestFields, Conditions

CONSTANTS
  Samples,        \* responses pages are tried with
  Asked,          \* the query of the request a page answers, as it was read
  Contents,       \* what a page author puts into each kind of tag
  HTML,           \* a piece of HTML
  MaxWritten      \* bound on the pieces and tags of a page

VARIABLE
  page            \* what a page author has written, and what it is to mean

Opens  == <<"<HTMT:", "<HTMTCODE:", "<HTMTCOND:">>
Closes == <<"</HTMT>", "</HTMTCODE>", "</HTMTCOND>">>
Kinds  == <<"tag", "code", "condition">>
Dies   == "(the translator ends here)"

(* A translation or a translationValue: what it is, the text in its tag,    *)
(* its condition and what is inside.                                        *)
node(type, text, cond, values) ==
  [type |-> type, text |-> text, cond |-> cond, values |-> values]

-----------------------------------------------------------------------------
(* translationCondition::parse and check, the turns of their loops one     *)
(* after the other.                                                         *)
RECURSIVE parseFrom(_, _, _)
parseFrom(cond, s, begin) ==
  LET div == divisor(s, begin)
  IN  IF div = Len(s) + 1 THEN parseTurn(cond, s, begin)
      ELSE parseFrom(parseTurn(cond, s, begin), s, div + 1)

parseCondition(s) == parseFrom(noCondition, s, 1)

check(cond, data) ==
  LET upTo[i \in 1..Len(cond.conditions)] ==
        IF i = 1 THEN checkTest(cond.conditions[1], data)
        ELSE applyConjunction(upTo[i - 1], cond.conjunctions[i - 1],
                              checkTest(cond.conditions[i], data))
  IN  upTo[Len(cond.conditions)]

-----------------------------------------------------------------------------
(* translation::parse. *)
RECURSIVE parseSubHTML(_)
parseSubHTML(s) ==
  LET at      == SelectInSeq(s, LAMBDA t : t \in {"<HTMTVAL:", "<HTMTQUERY:"})
      html(x) == IF x = <<>> THEN <<>> ELSE <<node("HTML", x, noCondition, <<>>)>>
      nameEnd == findIn(s, at + 1, Len(s) + 1, ">")
      type    == IF s[at] = "<HTMTVAL:" THEN "access" ELSE "query"
  IN  IF at = 0 THEN html(s)
      ELSE html(SubSeq(s, 1, at - 1))
             \o <<node(type, SubSeq(s, at + 1, nameEnd - 1), noCondition, <<>>)>>
             \o parseSubHTML(SubSeq(s, nameEnd + 1, Len(s)))

(* The loop of tagSearch.  Over the mark of an opening tag it goes one      *)
(* further, into what follows; depth starts at the largest number, and is 0 *)
(* after the first opening tag.  A mark is one token here, so that a page   *)
(* ending with a part of one, which strncmp accepts, is left out.           *)
RECURSIVE tagLoop(_, _, _, _, _)
tagLoop(s, at, depth, k, further) ==
  IF at > Len(s) THEN Len(s) + 1
  ELSE CASE s[at] = Opens[k]  -> tagLoop(s, at + 1 + further, depth + 1, k, further)
         [] s[at] = Closes[k] -> IF depth = 0 THEN at + 1
                                 ELSE tagLoop(s, at + 1, depth - 1, k, further)
         [] OTHER             -> tagLoop(s, at + 1, depth, k, further)

(* Mutated form: the loop goes two further. *)
tagSearch_TwoFurther(s, begin, k) == tagLoop(s, begin, -1, k, 2)

(* Past the closing tag of the one at begin, or the end of the page. *)
tagSearch(s, begin, k) == tagLoop(s, begin, -1, k, 1)

RECURSIVE parse(_)
parse(s) ==
  LET start    == SelectInSeq(s, LAMBDA t : t \in ToSet(Opens))
      k        == CHOOSE i \in 1..3 : Opens[i] = s[start]
      tagClose == findIn(s, start + 1, Len(s) + 1, ">")
      end      == tagSearch(s, start, k)
      text     == SubSeq(s, start + 1, tagClose - 1)
      type     == IF Kinds[k] = "tag" /\ text = <<>> THEN "always" ELSE Kinds[k]
  IN  IF start = 0 THEN parseSubHTML(s)
      ELSE parseSubHTML(SubSeq(s, 1, start - 1))
             \o <<node(type, text,
                       IF type = "condition" THEN parseCondition(text) ELSE noCondition,
                       parse(SubSeq(s, tagClose + 1, end - 2)))>>
             \o parse(SubSeq(s, end, Len(s)))

-----------------------------------------------------------------------------
(* translation::apply and translationValue::apply.  Asking for a text where *)
(* there are objects, or the other way round, ends the translator: std::get *)
(* throws.  So do the assertions, that a value is alone, where compiled in. *)
RECURSIVE applyAll(_, _, _, _)

(* Mutated form: a missing value is not tested for. *)
applyAccess_NoTest(v, data) ==
  LET i == find(data, v.text)
  IN  IF i = 0 \/ isObjects(data[i]) \/ size(data[i]) # 1 THEN <<Dies>> ELSE data[i].texts[1]

applyAccess(v, data) ==
  LET i == find(data, v.text)
  IN  IF i = 0 THEN <<>>
      ELSE IF isObjects(data[i]) \/ size(data[i]) # 1 THEN <<Dies>>
      ELSE data[i].texts[1]

(* Mutated form: the content is filled in from the object around. *)
applyTag_Outer(v, data, code, q) ==
  LET i == find(data, v.text)
  IN  IF i = 0 THEN <<>>
      ELSE IF ~isObjects(data[i]) THEN <<Dies>>
      ELSE FlattenSeq([j \in 1..size(data[i]) |-> applyAll(v.values, data, code, q)])

applyTag(v, data, code, q) ==
  LET i == find(data, v.text)
  IN  IF i = 0 THEN <<>>
      ELSE IF ~isObjects(data[i]) THEN <<Dies>>
      ELSE FlattenSeq([j \in 1..size(data[i]) |-> applyAll(v.values, data[i].objects[j], code, q)])

applyValue(v, data, code, q) ==
  CASE v.type = "access"    -> applyAccess(v, data)
    [] v.type = "HTML"      -> v.text
    [] v.type = "query"     -> IF hasElement(q, v.text) THEN q[v.text] ELSE <<>>
    [] v.type = "always"    -> applyAll(v.values, data, code, q)
    [] v.type = "tag"       -> applyTag(v, data, code, q)
    [] v.type = "code"      -> IF v.text = code THEN applyAll(v.values, data, code, q) ELSE <<>>
    [] v.type = "condition" -> IF check(v.cond, data) THEN applyAll(v.values, data, code, q)
                               ELSE <<>>

applyAll(values, data, code, q) ==
  FlattenSeq([i \in 1..Len(values) |-> applyValue(values[i], data, code, q)])

-----------------------------------------------------------------------------
(* A page author writes HTML and values, opens tags and closes the last one *)
(* open.  Meant is the same page as a tree, the tags still open last.       *)
PageInit == page = [written |-> <<>>, meant |-> <<node("always", <<>>, noCondition, <<>>)>>,
                    pieces |-> 0]

into(meant, v) == [meant EXCEPT ![Len(meant)].values = Append(@, v)]

write(tokens, v) ==
  /\ page.pieces < MaxWritten
  /\ page' = [written |-> page.written \o tokens, meant |-> into(page.meant, v),
              pieces |-> page.pieces + 1]

(* Two pieces of HTML next to each other are one piece. *)
writeHTML ==
  /\ \A i \in {Len(Last(page.meant).values)} \ {0} : Last(page.meant).values[i].type # "HTML"
  /\ write(HTML, node("HTML", HTML, noCondition, <<>>))

writeValue(key) == write(<<"<HTMTVAL:">> \o key \o <<">">>, node("access", key, noCondition, <<>>))

writeQuery(name) == write(<<"<HTMTQUERY:">> \o name \o <<">">>, node("query", name, noCondition, <<>>))

openTag(k, c) ==
  /\ page.pieces < MaxWritten
  /\ page' = [written |-> page.written \o <<Opens[k]>> \o c.text \o <<">">>,
              meant   |-> Append(page.meant, node(c.type, c.text, c.cond, <<>>)),
              pieces  |-> page.pieces + 1]

closeTag ==
  LET v == Last(page.meant)
      k == CHOOSE i \in 1..3 : Kinds[i] = IF v.type = "always" THEN "tag" ELSE v.type
  IN  /\ Len(page.meant) > 1
      /\ page' = [page EXCEPT !.written = Append(@, Closes[k]), !.meant = into(Front(@), v)]

PageNext ==
  \/ writeHTML
  \/ \E key \in Keys : writeValue(key)
  \/ \E name \in Names : writeQuery(name)
  \/ \E k \in 1..3 : \E c \in Contents[k] : openTag(k, c)
  \/ closeTag

-----------------------------------------------------------------------------
(* A page whose tags are closed is taken apart the way it was written, also *)
(* where tags of one kind are nested and where tags are empty (parse,       *)
(* tagSearch, parseSubHTML).                                                *)
ParsedAsWritten == Len(page.meant) = 1 => parse(page.written) = page.meant[1].values

(* The page asks each response object for what it can give. *)
RECURSIVE Fits(_, _)
Fits(values, r) ==
  \A i \in 1..Len(values) :
    LET v == values[i]
        elements == {e \in ToSet(r) : e.key = v.text}
    IN  CASE v.type = "access" -> \A e \in elements : e.objects = <<>> /\ Len(e.texts) = 1
          [] v.type = "tag"    -> \A e \in elements : /\ e.texts = <<>>
                                                      /\ \A o \in ToSet(e.objects) : Fits(v.values, o)
          [] OTHER             -> Fits(v.values, r)

(* The responses as the translator reads them. *)
Arrived == [r \in Samples |-> fromData(toData(r, FALSE)).r]

(* A page that fits the response it is made for never ends the translator,  *)
(* whatever the code, however deep the response (translation::apply).       *)
FittingPageShown ==
  Len(page.meant) = 1 =>
    LET values == parse(page.written)
    IN  \A r \in Samples : Fits(page.meant[1].values, r) =>
          \A code \in {<<"0">>} \cup {c.text : c \in Contents[2]} :
            Dies \notin ToSet(applyAll(values, Arrived[r], code, Asked))

(* The page of a call that failed, made from an empty text and code 0, is   *)
(* shown, and shows nothing but the page's own HTML and the request's query *)
(* (applyTranslation).                                                      *)
FailedCallShown ==
  Len(page.meant) = 1 =>
    ToSet(applyAll(parse(page.written), fromData(<<>>).r, <<"0">>, Asked))
      \subseteq ToSet(HTML) \cup UNION {ToSet(Asked[name]) : name \in DOMAIN Asked}
=============================================================================
