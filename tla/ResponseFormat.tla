--------------------------- MODULE ResponseFormat ---------------------------
(***************************************************************************)
(* The text that server and translator exchange (Shared/include/Response.h)*)
(* Handlers build a responseWrapper with add, toData writes it, the        *)
(* translator reads it back with fromData.  A text is a sequence of        *)
(* tokens: the marks of the format, white space, and words.                *)
(***************************************************************************)
EXTENDS Elements, FiniteSets, SequencesExt

CONSTANTS
  Keys,           \* names of elements
  Texts,          \* values of elements
  MaxAdds,        \* bound on the elements of a response, at all depths
  MaxOpen         \* bound on the objects under construction at one time

VARIABLE
  draft           \* objects under construction, the innermost last

Marks  == {"{", "}", "[", "]", ",", ":"}
Spaces == {" ", "\n", "\t"}
Quote  == "\""

(* Nothing escapes a value.  Keys are names in the source, without marks or *)
(* spaces; values come from tables.  Those considered have no bracket and   *)
(* no quote in them, but they may have commas, colons and spaces.           *)
ASSUME FormatAssumption ==
  /\ \A k \in Keys : k # <<>> /\ ToSet(k) \cap (Marks \cup Spaces \cup {Quote}) = {}
  /\ \A t \in Texts : ToSet(t) \cap {"{", "}", "[", "]", Quote, "\n", "\t"} = {}
  /\ MaxAdds \in Nat /\ MaxOpen \in Nat

-----------------------------------------------------------------------------
(* genericAdd: a key that is there takes another value and keeps its own    *)
(* forced flag.  Mixing texts and objects under one key is asserted not to  *)
(* happen.                                                                  *)
canMix(r, key, objects) ==
  \A i \in 1..Len(r) : r[i].key = key => isObjects(r[i]) = (objects # <<>>)

genericAdd(r, key, texts, objects, forced) ==
  LET i == find(r, key)
  IN  IF i = 0 THEN Append(r, element(key, texts, objects, forced))
      ELSE [r EXCEPT ![i].texts = @ \o texts, ![i].objects = @ \o objects]

-----------------------------------------------------------------------------
(* Writing.  Every item of a list is followed by a comma and, with padding, *)
(* by a new line; the last comma is erased again, counted from the end.     *)
padding(pad, t, n) == IF pad THEN [i \in 1..n |-> t] ELSE <<>>

allLines(items, pad) ==
  FlattenSeq([i \in 1..Len(items) |-> items[i] \o <<",">> \o padding(pad, "\n", 1)])

(* Mutated form: the new line is not counted. *)
lines_LastErased(items, pad) ==
  LET src == allLines(items, pad) IN IF items = <<>> THEN src ELSE RemoveAt(src, Len(src))

lines(items, pad) ==
  LET src == allLines(items, pad)
  IN  IF items = <<>> THEN src ELSE RemoveAt(src, Len(src) + 1 - (IF pad THEN 2 ELSE 1))

textToData(t, depth, prespace, pad) ==
  (IF prespace THEN padding(pad, "\t", depth) ELSE <<>>)
    \o padding(pad, Quote, 1) \o t \o padding(pad, Quote, 1)

RECURSIVE objectToData(_, _, _, _)

containerToData(e, depth, pad) ==
  LET array    == size(e) > 1 \/ e.forced
      at       == IF array THEN depth + 1 ELSE depth
      items    == IF isObjects(e)
                  THEN [i \in 1..size(e) |-> objectToData(e.objects[i], at, array, pad)]
                  ELSE [i \in 1..size(e) |-> textToData(e.texts[i], at, array, pad)]
  IN  IF array
      THEN <<"[">> \o padding(pad, "\n", 1) \o lines(items, pad)
             \o padding(pad, "\t", depth) \o <<"]">>
      ELSE items[1]

objectToData(r, depth, prespace, pad) ==
  (IF prespace THEN padding(pad, "\t", depth) ELSE <<>>)
    \o <<"{">> \o padding(pad, "\n", 1)
    \o lines([i \in 1..Len(r) |->
                padding(pad, "\t", depth + 1) \o r[i].key \o <<":">> \o padding(pad, " ", 1)
                  \o containerToData(r[i], depth + 1, pad)], pad)
    \o padding(pad, "\t", depth) \o <<"}">>

toData(r, pad) == objectToData(r, 0, FALSE, pad)

-----------------------------------------------------------------------------
(* Reading. *)
count(d, begin, end, mark) == Cardinality({i \in begin..end : d[i] = mark})

(* Mutated form: the first closing mark is taken, whatever it closes. *)
match_NoDepth(d, begin, end, open, close) == findIn(d, begin, end, close)

(* The mark that closes the one at begin. *)
match(d, begin, end, open, close) ==
  Least({i \in begin..(end - 1) :
           d[i] = close /\ count(d, begin, i, open) = count(d, begin, i, close)} \cup {end})

(* What a reader returns.  "undefined": it has read past its data. *)
value(r)    == [status |-> "value", r |-> r]
nullopt     == [status |-> "nullopt", r |-> <<>>]
undefined   == [status |-> "undefined", r |-> <<>>]

(* One item in front of the items read after it. *)
before(x, rest) == IF rest.status = "value" THEN value(<<x>> \o rest.r) ELSE rest

RECURSIVE fromData(_), elementsFrom(_, _), objectsFrom(_, _, _), textsFrom(_, _, _)

(* Mutated form: the list goes on to the end of the object around it. *)
textsFrom_NoEnd(d, left, end) ==
  LET div == findIn(d, left, Len(d), ",")
  IN  <<SubSeq(d, left, div - 1)>> \o (IF div = Len(d) THEN <<>> ELSE textsFrom(d, div + 1, end))

textsFrom(d, left, end) ==
  LET div == findIn(d, left, end, ",")
  IN  <<SubSeq(d, left, div - 1)>> \o (IF div = end THEN <<>> ELSE textsFrom(d, div + 1, end))

objectsFrom(d, left, end) ==
  IF left > end \/ d[left] # "{" THEN undefined
  ELSE LET div  == match(d, left, end, "{", "}")
           item == fromData(SubSeq(d, left, div))
       IN  IF item.status # "value" THEN item
           ELSE before(item.r, IF div = end - 1 THEN value(<<>>) ELSE objectsFrom(d, div + 2, end))

(* The three forms a value can have, told by its first mark. *)
elementsFrom(d, left) ==
  LET end  == Len(d)
      div  == findIn(d, left, end, ":")
      next == div + 1
      key  == SubSeq(d, left, div - 1)
      skip(blockEnd) == IF blockEnd >= end THEN undefined
                        ELSE elementsFrom(d, IF blockEnd + 1 = end THEN end ELSE blockEnd + 2)
  IN  CASE left = end \/ div = end -> value(<<>>)
        [] div < end /\ d[next] = "{" ->
             LET blockEnd == match(d, next, end, "{", "}")
                 item     == fromData(SubSeq(d, next, blockEnd))
             IN  IF item.status # "value" THEN item
                 ELSE before(element(key, <<>>, <<item.r>>, FALSE), skip(blockEnd))
        [] div < end /\ d[next] = "[" ->
             LET blockEnd == match(d, next, end, "[", "]")
                 items    == objectsFrom(d, next + 1, blockEnd)
             IN  IF d[next + 1] # "{"
                 THEN before(element(key, textsFrom(d, next + 1, blockEnd), <<>>, TRUE),
                             skip(blockEnd))
                 ELSE IF items.status # "value" THEN items
                 ELSE before(element(key, <<>>, items.r, TRUE), skip(blockEnd))
        [] OTHER ->
             LET blockEnd == findIn(d, div, end, ",")
             IN  before(element(key, <<SubSeq(d, next, blockEnd - 1)>>, <<>>, FALSE),
                        elementsFrom(d, IF blockEnd = end THEN end ELSE blockEnd + 1))

fromData(d) ==
  CASE d = <<>> -> value(<<>>)
    [] d # <<>> /\ (d[1] # "{" \/ d[Len(d)] # "}") -> nullopt
    [] OTHER -> elementsFrom(d, 2)

(* White space outside quotes is removed, then the quotes. *)
fromUnformattedData(d) ==
  LET quoted(i) == count(d, 1, i, Quote) % 2 = 1
      kept      == {i \in 1..Len(d) : d[i] # Quote /\ (d[i] \in Spaces => quoted(i))}
      place(n)  == CHOOSE i \in kept : Cardinality({j \in kept : j <= i}) = n
  IN  fromData([n \in 1..Cardinality(kept) |-> d[place(n)]])

-----------------------------------------------------------------------------
(* What a handler does: it adds texts to the object at hand, begins an      *)
(* object, and adds a finished one to the object it belongs to.             *)
RECURSIVE elementsIn(_)
elementsIn(r) ==
  FoldSeq(LAMBDA e, n : n + size(e) + FoldSeq(LAMBDA o, k : k + elementsIn(o), 0, e.objects), 0, r)

Added == FoldSeq(LAMBDA r, n : n + elementsIn(r), 0, draft)

DraftInit == draft = << <<>> >>

addText(key, text, forced) ==
  /\ Added < MaxAdds
  /\ canMix(Last(draft), key, <<>>)
  /\ draft' = Append(Front(draft), genericAdd(Last(draft), key, <<text>>, <<>>, forced))

beginObject ==
  /\ Len(draft) < MaxOpen
  /\ draft' = Append(draft, <<>>)

addObject(key, forced) ==
  /\ Len(draft) > 1 /\ Added < MaxAdds
  /\ LET below == draft[Len(draft) - 1]
     IN  /\ canMix(below, key, <<Last(draft)>>)
         /\ draft' = Append(Front(Front(draft)),
                            genericAdd(below, key, <<>>, <<Last(draft)>>, forced))

DraftNext ==
  \/ \E key \in Keys, text \in Texts, forced \in BOOLEAN : addText(key, text, forced)
  \/ beginObject
  \/ \E key \in Keys, forced \in BOOLEAN : addObject(key, forced)

-----------------------------------------------------------------------------
(* A response as it arrives: a list is known to be one by its brackets. *)
RECURSIVE Normal(_)
Normal(r) ==
  [i \in 1..Len(r) |->
     element(r[i].key, r[i].texts, [j \in 1..Len(r[i].objects) |-> Normal(r[i].objects[j])],
             r[i].forced \/ size(r[i]) > 1)]

RECURSIVE HasComma(_)
HasComma(r) ==
  \E i \in 1..Len(r) : \/ \E j \in 1..Len(r[i].texts) : "," \in ToSet(r[i].texts[j])
                       \/ \E j \in 1..Len(r[i].objects) : HasComma(r[i].objects[j])

(* The object at hand; the ones around it were at hand before it was begun. *)
Built == Last(draft)

(* A response whose values have no comma arrives as it was built, whatever  *)
(* its nesting, its empty values and objects, and the colons and spaces in  *)
(* its values; and writing it again gives the same text (toData, fromData). *)
RoundTrip ==
  ~HasComma(Built) =>
    LET d == toData(Built, FALSE)
    IN  fromData(d) = value(Normal(Built)) /\ toData(Normal(Built), FALSE) = d

(* The padded form says the same as the plain one (fromUnformattedData).    *)
PaddedRoundTrip ==
  ~HasComma(Built) => fromUnformattedData(toData(Built, TRUE)) = value(Normal(Built))

(* What arrives of a response r with commas in its values, as s. *)
RECURSIVE Confined(_, _)
Confined(r, s) ==
  LET comma(e)   == \E j \in 1..Len(e.texts) : "," \in ToSet(e.texts[j])
      single(e)  == size(e) = 1 /\ ~e.forced
      broken     == {i \in 1..Len(r) : comma(r[i]) /\ single(r[i])}
      sound(i)   == \A b \in broken : i < b
  IN  \A i \in 1..Len(r) : sound(i) =>
        /\ i <= Len(s) /\ s[i].key = r[i].key
        /\ ~comma(r[i]) => s[i].texts = r[i].texts
        /\ Len(s[i].objects) = Len(r[i].objects)
        /\ \A j \in 1..Len(r[i].objects) : Confined(r[i].objects[j], s[i].objects[j])

(* A comma in a value is taken for a separator, as nothing escapes it       *)
(* (elementToData).  The damage stays in the object that holds the value,   *)
(* behind it, or within its list: what comes before and every other object  *)
(* of the page arrives as it was built, and the reader stays in its data.   *)
CommasConfined ==
  LET read == fromData(toData(Built, FALSE))
  IN  read.status = "value" /\ Confined(Built, read.r)
=============================================================================
