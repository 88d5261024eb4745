------------------------------- MODULE MCPages -------------------------------
(* Responses, pages, forms and conditions for TLC.  A behaviour builds one  *)
(* of the four; no property relates two of them beyond what Samples brings  *)
(* together.                                                                *)
EXTENDS Htmt

K == <<"K">>
L == <<"L">>
x == <<"x">>

MCChars == Escapes \cup Joins \cup {"=", "!", "+", "%", ";", " ", ":", ","}
             \cup {"n", "m", "x", "y", "a", "b", "K", "L"}

MCHTML  == <<"html">>
MCAsked == [name \in {<<"n">>} |-> <<"q">>]

MCKeys  == {K, L}
MCTexts == {<<>>, x, <<"x", ":", " ", "y">>, <<"x", ",", "y">>}

MCNames  == {<<"n">>, <<"m">>}
MCValues == {<<>>, x, <<"a", "=", "b">>, <<"a", "+", " ", "&", "%">>, <<";">>}

text(key, t)        == element(key, <<t>>, <<>>, FALSE)
list(key, ts)       == element(key, ts, <<>>, FALSE)
objs(key, os, f)    == element(key, <<>>, os, f)

MCSamples == {
  <<>>,
  << text(K, x), text(L, <<>>) >>,
  << list(K, <<x, x>>), text(L, x) >>,
  << objs(K, << << text(K, x) >> >>, FALSE), text(L, x) >>,
  << objs(K, << << objs(K, << << text(K, x) >> >>, TRUE) >>, << text(L, x) >> >>, FALSE) >>,
  << objs(K, << <<>>, << text(L, x), text(K, x) >> >>, TRUE), text(L, x) >> }

yes(k)      == test(k, "equal", x)
no(k)       == test(k, "notEqual", x)
isx(k)      == k \o <<"=">> \o x
isnt(k)     == k \o <<"!">> \o x
cond(s, ts, js) == [type |-> "condition", text |-> s,
                    cond |-> [conditions |-> ts, conjunctions |-> js]]

MCContents == <<
  {[type |-> "tag", text |-> K, cond |-> noCondition],
   [type |-> "always", text |-> <<>>, cond |-> noCondition]},
  {[type |-> "code", text |-> <<"200">>, cond |-> noCondition]},
  {cond(isnt(K) \o <<"&">> \o isx(L), <<no(K), yes(L)>>, <<"&">>),
   cond(isx(K) \o <<"|">> \o isx(L) \o <<"&">> \o isnt(K),
        <<yes(K), yes(L), no(K)>>, <<"|", "&">>)} >>

(* Conditions are checked where a key is absent, has objects, a list, a     *)
(* single text, or a text with marks of conditions in it, and is there      *)
(* twice.                                                                   *)
MCOperands  == {x, <<"x", "=", "!">>}
MCResponses == {
  <<>>,
  << list(K, <<x, x>>), text(L, x) >>,
  << objs(K, << << text(K, x) >> >>, FALSE), text(L, x) >>,
  << text(L, <<"x", "=", "!">>), text(K, x), text(L, x) >> }

Untouched(v) == CASE v = "draft" -> draft = << <<>> >>
                  [] v = "page"  -> page.pieces = 0
                  [] v = "form"  -> form = <<>> /\ it = 0
                  [] v = "cond"  -> parts = <<>>

Init == DraftInit /\ PageInit /\ FormInit /\ CondInit

Only(v) == /\ \A w \in {"draft", "page", "form", "cond"} \ {v} : Untouched(w)
           /\ v # "form" => part = "fields"

Next ==
  \/ DraftNext /\ Only("draft") /\ UNCHANGED <<page, formVars, condVars>>
  \/ PageNext /\ Only("page") /\ UNCHANGED <<draft, formVars, condVars>>
  \/ FormNext /\ Only("form") /\ UNCHANGED <<draft, page, condVars>>
  \/ CondNext /\ Only("cond") /\ UNCHANGED <<draft, page, formVars>>

Spec == Init /\ [][Next]_<<draft, page, formVars, condVars>>
=============================================================================
