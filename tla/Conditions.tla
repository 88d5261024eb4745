------------------------------ MODULE Conditions ------------------------------
(***************************************************************************)
(* Conditions of pages (translationCondition in Translator/src/Source.cpp).*)
(* A page author writes tests joined by '&' and '|'; parse takes the text  *)
(* apart when the translator starts, check runs over the tests for each    *)
(* response.  A turn of either loop is a step.                             *)
(***************************************************************************)
EXTENDS Elements

CONSTANTS
  Variables,      \* keys a condition asks for
  Operands,       \* what their values are compared with
  Responses,      \* responses a condition is checked on
  MaxParts        \* bound on the tests of a condition

VARIABLES
  parts,          \* the tests the author writes, in order, and where each is written
  source,         \* the text of the condition
  leftAt,         \* where parse is in it: 0 before it starts, -1 after it ends
  condition,      \* what parse has made of it so far
  response,       \* the response the condition is checked on
  checked,        \* how many tests have been; 0 before check starts
  currentState    \* what they come to

condVars == <<parts, source, leftAt, condition, response, checked, currentState>>

Joins == {"&", "|"}

(* Variables are names in the source.  What is under a key is texts or      *)
(* objects.                                                                 *)
ASSUME ConditionsAssumption ==
  /\ Variables \subseteq Seq(Chars) /\ Operands \subseteq Seq(Chars)
  /\ Joins \subseteq Chars /\ {"=", "!"} \subseteq Chars
  /\ \A v \in Variables : \A i \in 1..Len(v) : v[i] \notin Joins \cup {"=", "!"}
  /\ \A c \in Operands : \A i \in 1..Len(c) : c[i] \notin Joins
  /\ \A r \in Responses :
       /\ Len(r) \in Nat
       /\ \A i \in 1..Len(r) : /\ r[i].texts \in Seq(Seq(Chars))
                               /\ Len(r[i].objects) \in Nat
                               /\ r[i].texts = <<>> \/ r[i].objects = <<>>
  /\ MaxParts \in Nat

-----------------------------------------------------------------------------
test(variable, action, constant) ==
  [variable |-> variable, action |-> action, constant |-> constant]

(* '=' is looked for before '!'; a part with neither always holds. *)
parseSubCondition(s, begin, end) ==
  LET equal    == findIn(s, begin, end, "=")
      notEqual == findIn(s, begin, end, "!")
  IN  IF equal # end
      THEN test(SubSeq(s, begin, equal - 1), "equal", SubSeq(s, equal + 1, end - 1))
      ELSE IF notEqual # end
      THEN test(SubSeq(s, begin, notEqual - 1), "notEqual", SubSeq(s, notEqual + 1, end - 1))
      ELSE test(<<>>, "always", <<>>)

(* Mutated form: a '|' is looked for only where there is no '&'. *)
divisor_AndFirst(s, begin) ==
  LET div == findIn(s, begin, Len(s) + 1, "&")
  IN  IF div # Len(s) + 1 THEN div ELSE findIn(s, begin, Len(s) + 1, "|")

(* The next of both divisors. *)
divisor(s, begin) == findAny(s, begin, Len(s) + 1, Joins)

noCondition == [conditions |-> <<>>, conjunctions |-> <<>>]

(* One turn of the loop of parse. *)
parseTurn(cond, s, begin) ==
  LET div == divisor(s, begin)
  IN  [conditions   |-> Append(cond.conditions, parseSubCondition(s, begin, div)),
       conjunctions |-> IF div = Len(s) + 1 THEN cond.conjunctions
                        ELSE Append(cond.conjunctions, s[div])]

(* A value is equal to a constant when it is there, a text, and alone.      *)
checkTest(t, r) ==
  LET i       == find(r, t.variable)
      isEqual == /\ i # 0
                 /\ ~isObjects(r[i]) /\ size(r[i]) = 1
                 /\ r[i].texts[1] = t.constant
  IN  CASE t.action = "equal"    -> isEqual
        [] t.action = "notEqual" -> ~isEqual
        [] OTHER                 -> TRUE

applyConjunction(l, val, r) == CASE val = "&" -> l /\ r
                                 [] val = "|" -> l \/ r
                                 [] OTHER     -> TRUE

-----------------------------------------------------------------------------
(* The author writes one test behind the others.  Operands are free of      *)
(* divisors, and of '=' behind a '!'.                                       *)
writeTest(join, variable, action, constant) ==
  LET gap  == IF parts = <<>> THEN <<>> ELSE <<join>>
      tail == IF action = "always" THEN <<>>
              ELSE <<IF action = "equal" THEN "=" ELSE "!">> \o constant
  IN  /\ leftAt = 0 /\ Len(parts) < MaxParts
      /\ action = "notEqual" => \A i \in 1..Len(constant) : constant[i] # "="
      /\ parts' = Append(parts, [join |-> join, at |-> Len(source) + Len(gap) + 1,
                                 variable |-> variable, action |-> action,
                                 constant |-> constant])
      /\ source' = source \o (gap \o (variable \o tail))
      /\ UNCHANGED <<leftAt, condition, response, checked, currentState>>

startParse ==
  /\ leftAt = 0 /\ parts # <<>>
  /\ leftAt' = 1
  /\ UNCHANGED <<parts, source, condition, response, checked, currentState>>

parseNext ==
  /\ leftAt > 0
  /\ condition' = parseTurn(condition, source, leftAt)
  /\ leftAt' = IF divisor(source, leftAt) = Len(source) + 1 THEN -1 ELSE divisor(source, leftAt) + 1
  /\ UNCHANGED <<parts, source, response, checked, currentState>>

(* check: the first test, then the others from left to right. *)
startCheck(r) ==
  /\ leftAt = -1 /\ checked = 0
  /\ response' = r
  /\ checked' = 1
  /\ currentState' = checkTest(condition.conditions[1], r)
  /\ UNCHANGED <<parts, source, leftAt, condition>>

checkNext ==
  /\ checked > 0 /\ checked < Len(condition.conditions)
  /\ checked' = checked + 1
  /\ currentState' = applyConjunction(currentState, condition.conjunctions[checked],
                                      checkTest(condition.conditions[checked + 1], response))
  /\ UNCHANGED <<parts, source, leftAt, condition, response>>

CondInit ==
  /\ parts = <<>> /\ source = <<>> /\ leftAt = 0
  /\ condition = noCondition
  /\ response = <<>> /\ checked = 0 /\ currentState = TRUE

CondNext ==
  \/ \E join \in Joins, variable \in Variables, constant \in Operands :
       \E action \in {"equal", "notEqual"} : writeTest(join, variable, action, constant)
  \/ \E join \in Joins, word \in Variables : writeTest(join, word, "always", <<>>)
  \/ startParse
  \/ parseNext
  \/ \E r \in Responses : startCheck(r)
  \/ checkNext

CondSpec == CondInit /\ [][CondNext]_condVars

-----------------------------------------------------------------------------
(* What a test says of a response; of two values with one key, the first    *)
(* counts.                                                                  *)
Says(p, r) ==
  LET present == \E i \in 1..Len(r) : /\ r[i].key = p.variable /\ r[i].texts = <<p.constant>>
                                      /\ \A j \in 1..(i - 1) : r[j].key # p.variable
  IN  CASE p.action = "equal"    -> present
        [] p.action = "notEqual" -> ~present
        [] OTHER                 -> TRUE

(* What the first n tests say together: one that opens an alternative holds *)
(* and so does every '&' to the right of it.                                *)
SayTogether(n, r) ==
  \E i \in 1..n : /\ Says(parts[i], r)
                  /\ i = 1 \/ parts[i].join = "|"
                  /\ \A k \in (i + 1)..n : parts[k].join = "&" => Says(parts[k], r)

(* A condition shows its content exactly when its tests, joined from left   *)
(* to right without precedence, hold of the response, however many they are *)
(* and whatever marks their operands have that are no divisors, nor '='     *)
(* behind a '!' (parse, check).                                             *)
ConditionsLeftToRight ==
  leftAt = -1 /\ checked = Len(condition.conditions) =>
    (currentState <=> SayTogether(Len(parts), response))
=============================================================================
