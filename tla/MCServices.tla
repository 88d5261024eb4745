------------------------------ MODULE MCServices ------------------------------
(***************************************************************************)
(* Small instances of Services for TLC.                                    *)
(***************************************************************************)
EXTENDS Services

CONSTANTS Junk,         \* an ID text that is no number
          Words,        \* some text
          QuoteWord,    \* the text "QUOTE", which names a column
          P1, P2, P3    \* part IDs

Owner   == [level |-> client,   user |-> 1]
Clerk   == [level |-> employee, user |-> 2]
Manager == [level |-> manager,  user |-> 3]

OwnerAndManager == {Owner, Manager}
EveryKind       == {NoSession, Owner, Clerk, Manager}
PartCallers     == {Owner, Clerk}

OwnerFound  == {1, NoRow}

(* No handler reads the answer an earlier one gave: states that differ in   *)
(* it only have the same successors.                                        *)
StateView == <<up, tables, told>>

NoColumns    == [t \in {} |-> "quote"]
QuoteColumns == [t \in {QuoteWord} |-> "quote"]

(* "1", "10" (past MaxInteger in that run), "x" and no field *)
PlainTexts == {[chars |-> 1, sql |-> 1], [chars |-> 10, sql |-> 10],
               [chars |-> NotANumber, sql |-> 0], Absent}

(* "3", and "2e1", which a number input also accepts *)
ExponentTexts == {[chars |-> 3, sql |-> 3], [chars |-> 2, sql |-> 20]}

FirstDigit(n) == CHOOSE d \in 1..9 : \E k \in 0..3 : d * 10^k <= n /\ n < (d + 1) * 10^k
=============================================================================
