------------------------------ MODULE MCAccounts ------------------------------
(***************************************************************************)
(* Small instances of Accounts for TLC.                                    *)
(***************************************************************************)
EXTENDS Accounts, TLC

CONSTANTS B1, B2, S1, S2

Plain(w) == [word |-> w, flipped |-> FALSE]

(* The level n as a plain number, and a text that is no number. *)
Level(n) == [chars |-> n, sql |-> n]
NoNumber == [chars |-> NotANumber, sql |-> NotANumber]

(* "1e1": 1 to from_chars and a larger number to SQLite. *)
Exponent == [chars |-> employee, sql |-> 4]

(* The second is also the name of a column. *)
TwoNames     == {Admin, Plain("PASSWORD")}
NamesOrEmpty == {Admin, Plain("PASSWORD"), Empty}

(* The second is what a client has to send so that its hash is "ADMIN". *)
TwoPasswords == {Admin, hash(Admin)}
TwoOrEmpty   == {Admin, hash(Admin), Empty}

PasswordColumns == [t \in {Plain("PASSWORD")} |-> "password"]

SomeLevels   == {Level(superuser), Level(5), Exponent, NoNumber, Absent}
StoredLevels == {4, NotANumber, Absent}
RaisedLevels == {superuser, Absent}

(* The browsers are interchangeable, and so are the numbers of sessions. *)
BrowserSymmetry == Permutations(Browsers) \cup Permutations(Sids)

(* No handler reads the answer an earlier one gave: states that differ in   *)
(* it only have the same successors.                                        *)
StateView == <<up, users, sessions, cookie>>
=============================================================================
