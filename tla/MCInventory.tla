------------------------------ MODULE MCInventory ------------------------------
(***************************************************************************)
(* Small instances of Inventory for TLC.                                   *)
(***************************************************************************)
EXTENDS Inventory

CONSTANTS A,           \* a name
          PhoneWord,   \* the texts "PHONE" and "PRICE", which name columns
          PriceWord,
          Price        \* the text of a price or a quantity

Clerk   == [level |-> employee, user |-> 2]
Manager == [level |-> manager,  user |-> 3]

TwoCallers == {Clerk, Manager}

WordColumns == [t \in {PhoneWord, PriceWord} |-> IF t = PhoneWord THEN "phone" ELSE "price"]

(* No handler reads the answer an earlier one gave: states that differ in   *)
(* it only have the same successors.                                        *)
StateView == <<up, suppliers, groups, parts>>
=============================================================================
