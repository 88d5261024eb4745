------------------------------ MODULE MCVehicles ------------------------------
(***************************************************************************)
(* A small instance of Vehicles for TLC.                                   *)
(***************************************************************************)
EXTENDS Vehicles

CONSTANTS PlateA, PlateB,   \* number plates
          ColourWord,       \* the text "COLOUR", which names a column
          M1, M2            \* makes with a model

Owner     == [level |-> client,   user |-> 1]
Neighbour == [level |-> employee, user |-> 2]
Manager   == [level |-> manager,  user |-> 3]

EveryKind == {NoSession, Owner, Neighbour, Manager}

ColourColumn == [t \in {ColourWord} |-> "colour"]
=============================================================================
