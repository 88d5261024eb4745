------------------------------- MODULE MCGarage -------------------------------
(* Small instances of Garage for TLC: the administrator, and customers who  *)
(* have accounts of level client.                                           *)
EXTENDS Garage, TLC

CONSTANTS B1, B2, S1, S2, PlateA, PlateB, Model

(* The browsers are interchangeable, and so are the numbers of sessions and *)
(* the plates.                                                              *)
BrowserSymmetry ==
  Permutations(Browsers) \cup Permutations(Sids) \cup Permutations(PlateFields)

(* What handlers and the properties of these runs read: no answer, no hours *)
(* and nothing of who was told what; and of who logged in, authorised and   *)
(* placed what only what the properties ask, which is nothing once an       *)
(* account or a vehicle was deleted.  States that agree in it are one.      *)
People ==
  <<loggedAs, [i \in DOMAIN active |-> active[i].authoriser],
    [s \in DOMAIN placed |-> <<placed[s].owner,
                               placed[s].manager \/ placed[s].by = placed[s].owner>>]>>

StateView ==
  <<up, accountVars, vehicleVars, shared, unauthorised,
    [i \in DOMAIN active |-> active[i].service], open, closed, parts,
    deletions, IF deletions = 0 THEN People ELSE <<>> >>

(* The text that has to be stored for the password everybody logs in with. *)
Usable == {A!hash(A!Admin)}

(* Of the quantities of these runs. *)
FirstDigit(n) == 1

AllLists == {{"unauthorised", "open", "closed"}}
=============================================================================
