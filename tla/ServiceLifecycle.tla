--------------------------- MODULE ServiceLifecycle ---------------------------
(***************************************************************************)
(* What the service book promises whoever follows one service: it only     *)
(* moves forward, and an operation moves at most one service.              *)
(*                                                                         *)
(*   none -> unauthorised -> open -> closed                                *)
(*                                                                         *)
(* A handler that stops between two statements may leave the service in    *)
(* none of the three lists: it is lost, and no operation of the server     *)
(* puts it back on the way to being worked on; all it can still become is  *)
(* closed.                                                                 *)
(***************************************************************************)
EXTENDS Naturals

CONSTANT Ids            \* numbers a service may have

VARIABLE status         \* where each service stands

Statuses == {"none", "unauthorised", "open", "closed", "lost"}

Init == status = [s \in Ids |-> "none"]

move(s, from, to) ==
  status[s] \in from /\ status' = [status EXCEPT ![s] = to]

Request(s)   == move(s, {"none"}, "unauthorised")
Authorise(s) == move(s, {"unauthorised"}, "open")
Close(s)     == move(s, {"open", "lost"}, "closed")
Lose(s)      == move(s, {"none", "unauthorised"}, "lost")

(* The number the new ACTIVESERVICEDATA row gets may already stand in       *)
(* CLOSEDSERVICES; when the row then fails to be opened it counts as closed.*)
Skip(s)      == move(s, {"unauthorised"}, "closed")

Next == \E s \in Ids : Request(s) \/ Authorise(s) \/ Close(s) \/ Lose(s) \/ Skip(s)

Spec == Init /\ [][Next]_status
=============================================================================
