----------------------------- MODULE MCForwarding -----------------------------
(* Forwarding for TLC: a GET, a POST whose body takes up to two reads on    *)
(* either way and a POST without a body.                                    *)
EXTENDS Forwarding

CONSTANTS get, post, bare

MCPieces == [r \in Requests |-> IF r = post THEN 2 ELSE 0]
=============================================================================
