------------------------------- MODULE Elements -------------------------------
(* A responseWrapper is a sequence of elements, each a key with a list of   *)
(* texts or a list of objects.  The variant is told by which list is empty. *)
EXTENDS Positions

element(key, texts, objects, forced) ==
  [key |-> key, texts |-> texts, objects |-> objects, forced |-> forced]

isObjects(e) == e.objects # <<>>
size(e)      == Len(e.texts) + Len(e.objects)

(* The element with a key, or 0. *)
find(r, key) ==
  LET at == {i \in 1..Len(r) : r[i].key = key}
  IN  IF at = {} THEN 0 ELSE Least(at)
=============================================================================
