--------------------------- MODULE MCReadLifecycle ---------------------------
(* Small instances of ReadLifecycle.                                       *)
EXTENDS ReadLifecycle, TLC

CONSTANTS A, B, x, y, tiny, k1, k2, k3, call1, call2

Op(kind, path, call, content, offset, limit) ==
  [kind |-> kind, path |-> path, call |-> call, content |-> content,
   offset |-> offset, limit |-> limit]

(* Contents x and y collide on the base hash.                              *)
CollidingHashes == x :> <<k1, k2>> @@ y :> <<k1, k3>> @@ tiny :> <<k1, k2>>

(* A write, and whole and ranged reads of one path, two of them under one  *)
(* callID and one with an unusable range and no callID.                    *)
SomeOperations ==
  {Op("write", A, NoCall, tiny, Unset, Unset),
   Op("read", A, call1, x, Unset, Unset),
   Op("read", A, call1, y, Unset, 2),
   Op("read", A, call2, y, 0, 3),
   Op("read", A, NoCall, y, -1, Unset)}
=============================================================================
