-------------------------------- MODULE Disk --------------------------------
(***************************************************************************)
(* What filesys/cache.h promises the file system: sectors whose parts are  *)
(* written in one step each, as if there were no cache.  (A read changes   *)
(* nothing.)  BufferCache.tla implements this.                             *)
(***************************************************************************)
CONSTANTS Sector, Offset, Value

VARIABLE contents   \* the contents of each sector, by offset

Init == contents \in [Sector -> [Offset -> Value]]

Write(s, o, v) == contents' = [contents EXCEPT ![s][o] = v]

Next == \E s \in Sector, o \in Offset, v \in Value : Write(s, o, v)

Spec == Init /\ [][Next]_contents
=============================================================================
