---------------------------- MODULE BufferCache ----------------------------
(***************************************************************************)
(* The write-back buffer cache of filesys/cache.c over the file system     *)
(* device, with filesys_done() of filesys/filesys.c.                       *)
(*                                                                         *)
(* buffer_cache_read() and buffer_cache_write() hold buffer_cache_lock.    *)
(* buffer_cache_close() does not: its steps, and the steps of the others   *)
(* on what it touches, are actions of their own.  Most system calls on     *)
(* files, and all that call buffer_cache_close(), hold file_lock as well.  *)
(* load() of userprog/process.c and the system calls readdir() and chdir() *)
(* read without it, and write without it when they close the last opener   *)
(* of a removed file, as open() does when it has no memory.  block_read()  *)
(* and block_write() are atomic: they hold the lock of their IDE channel.  *)
(***************************************************************************)
EXTENDS Integers

CONSTANTS
    Thread,
    Locked,         \* the threads whose calls hold file_lock
    NoThread,       \* no holder
    Sector,         \* sectors of the file system device
    NoSector,       \* (block_sector_t) -1
    NUM_SECTORS,    \* number of cache entries
    Offset,         \* the parts of a sector that are written separately
    Value,          \* what a part can hold
    CloseAlone      \* nobody reads or writes without file_lock during a close

ASSUME CacheAssumption ==
    /\ Locked \subseteq Thread
    /\ NoThread \notin Thread
    /\ NoSector \notin Sector
    /\ NUM_SECTORS \in Nat \ {0}
    /\ CloseAlone \in BOOLEAN

Entry == 1 .. NUM_SECTORS       \* cache_list, which never changes
Content == [Offset -> Value]

VARIABLES
    disk,               \* the contents of the device
    sector,             \* struct buffer_block: the sector in the entry,
    dirty, used, buf,   \* its flags and its data
    buffer_cache_lock,  \* holder
    file_lock,          \* holder
    pc,                 \* where in cache.c each thread is
    call,               \* the call each thread is in, with its arguments
    at,                 \* the entry it works on
    arg,                \* buffer_cache_close(): the sector it will write
    down                \* filesys_done() has run

entryVars == <<sector, dirty, used, buf>>
lockVars == <<buffer_cache_lock, file_lock>>
callVars == <<pc, call, at, arg>>
vars == <<disk, entryVars, lockVars, callVars, down>>

Calls == [op : {"read"}, s : Sector]
         \cup [op : {"write"}, s : Sector, o : Offset, v : Value]
         \cup [op : {"close"}]

NoCall == [op |-> "none"]

Location ==
    { "idle",           \* not in cache.c
      "lock",           \* before lock_acquire()
      "evict_test",     \* buffer_cache_evict(), before dirty is tested
      "evict_write",    \* ... before block_write()
      "evict_done",     \* ... before dirty and sector are cleared
      "fetch",          \* before block_read()
      "access",         \* before the flags are set and the data is copied
      "close_test",     \* buffer_cache_close(), before sector and dirty are
                        \* tested
      "close_arg",      \* ... before block_write()'s arguments are evaluated
      "close_write",    \* ... before block_write()
      "close_done",     \* ... before dirty is cleared
      "panic" }         \* block_write() was given a sector out of range

-----------------------------------------------------------------------------
Init ==
    /\ disk \in [Sector -> Content]
    /\ sector = [e \in Entry |-> NoSector]
    /\ dirty = [e \in Entry |-> FALSE]
    /\ used = [e \in Entry |-> FALSE]
    /\ buf \in [Entry -> Content]
    /\ buffer_cache_lock = NoThread
    /\ file_lock = NoThread
    /\ pc = [t \in Thread |-> "idle"]
    /\ call = [t \in Thread |-> NoCall]
    /\ at = [t \in Thread |-> 1]
    /\ arg = [t \in Thread |-> NoSector]
    /\ down = FALSE

Goto(t, l) == pc' = [pc EXCEPT ![t] = l]

Closing(t) == call[t].op = "close"

(* t calls c, with file_lock if it is one of Locked, which it must be to     *)
(* close.                                                                    *)
Begin(t, c) ==
    /\ pc[t] = "idle"
    /\ ~down
    /\ c.op = "close" => t \in Locked
    /\ IF t \in Locked THEN file_lock = NoThread /\ file_lock' = t
       ELSE UNCHANGED file_lock
    /\ CloseAlone =>
         IF c.op = "close" THEN \A u \in Thread : pc[u] = "idle"
         ELSE \A u \in Thread : ~Closing(u)
    /\ call' = [call EXCEPT ![t] = c]
    /\ Goto(t, IF c.op = "close" THEN "close_test" ELSE "lock")
    /\ UNCHANGED <<disk, entryVars, buffer_cache_lock, at, arg, down>>

(* The call of t returns, and file_lock is released.                         *)
End(t) ==
    /\ Goto(t, "idle")
    /\ call' = [call EXCEPT ![t] = NoCall]
    /\ at' = [at EXCEPT ![t] = 1]
    /\ file_lock' = IF t \in Locked THEN NoThread ELSE file_lock

-----------------------------------------------------------------------------
(* buffer_cache_evict()'s scan: the first entry that is not used, or else,   *)
(* after one turn around the list, the first one.                            *)
Victim ==
    IF \E e \in Entry : ~used[e]
      THEN CHOOSE e \in Entry : ~used[e] /\ \A f \in 1 .. e - 1 : used[f]
      ELSE 1

(* The entries whose used flag it clears on its way.                         *)
Passed == IF \E e \in Entry : ~used[e] THEN 1 .. Victim - 1 ELSE Entry

(* Mutant of Lookup: the lock is not taken.                                  *)
LookupUnlocked(t) ==
    LET hits == {e \in Entry : sector[e] = call[t].s}
    IN  /\ pc[t] = "lock"
        /\ IF hits # {}
             THEN /\ at' = [at EXCEPT ![t] = CHOOSE e \in hits :
                                               \A f \in hits : e <= f]
                  /\ Goto(t, "access")
                  /\ UNCHANGED used
             ELSE /\ at' = [at EXCEPT ![t] = Victim]
                  /\ used' = [e \in Entry |-> used[e] /\ e \notin Passed]
                  /\ Goto(t, "evict_test")
        /\ UNCHANGED <<disk, sector, dirty, buf, lockVars, call, arg, down>>

(* lock_acquire(), buffer_cache_find() and, on a miss, the scan of           *)
(* buffer_cache_evict(): only the holder of the lock changes what they read. *)
Lookup(t) ==
    LET hits == {e \in Entry : sector[e] = call[t].s}
    IN  /\ pc[t] = "lock"
        /\ buffer_cache_lock = NoThread
        /\ buffer_cache_lock' = t
        /\ IF hits # {}
             THEN /\ at' = [at EXCEPT ![t] = CHOOSE e \in hits :
                                               \A f \in hits : e <= f]
                  /\ Goto(t, "access")
                  /\ UNCHANGED used
             ELSE /\ at' = [at EXCEPT ![t] = Victim]
                  /\ used' = [e \in Entry |-> used[e] /\ e \notin Passed]
                  /\ Goto(t, "evict_test")
        /\ UNCHANGED <<disk, sector, dirty, buf, file_lock, call, arg,
                       down>>

(* Mutant of EvictTest: the victim is not written back.                      *)
EvictTestDrop(t) ==
    LET e == at[t]
    IN  /\ pc[t] = "evict_test"
        /\ Goto(t, "fetch") /\ sector' = [sector EXCEPT ![e] = NoSector]
        /\ UNCHANGED <<disk, dirty, used, buf, lockVars, call, at, arg,
                       down>>

(* A dirty victim is written back ...                                        *)
EvictTest(t) ==
    LET e == at[t]
    IN  /\ pc[t] = "evict_test"
        /\ IF dirty[e]
             THEN Goto(t, "evict_write") /\ UNCHANGED sector
             ELSE Goto(t, "fetch") /\ sector' = [sector EXCEPT ![e] = NoSector]
        /\ UNCHANGED <<disk, dirty, used, buf, lockVars, call, at, arg,
                       down>>

EvictWrite(t) ==
    LET e == at[t]
    IN  /\ pc[t] = "evict_write"
        /\ disk' = [disk EXCEPT ![sector[e]] = buf[e]]
        /\ Goto(t, "evict_done")
        /\ UNCHANGED <<entryVars, lockVars, call, at, arg, down>>

(* ... and then holds no sector.                                             *)
EvictDone(t) ==
    LET e == at[t]
    IN  /\ pc[t] = "evict_done"
        /\ dirty' = [dirty EXCEPT ![e] = FALSE]
        /\ sector' = [sector EXCEPT ![e] = NoSector]
        /\ Goto(t, "fetch")
        /\ UNCHANGED <<disk, used, buf, lockVars, call, at, arg, down>>

(* block_read() of the sector asked for.                                     *)
Fetch(t) ==
    LET e == at[t]
        s == call[t].s
    IN  /\ pc[t] = "fetch"
        /\ buf' = [buf EXCEPT ![e] = disk[s]]
        /\ sector' = [sector EXCEPT ![e] = s]
        /\ dirty' = [dirty EXCEPT ![e] = FALSE]
        /\ Goto(t, "access")
        /\ UNCHANGED <<disk, used, lockVars, call, at, arg, down>>

(* The flags of buffer_cache_read(), and its memcpy() from buf to the caller.*)
AccessRead(t) ==
    LET e == at[t]
    IN  /\ pc[t] = "access" /\ call[t].op = "read"
        /\ used' = [used EXCEPT ![e] = TRUE]
        /\ buffer_cache_lock' = NoThread
        /\ End(t)
        /\ UNCHANGED <<disk, sector, dirty, buf, arg, down>>

(* Mutant of AccessWrite: the entry is not marked dirty.                     *)
AccessWriteClean(t) ==
    LET e == at[t]
    IN  /\ pc[t] = "access" /\ call[t].op = "write"
        /\ used' = [used EXCEPT ![e] = TRUE]
        /\ buf' = [buf EXCEPT ![e][call[t].o] = call[t].v]
        /\ buffer_cache_lock' = NoThread
        /\ End(t)
        /\ UNCHANGED <<disk, sector, dirty, arg, down>>

(* The flags and the memcpy() of buffer_cache_write().                       *)
AccessWrite(t) ==
    LET e == at[t]
    IN  /\ pc[t] = "access" /\ call[t].op = "write"
        /\ used' = [used EXCEPT ![e] = TRUE]
        /\ dirty' = [dirty EXCEPT ![e] = TRUE]
        /\ buf' = [buf EXCEPT ![e][call[t].o] = call[t].v]
        /\ buffer_cache_lock' = NoThread
        /\ End(t)
        /\ UNCHANGED <<disk, sector, arg, down>>

-----------------------------------------------------------------------------
(* Mutant of CloseNext: one entry too many.                                  *)
CloseNextPast(t) ==
    /\ arg' = [arg EXCEPT ![t] = NoSector]
    /\ IF at[t] <= NUM_SECTORS
         THEN /\ at' = [at EXCEPT ![t] = @ + 1]
              /\ Goto(t, "close_test")
              /\ UNCHANGED <<call, file_lock>>
         ELSE End(t)

(* buffer_cache_close() goes on to the next entry, or returns.               *)
CloseNext(t) ==
    /\ arg' = [arg EXCEPT ![t] = NoSector]
    /\ IF at[t] < NUM_SECTORS
         THEN /\ at' = [at EXCEPT ![t] = @ + 1]
              /\ Goto(t, "close_test")
              /\ UNCHANGED <<call, file_lock>>
         ELSE End(t)

CloseTest(t) ==
    LET e == at[t]
    IN  /\ pc[t] = "close_test"
        /\ IF sector[e] # NoSector /\ dirty[e]
             THEN Goto(t, "close_arg") /\ UNCHANGED <<at, arg, call, file_lock>>
             ELSE CloseNext(t)
        /\ UNCHANGED <<disk, entryVars, buffer_cache_lock, down>>

(* block_write() checks that its sector is on the device.                    *)
CloseArg(t) ==
    /\ pc[t] = "close_arg"
    /\ arg' = [arg EXCEPT ![t] = sector[at[t]]]
    /\ Goto(t, IF sector[at[t]] \in Sector THEN "close_write" ELSE "panic")
    /\ UNCHANGED <<disk, entryVars, lockVars, call, at, down>>

CloseWrite(t) ==
    /\ pc[t] = "close_write"
    /\ disk' = [disk EXCEPT ![arg[t]] = buf[at[t]]]
    /\ Goto(t, "close_done")
    /\ UNCHANGED <<entryVars, lockVars, call, at, arg, down>>

CloseDone(t) ==
    /\ pc[t] = "close_done"
    /\ dirty' = [dirty EXCEPT ![at[t]] = FALSE]
    /\ CloseNext(t)
    /\ UNCHANGED <<disk, sector, used, buf, buffer_cache_lock, down>>

(* filesys_done(), before the power goes off.  Its line                      *)
(* "void buffer_cache_close();" declares a function and calls none.          *)
FilesysDone ==
    /\ ~down
    /\ \A t \in Thread : pc[t] = "idle"
    /\ down' = TRUE
    /\ UNCHANGED <<disk, entryVars, lockVars, callVars>>

-----------------------------------------------------------------------------
Step(t) ==
    \/ Lookup(t)
    \/ EvictTest(t)
    \/ EvictWrite(t)
    \/ EvictDone(t)
    \/ Fetch(t)
    \/ AccessRead(t)
    \/ AccessWrite(t)
    \/ CloseTest(t)
    \/ CloseArg(t)
    \/ CloseWrite(t)
    \/ CloseDone(t)

Next ==
    \/ /\ \A t \in Thread : pc[t] # "panic"
       /\ \E t \in Thread : Step(t) \/ \E c \in Calls : Begin(t, c)
    \/ FilesysDone

Spec == Init /\ [][Next]_vars

-----------------------------------------------------------------------------
(* Properties                                                                *)

(* Every variable has its type.                                              *)
CacheTypeOK ==
    /\ disk \in [Sector -> Content]
    /\ sector \in [Entry -> Sector \cup {NoSector}]
    /\ dirty \in [Entry -> BOOLEAN]
    /\ used \in [Entry -> BOOLEAN]
    /\ buf \in [Entry -> Content]
    /\ buffer_cache_lock \in Thread \cup {NoThread}
    /\ file_lock \in Locked \cup {NoThread}
    /\ pc \in [Thread -> Location]
    /\ call \in [Thread -> Calls \cup {NoCall}]
    /\ at \in [Thread -> Entry]
    /\ arg \in [Thread -> Sector \cup {NoSector}]
    /\ down \in BOOLEAN

(* buffer_cache_find() returns the first entry it finds, and an entry that   *)
(* is not dirty is dropped without a write: both are right because a sector  *)
(* is in one entry at most, and a clean entry agrees with the device.        *)
CacheCoherent ==
    \A e \in Entry : sector[e] # NoSector =>
        /\ \A f \in Entry : sector[f] = sector[e] => f = e
        /\ ~dirty[e] => buf[e] = disk[sector[e]]

(* The contents of a sector, wherever they are.                              *)
Contents == [s \in Sector |->
               IF \E e \in Entry : sector[e] = s
                 THEN buf[CHOOSE e \in Entry : sector[e] = s]
                 ELSE disk[s]]

D == INSTANCE Disk WITH contents <- Contents

(* The cache cannot be told from a disk: contents change only by a           *)
(* buffer_cache_write(), in one step and where it says, however sectors are  *)
(* evicted, written back and fetched again.                                  *)
ImplementsDisk == D!Spec

(* A buffer_cache_read() copies out the contents of the sector it was asked  *)
(* for, and a buffer_cache_write() changes just its part of them: the entry  *)
(* found, or evicted and fetched, is still the right one at the memcpy().    *)
AccessSeesContents ==
    \A t \in Thread : pc[t] = "access" =>
        /\ sector[at[t]] = call[t].s
        /\ buf[at[t]] = Contents[call[t].s]

(* "Close the buffer cache, flushing all dirty entries to disk": when it     *)
(* returns, the device has everything.                                       *)
CloseWritesBack ==
    [][\A t \in Thread :
          Closing(t) /\ ~Closing(t)' => disk' = Contents']_vars

(* filesys_done(): "Shuts down the file system module, writing any unwritten *)
(* data to disk".                                                            *)
ShutdownWritesBack == down => disk = Contents

(* "Flush all dirty blocks to disk" whoever else is in the cache: the        *)
(* contents of a sector change only when buffer_cache_write() changes them.  *)
ContentsStable ==
    [][\A s \in Sector : Contents'[s] # Contents[s] =>
          \E t \in Thread : /\ pc[t] = "access" /\ pc'[t] = "idle"
                            /\ call[t].op = "write" /\ call[t].s = s]_vars

=============================================================================
