------------------------------ MODULE NSSRWLock ------------------------------
(***************************************************************************)
(* The reader-writer lock of lib/util/nssrwlk.c, which guards the cipher   *)
(* specs of a socket, the CRL cache, the module list and the token list.   *)
(*                                                                         *)
(* Every step is one stretch of code under the lock's own mutex rw_lock:   *)
(* from PR_Lock or from the return of PR_WaitCondVar up to PR_Unlock or    *)
(* the next PR_WaitCondVar.  A thread in PR_WaitCondVar is "waiting" until *)
(* it is notified and "woken" until it has the mutex again.                *)
(*                                                                         *)
(* The threads keep to the rules in nssrwlk.h: who holds the write lock    *)
(* may take it again, and a read lock as well; who holds a read lock asks  *)
(* for nothing more; a lock is released as often as it was taken.          *)
(***************************************************************************)
EXTENDS Integers, FiniteSets

CONSTANTS
    Threads,
    None,      \* rw_owner is NULL
    MaxAsks    \* bound on the requests of a thread

ASSUME ThreadsAssumption == IsFiniteSet(Threads) /\ None \notin Threads
ASSUME MaxAsksAssumption == MaxAsks \in Nat

VARIABLES
    rw_reader_locks, rw_writer_locks,
    rw_waiting_readers, rw_waiting_writers,
    rw_owner,
    pc,        \* where each thread is
    readers,   \* threads that hold a read lock (history)
    writes,    \* how often each holds the write lock (history)
    asks       \* requests made

lock == <<rw_reader_locks, rw_writer_locks, rw_waiting_readers,
          rw_waiting_writers, rw_owner>>
vars == <<lock, pc, readers, writes, asks>>

In(places) == {t \in Threads : pc[t] \in places}
ReadWaiters == In({"read_waiting", "read_woken"})
WriteWaiters == In({"write_waiting", "write_woken"})

\* NSSRWLock_New.
Init ==
    /\ rw_reader_locks = 0 /\ rw_writer_locks = 0
    /\ rw_waiting_readers = 0 /\ rw_waiting_writers = 0
    /\ rw_owner = None
    /\ pc = [t \in Threads |-> "running"]
    /\ readers = {}
    /\ writes = [t \in Threads |-> 0]
    /\ asks = [t \in Threads |-> 0]

-----------------------------------------------------------------------------

\* PR_NotifyCondVar wakes one of the threads that wait, PR_NotifyAllCondVar all.
NotifyWriter ==
    IF In({"write_waiting"}) = {} THEN UNCHANGED pc
    ELSE \E w \in In({"write_waiting"}) : pc' = [pc EXCEPT ![w] = "write_woken"]

NotifyReaders ==
    pc' = [t \in Threads |-> IF pc[t] = "read_waiting" THEN "read_woken" ELSE pc[t]]

\* A wait may also end without a notification.
SpuriousWakeup(t) ==
    /\ \/ pc[t] = "read_waiting" /\ pc' = [pc EXCEPT ![t] = "read_woken"]
       \/ pc[t] = "write_waiting" /\ pc' = [pc EXCEPT ![t] = "write_woken"]
    /\ UNCHANGED <<lock, readers, writes, asks>>

MayAsk(t) ==
    /\ pc[t] = "running" /\ t \notin readers /\ asks[t] < MaxAsks
    /\ asks' = [asks EXCEPT ![t] = @ + 1]

-----------------------------------------------------------------------------
(* The read lock.                                                          *)

\* Mutant: the owner of the write lock waits like any other.
MayRead_NotOwner(t) == rw_owner = None /\ rw_waiting_writers = 0

\* The condition of the loop in NSSRWLock_LockRead: writers have preference.
MayRead(t) == rw_owner = t \/ (rw_owner = None /\ rw_waiting_writers = 0)

TakeRead(t) ==
    /\ rw_reader_locks' = rw_reader_locks + 1
    /\ readers' = readers \cup {t}
    /\ UNCHANGED <<rw_writer_locks, rw_waiting_writers, rw_owner, writes>>

NSSRWLock_LockRead(t) ==
    /\ MayAsk(t)
    /\ IF MayRead(t)
       THEN TakeRead(t) /\ UNCHANGED <<rw_waiting_readers, pc>>
       ELSE /\ rw_waiting_readers' = rw_waiting_readers + 1
            /\ pc' = [pc EXCEPT ![t] = "read_waiting"]
            /\ UNCHANGED <<rw_reader_locks, rw_writer_locks, rw_waiting_writers,
                           rw_owner, readers, writes>>

LockRead_Woken(t) ==
    /\ pc[t] = "read_woken"
    /\ IF MayRead(t)
       THEN /\ rw_waiting_readers' = rw_waiting_readers - 1
            /\ pc' = [pc EXCEPT ![t] = "running"]
            /\ TakeRead(t)
       ELSE /\ pc' = [pc EXCEPT ![t] = "read_waiting"]
            /\ UNCHANGED <<lock, readers, writes>>
    /\ UNCHANGED asks

NSSRWLock_UnlockRead(t) ==
    /\ pc[t] = "running" /\ t \in readers
    /\ readers' = readers \ {t}
    /\ rw_reader_locks' = IF rw_reader_locks > 0 THEN rw_reader_locks - 1 ELSE rw_reader_locks
    /\ IF rw_reader_locks = 1 /\ rw_owner = None /\ rw_waiting_writers > 0
       THEN NotifyWriter ELSE UNCHANGED pc
    /\ UNCHANGED <<rw_writer_locks, rw_waiting_readers, rw_waiting_writers, rw_owner,
                   writes, asks>>

-----------------------------------------------------------------------------
(* The write lock.                                                         *)

\* Mutant: readers are not waited for.
MayWrite_DespiteReaders(t) == rw_owner = t \/ rw_owner = None

\* The condition of the loop in NSSRWLock_LockWrite.
MayWrite(t) == rw_owner = t \/ (rw_owner = None /\ rw_reader_locks = 0)

TakeWrite(t) ==
    /\ rw_owner' = t
    /\ rw_writer_locks' = rw_writer_locks + 1
    /\ writes' = [writes EXCEPT ![t] = @ + 1]
    /\ UNCHANGED <<rw_reader_locks, rw_waiting_readers, readers>>

StartToWrite(t) ==
    /\ rw_waiting_writers' = rw_waiting_writers + 1
    /\ pc' = [pc EXCEPT ![t] = "write_waiting"]
    /\ UNCHANGED <<rw_reader_locks, rw_writer_locks, rw_waiting_readers, rw_owner,
                   readers, writes>>

NSSRWLock_LockWrite(t) ==
    /\ MayAsk(t)
    /\ IF MayWrite(t)
       THEN TakeWrite(t) /\ UNCHANGED <<rw_waiting_writers, pc>>
       ELSE StartToWrite(t)

LockWrite_Woken(t) ==
    /\ pc[t] = "write_woken"
    /\ IF MayWrite(t)
       THEN /\ rw_waiting_writers' = rw_waiting_writers - 1
            /\ pc' = [pc EXCEPT ![t] = "running"]
            /\ TakeWrite(t)
       ELSE /\ pc' = [pc EXCEPT ![t] = "write_waiting"]
            /\ UNCHANGED <<lock, readers, writes>>
    /\ UNCHANGED asks

\* Mutant: readers come first.
WakeNext_ReadersFirst ==
    IF rw_waiting_readers > 0 THEN NotifyReaders
    ELSE IF rw_waiting_writers > 0 /\ rw_reader_locks = 0 THEN NotifyWriter
    ELSE UNCHANGED pc

\* Who is woken when the write lock becomes free: "Give preference to waiting
\* writers."
WakeNext ==
    IF rw_waiting_writers > 0
    THEN IF rw_reader_locks = 0 THEN NotifyWriter ELSE UNCHANGED pc
    ELSE IF rw_waiting_readers > 0 THEN NotifyReaders
    ELSE UNCHANGED pc

NSSRWLock_UnlockWrite(t) ==
    /\ pc[t] = "running" /\ writes[t] > 0
    /\ writes' = [writes EXCEPT ![t] = @ - 1]
    /\ IF rw_owner = t /\ rw_writer_locks > 0
       THEN /\ rw_writer_locks' = rw_writer_locks - 1
            /\ IF rw_writer_locks = 1
               THEN rw_owner' = None /\ WakeNext
               ELSE UNCHANGED <<rw_owner, pc>>
       ELSE UNCHANGED <<rw_writer_locks, rw_owner, pc>>
    /\ UNCHANGED <<rw_reader_locks, rw_waiting_readers, rw_waiting_writers, readers, asks>>

-----------------------------------------------------------------------------

Step(t) ==
    \/ NSSRWLock_LockRead(t) \/ LockRead_Woken(t) \/ NSSRWLock_UnlockRead(t)
    \/ NSSRWLock_LockWrite(t) \/ LockWrite_Woken(t) \/ NSSRWLock_UnlockWrite(t)
    \/ SpuriousWakeup(t)

Next == \E t \in Threads : Step(t)

Spec == Init /\ [][Next]_vars

\* A woken thread gets the mutex at last, and who holds a lock releases it.
Fairness ==
    \A t \in Threads :
        /\ WF_vars(LockRead_Woken(t)) /\ WF_vars(LockWrite_Woken(t))
        /\ WF_vars(NSSRWLock_UnlockRead(t)) /\ WF_vars(NSSRWLock_UnlockWrite(t))

LiveSpec == Spec /\ Fairness

-----------------------------------------------------------------------------
(* Properties.                                                             *)

\* The counters are unsigned in the code: none of them falls below zero.
TypeOK ==
    /\ {rw_reader_locks, rw_writer_locks, rw_waiting_readers, rw_waiting_writers}
          \subseteq Nat
    /\ rw_owner \in Threads \cup {None}
    /\ pc \in [Threads -> {"running", "read_waiting", "read_woken",
                           "write_waiting", "write_woken"}]
    /\ readers \subseteq Threads
    /\ writes \in [Threads -> Nat] /\ asks \in [Threads -> Nat]

\* While a thread holds the write lock no other holds any lock, however the
\* locks were nested and in whatever order they were released, and
\* NSSRWLock_HaveWriteLock is true for it.
Exclusion ==
    \A t \in Threads :
        writes[t] > 0 =>
            /\ rw_owner = t
            /\ \A u \in Threads \ {t} : writes[u] = 0 /\ u \notin readers

\* No wakeup is lost: when a writer waits and the lock is free, a writer is on
\* its way; and no reader sleeps when there is neither an owner nor a writer
\* to wait for (NSSRWLock_UnlockRead wakes writers only).
NoLostWakeup ==
    /\ (rw_owner = None /\ rw_reader_locks = 0 /\ In({"write_waiting"}) # {})
          => In({"write_woken"}) # {}
    /\ (rw_owner = None /\ rw_waiting_writers = 0) => In({"read_waiting"}) = {}

\* Every request is granted, if no thread asks for ever.
EveryoneIsServed == \A t \in Threads : pc[t] # "running" ~> pc[t] = "running"
=============================================================================
