---------------------------- MODULE LibraryProofs ----------------------------
(***************************************************************************)
(* What the library's threads wait for.  The reader-writer lock is safe    *)
(* and loses no wakeup, and nss_Init does the basic initialisation once,   *)
(* for any finite set of threads.  The invariant of the lock ties its      *)
(* counters to the threads they count, and the owner to the thread that    *)
(* holds the write lock; that of nss_Init needs the count of the threads   *)
(* inside, which decides who waits.                                        *)
(***************************************************************************)
EXTENDS NSSRWLock, NSSInit, FiniteSetTheorems, TLAPS

(***************************************************************************)
(* The reader-writer lock.                                                 *)
(***************************************************************************)

\* The counters count what they say.
Counted ==
    /\ rw_reader_locks = Cardinality(readers)
    /\ rw_waiting_readers = Cardinality(ReadWaiters)
    /\ rw_waiting_writers = Cardinality(WriteWaiters)

\* rw_owner is the thread that holds the write lock; only it may read; who
\* holds a lock does not wait.
Owned ==
    /\ rw_owner = None => rw_writer_locks = 0 /\ \A t \in Threads : writes[t] = 0
    /\ \A t \in Threads :
          rw_owner = t => /\ rw_writer_locks > 0 /\ writes[t] = rw_writer_locks
                          /\ readers \subseteq {t} /\ pc[t] = "running"
                          /\ \A u \in Threads \ {t} : writes[u] = 0
    /\ \A t \in readers : pc[t] = "running"

IInv == TypeOK /\ Counted /\ Owned /\ NoLostWakeup

Places == {"running", "read_waiting", "read_woken", "write_waiting", "write_woken"}

\* A subset of the threads is finite, and counted by zero only if empty.
LEMMA FiniteThreads ==
    ASSUME NEW S \in SUBSET Threads
    PROVE  /\ IsFiniteSet(S) /\ Cardinality(S) \in Nat
           /\ Cardinality(S) = 0 <=> S = {}
BY ThreadsAssumption, FS_Subset, FS_CardinalityType, FS_EmptySet

\* One more or one less.
LEMMA CountThreads ==
    ASSUME NEW S \in SUBSET Threads, NEW t \in Threads
    PROVE  /\ t \notin S => Cardinality(S \cup {t}) = Cardinality(S) + 1
           /\ t \in S => Cardinality(S \ {t}) = Cardinality(S) - 1
<1>1. IsFiniteSet(S) BY FiniteThreads
<1>2. Cardinality(S \cup {t}) = IF t \in S THEN Cardinality(S) ELSE Cardinality(S) + 1
  BY <1>1, FS_AddElement
<1>3. Cardinality(S \ {t}) = IF t \in S THEN Cardinality(S) - 1 ELSE Cardinality(S)
  BY <1>1, FS_RemoveElement
<1> QED BY <1>2, <1>3

\* What a change of place does to the sets of waiting threads.
LEMMA Moves ==
    ASSUME TypeOK, NEW t \in Threads, NEW pl \in Places,
           pc' = [pc EXCEPT ![t] = pl]
    PROVE  /\ ReadWaiters' = IF pl \in {"read_waiting", "read_woken"}
                             THEN ReadWaiters \cup {t} ELSE ReadWaiters \ {t}
           /\ WriteWaiters' = IF pl \in {"write_waiting", "write_woken"}
                              THEN WriteWaiters \cup {t} ELSE WriteWaiters \ {t}
           /\ \A p \in Places : In({p})' = IF pl = p THEN In({p}) \cup {t}
                                                      ELSE In({p}) \ {t}
           /\ pc' \in [Threads -> Places]
BY DEF TypeOK, Places, ReadWaiters, WriteWaiters, In

\* A notified writer is still counted as waiting, and is on its way.
LEMMA NotifyWriterMoves ==
    ASSUME TypeOK, NotifyWriter
    PROVE  /\ pc' \in [Threads -> Places]
           /\ ReadWaiters' = ReadWaiters /\ WriteWaiters' = WriteWaiters
           /\ In({"read_waiting"})' = In({"read_waiting"})
           /\ In({"write_waiting"})' # {} => In({"write_woken"})' # {}
           /\ \A t \in Threads : pc[t] = "running" <=> pc'[t] = "running"
<1>1. CASE In({"write_waiting"}) = {}
  BY <1>1 DEF TypeOK, Places, NotifyWriter, ReadWaiters, WriteWaiters, In
<1>2. CASE In({"write_waiting"}) # {}
  <2>1. PICK w \in In({"write_waiting"}) : pc' = [pc EXCEPT ![w] = "write_woken"]
    BY <1>2 DEF NotifyWriter
  <2>2. w \in Threads /\ pc[w] = "write_waiting" BY <2>1 DEF In
  <2>3. pc'[w] = "write_woken" /\ \A t \in Threads \ {w} : pc'[t] = pc[t]
    BY <2>1, <2>2 DEF TypeOK
  <2>4. w \in In({"write_woken"})' BY <2>2, <2>3 DEF In
  <2>5. pc' \in [Threads -> Places] BY ZenonT(60), <2>1 DEF TypeOK, Places
  <2>6. ReadWaiters' = ReadWaiters BY <2>2, <2>3 DEF ReadWaiters, In
  <2>7. WriteWaiters' = WriteWaiters BY <2>2, <2>3 DEF WriteWaiters, In
  <2>8. In({"read_waiting"})' = In({"read_waiting"}) BY <2>2, <2>3 DEF In
  <2> QED BY Zenon, <2>2, <2>3, <2>4, <2>5, <2>6, <2>7, <2>8
<1> QED BY <1>1, <1>2

\* After a broadcast no reader sleeps.
LEMMA NotifyReadersMoves ==
    ASSUME TypeOK, NotifyReaders
    PROVE  /\ pc' \in [Threads -> Places]
           /\ ReadWaiters' = ReadWaiters /\ WriteWaiters' = WriteWaiters
           /\ In({"read_waiting"})' = {}
           /\ In({"write_waiting"})' = In({"write_waiting"})
           /\ \A t \in Threads : pc[t] = "running" <=> pc'[t] = "running"
BY DEF TypeOK, Places, NotifyReaders, ReadWaiters, WriteWaiters, In

\* What the counters say of the sets they count.
LEMMA CountFacts ==
    ASSUME IInv
    PROVE  /\ readers \subseteq Threads /\ ReadWaiters \subseteq Threads
           /\ WriteWaiters \subseteq Threads
           /\ rw_reader_locks = 0 <=> readers = {}
           /\ rw_waiting_readers = 0 <=> ReadWaiters = {}
           /\ rw_waiting_writers = 0 <=> WriteWaiters = {}
           /\ pc \in [Threads -> Places]
<1>1. readers \subseteq Threads /\ ReadWaiters \subseteq Threads /\ WriteWaiters \subseteq Threads
  BY DEF IInv, TypeOK, ReadWaiters, WriteWaiters, In
<1>2. pc \in [Threads -> Places] BY DEF IInv, TypeOK, Places
<1>3. Cardinality(readers) = 0 <=> readers = {} BY <1>1, FiniteThreads
<1>4. Cardinality(ReadWaiters) = 0 <=> ReadWaiters = {} BY <1>1, FiniteThreads
<1>5. Cardinality(WriteWaiters) = 0 <=> WriteWaiters = {} BY <1>1, FiniteThreads
<1> QED BY <1>1, <1>2, <1>3, <1>4, <1>5 DEF IInv, Counted

-----------------------------------------------------------------------------

\* Nothing is locked and nobody waits.
LEMMA InitIInv == Init => IInv
<1> SUFFICES ASSUME Init PROVE IInv OBVIOUS
<1>1. TypeOK BY DEF Init, TypeOK
<1>2. ReadWaiters = {} /\ WriteWaiters = {} /\ In({"read_waiting"}) = {}
      /\ In({"write_waiting"}) = {}
  BY DEF Init, ReadWaiters, WriteWaiters, In
<1>3. Counted BY <1>2, FS_EmptySet DEF Init, Counted
<1>4. Owned BY ThreadsAssumption DEF Init, Owned
<1>5. NoLostWakeup BY <1>2 DEF NoLostWakeup
<1> QED BY <1>1, <1>3, <1>4, <1>5 DEF IInv

\* A read lock that is granted at once.
LEMMA TakeReadIInv ==
    ASSUME IInv, NEW t \in Threads, MayAsk(t), MayRead(t), TakeRead(t),
           UNCHANGED <<rw_waiting_readers, pc>>
    PROVE  IInv'
<1>1. /\ pc[t] = "running" /\ t \notin readers /\ asks' \in [Threads -> Nat]
  BY DEF MayAsk, IInv, TypeOK
<1>2. Cardinality(readers \cup {t}) = Cardinality(readers) + 1
  BY <1>1, CountFacts, CountThreads
<1>3. ReadWaiters' = ReadWaiters /\ WriteWaiters' = WriteWaiters
      /\ \A p \in Places : In({p})' = In({p})
  BY DEF ReadWaiters, WriteWaiters, In
<1>4. TypeOK' BY <1>1 DEF IInv, TypeOK, TakeRead
<1>5. Counted' BY <1>2, <1>3 DEF IInv, Counted, TakeRead
<1>6. Owned' BY <1>1, ThreadsAssumption DEF IInv, Owned, TakeRead, MayRead
<1>7. NoLostWakeup' BY <1>3 DEF IInv, TypeOK, NoLostWakeup, TakeRead, Places
<1> QED BY <1>4, <1>5, <1>6, <1>7 DEF IInv

\* A reader that starts to wait finds an owner or a waiting writer.
LEMMA WaitToReadIInv ==
    ASSUME IInv, NEW t \in Threads, NSSRWLock_LockRead(t), ~MayRead(t)
    PROVE  IInv'
<1>1. /\ pc[t] = "running" /\ t \notin readers /\ asks' \in [Threads -> Nat]
      /\ pc' = [pc EXCEPT ![t] = "read_waiting"]
      /\ rw_waiting_readers' = rw_waiting_readers + 1
      /\ UNCHANGED <<rw_reader_locks, rw_writer_locks, rw_waiting_writers,
                     rw_owner, readers, writes>>
  BY DEF NSSRWLock_LockRead, MayAsk, IInv, TypeOK
<1>2. TypeOK BY Zenon DEF IInv
<1>3. /\ ReadWaiters' = ReadWaiters \cup {t}
      /\ WriteWaiters' = WriteWaiters \ {t}
      /\ \A p \in Places : In({p})' = IF p = "read_waiting" THEN In({p}) \cup {t}
                                                            ELSE In({p}) \ {t}
      /\ pc' \in [Threads -> Places]
  BY ZenonT(60), <1>1, <1>2, Moves DEF Places
<1>4. t \notin ReadWaiters /\ t \notin WriteWaiters
      /\ t \notin In({"write_waiting"}) /\ t \notin In({"write_woken"})
  BY <1>1 DEF ReadWaiters, WriteWaiters, In
<1>5. Cardinality(ReadWaiters \cup {t}) = Cardinality(ReadWaiters) + 1
  BY <1>4, CountFacts, CountThreads
<1>6. TypeOK' BY <1>1, <1>2, <1>3 DEF TypeOK, Places
<1>7. WriteWaiters' = WriteWaiters BY <1>3, <1>4
<1>8. Counted' BY <1>1, <1>3, <1>5, <1>7 DEF IInv, Counted
<1>9. rw_owner # t BY DEF MayRead
<1>10. \A u \in Threads \ {t} : pc'[u] = pc[u] BY <1>1, <1>2 DEF TypeOK
<1>11. Owned' BY <1>1, <1>2, <1>9, <1>10 DEF IInv, Owned, TypeOK
<1>12. NoLostWakeup' BY <1>1, <1>3, <1>4 DEF IInv, NoLostWakeup, MayRead, Places
<1> QED BY Zenon, <1>6, <1>8, <1>11, <1>12 DEF IInv

\* A woken reader takes the lock, or waits again for the same reasons.
LEMMA LockReadWokenIInv ==
    ASSUME IInv, NEW t \in Threads, LockRead_Woken(t)
    PROVE  IInv'
<1> DEFINE pl == IF MayRead(t) THEN "running" ELSE "read_waiting"
<1>1. /\ pc[t] = "read_woken" /\ pc' = [pc EXCEPT ![t] = pl] /\ asks' = asks
      /\ pl \in {"running", "read_waiting"}
  BY DEF LockRead_Woken
<1> HIDE DEF pl
<1>2. TypeOK BY Zenon DEF IInv
<1>3. /\ ReadWaiters' = IF pl \in {"read_waiting", "read_woken"}
                        THEN ReadWaiters \cup {t} ELSE ReadWaiters \ {t}
      /\ WriteWaiters' = IF pl \in {"write_waiting", "write_woken"}
                         THEN WriteWaiters \cup {t} ELSE WriteWaiters \ {t}
      /\ \A p \in Places : In({p})' = IF pl = p THEN In({p}) \cup {t} ELSE In({p}) \ {t}
      /\ pc' \in [Threads -> Places]
  BY ZenonT(60), <1>1, <1>2, Moves DEF Places
<1>4. /\ t \in ReadWaiters /\ t \notin WriteWaiters /\ t \notin readers /\ rw_owner # t
      /\ t \notin In({"write_waiting"}) /\ t \notin In({"write_woken"})
  BY <1>1 DEF ReadWaiters, WriteWaiters, In, IInv, Owned
<1>5. WriteWaiters' = WriteWaiters BY <1>1, <1>3, <1>4
<1>6. /\ In({"write_waiting"})' = In({"write_waiting"})
      /\ In({"write_woken"})' = In({"write_woken"})
  <2>1. pl # "write_waiting" /\ pl # "write_woken" BY <1>1
  <2>2. "write_waiting" \in Places /\ "write_woken" \in Places BY DEF Places
  <2>3. In({"write_waiting"})' = In({"write_waiting"}) \ {t} BY ZenonT(60), <1>3, <2>1, <2>2
  <2>4. In({"write_woken"})' = In({"write_woken"}) \ {t} BY ZenonT(60), <1>3, <2>1, <2>2
  <2> QED BY <1>4, <2>3, <2>4
<1>7. \A u \in Threads \ {t} : pc'[u] = pc[u] BY <1>1, <1>2 DEF TypeOK
<1>8. CASE MayRead(t)
  <2>1. /\ pl = "running" /\ rw_waiting_readers' = rw_waiting_readers - 1
        /\ TakeRead(t)
    BY <1>8 DEF LockRead_Woken, pl
  <2>2. pc'[t] = "running" BY <1>1, <1>2, <2>1 DEF TypeOK
  <2>3. ReadWaiters' = ReadWaiters \ {t} BY <1>3, <2>1
  <2>4. Cardinality(ReadWaiters \ {t}) = Cardinality(ReadWaiters) - 1
    BY <1>4, CountFacts, CountThreads
  <2>5. Cardinality(readers \cup {t}) = Cardinality(readers) + 1
    BY <1>4, CountFacts, CountThreads
  <2>6. Cardinality(ReadWaiters \ {t}) \in Nat BY CountFacts, FiniteThreads
  <2>7. Counted' BY <1>5, <2>1, <2>3, <2>4, <2>5 DEF IInv, Counted, TakeRead
  <2>8. rw_waiting_readers' \in Nat BY ZenonT(60), <2>1, <2>4, <2>6 DEF IInv, Counted
  <2>9. TypeOK' BY SMTT(60), <1>1, <1>2, <1>3, <2>1, <2>8 DEF TypeOK, TakeRead, Places
  <2>10. Owned' BY SMTT(60), <1>4, <1>7, <1>8, <2>1, <2>2, ThreadsAssumption
    DEF IInv, Owned, TakeRead, MayRead, TypeOK
  <2>11. In({"read_waiting"})' \subseteq In({"read_waiting"}) BY Zenon, <1>3, <2>1 DEF Places
  <2>12. NoLostWakeup' BY SMTT(60), <1>2, <1>6, <2>1, <2>11 DEF IInv, NoLostWakeup, TakeRead, TypeOK
  <2> QED BY <2>7, <2>9, <2>10, <2>12 DEF IInv
<1>9. CASE ~MayRead(t)
  <2>1. pl = "read_waiting" /\ UNCHANGED <<lock, readers, writes>>
    BY <1>9 DEF LockRead_Woken, pl
  <2>2. ReadWaiters' = ReadWaiters BY <1>3, <1>4, <2>1
  <2>3. Counted' BY Zenon, <1>5, <2>1, <2>2 DEF IInv, Counted, lock
  <2>4. TypeOK' BY <1>1, <1>2, <1>3, <2>1 DEF TypeOK, lock, Places
  <2>5. Owned' BY <1>4, <1>7, <2>1 DEF IInv, Owned, lock, TypeOK
  <2>6. NoLostWakeup' BY <1>6, <1>9, <2>1 DEF IInv, NoLostWakeup, MayRead, lock
  <2> QED BY <2>3, <2>4, <2>5, <2>6 DEF IInv
<1> QED BY <1>8, <1>9

\* The last read lock to go wakes a writer, if one waits.
LEMMA UnlockReadIInv ==
    ASSUME IInv, NEW t \in Threads, NSSRWLock_UnlockRead(t)
    PROVE  IInv'
<1> DEFINE last == rw_reader_locks = 1 /\ rw_owner = None /\ rw_waiting_writers > 0
<1>1. /\ t \in readers /\ readers' = readers \ {t}
      /\ IF last THEN NotifyWriter ELSE UNCHANGED pc
      /\ UNCHANGED <<rw_writer_locks, rw_waiting_readers, rw_waiting_writers, rw_owner,
                     writes, asks>>
  BY DEF NSSRWLock_UnlockRead
<1> HIDE DEF last
<1>2. TypeOK BY DEF IInv
<1>3. Cardinality(readers \ {t}) = Cardinality(readers) - 1
      /\ Cardinality(readers \ {t}) \in Nat
  BY Zenon, <1>1, CountFacts, CountThreads, FiniteThreads
<1>4. rw_reader_locks > 0 /\ rw_reader_locks' = rw_reader_locks - 1
  BY <1>2, <1>3 DEF IInv, Counted, TypeOK, NSSRWLock_UnlockRead
<1>5. /\ pc' \in [Threads -> Places]
      /\ ReadWaiters' = ReadWaiters /\ WriteWaiters' = WriteWaiters
      /\ In({"read_waiting"})' = In({"read_waiting"})
      /\ \A u \in Threads : pc[u] = "running" <=> pc'[u] = "running"
      /\ last /\ In({"write_waiting"})' # {} => In({"write_woken"})' # {}
  <2>1. CASE last BY <1>1, <1>2, <2>1, NotifyWriterMoves
  <2>2. CASE ~last
    BY <1>1, <1>2, <2>2 DEF TypeOK, Places, ReadWaiters, WriteWaiters, In
  <2> QED BY <2>1, <2>2
<1>6. Counted' BY Zenon, <1>1, <1>3, <1>4, <1>5 DEF IInv, Counted
<1>7. TypeOK' BY Zenon, <1>1, <1>2, <1>3, <1>4, <1>5, CountFacts DEF TypeOK, Places, IInv, Counted
<1>8. Owned' BY <1>1, <1>2, <1>5 DEF IInv, Owned, TypeOK
<1>9. ASSUME rw_owner' = None, rw_reader_locks' = 0, In({"write_waiting"})' # {}
      PROVE  In({"write_woken"})' # {}
  <2>1. WriteWaiters' # {} BY <1>9 DEF WriteWaiters, In
  <2>2. rw_waiting_writers # 0 BY Zenon, <2>1, <1>5, CountFacts
  <2>3. last BY SMTT(60), <1>1, <1>2, <1>4, <1>9, <2>2 DEF last, TypeOK
  <2> QED BY <1>5, <1>9, <2>3
<1>10. NoLostWakeup' BY Zenon, <1>1, <1>5, <1>9 DEF IInv, NoLostWakeup
<1> QED BY <1>6, <1>7, <1>8, <1>10 DEF IInv

-----------------------------------------------------------------------------

\* Who takes the write lock is its owner already, or nobody holds any lock.
LEMMA TakeWriteOwned ==
    ASSUME IInv, NEW t \in Threads, MayWrite(t), t \notin readers, TakeWrite(t),
           pc' \in [Threads -> Places], pc'[t] = "running",
           \A u \in Threads : pc[u] = "running" => pc'[u] = "running"
    PROVE  /\ Owned' /\ NoLostWakeup'
           /\ rw_writer_locks' \in Nat /\ writes' \in [Threads -> Nat]
           /\ rw_owner' \in Threads
<1>1. TypeOK BY DEF IInv
<1>2. readers = {}
  <2>1. CASE rw_owner = t BY <2>1 DEF IInv, Owned
  <2>2. CASE rw_owner # t
    <3>1. rw_reader_locks = 0 BY <2>2 DEF MayWrite
    <3> QED BY <3>1, CountFacts
  <2> QED BY Zenon, <2>1, <2>2
<1>3. writes[t] = rw_writer_locks /\ \A u \in Threads \ {t} : writes[u] = 0
  BY <1>1 DEF IInv, Owned, MayWrite, TypeOK
<1>4. rw_owner' = t /\ rw_owner' # None BY ThreadsAssumption DEF TakeWrite
<1>5. NoLostWakeup' BY <1>4 DEF NoLostWakeup
<1>6. rw_writer_locks' = rw_writer_locks + 1 /\ rw_writer_locks \in Nat
      /\ writes' = [writes EXCEPT ![t] = @ + 1] /\ writes \in [Threads -> Nat]
      /\ readers' = {}
  BY Zenon, <1>1, <1>2 DEF TakeWrite, TypeOK
<1>7. Owned' BY SMTT(60), <1>3, <1>4, <1>6 DEF Owned
<1> QED BY <1>4, <1>5, <1>6, <1>7

\* A writer takes the lock, or finds an owner or readers to wait for.
LEMMA LockWriteIInv ==
    ASSUME IInv, NEW t \in Threads, NSSRWLock_LockWrite(t)
    PROVE  IInv'
<1>1. /\ pc[t] = "running" /\ t \notin readers /\ asks' \in [Threads -> Nat]
  BY DEF NSSRWLock_LockWrite, MayAsk, IInv, TypeOK
<1>2. TypeOK BY DEF IInv
<1>3. CASE MayWrite(t)
  <2>1. TakeWrite(t) /\ UNCHANGED <<rw_waiting_writers, pc>>
    BY <1>3 DEF NSSRWLock_LockWrite
  <2>2. pc' \in [Threads -> Places] /\ pc' = pc BY <1>2, <2>1 DEF TypeOK, Places
  <2>3. /\ Owned' /\ NoLostWakeup'
        /\ rw_writer_locks' \in Nat /\ writes' \in [Threads -> Nat]
        /\ rw_owner' \in Threads
    BY <1>1, <1>3, <2>1, <2>2, TakeWriteOwned
  <2>4. ReadWaiters' = ReadWaiters /\ WriteWaiters' = WriteWaiters
    BY <2>1 DEF ReadWaiters, WriteWaiters, In
  <2>5. Counted' BY <2>1, <2>4 DEF IInv, Counted, TakeWrite
  <2>6. TypeOK' BY ZenonT(60), <1>1, <1>2, <2>1, <2>2, <2>3 DEF TypeOK, TakeWrite, Places
  <2> QED BY <2>3, <2>5, <2>6 DEF IInv
<1>4. CASE ~MayWrite(t)
  <2>1. /\ pc' = [pc EXCEPT ![t] = "write_waiting"]
        /\ rw_waiting_writers' = rw_waiting_writers + 1
        /\ UNCHANGED <<rw_reader_locks, rw_writer_locks, rw_waiting_readers, rw_owner,
                       readers, writes>>
    BY <1>4 DEF NSSRWLock_LockWrite, StartToWrite
  <2>2. /\ WriteWaiters' = WriteWaiters \cup {t} /\ ReadWaiters' = ReadWaiters \ {t}
        /\ pc' \in [Threads -> Places]
        /\ In({"read_waiting"})' = In({"read_waiting"}) \ {t}
    BY ZenonT(60), <1>2, <2>1, Moves DEF Places
  <2>3. t \notin ReadWaiters /\ t \notin WriteWaiters
    BY <1>1 DEF ReadWaiters, WriteWaiters, In
  <2>4. Cardinality(WriteWaiters \cup {t}) = Cardinality(WriteWaiters) + 1
    BY <2>3, CountFacts, CountThreads
  <2>5. ReadWaiters' = ReadWaiters BY <2>2, <2>3
  <2>6. Counted' BY <2>1, <2>2, <2>4, <2>5 DEF IInv, Counted
  <2>7. TypeOK' BY <1>1, <1>2, <2>1, <2>2 DEF TypeOK, Places
  <2>8. \A u \in Threads \ {t} : pc'[u] = pc[u] BY <1>2, <2>1 DEF TypeOK
  <2>9. rw_owner # t BY <1>4 DEF MayWrite
  <2>10. Owned' BY <1>1, <1>2, <2>1, <2>8, <2>9 DEF IInv, Owned, TypeOK
  <2>11. NoLostWakeup' BY <1>2, <1>4, <2>1 DEF IInv, NoLostWakeup, MayWrite, TypeOK
  <2> QED BY <2>6, <2>7, <2>10, <2>11 DEF IInv
<1> QED BY <1>3, <1>4

\* A woken writer takes the lock, or waits again for the same reasons.
LEMMA LockWriteWokenIInv ==
    ASSUME IInv, NEW t \in Threads, LockWrite_Woken(t)
    PROVE  IInv'
<1>1. pc[t] = "write_woken" /\ asks' = asks BY DEF LockWrite_Woken
<1>2. TypeOK BY DEF IInv
<1>3. t \in WriteWaiters /\ t \notin ReadWaiters /\ t \notin readers /\ rw_owner # t
  BY <1>1 DEF ReadWaiters, WriteWaiters, In, IInv, Owned
<1>4. CASE MayWrite(t)
  <2>1. /\ rw_waiting_writers' = rw_waiting_writers - 1
        /\ pc' = [pc EXCEPT ![t] = "running"] /\ TakeWrite(t)
    BY <1>4 DEF LockWrite_Woken
  <2>2. /\ WriteWaiters' = WriteWaiters \ {t} /\ ReadWaiters' = ReadWaiters \ {t}
        /\ pc' \in [Threads -> Places]
    BY ZenonT(60), <1>2, <2>1, Moves DEF Places
  <2>3. pc'[t] = "running" /\ \A u \in Threads : pc[u] = "running" => pc'[u] = "running"
    BY <1>2, <2>1 DEF TypeOK
  <2>4. /\ Owned' /\ NoLostWakeup'
        /\ rw_writer_locks' \in Nat /\ writes' \in [Threads -> Nat]
        /\ rw_owner' \in Threads
    BY <1>3, <1>4, <2>1, <2>2, <2>3, TakeWriteOwned
  <2>5. Cardinality(WriteWaiters \ {t}) = Cardinality(WriteWaiters) - 1
        /\ Cardinality(WriteWaiters \ {t}) \in Nat
    BY <1>3, CountFacts, CountThreads, FiniteThreads
  <2>6. ReadWaiters' = ReadWaiters BY <1>3, <2>2
  <2>7. Counted' BY ZenonT(60), <2>1, <2>2, <2>5, <2>6 DEF IInv, Counted, TakeWrite
  <2>8. rw_waiting_writers' \in Nat BY <2>1, <2>5 DEF IInv, Counted
  <2>9. TypeOK' BY <1>1, <1>2, <2>1, <2>2, <2>4, <2>8 DEF TypeOK, TakeWrite, Places
  <2> QED BY <2>4, <2>7, <2>9 DEF IInv
<1>5. CASE ~MayWrite(t)
  <2>1. pc' = [pc EXCEPT ![t] = "write_waiting"] /\ UNCHANGED <<lock, readers, writes>>
    BY <1>5 DEF LockWrite_Woken
  <2>2. /\ WriteWaiters' = WriteWaiters \cup {t} /\ ReadWaiters' = ReadWaiters \ {t}
        /\ pc' \in [Threads -> Places]
        /\ In({"read_waiting"})' = In({"read_waiting"}) \ {t}
    BY ZenonT(60), <1>2, <2>1, Moves DEF Places
  <2>3. WriteWaiters' = WriteWaiters /\ ReadWaiters' = ReadWaiters BY <1>3, <2>2
  <2>4. Counted' BY <2>1, <2>3 DEF IInv, Counted, lock
  <2>5. TypeOK' BY <1>1, <1>2, <2>1, <2>2 DEF TypeOK, lock, Places
  <2>6. \A u \in Threads \ {t} : pc'[u] = pc[u] BY <1>2, <2>1 DEF TypeOK
  <2>7. Owned' BY <1>3, <2>1, <2>6 DEF IInv, Owned, lock, TypeOK
  <2>8. NoLostWakeup' BY <1>5, <2>1, <2>2 DEF IInv, NoLostWakeup, MayWrite, lock
  <2> QED BY <2>4, <2>5, <2>7, <2>8 DEF IInv
<1> QED BY <1>4, <1>5

\* The write lock that becomes free wakes a writer, or all readers; a writer
\* need not be woken while its last owner still reads.
LEMMA WakeNextMoves ==
    ASSUME IInv, WakeNext
    PROVE  /\ pc' \in [Threads -> Places]
           /\ ReadWaiters' = ReadWaiters /\ WriteWaiters' = WriteWaiters
           /\ \A t \in Threads : pc[t] = "running" <=> pc'[t] = "running"
           /\ rw_reader_locks = 0 /\ In({"write_waiting"})' # {} => In({"write_woken"})' # {}
           /\ rw_waiting_writers = 0 => In({"read_waiting"})' = {}
<1>1. TypeOK BY DEF IInv
<1>2. In({"write_waiting"})' \subseteq WriteWaiters' /\ In({"read_waiting"})' \subseteq ReadWaiters'
  BY DEF In, WriteWaiters, ReadWaiters
<1>3. UNCHANGED pc => /\ pc' \in [Threads -> Places]
                      /\ ReadWaiters' = ReadWaiters /\ WriteWaiters' = WriteWaiters
                      /\ \A t \in Threads : pc[t] = "running" <=> pc'[t] = "running"
  BY <1>1 DEF TypeOK, Places, In, WriteWaiters, ReadWaiters
<1>4. CASE rw_waiting_writers > 0
  <2>1. CASE rw_reader_locks = 0
    <3>1. NotifyWriter BY <1>4, <2>1 DEF WakeNext
    <3> QED BY <1>1, <1>4, <2>1, <3>1, NotifyWriterMoves DEF TypeOK
  <2>2. CASE rw_reader_locks # 0 BY <1>1, <1>3, <1>4, <2>2 DEF WakeNext, TypeOK
  <2> QED BY <2>1, <2>2
<1>5. CASE ~(rw_waiting_writers > 0)
  <2>1. WriteWaiters = {} BY <1>1, <1>5, CountFacts DEF TypeOK
  <2>2. CASE rw_waiting_readers > 0
    <3>1. NotifyReaders BY <1>5, <2>2 DEF WakeNext
    <3> QED BY <1>1, <1>2, <2>1, <3>1, NotifyReadersMoves
  <2>3. CASE ~(rw_waiting_readers > 0)
    <3>1. ReadWaiters = {} BY <1>1, <2>3, CountFacts DEF TypeOK
    <3> QED BY <1>2, <1>3, <1>5, <2>1, <2>3, <3>1 DEF WakeNext
  <2> QED BY <2>2, <2>3
<1> QED BY <1>4, <1>5

\* Releasing the write lock.
LEMMA UnlockWriteIInv ==
    ASSUME IInv, NEW t \in Threads, NSSRWLock_UnlockWrite(t)
    PROVE  IInv'
<1>1. TypeOK BY DEF IInv
<1>2. /\ pc[t] = "running" /\ writes[t] > 0 /\ writes' = [writes EXCEPT ![t] = @ - 1]
      /\ UNCHANGED <<rw_reader_locks, rw_waiting_readers, rw_waiting_writers, readers, asks>>
  BY DEF NSSRWLock_UnlockWrite
<1>3. rw_owner = t
  <2>1. rw_owner # None BY <1>1, <1>2 DEF IInv, Owned, TypeOK
  <2>2. PICK u \in Threads : rw_owner = u BY <1>1, <2>1 DEF TypeOK
  <2>3. u # t => writes[t] = 0 BY <2>2 DEF IInv, Owned
  <2> QED BY <1>1, <1>2, <2>2, <2>3 DEF TypeOK
<1>4. /\ rw_writer_locks > 0 /\ writes[t] = rw_writer_locks /\ rw_writer_locks \in Nat
      /\ readers \subseteq {t} /\ \A u \in Threads \ {t} : writes[u] = 0
  BY <1>1, <1>3 DEF IInv, Owned, TypeOK
<1>5. rw_writer_locks' = rw_writer_locks - 1 BY <1>3, <1>4 DEF NSSRWLock_UnlockWrite
<1>6. writes' \in [Threads -> Nat] /\ writes'[t] = rw_writer_locks'
      /\ \A u \in Threads \ {t} : writes'[u] = 0
  BY <1>1, <1>2, <1>4, <1>5 DEF TypeOK
<1>7. CASE rw_writer_locks = 1
  <2>1. rw_owner' = None /\ WakeNext BY <1>3, <1>4, <1>7 DEF NSSRWLock_UnlockWrite
  <2>2. /\ pc' \in [Threads -> Places]
        /\ ReadWaiters' = ReadWaiters /\ WriteWaiters' = WriteWaiters
        /\ \A u \in Threads : pc[u] = "running" <=> pc'[u] = "running"
        /\ rw_reader_locks = 0 /\ In({"write_waiting"})' # {} => In({"write_woken"})' # {}
        /\ rw_waiting_writers = 0 => In({"read_waiting"})' = {}
    BY <2>1, WakeNextMoves
  <2>3. Counted' BY <1>2, <2>2 DEF IInv, Counted
  <2>4. TypeOK' BY <1>1, <1>2, <1>4, <1>5, <1>6, <2>1, <2>2 DEF TypeOK, Places
  <2>5. \A u \in Threads : writes'[u] = 0 BY <1>5, <1>6, <1>7
  <2>6. Owned' BY <1>2, <1>4, <1>5, <1>7, <2>1, <2>2, <2>5, ThreadsAssumption DEF Owned
  <2>7. NoLostWakeup' BY <1>2, <2>2 DEF NoLostWakeup
  <2> QED BY <2>3, <2>4, <2>6, <2>7 DEF IInv
<1>8. CASE rw_writer_locks # 1
  <2>1. UNCHANGED <<rw_owner, pc>> BY <1>3, <1>4, <1>8 DEF NSSRWLock_UnlockWrite
  <2>2. rw_owner' = t /\ rw_owner' # None /\ rw_writer_locks' \in Nat /\ rw_writer_locks' > 0
    BY <1>3, <1>4, <1>5, <1>8, <2>1, ThreadsAssumption
  <2>3. ReadWaiters' = ReadWaiters /\ WriteWaiters' = WriteWaiters
    BY <2>1 DEF ReadWaiters, WriteWaiters, In
  <2>4. Counted' BY <1>2, <2>3 DEF IInv, Counted
  <2>5. TypeOK' BY <1>1, <1>2, <1>6, <2>1, <2>2 DEF TypeOK
  <2>6. Owned' BY <1>2, <1>4, <1>6, <2>1, <2>2 DEF Owned
  <2>7. NoLostWakeup' BY <2>2 DEF NoLostWakeup
  <2> QED BY <2>4, <2>5, <2>6, <2>7 DEF IInv
<1> QED BY <1>7, <1>8

\* A wait that ends by itself disturbs nothing.
LEMMA SpuriousWakeupIInv ==
    ASSUME IInv, NEW t \in Threads, SpuriousWakeup(t)
    PROVE  IInv'
<1>1. TypeOK BY DEF IInv
<1>2. UNCHANGED <<lock, readers, writes, asks>> BY DEF SpuriousWakeup
<1>3. PICK pl \in {"read_woken", "write_woken"} :
         /\ pc' = [pc EXCEPT ![t] = pl]
         /\ pl = "read_woken" => pc[t] = "read_waiting"
         /\ pl = "write_woken" => pc[t] = "write_waiting"
  BY DEF SpuriousWakeup
<1>4. pc'[t] = pl /\ pc[t] # "running" /\ \A u \in Threads \ {t} : pc'[u] = pc[u]
  BY <1>1, <1>3 DEF TypeOK
<1>5. ReadWaiters' = ReadWaiters /\ WriteWaiters' = WriteWaiters
  BY <1>3, <1>4 DEF ReadWaiters, WriteWaiters, In
<1>6. /\ In({"read_waiting"})' \subseteq In({"read_waiting"})
      /\ In({"write_waiting"})' \subseteq In({"write_waiting"})
      /\ In({"write_woken"}) \subseteq In({"write_woken"})'
  BY <1>3, <1>4 DEF In
<1>7. Counted' BY <1>2, <1>5 DEF IInv, Counted, lock
<1>8. TypeOK' BY Zenon, <1>1, <1>2, <1>3 DEF TypeOK, lock
<1>9. Owned' BY <1>1, <1>2, <1>4 DEF IInv, Owned, lock, TypeOK
<1>10. NoLostWakeup' BY <1>2, <1>6 DEF IInv, NoLostWakeup, lock
<1> QED BY <1>7, <1>8, <1>9, <1>10 DEF IInv

-----------------------------------------------------------------------------

\* Every step of the lock's functions keeps the invariant.
LEMMA NextIInv == IInv /\ [Next]_vars => IInv'
<1> SUFFICES ASSUME IInv, [Next]_vars PROVE IInv' OBVIOUS
<1>1. CASE UNCHANGED vars
  BY <1>1 DEF vars, lock, IInv, TypeOK, Counted, Owned, NoLostWakeup, ReadWaiters,
              WriteWaiters, In
<1>2. ASSUME NEW t \in Threads, Step(t) PROVE IInv'
  <2>1. CASE NSSRWLock_LockRead(t)
    <3>1. CASE MayRead(t) BY <2>1, <3>1, TakeReadIInv DEF NSSRWLock_LockRead
    <3>2. CASE ~MayRead(t) BY <2>1, <3>2, WaitToReadIInv
    <3> QED BY <3>1, <3>2
  <2>2. CASE LockRead_Woken(t) BY <2>2, LockReadWokenIInv
  <2>3. CASE NSSRWLock_UnlockRead(t) BY <2>3, UnlockReadIInv
  <2>4. CASE NSSRWLock_LockWrite(t) BY <2>4, LockWriteIInv
  <2>5. CASE LockWrite_Woken(t) BY <2>5, LockWriteWokenIInv
  <2>6. CASE NSSRWLock_UnlockWrite(t) BY <2>6, UnlockWriteIInv
  <2>7. CASE SpuriousWakeup(t) BY <2>7, SpuriousWakeupIInv
  <2> QED BY <1>2, <2>1, <2>2, <2>3, <2>4, <2>5, <2>6, <2>7 DEF Step
<1> QED BY <1>1, <1>2 DEF Next

\* The inductive invariant holds of NSSRWLock whoever calls it.
THEOREM IInvHolds == Spec => []IInv
BY InitIInv, NextIInv, PTL DEF Spec

\* No counter of the lock falls below zero.
THEOREM TypeCorrect == Spec => []TypeOK
BY IInvHolds, PTL DEF IInv

\* NSSRWLock_LockWrite excludes all other threads, for any number of them.
THEOREM Excludes == Spec => []Exclusion
<1>1. IInv => Exclusion
  <2> SUFFICES ASSUME IInv, NEW t \in Threads, writes[t] > 0
               PROVE  /\ rw_owner = t
                      /\ \A u \in Threads \ {t} : writes[u] = 0 /\ u \notin readers
    BY DEF Exclusion
  <2>1. TypeOK BY DEF IInv
  <2>2. rw_owner # None BY <2>1 DEF IInv, Owned, TypeOK
  <2>3. PICK o \in Threads : rw_owner = o BY <2>1, <2>2 DEF TypeOK
  <2>4. o # t => writes[t] = 0 BY <2>3 DEF IInv, Owned
  <2>5. rw_owner = t BY <2>1, <2>3, <2>4 DEF TypeOK
  <2> QED BY <2>5 DEF IInv, Owned
<1> QED BY <1>1, IInvHolds, PTL

\* NSSRWLock_UnlockRead and NSSRWLock_UnlockWrite wake whoever has to run next.
THEOREM WakeupsArrive == Spec => []NoLostWakeup
BY IInvHolds, PTL DEF IInv

-----------------------------------------------------------------------------
(***************************************************************************)
(* Initialisation and shutdown.                                            *)
(***************************************************************************)

LibPlaces == {"out", "init", "init_waits", "in_init", "shutdown", "shutdown_waits"}

\* What InitOnce and SleepsForAReason need of each other: the count of threads in
\* nss_Init decides who waits, and nobody waits where the library is open.
LibIInv == LibTypeOK /\ InitOnce /\ SleepsForAReason

\* The threads in nss_Init can be counted, and zero means there are none.
LEMMA CountInInit ==
    ASSUME LibTypeOK
    PROVE  /\ nssIsInInit \in Nat
           /\ nssIsInInit = 0 <=> At("in_init") = {}
<1>1. At("in_init") \subseteq Callers BY DEF At
<1>2. IsFiniteSet(At("in_init")) BY <1>1, CallersAssumption, FS_Subset
<1> QED BY <1>2, FS_CardinalityType, FS_EmptySet DEF LibTypeOK

\* A thread that comes into nss_Init or leaves it changes the count by one.
LEMMA CountMove ==
    ASSUME LibTypeOK, NEW t \in Callers,
           \/ At("in_init")' = At("in_init") /\ UNCHANGED nssIsInInit
           \/ /\ t \notin At("in_init") /\ At("in_init")' = At("in_init") \cup {t}
              /\ nssIsInInit' = nssIsInInit + 1
           \/ /\ t \in At("in_init") /\ At("in_init")' = At("in_init") \ {t}
              /\ nssIsInInit' = nssIsInInit - 1
    PROVE  nssIsInInit' = Cardinality(At("in_init")')
<1>1. At("in_init") \subseteq Callers BY DEF At
<1>2. IsFiniteSet(At("in_init")) BY <1>1, CallersAssumption, FS_Subset
<1>3. Cardinality(At("in_init") \cup {t})
          = IF t \in At("in_init") THEN Cardinality(At("in_init"))
            ELSE Cardinality(At("in_init")) + 1
  BY <1>2, FS_AddElement
<1>4. Cardinality(At("in_init") \ {t})
          = IF t \in At("in_init") THEN Cardinality(At("in_init")) - 1
            ELSE Cardinality(At("in_init"))
  BY <1>2, FS_RemoveElement
<1>5. nssIsInInit = Cardinality(At("in_init")) BY DEF LibTypeOK
<1> QED BY <1>3, <1>4, <1>5

\* Where a thread is that moved, and where all the others are.
LEMMA MoveOne ==
    ASSUME LibTypeOK, NEW t \in Callers, NEW q \in LibPlaces,
           place' = [place EXCEPT ![t] = q]
    PROVE  /\ place' \in [Callers -> LibPlaces]
           /\ \A p : At(p)' = IF p = q THEN At(p) \cup {t} ELSE At(p) \ {t}
<1>1. place \in [Callers -> LibPlaces] BY DEF LibTypeOK, LibPlaces
<1>2. place'[t] = q /\ \A u \in Callers \ {t} : place'[u] = place[u] BY <1>1
<1>3. place' \in [Callers -> LibPlaces] BY <1>1
<1>4. ASSUME NEW p PROVE At(p)' = IF p = q THEN At(p) \cup {t} ELSE At(p) \ {t}
  BY <1>2 DEF At
<1> QED BY <1>3, <1>4

-----------------------------------------------------------------------------

\* Nobody has called yet.
LEMMA LibInitIInv == LibInit => LibIInv
<1> SUFFICES ASSUME LibInit PROVE LibIInv OBVIOUS
<1>1. At("in_init") = {} /\ At("init_waits") = {} /\ At("shutdown_waits") = {}
  BY DEF LibInit, At
<1>2. LibTypeOK BY <1>1, FS_EmptySet DEF LibInit, LibTypeOK
<1>3. InitOnce BY <1>1 DEF LibInit, InitOnce, NSS_IsInitialized
<1>4. SleepsForAReason BY <1>1 DEF SleepsForAReason
<1> QED BY <1>2, <1>3, <1>4 DEF LibIInv

\* A thread on its way to the lock has changed nothing.
LEMMA NssInitIInv ==
    ASSUME LibIInv, NEW t \in Callers, NEW who \in {"application", "context"},
           nss_Init(t, who)
    PROVE  LibIInv'
<1>0. LibTypeOK BY DEF LibIInv
<1>1. place[t] = "out" /\ place' = [place EXCEPT ![t] = "init"] BY DEF nss_Init
<1>2. /\ place' \in [Callers -> LibPlaces]
      /\ \A p : At(p)' = IF p = "init" THEN At(p) \cup {t} ELSE At(p) \ {t}
  BY <1>0, <1>1, MoveOne DEF LibPlaces
<1>3. t \notin At("in_init") BY <1>1 DEF At
<1>4. At("in_init")' = At("in_init") BY <1>2, <1>3
<1>5. nssIsInInit' = Cardinality(At("in_init")')
  BY <1>4 DEF nss_Init, globals, LibIInv, LibTypeOK
<1>6. LibTypeOK' BY <1>2, <1>5 DEF nss_Init, globals, LibIInv, LibTypeOK, LibPlaces
<1>7. InitOnce' BY <1>4 DEF nss_Init, globals, LibIInv, InitOnce, NSS_IsInitialized
<1>8. At("init_waits")' \subseteq At("init_waits")
      /\ At("shutdown_waits")' \subseteq At("shutdown_waits")
  BY <1>2
<1>9. SleepsForAReason'
  BY <1>8 DEF nss_Init, globals, LibIInv, SleepsForAReason, NSS_IsInitialized
<1> QED BY <1>6, <1>7, <1>9 DEF LibIInv

\* Who goes in finds the basic initialisation done or is alone.
LEMMA EnterInitIInv ==
    ASSUME LibIInv, NEW t \in Callers, EnterInit(t)
    PROVE  LibIInv'
<1>0. LibTypeOK BY DEF LibIInv
<1>1. nssIsInInit \in Nat /\ (nssIsInInit = 0 <=> At("in_init") = {}) BY <1>0, CountInInit
<1>2. t \notin At("in_init") BY DEF EnterInit, At
<1>3. CASE ~NSS_IsInitialized /\ nssIsInInit > 0
  <2>1. place' = [place EXCEPT ![t] = "init_waits"] /\ UNCHANGED <<nssIsInInit, really>>
    BY <1>3 DEF EnterInit
  <2>2. /\ place' \in [Callers -> LibPlaces]
        /\ \A p : At(p)' = IF p = "init_waits" THEN At(p) \cup {t} ELSE At(p) \ {t}
    BY <1>0, <2>1, MoveOne DEF LibPlaces
  <2>3. At("in_init")' = At("in_init") BY <2>2, <1>2
  <2>4. LibTypeOK' BY <2>1, <2>2, <2>3 DEF EnterInit, LibIInv, LibTypeOK, LibPlaces
  <2>5. InitOnce' BY <2>1, <2>3 DEF EnterInit, LibIInv, InitOnce, NSS_IsInitialized
  <2>6. At("init_waits")' = At("init_waits") \cup {t}
        /\ At("shutdown_waits")' = At("shutdown_waits") \ {t}
    BY <2>2
  <2>7. SleepsForAReason'
    BY <2>1, <2>6, <1>3 DEF EnterInit, LibIInv, SleepsForAReason, NSS_IsInitialized
  <2> QED BY <2>4, <2>5, <2>7 DEF LibIInv
<1>4. CASE ~(~NSS_IsInitialized /\ nssIsInInit > 0)
  <2>1. /\ place' = [place EXCEPT ![t] = "in_init"] /\ nssIsInInit' = nssIsInInit + 1
        /\ really' = [really EXCEPT ![t] = NSS_IsInitialized]
    BY <1>4 DEF EnterInit
  <2>2. /\ place' \in [Callers -> LibPlaces]
        /\ \A p : At(p)' = IF p = "in_init" THEN At(p) \cup {t} ELSE At(p) \ {t}
    BY <1>0, <2>1, MoveOne DEF LibPlaces
  <2>3. At("in_init")' = At("in_init") \cup {t} BY <2>2
  <2>4. nssIsInInit' = Cardinality(At("in_init")') BY <1>0, <1>2, <2>1, <2>3, CountMove
  <2>5. NSS_IsInitialized \in BOOLEAN BY <1>0 DEF NSS_IsInitialized, LibTypeOK
  <2>6. really' \in [Callers -> BOOLEAN] BY <1>0, <2>1, <2>5 DEF LibTypeOK
  <2>7. LibTypeOK' BY <2>2, <2>4, <2>6, <1>0 DEF EnterInit, LibTypeOK, LibPlaces
  <2>8. NSS_IsInitialized' = NSS_IsInitialized BY DEF EnterInit, NSS_IsInitialized
  <2>9. really'[t] = NSS_IsInitialized /\ \A u \in Callers \ {t} : really'[u] = really[u]
    BY <1>0, <2>1 DEF LibTypeOK
  <2>10. NSS_IsInitialized => InitOnce'
    <3> SUFFICES ASSUME NSS_IsInitialized PROVE InitOnce' OBVIOUS
    <3>1. ready BY DEF LibIInv, InitOnce
    <3>2. \A u \in At("in_init") : really[u] BY DEF LibIInv, InitOnce
    <3>3. \A u \in At("in_init")' : really'[u] BY <3>2, <2>3, <2>9 DEF At
    <3> QED BY <3>1, <3>3 DEF InitOnce, EnterInit
  <2>11. ~NSS_IsInitialized => InitOnce'
    <3> SUFFICES ASSUME ~NSS_IsInitialized PROVE InitOnce' OBVIOUS
    <3>1. At("in_init")' = {t} BY <1>1, <1>4, <2>3
    <3> QED BY <3>1, <2>8, <2>9 DEF InitOnce
  <2>12. InitOnce' BY <2>10, <2>11
  <2>13. At("init_waits")' \subseteq At("init_waits")
         /\ At("shutdown_waits")' \subseteq At("shutdown_waits")
    BY <2>2
  <2>14. SleepsForAReason'
    BY <1>1, <2>1, <2>8, <2>13 DEF EnterInit, LibIInv, SleepsForAReason
  <2> QED BY <2>7, <2>12, <2>14 DEF LibIInv
<1> QED BY <1>3, <1>4

\* Where everybody is after all waiters were notified.
LEMMA NotifyAll ==
    ASSUME LibTypeOK, NEW t \in Callers, InitSucceeds(t)
    PROVE  /\ place' \in [Callers -> LibPlaces]
           /\ At("in_init")' = At("in_init") \ {t} /\ t \in At("in_init")
           /\ At("init_waits")' = {} /\ At("shutdown_waits")' = {}
<1>1. place \in [Callers -> LibPlaces] BY DEF LibTypeOK, LibPlaces
<1>2. place[t] = "in_init" BY DEF InitSucceeds
<1>3. \A u \in Callers : place'[u] = IF u = t THEN "out"
                                     ELSE IF place[u] = "init_waits" THEN "init"
                                     ELSE IF place[u] = "shutdown_waits" THEN "shutdown"
                                     ELSE place[u]
  BY <1>1 DEF InitSucceeds, Waiting, At, Resume
<1>4. place' \in [Callers -> LibPlaces]
  <2>1. \A u \in Callers : place'[u] \in LibPlaces BY <1>1, <1>3 DEF LibPlaces
  <2>2. place' = [u \in Callers |-> place'[u]] BY DEF InitSucceeds
  <2> QED BY <2>1, <2>2
<1>5. At("in_init")' = At("in_init") \ {t} /\ t \in At("in_init") BY <1>2, <1>3 DEF At
<1>6. At("init_waits")' = {} /\ At("shutdown_waits")' = {} BY <1>3 DEF At
<1> QED BY <1>4, <1>5, <1>6

\* A thread that succeeds leaves the library ready and nobody waiting.
LEMMA InitSucceedsIInv ==
    ASSUME LibIInv, NEW t \in Callers, InitSucceeds(t)
    PROVE  LibIInv'
<1>0. LibTypeOK BY DEF LibIInv
<1>1. /\ place' \in [Callers -> LibPlaces]
      /\ At("in_init")' = At("in_init") \ {t} /\ t \in At("in_init")
      /\ At("init_waits")' = {} /\ At("shutdown_waits")' = {}
  BY <1>0, NotifyAll
<1>2. nssIsInInit' = Cardinality(At("in_init")')
  <2>1. nssIsInInit' = nssIsInInit - 1 BY DEF InitSucceeds
  <2> QED BY <1>0, <1>1, <2>1, CountMove
<1>3. nssIsInitted' \in BOOLEAN /\ nssInitContextList' \subseteq Callers
  BY <1>0 DEF InitSucceeds, LibTypeOK
<1>4. LibTypeOK' BY <1>0, <1>1, <1>2, <1>3 DEF InitSucceeds, LibTypeOK, LibPlaces
<1>5. \A u \in At("in_init") \ {t} : really[u] BY <1>1 DEF LibIInv, InitOnce
<1>6. InitOnce' BY <1>1, <1>5 DEF InitSucceeds, InitOnce
<1>7. SleepsForAReason' BY <1>1 DEF SleepsForAReason
<1> QED BY <1>4, <1>6, <1>7 DEF LibIInv

\* One that fails wakes one waiter; the others are on record as passed over.
LEMMA InitFailsIInv ==
    ASSUME LibIInv, NEW t \in Callers, InitFails(t)
    PROVE  LibIInv'
<1>0. LibTypeOK /\ place \in [Callers -> LibPlaces] BY DEF LibIInv, LibTypeOK, LibPlaces
<1>1. place[t] = "in_init" /\ t \in At("in_init") BY DEF InitFails, At
<1>2. /\ place' \in [Callers -> LibPlaces]
      /\ At("in_init")' = At("in_init") \ {t}
      /\ skipped' \subseteq Callers
      /\ At("init_waits")' \subseteq skipped' /\ At("shutdown_waits")' \subseteq skipped'
  <2>1. CASE Waiting = {} /\ place' = [place EXCEPT ![t] = "out"] /\ UNCHANGED skipped
    <3>1. /\ place' \in [Callers -> LibPlaces]
          /\ \A p : At(p)' = IF p = "out" THEN At(p) \cup {t} ELSE At(p) \ {t}
      BY <1>0, <2>1, MoveOne DEF LibPlaces
    <3>2. At("init_waits") = {} /\ At("shutdown_waits") = {} BY <2>1 DEF Waiting
    <3> QED BY <3>1, <3>2, <2>1, <1>0 DEF LibTypeOK
  <2>2. ASSUME NEW w \in Waiting, skipped' = Waiting \ {w},
               place' = [place EXCEPT ![t] = "out", ![w] = Resume(@)]
        PROVE  /\ place' \in [Callers -> LibPlaces]
               /\ At("in_init")' = At("in_init") \ {t}
               /\ skipped' \subseteq Callers
               /\ At("init_waits")' \subseteq skipped' /\ At("shutdown_waits")' \subseteq skipped'
    <3>1. w \in Callers /\ place[w] \in {"init_waits", "shutdown_waits"} BY DEF Waiting, At
    <3>2. w # t BY <3>1, <1>1
    <3>3. /\ place'[t] = "out" /\ place'[w] \in {"init", "shutdown"}
          /\ \A u \in Callers \ {t, w} : place'[u] = place[u]
      BY <1>0, <2>2, <3>1, <3>2 DEF Resume
    <3>4. place' \in [Callers -> LibPlaces]
      <4>1. \A u \in Callers : place'[u] \in LibPlaces BY <3>3, <1>0 DEF LibPlaces
      <4>2. place' = [u \in Callers |-> place'[u]] BY <2>2, <1>0
      <4> QED BY <4>1, <4>2
    <3>5. At("in_init")' = At("in_init") \ {t} BY <3>1, <3>2, <3>3 DEF At
    <3>6. At("init_waits")' \subseteq Waiting \ {w}
          /\ At("shutdown_waits")' \subseteq Waiting \ {w}
      BY <3>1, <3>3 DEF At, Waiting
    <3>7. Waiting \subseteq Callers BY DEF Waiting, At
    <3> QED BY <3>4, <3>5, <3>6, <3>7, <2>2
  <2> QED BY <2>1, <2>2 DEF InitFails
<1>3. nssIsInInit' = Cardinality(At("in_init")')
  <2>1. nssIsInInit' = nssIsInInit - 1 BY DEF InitFails
  <2> QED BY <1>0, <1>1, <1>2, <2>1, CountMove
<1>4. LibTypeOK' BY <1>0, <1>2, <1>3 DEF InitFails, LibTypeOK, LibPlaces
<1>5. \A u \in At("in_init") \ {t} : really[u] BY <1>1 DEF LibIInv, InitOnce
<1>6. \A u \in At("in_init") : really[u] => ready BY DEF LibIInv, InitOnce
<1>7. InitOnce'
  BY <1>2, <1>5, <1>6 DEF InitFails, LibIInv, InitOnce, NSS_IsInitialized
<1>8. SleepsForAReason' BY <1>2 DEF SleepsForAReason
<1> QED BY <1>4, <1>7, <1>8 DEF LibIInv

\* A shutdown waits for the threads in nss_Init; when it acts there are none.
LEMMA WaitOrShutdownIInv ==
    ASSUME LibIInv, NEW t \in Callers, NEW who \in {"application", "context", "all"},
           place[t] \in {"out", "shutdown"}, WaitOrShutdown(t, who)
    PROVE  LibIInv'
<1>0. LibTypeOK BY DEF LibIInv
<1>1. nssIsInInit \in Nat /\ (nssIsInInit = 0 <=> At("in_init") = {}) BY <1>0, CountInInit
<1>2. t \notin At("in_init") BY DEF At
<1>3. caller' \in [Callers -> {"application", "context", "all"}]
  BY <1>0 DEF WaitOrShutdown, LibTypeOK
<1>4. CASE InitBusy
  <2>1. /\ place' = [place EXCEPT ![t] = "shutdown_waits"]
        /\ UNCHANGED <<nssIsInitted, nssInitContextList, ready, nssIsInInit, really, skipped>>
    BY <1>4 DEF WaitOrShutdown
  <2>2. /\ place' \in [Callers -> LibPlaces]
        /\ \A p : At(p)' = IF p = "shutdown_waits" THEN At(p) \cup {t} ELSE At(p) \ {t}
    BY <1>0, <2>1, MoveOne DEF LibPlaces
  <2>3. At("in_init")' = At("in_init") BY <2>2, <1>2
  <2>4. LibTypeOK' BY <1>0, <1>3, <2>1, <2>2, <2>3 DEF LibTypeOK, LibPlaces
  <2>5. InitOnce' BY <2>1, <2>3 DEF LibIInv, InitOnce, NSS_IsInitialized
  <2>6. At("init_waits")' = At("init_waits") \ {t}
        /\ At("shutdown_waits")' = At("shutdown_waits") \cup {t}
    BY <2>2
  <2>7. SleepsForAReason'
    BY <2>1, <2>6, <1>4 DEF LibIInv, SleepsForAReason, NSS_IsInitialized, InitBusy
  <2> QED BY <2>4, <2>5, <2>7 DEF LibIInv
<1>5. CASE ~InitBusy
  <2> DEFINE users == (IF nssIsInitted THEN {"application"} ELSE {}) \cup nssInitContextList
             me == IF who = "context" THEN t ELSE who
             down == who = "all" \/ users = {me}
  <2>1. /\ place' = [place EXCEPT ![t] = "out"]
        /\ nssIsInitted' = (nssIsInitted /\ who = "context" /\ ~down)
        /\ nssInitContextList' = IF down THEN {} ELSE nssInitContextList \ {me}
        /\ ready' = (ready /\ ~down)
        /\ UNCHANGED <<nssIsInInit, really, skipped>>
    BY <1>5 DEF WaitOrShutdown
  <2> HIDE DEF users, me, down
  <2>2. /\ place' \in [Callers -> LibPlaces]
        /\ \A p : At(p)' = IF p = "out" THEN At(p) \cup {t} ELSE At(p) \ {t}
    BY <1>0, <2>1, MoveOne DEF LibPlaces
  <2>3. At("in_init") = {} BY <1>1, <1>5 DEF InitBusy
  <2>4. At("in_init")' = At("in_init") BY <2>2, <2>3
  <2>5. nssIsInitted' \in BOOLEAN /\ ready' \in BOOLEAN
        /\ nssInitContextList' \subseteq nssInitContextList
    BY <2>1
  <2>6. LibTypeOK' BY <1>0, <1>3, <2>1, <2>2, <2>4, <2>5 DEF LibTypeOK, LibPlaces
  <2>7. NSS_IsInitialized' => ready'
    <3>1. CASE down BY <3>1, <2>1 DEF NSS_IsInitialized
    <3>2. CASE ~down
      <4>1. NSS_IsInitialized' => NSS_IsInitialized BY <2>1, <2>5 DEF NSS_IsInitialized
      <4>2. NSS_IsInitialized => ready BY DEF LibIInv, InitOnce
      <4> QED BY <3>2, <4>1, <4>2, <2>1
    <3> QED BY <3>1, <3>2
  <2>8. InitOnce' BY <2>3, <2>4, <2>7 DEF InitOnce
  <2>9. At("init_waits") \subseteq skipped /\ At("shutdown_waits") \subseteq skipped
    BY <1>1, <1>5 DEF LibIInv, SleepsForAReason, InitBusy
  <2>10. At("init_waits")' \subseteq skipped' /\ At("shutdown_waits")' \subseteq skipped'
    BY <2>1, <2>2, <2>9
  <2>11. SleepsForAReason' BY <2>10 DEF SleepsForAReason
  <2> QED BY <2>6, <2>8, <2>11 DEF LibIInv
<1> QED BY <1>4, <1>5

-----------------------------------------------------------------------------

\* Every section under nssInitLock keeps the invariant.
LEMMA LibNextIInv == LibIInv /\ [LibNext]_initVars => LibIInv'
<1> SUFFICES ASSUME LibIInv, [LibNext]_initVars PROVE LibIInv' OBVIOUS
<1>1. CASE UNCHANGED initVars
  BY <1>1 DEF initVars, globals, LibIInv, LibTypeOK, InitOnce, SleepsForAReason,
              NSS_IsInitialized, At
<1>2. ASSUME NEW t \in Callers, LibStep(t) PROVE LibIInv'
  <2>1. CASE \E who \in {"application", "context"} : nss_Init(t, who)
    BY <2>1, NssInitIInv
  <2>2. CASE \E who \in {"application", "context"} : NSS_ShutdownContext(t, who)
    BY <2>2, WaitOrShutdownIInv DEF NSS_ShutdownContext
  <2>3. CASE EnterInit(t) BY <2>3, EnterInitIInv
  <2>4. CASE InitSucceeds(t) BY <2>4, InitSucceedsIInv
  <2>5. CASE InitFails(t) BY <2>5, InitFailsIInv
  <2>6. CASE NSS_Shutdown(t) BY <2>6, WaitOrShutdownIInv DEF NSS_Shutdown
  <2>7. CASE ShutdownResumes(t)
    <3>1. caller[t] \in {"application", "context", "all"} BY DEF LibIInv, LibTypeOK
    <3> QED BY <2>7, <3>1, WaitOrShutdownIInv DEF ShutdownResumes
  <2> QED BY <1>2, <2>1, <2>2, <2>3, <2>4, <2>5, <2>6, <2>7 DEF LibStep
<1> QED BY <1>1, <1>2 DEF LibNext

\* The inductive invariant holds of nssinit.c whoever calls it.
THEOREM LibIInvHolds == LibSpec => []LibIInv
BY LibInitIInv, LibNextIInv, PTL DEF LibSpec

\* nssIsInInit counts the threads in nss_Init.
THEOREM LibTypeCorrect == LibSpec => []LibTypeOK
BY LibIInvHolds, PTL DEF LibIInv

\* nss_Init does the basic initialisation once, by one thread alone, and it is
\* there for whoever has the library open, for any number of threads.
THEOREM InitsOnce == LibSpec => []InitOnce
BY LibIInvHolds, PTL DEF LibIInv

\* Nobody sleeps on nssInitCondition without a reason, but whom a failed nss_Init
\* passed over.
THEOREM SleepsRight == LibSpec => []SleepsForAReason
BY LibIInvHolds, PTL DEF LibIInv
=============================================================================
