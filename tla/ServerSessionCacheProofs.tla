---------------------- MODULE ServerSessionCacheProofs ----------------------
(***************************************************************************)
(* The server's session cache, for any number of processes, sessions and   *)
(* entries of its tables, however many processes die.  The invariant says  *)
(* who has a lock, and how far a process that puts a session in or looks   *)
(* one up has come with its certificate and its name.                      *)
(***************************************************************************)
EXTENDS ServerSessionCache, WellFoundedInduction, TLAPS

\* The leaves are Zenon's unless they name SMT.
USE ZenonT(20)

\* The holder of a lock has its mutex, and so has the owner that is recorded;
\* whoever leaves has taken its number off the lock before the mutex.
MutexHeld ==
    /\ \A p \in alive : \A l \in LockNames : Holds(p, l) => mutex[l] = p
    /\ \A l \in LockNames : lockPid[l] # Nobody => lockPid[l] = mutex[l]
    /\ \A p \in alive : proc[p].phase = "leaving" => lockPid[proc[p].lock] = Nobody

\* A session and what belongs to it.
Complete(r) == (r.cert # -1 <=> r.sid \in HasCert) /\ (r.name # -1 <=> NameOf[r.sid] # Nobody)

EntriesComplete == \A k \in DOMAIN sidCacheData : sidCacheData[k].valid => Complete(sidCacheData[k])

OwnCert(r) == IF r.sid \in HasCert THEN r.sid ELSE Nobody

\* Where a process is, and what it has by then.
Working(r) ==
    /\ r.op # "idle" => r.sid \in Sessions /\ r.phase # "out"
    /\ r.op \in {"idle", "uncache"} => r.lock = "set" 
    /\ r.op = "idle" => r.phase = "out"
    /\ r.lock # "key"
    /\ r.phase = "found" => r.op = "lookup" /\ r.lock = "set"
    /\ r.slot # Nobody => r.op = "lookup"
Caching(r) ==
    r.op = "cache" =>
        /\ r.lock = "name" => /\ NameOf[r.sid] # Nobody /\ r.cert = -1
                              /\ r.phase = "leaving" => r.name # -1
        /\ r.lock = "cert" => /\ r.sid \in HasCert /\ (r.name # -1 <=> NameOf[r.sid] # Nobody)
                              /\ r.phase = "leaving" => r.cert # -1
        /\ r.lock = "set" => Complete(r)
LookingUp(r) ==
    r.op = "lookup" =>
        /\ r.slot = Nobody => r.lock = "set" \/ r.phase = "leaving"
        /\ r.lock = "set" /\ r.phase \in {"wants", "got", "in"} => r.cce = Nobody /\ r.snce = Nobody
        /\ r.slot # Nobody =>
            /\ sidCacheData[r.slot].valid /\ sidCacheData[r.slot].sid = r.sid
            /\ Complete(r)
            /\ r.lock = "set" => r.phase \in {"found", "leaving"}
            /\ r.lock = "cert" => /\ r.sid \in HasCert /\ r.snce = Nobody
                                  /\ r.cce = IF r.phase = "leaving" THEN r.sid ELSE Nobody
            /\ r.lock = "name" => /\ NameOf[r.sid] # Nobody /\ r.cce = OwnCert(r)
                                  /\ r.snce = IF r.phase = "leaving" THEN NameOf[r.sid] ELSE Nobody
            /\ r.lock = "set" => r.cce = OwnCert(r) /\ r.snce = NameOf[r.sid]

InOrder(r) == Working(r) /\ Caching(r) /\ LookingUp(r)

ServerIInv ==
    /\ ServerTypeOK /\ MutexHeld /\ EntriesComplete
    /\ \A p \in alive : InOrder(proc[p])

-----------------------------------------------------------------------------
(* Types.                                                                  *)

Ids == Sessions \cup {Nobody}
Names == {NameOf[s] : s \in Sessions} \cup {Nobody}
CertIndexes == -1..(NumCerts - 1)
NameIndexes == -1..(NumNames - 1)
Slots == 0..(EntriesPerSet - 1)
Ops == {"idle", "cache", "lookup", "uncache"}
Phases == {"out", "wants", "got", "in", "found", "leaving"}
Entries == [valid : BOOLEAN, sid : Ids, cert : CertIndexes, name : NameIndexes, expires : Int]
Recs == [op : Ops, sid : Ids, phase : Phases, lock : LockNames, cert : CertIndexes,
         name : NameIndexes, expires : Int, slot : Slots \cup {Nobody}, cce : Ids, snce : Names]

LockTypes ==
    /\ mutex \in [LockNames -> Procs \cup {Nobody}] /\ lockPid \in [LockNames -> Procs \cup {Nobody}]
    /\ old \subseteq LockNames /\ alive \subseteq Procs
TableTypes ==
    /\ sidCacheData \in [Slots -> Entries] /\ next \in Slots
    /\ certCacheData \in [0..(NumCerts - 1) -> Ids] /\ nextCertCacheEntry \in 0..(NumCerts - 1)
    /\ srvNameCacheData \in [0..(NumNames - 1) -> Names] /\ clock \in Nat

LEMMA ServerTypes == ServerTypeOK <=> LockTypes /\ TableTypes /\ proc \in [Procs -> Recs]
BY DEF ServerTypeOK, LockTypes, TableTypes, Recs, Entries, Ids, Names, CertIndexes, NameIndexes,
       Slots, Ops, Phases

LEMMA ServerTypesNext ==
    ServerTypeOK' <=> LockTypes' /\ TableTypes' /\ proc' \in [Procs -> Recs]
BY DEF ServerTypeOK, LockTypes, TableTypes, Recs, Entries, Ids, Names, CertIndexes, NameIndexes,
       Slots, Ops, Phases

LEMMA LockNamesFacts == LockNames = {"set", "key", "cert", "name"}
BY SMTT(30) DEF LockNames, Locks

\* What an update of a process's record leaves.
LEMMA AskFields ==
    ASSUME NEW r \in Recs, NEW l \in LockNames
    PROVE  /\ Ask(r, l) \in Recs /\ Ask(r, l).phase = "wants" /\ Ask(r, l).lock = l
           /\ Ask(r, l).op = r.op /\ Ask(r, l).sid = r.sid /\ Ask(r, l).cert = r.cert
           /\ Ask(r, l).name = r.name /\ Ask(r, l).slot = r.slot /\ Ask(r, l).cce = r.cce
           /\ Ask(r, l).snce = r.snce
BY DEF Ask, Recs, Phases

LEMMA PhaseFields ==
    ASSUME NEW r \in Recs, NEW ph \in Phases
    PROVE  LET x == [r EXCEPT !.phase = ph]
           IN  /\ x \in Recs /\ x.phase = ph /\ x.lock = r.lock /\ x.op = r.op /\ x.sid = r.sid
               /\ x.cert = r.cert /\ x.name = r.name /\ x.slot = r.slot /\ x.cce = r.cce
               /\ x.snce = r.snce
BY DEF Recs

LEMMA IdleFields == Idle \in Recs /\ Idle.op = "idle" /\ Idle.phase = "out" /\ Idle.lock = "set"
                    /\ Idle.slot = Nobody /\ Idle.cert = -1 /\ Idle.name = -1
                    /\ Idle.cce = Nobody /\ Idle.snce = Nobody
BY SMTT(30), SizesAssumption, LockNamesFacts
   DEF Idle, Recs, Ops, Phases, Ids, Names, CertIndexes, NameIndexes

LEMMA UpdateFacts ==
    ASSUME proc \in [Procs -> Recs], NEW p \in Procs, NEW r \in Recs, Update(p, r)
    PROVE  /\ proc' \in [Procs -> Recs] /\ proc'[p] = r
           /\ \A q \in Procs \ {p} : proc'[q] = proc[q]
BY DEF Update

-----------------------------------------------------------------------------
(* Locks.                                                                  *)

Others(p) == \A q \in Procs \ {p} : proc'[q] = proc[q]

\* A process that has found an entry has the lock of the set.
LEMMA SlotHolds ==
    ASSUME ServerIInv, NEW p \in alive, proc[p].slot # Nobody
    PROVE  Holds(p, "set")
<1>1. proc[p] \in Recs BY ServerTypes DEF ServerIInv, LockTypes
<1>2. proc[p].lock \in {"set", "key", "cert", "name"} BY <1>1, LockNamesFacts DEF Recs
<1>3. InOrder(proc[p]) BY DEF ServerIInv
<1> QED BY <1>2, <1>3 DEF InOrder, Working, LookingUp, Holds

LEMMA AliveFacts ==
    ASSUME ServerIInv
    PROVE  /\ LockTypes /\ TableTypes /\ proc \in [Procs -> Recs] /\ alive \subseteq Procs
           /\ MutexHeld /\ EntriesComplete
           /\ \A p \in alive : p \in Procs /\ proc[p] \in Recs /\ InOrder(proc[p])
BY ServerTypes DEF ServerIInv, LockTypes

\* No lock changes hands.
LEMMA LocksKept ==
    ASSUME MutexHeld, NEW p, p \in Procs, Others(p), alive \subseteq Procs, alive' \subseteq alive,
           UNCHANGED <<mutex, lockPid>>,
           p \in alive' => /\ \A l \in LockNames : Holds(p, l)' => Holds(p, l)
                          /\ proc'[p].phase # "leaving"
    PROVE  MutexHeld'
<1>1. ASSUME NEW q \in alive', NEW l \in LockNames, Holds(q, l)' PROVE mutex'[l] = q
  <2>1. CASE q = p BY <1>1, <2>1 DEF MutexHeld
  <2>2. CASE q # p
    <3>1. proc'[q] = proc[q] BY <2>2 DEF Others
    <3> QED BY SMTT(30), <1>1, <3>1 DEF MutexHeld, Holds
  <2> QED BY <2>1, <2>2
<1>2. \A l \in LockNames : lockPid'[l] # Nobody => lockPid'[l] = mutex'[l] BY DEF MutexHeld
<1>3. ASSUME NEW q \in alive', proc'[q].phase = "leaving" PROVE lockPid'[proc'[q].lock] = Nobody
  BY <1>3 DEF MutexHeld, Others
<1> QED BY <1>1, <1>2, <1>3 DEF MutexHeld

\* UnlockSidCacheLock takes the number of its owner off the lock.
LEMMA LocksLeft ==
    ASSUME ServerIInv, NEW p \in alive, proc[p].phase \in {"in", "found"},
           NEW r \in Recs, r.lock = proc[p].lock, r.op = proc[p].op, Leave(p, r)
    PROVE  LockTypes' /\ MutexHeld' /\ proc' \in [Procs -> Recs] /\ Others(p)
<1>0. LockTypes /\ MutexHeld /\ p \in Procs /\ proc \in [Procs -> Recs] BY AliveFacts
<1> DEFINE x == [r EXCEPT !.phase = "leaving"]
<1>1. x \in Recs /\ x.phase = "leaving" /\ x.lock = r.lock /\ x.op = r.op
  BY PhaseFields DEF Phases
<1>2. Update(p, x) BY DEF Leave
<1> HIDE DEF x
<1>3. proc' \in [Procs -> Recs] /\ proc'[p] = x /\ Others(p)
  BY <1>0, <1>1, <1>2, UpdateFacts DEF Others
<1>4. /\ UNCHANGED <<mutex, alive>> /\ lockPid' = [lockPid EXCEPT ![r.lock] = Nobody]
      /\ old' = old \ {r.lock}
  BY DEF Leave
<1>5. LockTypes' BY <1>0, <1>4 DEF LockTypes
<1>6. \A l \in LockNames : lockPid'[l] = IF l = r.lock THEN Nobody ELSE lockPid[l]
  BY <1>0, <1>4 DEF LockTypes
<1>7. ASSUME NEW q \in alive', NEW l \in LockNames, Holds(q, l)' PROVE mutex'[l] = q
  <2>1. Holds(q, l)
    <3>1. CASE q = p BY <1>1, <1>3, <1>7, <3>1 DEF Holds
    <3>2. CASE q # p BY <1>0, <1>3, <1>4, <1>7, <3>2 DEF Holds, Others, LockTypes
    <3> QED BY <3>1, <3>2
  <2> QED BY <1>0, <1>4, <2>1 DEF MutexHeld
<1>8. \A l \in LockNames : lockPid'[l] # Nobody => lockPid'[l] = mutex'[l]
  BY <1>0, <1>4, <1>6 DEF MutexHeld
<1>9. ASSUME NEW q \in alive', proc'[q].phase = "leaving" PROVE lockPid'[proc'[q].lock] = Nobody
  <2>1. q \in Procs /\ proc'[q].lock \in LockNames BY <1>0, <1>3, <1>4 DEF LockTypes, Recs
  <2>2. CASE q = p BY <1>1, <1>3, <1>6, <2>1, <2>2
  <2>3. CASE q # p BY SMTT(30), <1>0, <1>3, <1>4, <1>6, <1>9, <2>1, <2>3 DEF MutexHeld, Others
  <2> QED BY <2>2, <2>3
<1>10. MutexHeld' BY <1>7, <1>8, <1>9 DEF MutexHeld
<1> QED BY <1>3, <1>5, <1>10

\* The processes that a step of p leaves alone stay in order, if p has the lock
\* of the set when it writes to it.
LEMMA OthersInOrder ==
    ASSUME ServerIInv, NEW p \in Procs, Others(p), alive' \subseteq alive,
           sidCacheData' = sidCacheData \/ (p \in alive /\ Holds(p, "set"))
    PROVE  \A q \in alive' \ {p} : InOrder(proc[q])'
<1> SUFFICES ASSUME NEW q \in alive', q # p PROVE InOrder(proc[q])'
  OBVIOUS
<1>1. q \in Procs /\ q \in alive /\ proc'[q] = proc[q] /\ InOrder(proc[q])
  BY AliveFacts DEF Others
<1>2. Working(proc[q])' /\ Caching(proc[q])' BY <1>1 DEF InOrder
<1>3. CASE sidCacheData' = sidCacheData
  BY <1>1, <1>2, <1>3 DEF InOrder, LookingUp
<1>4. CASE p \in alive /\ Holds(p, "set")
  <2>1. proc[q].slot = Nobody
    <3>1. ASSUME proc[q].slot # Nobody PROVE FALSE
      <4>1. Holds(q, "set") BY <1>1, <3>1, SlotHolds
      <4>2. mutex["set"] = p /\ mutex["set"] = q
        BY <1>1, <1>4, <4>1, AliveFacts, LockNamesFacts DEF MutexHeld
      <4> QED BY <4>2
    <3> QED BY <3>1
  <2> QED BY <1>1, <1>2, <2>1 DEF InOrder, LookingUp
<1> QED BY <1>3, <1>4

LEMMA Together ==
    ASSUME LockTypes', TableTypes', proc' \in [Procs -> Recs], MutexHeld', EntriesComplete',
           NEW p, \A q \in alive' \ {p} : InOrder(proc[q])', p \in alive' => InOrder(proc[p])'
    PROVE  ServerIInv'
<1>1. \A q \in alive' : InOrder(proc[q])' OBVIOUS
<1> QED BY <1>1, ServerTypesNext DEF ServerIInv

-----------------------------------------------------------------------------
(* A call begins.                                                          *)

\* A process asks for its first lock.
LEMMA StartIInv ==
    ASSUME ServerIInv, NEW p \in alive, proc[p] = Idle, NEW r \in Recs, NEW l \in LockNames,
           r.op # "idle", r.sid \in Sessions, r.slot = Nobody, r.cert = -1, r.name = -1,
           r.cce = Nobody, r.snce = Nobody, l # "key",
           r.op # "cache" => l = "set",
           r.op = "cache" => /\ l = "name" => NameOf[r.sid] # Nobody
                             /\ l = "cert" => r.sid \in HasCert /\ NameOf[r.sid] = Nobody
                             /\ l = "set" => r.sid \notin HasCert /\ NameOf[r.sid] = Nobody,
           Update(p, Ask(r, l)), UNCHANGED <<locks, alive, tables, clock>>
    PROVE  ServerIInv'
<1> DEFINE x == Ask(r, l)
<1>0. /\ LockTypes /\ TableTypes /\ MutexHeld /\ EntriesComplete
      /\ p \in Procs /\ alive \subseteq Procs /\ proc \in [Procs -> Recs]
  BY AliveFacts
<1>1. /\ x \in Recs /\ x.phase = "wants" /\ x.lock = l /\ x.op = r.op /\ x.sid = r.sid
      /\ x.cert = -1 /\ x.name = -1 /\ x.slot = Nobody /\ x.cce = Nobody /\ x.snce = Nobody
  BY AskFields
<1> HIDE DEF x
<1>2. proc' \in [Procs -> Recs] /\ proc'[p] = x /\ Others(p)
  BY <1>0, <1>1, UpdateFacts DEF Others, x
<1>3. UNCHANGED <<mutex, lockPid, old, alive, sidCacheData>> BY DEF locks, tables
<1>4. LockTypes' BY <1>0, <1>3 DEF LockTypes
<1>5. TableTypes' /\ EntriesComplete' BY <1>0 DEF TableTypes, EntriesComplete, tables
<1>6. Idle.lock = "set" /\ Idle.op = "idle" /\ Idle.phase = "out" BY IdleFields
<1>7. \A m \in LockNames : Holds(p, m)' => Holds(p, m) BY <1>1, <1>2, <1>6 DEF Holds
<1>8. MutexHeld' BY <1>0, <1>1, <1>2, <1>3, <1>7, LocksKept
<1>9. InOrder(x)' BY <1>1 DEF InOrder, Working, Caching, LookingUp, Complete
<1>10. \A q \in alive' \ {p} : InOrder(proc[q])' BY <1>0, <1>2, <1>3, OthersInOrder
<1> QED BY <1>2, <1>4, <1>5, <1>8, <1>9, <1>10, Together

LEMMA CacheSessionIInv ==
    ASSUME ServerIInv, NEW p \in Procs, NEW s \in Sessions, ssl_ServerCacheSessionID(p, s)
    PROVE  ServerIInv'
<1> DEFINE e == (clock + SSL3Timeout) * UsecPerSec
           r == [Idle EXCEPT !.op = "cache", !.sid = s, !.expires = e]
           l == IF NameOf[s] # Nobody THEN "name" ELSE IF s \in HasCert THEN "cert" ELSE "set"
<1>1. e \in Int
  <2>1. clock \in Nat BY AliveFacts DEF TableTypes
  <2> QED BY SMTT(30), <2>1, TimesAssumption
<1>2. /\ p \in alive /\ proc[p] = Idle /\ Update(p, Ask(r, l))
      /\ UNCHANGED <<locks, alive, tables, clock>>
  BY DEF ssl_ServerCacheSessionID
<1> HIDE DEF e
<1>3. /\ r \in Recs /\ r.op = "cache" /\ r.sid = s /\ r.slot = Nobody /\ r.cert = -1 /\ r.name = -1
      /\ r.cce = Nobody /\ r.snce = Nobody
  <2>1. /\ Idle \in Recs /\ Idle.slot = Nobody /\ Idle.cert = -1 /\ Idle.name = -1
        /\ Idle.cce = Nobody /\ Idle.snce = Nobody
    BY IdleFields
  <2>2. s \in Ids /\ "cache" \in Ops BY DEF Ids, Ops
  <2> QED BY <1>1, <2>1, <2>2 DEF Recs
<1>4. l \in LockNames /\ l # "key" BY LockNamesFacts
<1>5. /\ l = "name" => NameOf[s] # Nobody
      /\ l = "cert" => s \in HasCert /\ NameOf[s] = Nobody
      /\ l = "set" => s \notin HasCert /\ NameOf[s] = Nobody
  OBVIOUS
<1> HIDE DEF r, l
<1> QED BY <1>2, <1>3, <1>4, <1>5, StartIInv

LEMMA OtherCallIInv ==
    ASSUME ServerIInv, NEW p \in Procs, NEW s \in Sessions,
           ServerSessionIDLookup(p, s) \/ ssl_ServerUncacheSessionID(p, s)
    PROVE  ServerIInv'
<1>1. PICK o \in {"lookup", "uncache"} :
        /\ p \in alive /\ proc[p] = Idle
        /\ Update(p, Ask([Idle EXCEPT !.op = o, !.sid = s], "set"))
        /\ UNCHANGED <<locks, alive, tables, clock>>
  BY DEF ServerSessionIDLookup, ssl_ServerUncacheSessionID
<1> DEFINE r == [Idle EXCEPT !.op = o, !.sid = s]
<1>2. /\ r \in Recs /\ r.op = o /\ r.sid = s /\ r.slot = Nobody /\ r.cert = -1 /\ r.name = -1
      /\ r.cce = Nobody /\ r.snce = Nobody
  <2>1. /\ Idle \in Recs /\ Idle.slot = Nobody /\ Idle.cert = -1 /\ Idle.name = -1
        /\ Idle.cce = Nobody /\ Idle.snce = Nobody
    BY IdleFields
  <2>2. s \in Ids /\ o \in Ops BY DEF Ids, Ops
  <2> QED BY <2>1, <2>2 DEF Recs
<1> HIDE DEF r
<1>3. Update(p, Ask(r, "set")) BY <1>1 DEF r
<1> QED BY <1>1, <1>2, <1>3, StartIInv, LockNamesFacts

-----------------------------------------------------------------------------
(* The lock is taken and released.                                         *)

LEMMA LockMutexIInv ==
    ASSUME ServerIInv, NEW p \in Procs, LockMutex(p)
    PROVE  ServerIInv'
<1> DEFINE r == proc[p]
           x == [r EXCEPT !.phase = "got"]
<1>0. /\ LockTypes /\ TableTypes /\ MutexHeld /\ EntriesComplete
      /\ p \in alive /\ alive \subseteq Procs /\ proc \in [Procs -> Recs] /\ r \in Recs /\ InOrder(r)
  BY AliveFacts DEF LockMutex
<1>1. /\ r.phase = "wants" /\ mutex[r.lock] = Nobody /\ mutex' = [mutex EXCEPT ![r.lock] = p]
      /\ Update(p, x) /\ UNCHANGED <<lockPid, old, alive, tables, clock>>
  BY DEF LockMutex
<1>2. /\ x \in Recs /\ x.phase = "got" /\ x.lock = r.lock /\ x.op = r.op /\ x.sid = r.sid
      /\ x.cert = r.cert /\ x.name = r.name /\ x.slot = r.slot /\ x.cce = r.cce /\ x.snce = r.snce
  BY <1>0, PhaseFields DEF Phases
<1>a. r.lock \in LockNames BY <1>0 DEF Recs
<1> HIDE DEF x, r
<1>3. proc' \in [Procs -> Recs] /\ proc'[p] = x /\ Others(p)
  BY <1>0, <1>1, <1>2, UpdateFacts DEF Others
<1>4. LockTypes' BY <1>0, <1>1 DEF LockTypes
<1>5. TableTypes' /\ EntriesComplete' /\ sidCacheData' = sidCacheData
  BY <1>0, <1>1 DEF TableTypes, EntriesComplete, tables
<1>6. \A l \in LockNames : mutex'[l] = IF l = r.lock THEN p ELSE mutex[l]
  BY <1>0, <1>1 DEF LockTypes
<1>7. ASSUME NEW q \in alive', NEW l \in LockNames, Holds(q, l)' PROVE mutex'[l] = q
  <2>1. q \in alive /\ q # Nobody BY <1>0, <1>1, NobodyAssumption
  <2>2. CASE q = p /\ l = r.lock BY <1>6, <2>2
  <2>3. CASE q = p /\ l # r.lock
    <3>1. Holds(p, l) BY <1>2, <1>3, <1>7, <2>3 DEF Holds, r
    <3> QED BY <1>0, <1>6, <2>1, <2>3, <3>1 DEF MutexHeld
  <2>4. CASE q # p
    <3>1. Holds(q, l) BY <1>0, <1>3, <1>7, <2>1, <2>4 DEF Holds, Others
    <3>2. mutex[l] = q BY <1>0, <2>1, <3>1 DEF MutexHeld
    <3> QED BY <1>1, <1>6, <2>1, <3>2
  <2> QED BY <2>2, <2>3, <2>4
<1>8. \A l \in LockNames : lockPid'[l] # Nobody => lockPid'[l] = mutex'[l]
  BY SMTT(30), <1>0, <1>1, <1>6 DEF MutexHeld
<1>9. ASSUME NEW q \in alive', proc'[q].phase = "leaving" PROVE lockPid'[proc'[q].lock] = Nobody
  BY SMTT(30), <1>0, <1>1, <1>2, <1>3, <1>9 DEF MutexHeld, Others
<1>10. MutexHeld' BY <1>7, <1>8, <1>9 DEF MutexHeld
<1>11. InOrder(proc[p])'
  BY SMTT(30), <1>0, <1>1, <1>2, <1>3, <1>5 DEF InOrder, Working, Caching, LookingUp, Complete,
     OwnCert
<1>12. \A q \in alive' \ {p} : InOrder(proc[q])' BY <1>0, <1>1, <1>3, <1>5, OthersInOrder
<1> QED BY <1>3, <1>4, <1>5, <1>10, <1>11, <1>12, Together

LEMMA RecordOwnerIInv ==
    ASSUME ServerIInv, NEW p \in Procs, RecordOwner(p)
    PROVE  ServerIInv'
<1> DEFINE r == proc[p]
           x == [r EXCEPT !.phase = "in"]
<1>0. /\ LockTypes /\ TableTypes /\ MutexHeld /\ EntriesComplete
      /\ p \in alive /\ alive \subseteq Procs /\ proc \in [Procs -> Recs] /\ r \in Recs /\ InOrder(r)
  BY AliveFacts DEF RecordOwner
<1>1. /\ r.phase = "got" /\ lockPid' = [lockPid EXCEPT ![r.lock] = p]
      /\ Update(p, x) /\ UNCHANGED <<mutex, old, alive, tables, clock>>
  BY DEF RecordOwner
<1>2. /\ x \in Recs /\ x.phase = "in" /\ x.lock = r.lock /\ x.op = r.op /\ x.sid = r.sid
      /\ x.cert = r.cert /\ x.name = r.name /\ x.slot = r.slot /\ x.cce = r.cce /\ x.snce = r.snce
  BY <1>0, PhaseFields DEF Phases
<1>a. r.lock \in LockNames BY <1>0 DEF Recs
<1>b. Holds(p, r.lock) BY <1>1 DEF Holds
<1> HIDE DEF x, r
<1>3. proc' \in [Procs -> Recs] /\ proc'[p] = x /\ Others(p)
  BY <1>0, <1>1, <1>2, UpdateFacts DEF Others
<1>4. LockTypes' BY <1>0, <1>1 DEF LockTypes
<1>5. TableTypes' /\ EntriesComplete' /\ sidCacheData' = sidCacheData
  BY <1>0, <1>1 DEF TableTypes, EntriesComplete, tables
<1>6. \A l \in LockNames : lockPid'[l] = IF l = r.lock THEN p ELSE lockPid[l]
  BY <1>0, <1>1 DEF LockTypes
<1>c. mutex[r.lock] = p BY <1>0, <1>a, <1>b DEF MutexHeld
<1>7. ASSUME NEW q \in alive', NEW l \in LockNames, Holds(q, l)' PROVE mutex'[l] = q
  <2>1. Holds(q, l)
    <3>1. CASE q = p BY <1>1, <1>2, <1>3, <1>7, <3>1 DEF Holds, r
    <3>2. CASE q # p BY <1>0, <1>1, <1>3, <1>7, <3>2 DEF Holds, Others
    <3> QED BY <3>1, <3>2
  <2> QED BY <1>0, <1>1, <2>1 DEF MutexHeld
<1>8. \A l \in LockNames : lockPid'[l] # Nobody => lockPid'[l] = mutex'[l]
  BY <1>0, <1>1, <1>6, <1>c DEF MutexHeld
<1>9. ASSUME NEW q \in alive', proc'[q].phase = "leaving" PROVE lockPid'[proc'[q].lock] = Nobody
  <2>1. q # p BY <1>2, <1>3, <1>9
  <2>2. q \in alive /\ q \in Procs /\ proc[q].phase = "leaving" /\ proc'[q] = proc[q]
    BY <1>0, <1>1, <1>3, <1>9, <2>1 DEF Others
  <2>3. proc[q].lock \in LockNames BY <1>0, <2>2 DEF Recs
  <2>4. mutex[proc[q].lock] = q BY <1>0, <2>2, <2>3 DEF MutexHeld, Holds
  <2>5. proc[q].lock # r.lock BY <1>c, <2>1, <2>4
  <2> QED BY <1>0, <1>6, <2>2, <2>3, <2>5 DEF MutexHeld
<1>10. MutexHeld' BY <1>7, <1>8, <1>9 DEF MutexHeld
<1>11. InOrder(proc[p])'
  BY SMTT(30), <1>0, <1>1, <1>2, <1>3, <1>5 DEF InOrder, Working, Caching, LookingUp, Complete,
     OwnCert
<1>12. \A q \in alive' \ {p} : InOrder(proc[q])' BY <1>0, <1>1, <1>3, <1>5, OthersInOrder
<1> QED BY <1>3, <1>4, <1>5, <1>10, <1>11, <1>12, Together

\* Where a process goes on when it has released a lock.
LEMMA AfterUnlockFacts ==
    ASSUME NEW r \in Recs, Working(r), r.phase = "leaving", r.op # "idle"
    PROVE  LET x == AfterUnlock(r)
           IN  /\ x \in Recs
               /\ \/ r.lock = "set" /\ x = Idle
                  \/ /\ r.lock # "set"
                     /\ x.op = r.op /\ x.sid = r.sid /\ x.cert = r.cert /\ x.name = r.name
                     /\ x.slot = r.slot /\ x.cce = r.cce /\ x.snce = r.snce
                     /\ \/ r.op = "cache" /\ x.phase = "wants" /\ r.lock = "name" /\ r.sid \in HasCert /\ x.lock = "cert"
                        \/ r.op = "cache" /\ x.phase = "wants" /\ (r.lock = "cert" \/ r.sid \notin HasCert) /\ x.lock = "set"
                        \/ r.op = "lookup" /\ x.phase = "wants" /\ r.lock = "cert" /\ r.slot # Nobody /\ r.name # -1 /\ x.lock = "name"
                        \/ r.op = "lookup" /\ x.phase = "found" /\ x.lock = "set"
                           /\ ~(r.lock = "cert" /\ r.slot # Nobody /\ r.name # -1)
<1>1. r.lock \in {"set", "cert", "name"} /\ r.op \in {"cache", "lookup", "uncache"}
  BY LockNamesFacts DEF Recs, Ops, Working
<1>2. r.op = "uncache" => r.lock = "set" BY DEF Working
<1>3. CASE r.lock = "set" BY <1>3, IdleFields DEF AfterUnlock
<1>4. CASE r.op = "cache" /\ r.lock = "name" /\ r.sid \in HasCert
  <2>1. AfterUnlock(r) = Ask(r, "cert") BY <1>4 DEF AfterUnlock
  <2>2. "cert" \in LockNames BY LockNamesFacts
  <2> QED BY SMTT(30), <1>4, <2>1, <2>2, AskFields
<1>5. CASE r.op = "cache" /\ r.lock # "set" /\ (r.lock = "cert" \/ r.sid \notin HasCert)
  <2>1. AfterUnlock(r) = Ask(r, "set") BY <1>1, <1>5 DEF AfterUnlock
  <2>2. "set" \in LockNames BY LockNamesFacts
  <2> QED BY SMTT(30), <1>5, <2>1, <2>2, AskFields
<1>6. CASE r.op = "lookup" /\ r.lock = "cert" /\ r.slot # Nobody /\ r.name # -1
  <2>1. AfterUnlock(r) = Ask(r, "name") BY <1>6 DEF AfterUnlock
  <2>2. "name" \in LockNames BY LockNamesFacts
  <2> QED BY SMTT(30), <1>6, <2>1, <2>2, AskFields
<1>7. CASE r.op = "lookup" /\ r.lock # "set" /\ ~(r.lock = "cert" /\ r.slot # Nobody /\ r.name # -1)
  <2> DEFINE y == [r EXCEPT !.phase = "found", !.lock = "set"]
  <2>1. AfterUnlock(r) = y BY <1>7 DEF AfterUnlock
  <2>2. "set" \in LockNames /\ "found" \in Phases BY LockNamesFacts DEF Phases
  <2>3. /\ y \in Recs /\ y.phase = "found" /\ y.lock = "set" /\ y.op = r.op /\ y.sid = r.sid
        /\ y.cert = r.cert /\ y.name = r.name /\ y.slot = r.slot /\ y.cce = r.cce /\ y.snce = r.snce
    BY <2>2 DEF Recs
  <2> HIDE DEF y
  <2> QED BY <1>7, <2>1, <2>3
<1> QED BY <1>1, <1>2, <1>3, <1>4, <1>5, <1>6, <1>7

LEMMA UnlockMutexIInv ==
    ASSUME ServerIInv, NEW p \in Procs, UnlockMutex(p)
    PROVE  ServerIInv'
<1> DEFINE r == proc[p]
           x == AfterUnlock(r)
<1>0. /\ LockTypes /\ TableTypes /\ MutexHeld /\ EntriesComplete
      /\ p \in alive /\ alive \subseteq Procs /\ proc \in [Procs -> Recs] /\ r \in Recs /\ InOrder(r)
  BY AliveFacts DEF UnlockMutex
<1>1. /\ r.phase = "leaving" /\ mutex' = [mutex EXCEPT ![r.lock] = Nobody]
      /\ Update(p, x) /\ UNCHANGED <<lockPid, old, alive, tables, clock>>
  BY DEF UnlockMutex
<1>a. r.lock \in LockNames BY <1>0 DEF Recs
<1>b. Holds(p, r.lock) /\ r.lock \in {"set", "cert", "name"}
  BY <1>0, <1>1, <1>a, LockNamesFacts DEF Holds, InOrder, Working
<1>2. /\ x \in Recs
      /\ \/ r.lock = "set" /\ x = Idle
         \/ /\ r.lock # "set"
            /\ x.op = r.op /\ x.sid = r.sid /\ x.cert = r.cert /\ x.name = r.name
            /\ x.slot = r.slot /\ x.cce = r.cce /\ x.snce = r.snce
            /\ \/ r.op = "cache" /\ x.phase = "wants" /\ r.lock = "name" /\ r.sid \in HasCert /\ x.lock = "cert"
               \/ r.op = "cache" /\ x.phase = "wants" /\ (r.lock = "cert" \/ r.sid \notin HasCert) /\ x.lock = "set"
               \/ r.op = "lookup" /\ x.phase = "wants" /\ r.lock = "cert" /\ r.slot # Nobody /\ r.name # -1 /\ x.lock = "name"
               \/ r.op = "lookup" /\ x.phase = "found" /\ x.lock = "set"
                  /\ ~(r.lock = "cert" /\ r.slot # Nobody /\ r.name # -1)
  <2>1. Working(r) /\ r.op # "idle" BY <1>0, <1>1 DEF InOrder, Working
  <2> HIDE DEF r
  <2> QED BY <1>0, <1>1, <2>1, AfterUnlockFacts
<1> HIDE DEF x, r
<1>3. proc' \in [Procs -> Recs] /\ proc'[p] = x /\ Others(p)
  BY <1>0, <1>1, <1>2, UpdateFacts DEF Others
<1>4. LockTypes' BY <1>0, <1>1 DEF LockTypes
<1>5. TableTypes' /\ EntriesComplete' /\ sidCacheData' = sidCacheData
  BY <1>0, <1>1 DEF TableTypes, EntriesComplete, tables
<1>6. \A l \in LockNames : mutex'[l] = IF l = r.lock THEN Nobody ELSE mutex[l]
  BY <1>0, <1>1 DEF LockTypes
<1>c. mutex[r.lock] = p BY <1>0, <1>a, <1>b DEF MutexHeld
<1>d. lockPid[r.lock] = Nobody BY <1>0, <1>1 DEF MutexHeld, r
<1>e. Idle.lock = "set" /\ Idle.op = "idle" /\ Idle.phase = "out" /\ Idle.slot = Nobody
  BY IdleFields
<1>7. ASSUME NEW q \in alive', NEW l \in LockNames, Holds(q, l)' PROVE mutex'[l] = q
  <2>1. CASE q = p
    <3>1. Holds(p, l) /\ l # r.lock BY <1>1, <1>2, <1>3, <1>7, <1>b, <1>e, <2>1 DEF Holds, r
    <3> QED BY <1>0, <1>6, <2>1, <3>1 DEF MutexHeld
  <2>2. CASE q # p
    <3>1. Holds(q, l) /\ q \in alive BY <1>0, <1>1, <1>3, <1>7, <2>2 DEF Holds, Others
    <3>2. mutex[l] = q BY <1>0, <3>1 DEF MutexHeld
    <3> QED BY <1>6, <1>c, <2>2, <3>2
  <2> QED BY <2>1, <2>2
<1>8. \A l \in LockNames : lockPid'[l] # Nobody => lockPid'[l] = mutex'[l]
  BY <1>0, <1>1, <1>6, <1>d DEF MutexHeld
<1>9. ASSUME NEW q \in alive', proc'[q].phase = "leaving" PROVE lockPid'[proc'[q].lock] = Nobody
  BY SMTT(30), <1>0, <1>1, <1>2, <1>3, <1>9, <1>e DEF MutexHeld, Others
<1>10. MutexHeld' BY <1>7, <1>8, <1>9 DEF MutexHeld
<1>11. InOrder(proc[p])'
  <2>1. CASE x = Idle BY <1>3, <1>e, <2>1 DEF InOrder, Working, Caching, LookingUp
  <2>2. CASE r.op = "cache" /\ r.lock # "set"
    <3>1. Working(r) /\ Caching(r) BY <1>0 DEF InOrder
    <3> QED
      BY SMTT(30), <1>1, <1>2, <1>3, <1>b, <2>2, <3>1 DEF InOrder, Working, Caching, LookingUp,
         Complete
  <2>3. CASE r.op = "lookup" /\ r.lock # "set"
    <3>1. Working(r) /\ LookingUp(r) BY <1>0 DEF InOrder
    <3>2. Working(proc[p])' /\ Caching(proc[p])'
      BY <1>1, <1>2, <1>3, <2>3, <3>1 DEF Working, Caching
    <3>4. LookingUp(proc[p])'
      BY SMTT(30), <1>1, <1>2, <1>3, <1>5, <1>b, <2>3, <3>1 DEF LookingUp, Complete, OwnCert
    <3> QED BY <3>2, <3>4 DEF InOrder
  <2> QED BY <1>2, <2>1, <2>2, <2>3
<1>12. \A q \in alive' \ {p} : InOrder(proc[q])' BY <1>0, <1>1, <1>3, <1>5, OthersInOrder
<1> QED BY <1>3, <1>4, <1>5, <1>10, <1>11, <1>12, Together

-----------------------------------------------------------------------------
(* Work under a lock.                                                      *)

\* A process writes or copies what it has come for and clears the owner.
LEMMA LeaveFields ==
    ASSUME ServerIInv, NEW p \in alive, NEW r \in Recs, Leave(p, r)
    PROVE  /\ proc'[p].phase = "leaving" /\ proc'[p].lock = r.lock /\ proc'[p].op = r.op
           /\ proc'[p].sid = r.sid /\ proc'[p].cert = r.cert /\ proc'[p].name = r.name
           /\ proc'[p].slot = r.slot /\ proc'[p].cce = r.cce /\ proc'[p].snce = r.snce
           /\ alive' = alive /\ clock' = clock
<1>1. p \in Procs /\ proc \in [Procs -> Recs] BY AliveFacts
<1>2. proc'[p] = [r EXCEPT !.phase = "leaving"] /\ alive' = alive /\ clock' = clock
  BY <1>1 DEF Leave, Update
<1>3. "leaving" \in Phases BY DEF Phases
<1> QED BY SMTT(30), <1>2, <1>3, PhaseFields

LEMMA LeaveIInv ==
    ASSUME ServerIInv, NEW p \in alive, proc[p].phase \in {"in", "found"},
           NEW r \in Recs, r.lock = proc[p].lock, r.op = proc[p].op, Leave(p, r),
           TableTypes', EntriesComplete', sidCacheData' = sidCacheData \/ Holds(p, "set"),
           InOrder(proc[p])'
    PROVE  ServerIInv'
<1>1. LockTypes' /\ MutexHeld' /\ proc' \in [Procs -> Recs] /\ Others(p) BY LocksLeft
<1>2. p \in Procs /\ alive' = alive BY AliveFacts, LeaveFields
<1>3. \A q \in alive' \ {p} : InOrder(proc[q])' BY <1>1, <1>2, OthersInOrder
<1> QED BY <1>1, <1>2, <1>3, Together

LEMMA CacheSrvNameIInv ==
    ASSUME ServerIInv, NEW p \in Procs, CacheSrvName(p)
    PROVE  ServerIInv'
<1> DEFINE r == proc[p]
           n == NameOf[r.sid]
           x == [r EXCEPT !.name = IndexOf[n]]
<1>0. TableTypes /\ EntriesComplete /\ p \in alive /\ r \in Recs /\ Working(r) /\ Caching(r)
  BY AliveFacts DEF CacheSrvName, Is, InOrder
<1>1. /\ r.phase = "in" /\ r.op = "cache" /\ r.lock = "name" /\ Leave(p, x)
      /\ srvNameCacheData' = [srvNameCacheData EXCEPT ![IndexOf[n]] = n]
      /\ UNCHANGED <<sidCacheData, next, certCacheData, nextCertCacheEntry>>
  BY DEF CacheSrvName, Is
<1>2. r.sid \in Sessions /\ n # Nobody /\ r.cert = -1 BY <1>0, <1>1 DEF Working, Caching
<1>3. IndexOf[n] \in 0..(NumNames - 1) /\ n \in Names BY <1>2, NamesAssumption DEF Names
<1>4. IndexOf[n] \in NameIndexes /\ IndexOf[n] # -1
  BY SMTT(30), <1>3, SizesAssumption DEF NameIndexes
<1>5. /\ x \in Recs /\ x.lock = r.lock /\ x.op = r.op /\ x.sid = r.sid /\ x.cert = r.cert
      /\ x.name = IndexOf[n] /\ x.slot = r.slot
  BY <1>0, <1>4 DEF Recs
<1> HIDE DEF x, r, n
<1>6. /\ proc'[p].phase = "leaving" /\ proc'[p].lock = "name" /\ proc'[p].op = "cache"
      /\ proc'[p].sid = r.sid /\ proc'[p].cert = -1 /\ proc'[p].name = IndexOf[n]
      /\ proc'[p].slot = r.slot /\ clock' = clock
  BY <1>0, <1>1, <1>2, <1>5, LeaveFields
<1>7. TableTypes' BY <1>0, <1>1, <1>3, <1>6 DEF TableTypes
<1>8. EntriesComplete' BY <1>0, <1>1 DEF EntriesComplete
<1>9. InOrder(proc[p])'
  BY <1>0, <1>1, <1>2, <1>4, <1>6 DEF InOrder, Working, Caching, LookingUp, n
<1> QED BY <1>0, <1>1, <1>5, <1>7, <1>8, <1>9, LeaveIInv DEF r

LEMMA CacheCertIInv ==
    ASSUME ServerIInv, NEW p \in Procs, CacheCert(p)
    PROVE  ServerIInv'
<1> DEFINE r == proc[p]
           x == [r EXCEPT !.cert = nextCertCacheEntry]
<1>0. TableTypes /\ EntriesComplete /\ p \in alive /\ r \in Recs /\ Working(r) /\ Caching(r)
  BY AliveFacts DEF CacheCert, Is, InOrder
<1>1. /\ r.phase = "in" /\ r.op = "cache" /\ r.lock = "cert" /\ Leave(p, x)
      /\ certCacheData' = [certCacheData EXCEPT ![nextCertCacheEntry] = r.sid]
      /\ nextCertCacheEntry' = (nextCertCacheEntry + 1) % NumCerts
      /\ UNCHANGED <<sidCacheData, next, srvNameCacheData>>
  BY DEF CacheCert, Is
<1>2. r.sid \in Sessions /\ r.sid \in HasCert /\ (r.name # -1 <=> NameOf[r.sid] # Nobody)
  BY <1>0, <1>1 DEF Working, Caching
<1>3. nextCertCacheEntry \in 0..(NumCerts - 1) /\ r.sid \in Ids
  BY <1>0, <1>2 DEF TableTypes, Ids
<1>4. nextCertCacheEntry \in CertIndexes /\ nextCertCacheEntry # -1
  BY SMTT(30), <1>3, SizesAssumption DEF CertIndexes
<1>5. /\ x \in Recs /\ x.lock = r.lock /\ x.op = r.op /\ x.sid = r.sid /\ x.cert = nextCertCacheEntry
      /\ x.name = r.name /\ x.slot = r.slot
  BY <1>0, <1>4 DEF Recs
<1> HIDE DEF x, r
<1>6. /\ proc'[p].phase = "leaving" /\ proc'[p].lock = "cert" /\ proc'[p].op = "cache"
      /\ proc'[p].sid = r.sid /\ proc'[p].cert = nextCertCacheEntry /\ proc'[p].name = r.name
      /\ proc'[p].slot = r.slot /\ clock' = clock
  BY <1>0, <1>1, <1>2, <1>5, LeaveFields
<1>7. TableTypes'
  <2>1. nextCertCacheEntry' \in 0..(NumCerts - 1) BY SMTT(30), <1>1, <1>3, SizesAssumption
  <2> QED BY <1>0, <1>1, <1>3, <1>6, <2>1 DEF TableTypes
<1>8. EntriesComplete' BY <1>0, <1>1 DEF EntriesComplete
<1>9. InOrder(proc[p])'
  BY <1>0, <1>1, <1>2, <1>4, <1>6 DEF InOrder, Working, Caching, LookingUp
<1> QED BY <1>0, <1>1, <1>5, <1>7, <1>8, <1>9, LeaveIInv DEF r

LEMMA WriteEntryIInv ==
    ASSUME ServerIInv, NEW p \in Procs, WriteEntry(p)
    PROVE  ServerIInv'
<1> DEFINE r == proc[p]
           e == [valid |-> TRUE, sid |-> r.sid, cert |-> r.cert, name |-> r.name,
                 expires |-> r.expires]
<1>0. TableTypes /\ EntriesComplete /\ p \in alive /\ r \in Recs /\ Working(r) /\ Caching(r)
  BY AliveFacts DEF WriteEntry, Is, InOrder
<1>1. /\ r.phase = "in" /\ r.op = "cache" /\ r.lock = "set" /\ Leave(p, r)
      /\ sidCacheData' = [sidCacheData EXCEPT ![next] = e]
      /\ next' = (next + 1) % EntriesPerSet
      /\ UNCHANGED <<certCacheData, nextCertCacheEntry, srvNameCacheData>>
  BY DEF WriteEntry, Is
<1>2. Complete(r) BY <1>0, <1>1 DEF Caching
<1>3. e \in Entries BY <1>0 DEF Entries, Recs
<1>4. e.sid = r.sid /\ e.cert = r.cert /\ e.name = r.name OBVIOUS
<1>5. Complete(e) BY <1>2 DEF Complete
<1>h. Holds(p, "set") BY <1>1 DEF Holds
<1> HIDE DEF e, r
<1>6. /\ proc'[p].phase = "leaving" /\ proc'[p].lock = "set" /\ proc'[p].op = "cache"
      /\ proc'[p].sid = r.sid /\ proc'[p].cert = r.cert /\ proc'[p].name = r.name
      /\ proc'[p].slot = r.slot /\ clock' = clock
  BY <1>0, <1>1, LeaveFields
<1>7. TableTypes'
  <2>1. next' \in Slots BY SMTT(30), <1>0, <1>1, SizesAssumption DEF TableTypes, Slots
  <2> QED BY <1>0, <1>1, <1>3, <1>6, <2>1 DEF TableTypes
<1>8. EntriesComplete'
  <2>1. \A k \in Slots : sidCacheData'[k] = IF k = next THEN e ELSE sidCacheData[k]
    BY <1>0, <1>1 DEF TableTypes
  <2>2. DOMAIN sidCacheData = Slots /\ DOMAIN sidCacheData' = Slots BY <1>0, <1>7 DEF TableTypes
  <2> QED BY <1>0, <1>5, <2>1, <2>2 DEF EntriesComplete, Complete
<1>9. InOrder(proc[p])'
  BY <1>0, <1>1, <1>2, <1>6 DEF InOrder, Working, Caching, LookingUp, Complete
<1> QED BY <1>0, <1>1, <1>h, <1>7, <1>8, <1>9, LeaveIInv DEF r

\* An entry whose valid flag is cleared keeps its place and its session.
LEMMA InvalidateFacts ==
    ASSUME TableTypes, EntriesComplete, NEW S, Invalidate(S)
    PROVE  /\ sidCacheData' \in [Slots -> Entries] /\ EntriesComplete'
           /\ \A k \in Slots \ S : sidCacheData'[k] = sidCacheData[k]
<1>1. /\ sidCacheData \in [Slots -> Entries]
      /\ sidCacheData' = [k \in Slots |-> IF k \in S THEN [sidCacheData[k] EXCEPT !.valid = FALSE]
                                          ELSE sidCacheData[k]]
  BY DEF TableTypes, Invalidate
<1>2. ASSUME NEW k \in Slots
      PROVE  /\ [sidCacheData[k] EXCEPT !.valid = FALSE] \in Entries
             /\ [sidCacheData[k] EXCEPT !.valid = FALSE].valid = FALSE
  <2>1. sidCacheData[k] \in Entries BY <1>1
  <2> QED BY <2>1 DEF Entries
<1>3. sidCacheData' \in [Slots -> Entries] BY <1>1, <1>2
<1>4. ASSUME NEW k \in Slots, sidCacheData'[k].valid PROVE sidCacheData'[k] = sidCacheData[k]
  BY <1>1, <1>2, <1>4
<1>5. EntriesComplete'
  <2> SUFFICES ASSUME NEW k \in Slots, sidCacheData'[k].valid PROVE Complete(sidCacheData[k])'
    BY <1>3 DEF EntriesComplete
  <2>1. sidCacheData'[k] = sidCacheData[k] BY <1>4
  <2>2. Complete(sidCacheData[k]) BY <1>1, <2>1 DEF EntriesComplete
  <2> QED BY <2>1, <2>2 DEF Complete
<1>6. \A k \in Slots \ S : sidCacheData'[k] = sidCacheData[k] BY <1>1
<1> QED BY <1>3, <1>5, <1>6

\* A lookup gives its entry up.
LEMMA GivesUp ==
    ASSUME ServerIInv, NEW p \in alive, proc[p].phase = "in", proc[p].op = "lookup",
           Leave(p, [proc[p] EXCEPT !.slot = Nobody]), NEW S, Invalidate(S),
           UNCHANGED <<next, certCacheData, nextCertCacheEntry, srvNameCacheData>>
    PROVE  ServerIInv'
<1> DEFINE r == proc[p]
           x == [r EXCEPT !.slot = Nobody]
<1>0. TableTypes /\ EntriesComplete /\ r \in Recs /\ Working(r) BY AliveFacts DEF InOrder
<1>1. /\ x \in Recs /\ x.lock = r.lock /\ x.op = r.op /\ x.sid = r.sid /\ x.slot = Nobody
  BY <1>0 DEF Recs
<1>h. Holds(p, "set")
  <2>1. r.lock \in {"set", "key", "cert", "name"} BY <1>0, LockNamesFacts DEF Recs
  <2> QED BY <1>0, <2>1 DEF Holds, Working
<1>l. Leave(p, x) OBVIOUS
<1> HIDE DEF x
<1>2. /\ proc'[p].phase = "leaving" /\ proc'[p].lock = r.lock /\ proc'[p].op = "lookup"
      /\ proc'[p].sid = r.sid /\ proc'[p].slot = Nobody /\ clock' = clock
  BY <1>1, <1>l, LeaveFields
<1>3. sidCacheData' \in [Slots -> Entries] /\ EntriesComplete' BY <1>0, InvalidateFacts
<1>4. TableTypes' BY <1>0, <1>2, <1>3 DEF TableTypes
<1>5. InOrder(proc[p])' BY <1>0, <1>2 DEF InOrder, Working, Caching, LookingUp
<1> QED BY <1>1, <1>l, <1>h, <1>3, <1>4, <1>5, LeaveIInv

LEMMA CopyCertIInv ==
    ASSUME ServerIInv, NEW p \in Procs, CopyCert(p)
    PROVE  ServerIInv'
<1> DEFINE r == proc[p]
           x == [r EXCEPT !.cce = certCacheData[r.cert]]
<1>0. TableTypes /\ EntriesComplete /\ p \in alive /\ r \in Recs /\ Working(r) /\ LookingUp(r)
  BY AliveFacts DEF CopyCert, Is, InOrder
<1>1. r.phase = "in" /\ r.op = "lookup" /\ r.lock = "cert" BY DEF CopyCert, Is
<1>2. CASE CertMatches(r) /\ Leave(p, x) /\ UNCHANGED tables
  <2>1. certCacheData[r.cert] = r.sid BY <1>2 DEF CertMatches
  <2>2. /\ x \in Recs /\ x.lock = r.lock /\ x.op = r.op /\ x.sid = r.sid /\ x.cert = r.cert
        /\ x.name = r.name /\ x.slot = r.slot /\ x.snce = r.snce /\ x.cce = r.sid
    BY <1>0, <2>1 DEF Recs
  <2> HIDE DEF x
  <2>3. /\ proc'[p].phase = "leaving" /\ proc'[p].lock = "cert" /\ proc'[p].op = "lookup"
        /\ proc'[p].sid = r.sid /\ proc'[p].cert = r.cert /\ proc'[p].name = r.name
        /\ proc'[p].slot = r.slot /\ proc'[p].cce = r.sid /\ proc'[p].snce = r.snce /\ clock' = clock
    BY <1>0, <1>1, <1>2, <2>2, LeaveFields
  <2>4. TableTypes' /\ EntriesComplete' /\ sidCacheData' = sidCacheData
    BY <1>0, <1>2, <2>3 DEF TableTypes, EntriesComplete, tables
  <2>5. InOrder(proc[p])'
    BY <1>0, <1>1, <2>3, <2>4 DEF InOrder, Working, Caching, LookingUp, Complete
  <2> QED BY <1>0, <1>1, <1>2, <2>2, <2>4, <2>5, LeaveIInv
<1>3. CASE /\ Invalidate({r.slot}) /\ Leave(p, [r EXCEPT !.slot = Nobody])
           /\ UNCHANGED <<next, certCacheData, nextCertCacheEntry, srvNameCacheData>>
  BY <1>0, <1>1, <1>3, GivesUp
<1> QED BY <1>2, <1>3 DEF CopyCert

LEMMA CopyNameIInv ==
    ASSUME ServerIInv, NEW p \in Procs, CopyName(p)
    PROVE  ServerIInv'
<1> DEFINE r == proc[p]
           x == [r EXCEPT !.snce = srvNameCacheData[r.name]]
<1>0. TableTypes /\ EntriesComplete /\ p \in alive /\ r \in Recs /\ Working(r) /\ LookingUp(r)
  BY AliveFacts DEF CopyName, Is, InOrder
<1>1. r.phase = "in" /\ r.op = "lookup" /\ r.lock = "name" BY DEF CopyName, Is
<1>2. CASE NameMatches(r) /\ Leave(p, x) /\ UNCHANGED tables
  <2>1. srvNameCacheData[r.name] = NameOf[r.sid] BY <1>2 DEF NameMatches
  <2>a. NameOf[r.sid] \in Names BY <1>0, <1>1 DEF Working, Names
  <2>2. /\ x \in Recs /\ x.lock = r.lock /\ x.op = r.op /\ x.sid = r.sid /\ x.cert = r.cert
        /\ x.name = r.name /\ x.slot = r.slot /\ x.cce = r.cce /\ x.snce = NameOf[r.sid]
    BY <1>0, <2>1, <2>a DEF Recs
  <2> HIDE DEF x
  <2>3. /\ proc'[p].phase = "leaving" /\ proc'[p].lock = "name" /\ proc'[p].op = "lookup"
        /\ proc'[p].sid = r.sid /\ proc'[p].cert = r.cert /\ proc'[p].name = r.name
        /\ proc'[p].slot = r.slot /\ proc'[p].cce = r.cce /\ proc'[p].snce = NameOf[r.sid]
        /\ clock' = clock
    BY <1>0, <1>1, <1>2, <2>2, LeaveFields
  <2>4. TableTypes' /\ EntriesComplete' /\ sidCacheData' = sidCacheData
    BY <1>0, <1>2, <2>3 DEF TableTypes, EntriesComplete, tables
  <2>5. InOrder(proc[p])'
    BY <1>0, <1>1, <2>3, <2>4 DEF InOrder, Working, Caching, LookingUp, Complete, OwnCert
  <2> QED BY <1>0, <1>1, <1>2, <2>2, <2>4, <2>5, LeaveIInv
<1>3. CASE /\ Invalidate({r.slot}) /\ Leave(p, [r EXCEPT !.slot = Nobody])
           /\ UNCHANGED <<next, certCacheData, nextCertCacheEntry, srvNameCacheData>>
  BY <1>0, <1>1, <1>3, GivesUp
<1> QED BY <1>2, <1>3 DEF CopyName

LEMMA CopyEntryIInv ==
    ASSUME ServerIInv, NEW p \in Procs, CopyEntry(p)
    PROVE  ServerIInv'
<1> DEFINE r == proc[p]
<1>0. TableTypes /\ EntriesComplete /\ p \in alive /\ r \in Recs /\ Working(r) /\ LookingUp(r)
  BY AliveFacts DEF CopyEntry, Is, InOrder
<1>1. r.phase = "found" /\ r.op = "lookup" /\ r.lock = "set" /\ Leave(p, r) /\ UNCHANGED tables
  BY DEF CopyEntry, Is
<1>2. /\ proc'[p].phase = "leaving" /\ proc'[p].lock = "set" /\ proc'[p].op = "lookup"
      /\ proc'[p].sid = r.sid /\ proc'[p].cert = r.cert /\ proc'[p].name = r.name
      /\ proc'[p].slot = r.slot /\ proc'[p].cce = r.cce /\ proc'[p].snce = r.snce /\ clock' = clock
  BY <1>0, <1>1, LeaveFields
<1>3. TableTypes' /\ EntriesComplete' /\ sidCacheData' = sidCacheData
  BY <1>0, <1>1, <1>2 DEF TableTypes, EntriesComplete, tables
<1>4. InOrder(proc[p])'
  BY <1>0, <1>1, <1>2, <1>3 DEF InOrder, Working, Caching, LookingUp, Complete, OwnCert
<1> QED BY <1>0, <1>1, <1>3, <1>4, LeaveIInv

LEMMA UncacheEntryIInv ==
    ASSUME ServerIInv, NEW p \in Procs, UncacheEntry(p)
    PROVE  ServerIInv'
<1> DEFINE r == proc[p]
<1>0. TableTypes /\ EntriesComplete /\ p \in alive /\ r \in Recs /\ Working(r)
  BY AliveFacts DEF UncacheEntry, Is, InOrder
<1>1. PICK S : /\ r.phase = "in" /\ r.op = "uncache" /\ r.lock = "set" /\ Leave(p, r) /\ Invalidate(S)
               /\ UNCHANGED <<next, certCacheData, nextCertCacheEntry, srvNameCacheData>>
  BY DEF UncacheEntry, Is
<1>2. /\ proc'[p].phase = "leaving" /\ proc'[p].lock = "set" /\ proc'[p].op = "uncache"
      /\ proc'[p].sid = r.sid /\ proc'[p].slot = r.slot /\ clock' = clock
  BY <1>0, <1>1, LeaveFields
<1>3. sidCacheData' \in [Slots -> Entries] /\ EntriesComplete' BY <1>0, <1>1, InvalidateFacts
<1>4. TableTypes' BY <1>0, <1>1, <1>2, <1>3 DEF TableTypes
<1>5. Holds(p, "set") BY <1>1 DEF Holds
<1>6. InOrder(proc[p])' BY <1>0, <1>1, <1>2 DEF InOrder, Working, Caching, LookingUp
<1> QED BY <1>0, <1>1, <1>3, <1>4, <1>5, <1>6, LeaveIInv

-----------------------------------------------------------------------------
(* The search.                                                             *)

LEMMA LessThanWellFounded == IsWellFoundedOn({ss \in Nat \X Nat : ss[1] < ss[2]}, Nat)
BY NatLessThanWellFounded DEF OpToRel

LEMMA LeastNumber ==
    ASSUME NEW T, T \subseteq Nat, T # {}
    PROVE  \E m \in T : \A k \in T : m <= k
<1> DEFINE R == {ss \in Nat \X Nat : ss[1] < ss[2]}
<1>0. IsWellFoundedOn(R, Nat) BY LessThanWellFounded
<1>1. PICK x \in T : \A y \in T : ~(<<y, x>> \in R)
  <2> HIDE DEF R
  <2> QED BY <1>0, WFMin
<1>2. \A y \in T : ~(y < x) BY <1>1
<1> QED BY SMTT(30), <1>2

\* FindSID returns a valid entry of the session, and not one that it has found
\* timed out on its way.
LEMMA FindSIDFacts ==
    ASSUME TableTypes, NEW s, FindSID(s).slot # Nobody
    PROVE  LET k == FindSID(s).slot
           IN  /\ k \in Slots /\ k \notin FindSID(s).out
               /\ sidCacheData[k].valid /\ sidCacheData[k].sid = s
<1> DEFINE back(i) == (next - i) % EntriesPerSet
           timedOut(e) == clock > e.expires
           match(e) == e.valid /\ ~timedOut(e) /\ e.sid = s
           hits == {i \in 1..EntriesPerSet : match(sidCacheData[back(i)])}
           first == CHOOSE i \in hits : \A j \in hits : i <= j
           passed == IF hits = {} THEN 1..EntriesPerSet ELSE 1..first
           out == {k \in {back(i) : i \in passed} : timedOut(sidCacheData[k])}
           where == IF hits = {} THEN Nobody ELSE back(first)
<1>1. FindSID(s) = [slot |-> where, out |-> out] BY DEF FindSID
<1>2. FindSID(s).slot = where /\ FindSID(s).out = out
  <2> HIDE DEF where, out
  <2> QED BY SMTT(30), <1>1
<1>3. hits # {} /\ where = back(first) BY <1>2
<1>4. first \in hits
  <2>1. hits \subseteq Nat BY SMTT(30), SizesAssumption
  <2> HIDE DEF hits
  <2>2. \E m \in hits : \A k \in hits : m <= k BY <1>3, <2>1, LeastNumber
  <2> QED BY <2>2
<1> HIDE DEF first
<1>5. first \in 1..EntriesPerSet /\ match(sidCacheData[back(first)]) BY <1>4
<1>6. back(first) \in Slots BY SMTT(30), <1>5, SizesAssumption DEF TableTypes, Slots
<1>7. back(first) \notin out BY <1>5
<1> QED BY <1>2, <1>3, <1>5, <1>6, <1>7

\* Where the lookup goes with the entry it has found.
LEMMA FoundFields ==
    ASSUME NEW t \in Recs,
           NEW x, x = IF t.cert # -1 THEN Ask(t, "cert")
                      ELSE IF t.name # -1 THEN Ask(t, "name")
                      ELSE [t EXCEPT !.phase = "found"]
    PROVE  /\ x \in Recs /\ x.op = t.op /\ x.sid = t.sid /\ x.cce = t.cce /\ x.snce = t.snce
           /\ x.slot = t.slot /\ x.cert = t.cert /\ x.name = t.name
           /\ \/ t.cert # -1 /\ x.phase = "wants" /\ x.lock = "cert"
              \/ t.cert = -1 /\ t.name # -1 /\ x.phase = "wants" /\ x.lock = "name"
              \/ t.cert = -1 /\ t.name = -1 /\ x.phase = "found" /\ x.lock = t.lock
<1>1. "cert" \in LockNames /\ "name" \in LockNames /\ "found" \in Phases
  BY LockNamesFacts DEF Phases
<1>2. CASE t.cert # -1
  <2>1. x = Ask(t, "cert") BY <1>2
  <2> QED BY SMTT(30), <1>1, <1>2, <2>1, AskFields
<1>3. CASE t.cert = -1 /\ t.name # -1
  <2>1. x = Ask(t, "name") BY <1>3
  <2> QED BY SMTT(30), <1>1, <1>3, <2>1, AskFields
<1>4. CASE t.cert = -1 /\ t.name = -1
  <2>1. x = [t EXCEPT !.phase = "found"] BY <1>4
  <2> QED BY SMTT(30), <1>1, <1>4, <2>1, PhaseFields
<1> QED BY <1>2, <1>3, <1>4

LEMMA FindEntryIInv ==
    ASSUME ServerIInv, NEW p \in Procs, FindEntry(p)
    PROVE  ServerIInv'
<1> DEFINE r == proc[p]
           f == FindSID(r.sid)
           e == sidCacheData[f.slot]
           t == [r EXCEPT !.slot = f.slot, !.cert = e.cert, !.name = e.name]
           x == IF e.cert # -1 THEN Ask(t, "cert")
                ELSE IF e.name # -1 THEN Ask(t, "name")
                ELSE [t EXCEPT !.phase = "found"]
<1>0. /\ LockTypes /\ TableTypes /\ MutexHeld /\ EntriesComplete /\ alive \subseteq Procs
      /\ proc \in [Procs -> Recs] /\ p \in alive /\ r \in Recs /\ Working(r) /\ LookingUp(r)
  BY AliveFacts DEF FindEntry, Is, InOrder
<1>1. /\ r.phase = "in" /\ r.op = "lookup" /\ r.lock = "set" /\ Invalidate(f.out)
      /\ UNCHANGED <<next, certCacheData, nextCertCacheEntry, srvNameCacheData>>
  BY DEF FindEntry, Is
<1>2. \/ f.slot = Nobody /\ Leave(p, r)
      \/ f.slot # Nobody /\ Update(p, x) /\ UNCHANGED <<locks, alive, clock, cachedOnce>>
  BY DEF FindEntry
<1>3. /\ sidCacheData' \in [Slots -> Entries] /\ EntriesComplete'
      /\ \A k \in Slots \ f.out : sidCacheData'[k] = sidCacheData[k]
  BY <1>0, <1>1, InvalidateFacts
<1>4. Holds(p, "set") /\ r.slot = Nobody /\ r.sid \in Sessions
  BY <1>0, <1>1 DEF Holds, Working, LookingUp
<1>5. CASE Leave(p, r)
  <2>1. /\ proc'[p].phase = "leaving" /\ proc'[p].lock = "set" /\ proc'[p].op = "lookup"
        /\ proc'[p].sid = r.sid /\ proc'[p].slot = Nobody /\ clock' = clock
    BY <1>0, <1>1, <1>4, <1>5, LeaveFields
  <2>2. TableTypes' BY <1>0, <1>1, <1>3, <2>1 DEF TableTypes
  <2>3. InOrder(proc[p])' BY <1>4, <2>1 DEF InOrder, Working, Caching, LookingUp
  <2> QED BY <1>0, <1>1, <1>3, <1>4, <1>5, <2>2, <2>3, LeaveIInv
<1>6. CASE f.slot # Nobody /\ Update(p, x) /\ UNCHANGED <<locks, alive, clock, cachedOnce>>
  <2>1. /\ f.slot \in Slots /\ f.slot \notin f.out /\ e.valid /\ e.sid = r.sid
    BY <1>0, <1>6, FindSIDFacts
  <2>2. e \in Entries /\ sidCacheData'[f.slot] = e BY <1>0, <1>3, <2>1 DEF TableTypes
  <2>3. Complete(e) BY <1>0, <2>1 DEF EntriesComplete, TableTypes
  <2>a. e.cert \in CertIndexes /\ e.name \in NameIndexes BY <2>2 DEF Entries
  <2> HIDE DEF e, f
  <2>b. /\ t \in Recs /\ t.op = r.op /\ t.sid = r.sid /\ t.cce = r.cce /\ t.snce = r.snce
        /\ t.slot = f.slot /\ t.cert = e.cert /\ t.name = e.name /\ t.lock = r.lock
    BY <1>0, <2>1, <2>a DEF Recs
  <2> HIDE DEF t
  <2>c. x = IF t.cert # -1 THEN Ask(t, "cert")
            ELSE IF t.name # -1 THEN Ask(t, "name")
            ELSE [t EXCEPT !.phase = "found"]
    BY <2>b
  <2> HIDE DEF x
  <2>4. /\ x \in Recs /\ x.op = r.op /\ x.sid = r.sid /\ x.cce = r.cce /\ x.snce = r.snce
        /\ x.slot = f.slot /\ x.cert = e.cert /\ x.name = e.name
        /\ \/ e.cert # -1 /\ x.phase = "wants" /\ x.lock = "cert"
           \/ e.cert = -1 /\ e.name # -1 /\ x.phase = "wants" /\ x.lock = "name"
           \/ e.cert = -1 /\ e.name = -1 /\ x.phase = "found" /\ x.lock = r.lock
    BY SMTT(30), <2>b, <2>c, FoundFields
  <2>5. proc' \in [Procs -> Recs] /\ proc'[p] = x /\ Others(p)
    BY <1>0, <1>6, <2>4, UpdateFacts DEF Others
  <2>6. UNCHANGED <<mutex, lockPid, old, alive, clock>> BY <1>6 DEF locks
  <2>7. LockTypes' /\ TableTypes' BY <1>0, <1>1, <1>3, <2>6 DEF LockTypes, TableTypes
  <2>8. MutexHeld'
    <3>1. \A m \in LockNames : Holds(p, m)' => Holds(p, m) BY <1>1, <2>4, <2>5 DEF Holds
    <3> QED BY <1>0, <2>4, <2>5, <2>6, <3>1, LocksKept
  <2>9. InOrder(proc[p])'
    <3>1. r.cce = Nobody /\ r.snce = Nobody BY <1>0, <1>1 DEF LookingUp
    <3>2. Working(proc[p])' /\ Caching(proc[p])' BY <1>1, <1>4, <2>4, <2>5 DEF Working, Caching
    <3>a. Complete(x) BY <2>1, <2>3, <2>4 DEF Complete
    <3>b. /\ x.lock = "cert" => x.sid \in HasCert
          /\ x.lock = "name" => x.sid \notin HasCert /\ NameOf[x.sid] # Nobody
          /\ x.lock = "set" => x.sid \notin HasCert /\ NameOf[x.sid] = Nobody /\ x.phase = "found"
          /\ x.phase \in {"wants", "found"}
      BY <1>1, <2>4, <3>a DEF Complete
    <3>c. sidCacheData'[x.slot].valid /\ sidCacheData'[x.slot].sid = x.sid
      BY <2>1, <2>2, <2>4 DEF e
    <3>d. x.cce = Nobody /\ x.snce = Nobody /\ x.slot # Nobody BY <1>6, <2>4, <3>1
    <3>3. LookingUp(proc[p])'
      BY <2>5, <3>a, <3>b, <3>c, <3>d DEF LookingUp, Complete, OwnCert
    <3> QED BY <3>2, <3>3 DEF InOrder
  <2>10. \A q \in alive' \ {p} : InOrder(proc[q])' BY <1>0, <1>4, <2>5, <2>6, OthersInOrder
  <2> QED BY <1>3, <2>5, <2>7, <2>8, <2>9, <2>10, Together
<1> QED BY <1>2, <1>5, <1>6

-----------------------------------------------------------------------------
(* Death, time, and the poller.                                            *)

LEMMA DiesIInv ==
    ASSUME ServerIInv, NEW p \in Procs, Dies(p)
    PROVE  ServerIInv'
<1>0. /\ LockTypes /\ TableTypes /\ MutexHeld /\ EntriesComplete /\ alive \subseteq Procs
      /\ proc \in [Procs -> Recs]
  BY AliveFacts
<1>1. /\ alive' = alive \ {p} /\ Update(p, Idle)
      /\ UNCHANGED <<mutex, lockPid, old, tables, clock>>
  BY DEF Dies, locks
<1>2. proc' \in [Procs -> Recs] /\ Others(p) BY <1>0, <1>1, IdleFields, UpdateFacts DEF Others
<1>3. LockTypes' BY <1>0, <1>1 DEF LockTypes
<1>4. TableTypes' /\ EntriesComplete' /\ sidCacheData' = sidCacheData
  BY <1>0, <1>1 DEF TableTypes, EntriesComplete, tables
<1>5. MutexHeld' BY <1>0, <1>1, <1>2, LocksKept
<1>6. \A q \in alive' \ {p} : InOrder(proc[q])' BY <1>1, <1>2, <1>4, OthersInOrder
<1> QED BY <1>1, <1>2, <1>3, <1>4, <1>5, <1>6, Together

\* A step of no process, that leaves the tables alone.
LEMMA NoProcessIInv ==
    ASSUME ServerIInv, UNCHANGED <<proc, alive, tables>>, LockTypes', MutexHeld', clock' \in Nat
    PROVE  ServerIInv'
<1>0. TableTypes /\ EntriesComplete /\ proc \in [Procs -> Recs] /\ \A q \in alive : InOrder(proc[q])
  BY AliveFacts
<1>1. TableTypes' /\ EntriesComplete' /\ sidCacheData' = sidCacheData
  BY <1>0 DEF TableTypes, EntriesComplete, tables
<1>2. ASSUME NEW q \in alive PROVE InOrder(proc[q])'
  <2>1. proc'[q] = proc[q] /\ InOrder(proc[q]) BY <1>0
  <2> QED BY <1>1, <2>1 DEF InOrder, LookingUp
<1> QED BY <1>0, <1>1, <1>2, Together

LEMMA AgesIInv ==
    ASSUME ServerIInv, NEW l \in LockNames, Ages(l)
    PROVE  ServerIInv'
<1>0. LockTypes /\ TableTypes /\ MutexHeld BY AliveFacts
<1>1. LockTypes' /\ clock' \in Nat BY <1>0 DEF Ages, LockTypes, TableTypes
<1>2. MutexHeld' BY <1>0 DEF Ages, MutexHeld, Holds
<1> QED BY <1>1, <1>2, NoProcessIInv DEF Ages

LEMMA TickIInv ==
    ASSUME ServerIInv, Tick
    PROVE  ServerIInv'
<1>0. LockTypes /\ TableTypes /\ MutexHeld BY AliveFacts
<1>1. LockTypes' /\ clock' \in Nat BY SMTT(30), <1>0 DEF Tick, LockTypes, TableTypes, locks
<1>2. MutexHeld' BY <1>0 DEF Tick, MutexHeld, Holds, locks
<1> QED BY <1>1, <1>2, NoProcessIInv DEF Tick

\* The owner that is recorded has the mutex; when it is dead no one alive has.
LEMMA LockPollerIInv ==
    ASSUME ServerIInv, NEW l \in LockNames, LockPoller(l)
    PROVE  ServerIInv'
<1>0. LockTypes /\ TableTypes /\ MutexHeld /\ proc \in [Procs -> Recs] /\ alive \subseteq Procs
  BY AliveFacts
<1>1. /\ lockPid[l] # Nobody /\ lockPid[l] \notin alive
      /\ mutex' = [mutex EXCEPT ![l] = Nobody] /\ lockPid' = [lockPid EXCEPT ![l] = Nobody]
      /\ old' = old \ {l} /\ UNCHANGED <<alive, tables, clock, proc>>
  BY DEF LockPoller, Abandoned
<1>2. LockTypes' BY <1>0, <1>1 DEF LockTypes
<1>3. \A m \in LockNames : /\ mutex'[m] = IF m = l THEN Nobody ELSE mutex[m]
                           /\ lockPid'[m] = IF m = l THEN Nobody ELSE lockPid[m]
  BY <1>0, <1>1 DEF LockTypes
<1>4. mutex[l] \notin alive BY <1>0, <1>1 DEF MutexHeld
<1>5. ASSUME NEW q \in alive', NEW m \in LockNames, Holds(q, m)' PROVE mutex'[m] = q
  <2>1. Holds(q, m) /\ q \in alive BY <1>1, <1>5 DEF Holds
  <2>2. mutex[m] = q BY <1>0, <2>1 DEF MutexHeld
  <2> QED BY <1>3, <1>4, <2>1, <2>2
<1>6. \A m \in LockNames : lockPid'[m] # Nobody => lockPid'[m] = mutex'[m]
  BY <1>0, <1>3 DEF MutexHeld
<1>7. ASSUME NEW q \in alive', proc'[q].phase = "leaving" PROVE lockPid'[proc'[q].lock] = Nobody
  <2>1. q \in alive /\ proc'[q] = proc[q] /\ proc[q].lock \in LockNames BY <1>0, <1>1 DEF Recs
  <2> QED BY SMTT(30), <1>0, <1>3, <1>7, <2>1 DEF MutexHeld
<1>8. MutexHeld' BY <1>5, <1>6, <1>7 DEF MutexHeld
<1>9. clock' \in Nat BY <1>0, <1>1 DEF TableTypes
<1> QED BY <1>1, <1>2, <1>8, <1>9, NoProcessIInv

-----------------------------------------------------------------------------
(* The invariant holds.                                                    *)

LEMMA InitServerIInv == ServerInit => ServerIInv
<1> SUFFICES ASSUME ServerInit PROVE ServerIInv
  OBVIOUS
<1>1. NoEntry \in Entries /\ NoEntry.valid = FALSE
  BY SMTT(30), SizesAssumption DEF NoEntry, Entries, Ids, CertIndexes, NameIndexes
<1>2. LockTypes BY DEF ServerInit, LockTypes
<1>3. TableTypes
  <2>1. 0 \in Slots /\ 0 \in 0..(NumCerts - 1) BY SMTT(30), SizesAssumption DEF Slots
  <2> QED BY <1>1, <2>1 DEF ServerInit, TableTypes, Slots, Ids, Names
<1>4. proc \in [Procs -> Recs] BY IdleFields DEF ServerInit
<1>5. /\ \A p \in Procs : proc[p] = Idle
      /\ Idle.op = "idle" /\ Idle.phase = "out" /\ Idle.lock = "set" /\ Idle.slot = Nobody
  BY IdleFields DEF ServerInit
<1>6. MutexHeld BY <1>5 DEF ServerInit, MutexHeld, Holds
<1>7. EntriesComplete BY <1>1 DEF ServerInit, EntriesComplete
<1>8. \A p \in alive : InOrder(proc[p])
  BY <1>5 DEF ServerInit, InOrder, Working, Caching, LookingUp
<1> QED BY <1>2, <1>3, <1>4, <1>6, <1>7, <1>8, ServerTypes DEF ServerIInv

LEMMA NextServerIInv ==
    ASSUME ServerIInv, [ServerNext]_serverVars
    PROVE  ServerIInv'
<1>1. ASSUME NEW p \in Procs, ServerStep(p) PROVE ServerIInv'
  <2>1. CASE \E s \in Sessions : ssl_ServerCacheSessionID(p, s) BY <2>1, CacheSessionIInv
  <2>2. CASE \E s \in Sessions : ServerSessionIDLookup(p, s) \/ ssl_ServerUncacheSessionID(p, s)
    BY <2>2, OtherCallIInv
  <2>3. CASE LockMutex(p) BY <2>3, LockMutexIInv
  <2>4. CASE RecordOwner(p) BY SMTT(30), <2>4, RecordOwnerIInv
  <2>5. CASE UnlockMutex(p) BY <2>5, UnlockMutexIInv
  <2>6. CASE CacheSrvName(p) BY <2>6, CacheSrvNameIInv
  <2>7. CASE CacheCert(p) BY <2>7, CacheCertIInv
  <2>8. CASE WriteEntry(p) BY <2>8, WriteEntryIInv
  <2>9. CASE FindEntry(p) BY <2>9, FindEntryIInv
  <2>10. CASE CopyCert(p) BY <2>10, CopyCertIInv
  <2>11. CASE CopyName(p) BY <2>11, CopyNameIInv
  <2>12. CASE CopyEntry(p) BY <2>12, CopyEntryIInv
  <2>13. CASE UncacheEntry(p) BY <2>13, UncacheEntryIInv
  <2>14. CASE Dies(p) BY <2>14, DiesIInv
  <2> QED BY <1>1, <2>1, <2>2, <2>3, <2>4, <2>5, <2>6, <2>7, <2>8, <2>9, <2>10, <2>11, <2>12,
             <2>13, <2>14 DEF ServerStep
<1>2. ASSUME NEW l \in LockNames, Ages(l) \/ LockPoller(l) PROVE ServerIInv'
  BY <1>2, AgesIInv, LockPollerIInv
<1>3. CASE Tick BY <1>3, TickIInv
<1>4. CASE UNCHANGED serverVars
  <2>1. LockTypes /\ TableTypes /\ MutexHeld BY AliveFacts
  <2>2. UNCHANGED <<mutex, lockPid, old, alive, proc, tables, clock>>
    BY <1>4 DEF serverVars, locks
  <2>3. LockTypes' /\ clock' \in Nat BY <2>1, <2>2 DEF LockTypes, TableTypes
  <2>4. MutexHeld' BY <2>1, <2>2 DEF MutexHeld, Holds
  <2> QED BY <2>2, <2>3, <2>4, NoProcessIInv
<1> QED BY <1>1, <1>2, <1>3, <1>4 DEF ServerNext

\* The mutex of a lock is with the one live process that works under it, and
\* each process has of the session it puts in or looks up what it should have
\* by the lock it is at (LockSidCacheLock, ServerSessionIDLookup).
THEOREM ServerIInvHolds == ServerSpec => []ServerIInv
<1>1. ServerInit => ServerIInv BY InitServerIInv
<1>2. ServerIInv /\ [ServerNext]_serverVars => ServerIInv' BY NextServerIInv
<1> QED BY <1>1, <1>2, PTL DEF ServerSpec

\* The tables of sslsnce.c, their indexes and the locks keep their types.
THEOREM ServerTypeCorrect == ServerSpec => []ServerTypeOK
<1>1. ServerIInv => ServerTypeOK BY DEF ServerIInv
<1> QED BY <1>1, ServerIInvHolds, PTL

\* Two live processes never work in the same table, although LockPoller releases
\* the mutex of a lock whose recorded owner is gone: the owner is recorded after
\* the mutex is taken and cleared before it is released, so the mutex that is
\* released is that owner's.
THEOREM LocksExclude == ServerSpec => []OneHolder
<1>1. ServerIInv => OneHolder BY DEF ServerIInv, MutexHeld, OneHolder
<1> QED BY <1>1, ServerIInvHolds, PTL

\* A lookup returns a valid entry with the certificate of the session's own
\* client and its own server name, for tables of any size, whatever is
\* overwritten between the locks that ServerSessionIDLookup takes.
THEOREM LookupsReturnTheirOwn == ServerSpec => []FoundIsOwn
<1>1. ServerIInv => FoundIsOwn
  BY DEF ServerIInv, InOrder, LookingUp, FoundIsOwn, Found, Is, OwnCert
<1> QED BY <1>1, ServerIInvHolds, PTL
=============================================================================
