------------------------ MODULE SoftokenObjectsProofs ------------------------
(***************************************************************************)
(* The sessions and session objects of a slot are counted exactly, for any *)
(* finite set of threads and any sessions, objects and buckets.  The       *)
(* invariant says which reference counts what: a reference of a session or *)
(* an object is that of its queue, or of one thread.                       *)
(***************************************************************************)
EXTENDS SoftokenObjects, FiniteSetTheorems, TLAPS

\* The leaves are Zenon's unless they name SMT.
USE ZenonT(20)

\* A thread at one of these has dropped the last reference of its session.
Ending == {"clear", "destroy"}

PCs == {"idle", "handle", "add", "find", "delete", "close", "close_all",
        "free_session", "clear", "destroy", "free_object"}

\* The threads with a reference on a session, and on an object.
SUsers(s) == {t \in Threads : ses[t] = s /\ pc[t] \notin Ending}
OUsers(o) == {t \in Threads : obj[t] = o}

\* The queue reference of an object is in the queues or in a thread's hands.
Queued(o) == o \in hashed \/ \E t \in Threads : o \in held[t]

SessionsCounted ==
    \A s \in Sessions : sRef[s] = Cardinality(SUsers(s)) + (IF s \in queued THEN 1 ELSE 0)

ObjectsCounted ==
    \A o \in Objects : oRef[o] = Cardinality(OUsers(o)) + (IF Queued(o) THEN 1 ELSE 0)

\* What a thread has in its hands, by where it is.
Place(t) ==
    /\ ses[t] = None <=> pc[t] \in {"idle", "close_all", "free_object"}
    /\ pc[t] \in {"handle", "add", "delete", "free_object"} => obj[t] # None
    /\ pc[t] \in {"idle", "close_all", "find", "close"} => obj[t] = None
    /\ held[t] # {} => pc[t] \in {"add", "destroy", "free_session"}
    /\ pc[t] = "add" => held[t] = {obj[t]}
    /\ pc[t] = "close_all" => bucket[t] < Buckets

Places == \A t \in Threads : Place(t)

\* A session is alive while it is queued or some thread works with it; the
\* thread that destroys it is the only one.
SessionsKept ==
    /\ \A s \in Sessions :
          sState[s] = "alive" <=> s \in queued \/ \E t \in Threads : ses[t] = s
    /\ \A t \in Threads : pc[t] \in Ending =>
          ses[t] \notin queued /\ \A u \in Threads \ {t} : ses[u] # ses[t]

\* An object is alive while it is queued or some thread uses it; there is one
\* queue reference, and none yet of an object that is being made.
ObjectsKept ==
    /\ \A o \in Objects : oState[o] = "alive" <=> Queued(o) \/ OUsers(o) # {}
    /\ \A t \in Threads : \A o \in held[t] :
          o \notin hashed /\ \A u \in Threads \ {t} : o \notin held[u]
    /\ \A t \in Threads : pc[t] = "handle" =>
          /\ obj[t] \notin hashed
          /\ \A u \in Threads : obj[t] \notin held[u] /\ (u # t => obj[u] # obj[t])

\* No object is left in a session that is about to be freed.
Emptied == \A t \in Threads : pc[t] = "destroy" => list[ses[t]] = {}

IInv ==
    /\ TypeOK /\ SessionsCounted /\ ObjectsCounted /\ Places
    /\ SessionsKept /\ ObjectsKept /\ Emptied /\ QueuesAgree

\* What no thread but t changes of its own.
Others(t) ==
    \A u \in Threads \ {t} :
        /\ pc'[u] = pc[u] /\ ses'[u] = ses[u] /\ obj'[u] = obj[u]
        /\ held'[u] = held[u] /\ bucket'[u] = bucket[u]

\* What a thread and a queue count for.
SUses(t, s) == IF ses[t] = s /\ pc[t] \notin Ending THEN 1 ELSE 0
OUses(t, o) == IF obj[t] = o THEN 1 ELSE 0
SQueue(s) == IF s \in queued THEN 1 ELSE 0
OQueue(o) == IF Queued(o) THEN 1 ELSE 0

-----------------------------------------------------------------------------
(* Counting.                                                               *)

\* A subset of the threads is finite, and counted by zero only if empty.
LEMMA FiniteThreads ==
    ASSUME NEW S \in SUBSET Threads
    PROVE  /\ IsFiniteSet(S) /\ Cardinality(S) \in Nat
           /\ Cardinality(S) = 0 <=> S = {}
BY ThreadsAssumption, FS_Subset, FS_CardinalityType, FS_EmptySet

\* Two sets of threads that differ in t at most.
LEMMA CountStep ==
    ASSUME NEW S \in SUBSET Threads, NEW T \in SUBSET Threads, NEW t \in Threads,
           S \ {t} = T \ {t}
    PROVE  Cardinality(T) = Cardinality(S) + (IF t \in T THEN 1 ELSE 0)
                                           - (IF t \in S THEN 1 ELSE 0)
<1>1. IsFiniteSet(S) /\ IsFiniteSet(T) /\ Cardinality(S) \in Nat /\ Cardinality(T) \in Nat
  BY FiniteThreads
<1>2. Cardinality(S \ {t}) = IF t \in S THEN Cardinality(S) - 1 ELSE Cardinality(S)
  BY <1>1, FS_RemoveElement
<1>3. Cardinality(T \ {t}) = IF t \in T THEN Cardinality(T) - 1 ELSE Cardinality(T)
  BY <1>1, FS_RemoveElement
<1>4. Cardinality(S \ {t}) = Cardinality(T \ {t}) OBVIOUS
<1> QED BY SMTT(30), <1>1, <1>2, <1>3, <1>4

\* A count of one or more that has an element t is one exactly if t is alone.
LEMMA CountAlone ==
    ASSUME NEW S \in SUBSET Threads, NEW t \in S
    PROVE  /\ Cardinality(S) \in Nat /\ Cardinality(S) >= 1
           /\ Cardinality(S) = 1 <=> S \ {t} = {}
<1>1. Cardinality(S) \in Nat /\ IsFiniteSet(S) BY FiniteThreads
<1>2. Cardinality(S \ {t}) = Cardinality(S) - 1 BY <1>1, FS_RemoveElement
<1>3. Cardinality(S \ {t}) \in Nat /\ (Cardinality(S \ {t}) = 0 <=> S \ {t} = {})
  BY FiniteThreads
<1> QED BY SMTT(30), <1>1, <1>2, <1>3

\* The references of a session of which t has one.
LEMMA SessionAlone ==
    ASSUME TypeOK, SessionsCounted, NEW t \in Threads, NEW s \in Sessions,
           ses[t] = s, pc[t] \notin Ending
    PROVE  /\ sRef[s] \in Nat /\ sRef[s] >= 1
           /\ s \in queued => sRef[s] >= 2
           /\ sRef[s] = 1 <=> s \notin queued /\ SUsers(s) \ {t} = {}
<1>1. t \in SUsers(s) /\ SUsers(s) \in SUBSET Threads BY DEF SUsers
<1>2. sRef[s] = Cardinality(SUsers(s)) + (IF s \in queued THEN 1 ELSE 0)
  BY DEF SessionsCounted
<1>3. /\ Cardinality(SUsers(s)) \in Nat /\ Cardinality(SUsers(s)) >= 1
      /\ Cardinality(SUsers(s)) = 1 <=> SUsers(s) \ {t} = {}
  BY <1>1, CountAlone
<1> QED BY SMTT(30), <1>2, <1>3

\* The references of an object of which t has one.
LEMMA ObjectAlone ==
    ASSUME TypeOK, ObjectsCounted, NEW t \in Threads, NEW o \in Objects, obj[t] = o
    PROVE  /\ oRef[o] \in Nat /\ oRef[o] >= 1
           /\ oRef[o] = 1 <=> ~Queued(o) /\ OUsers(o) \ {t} = {}
<1>1. t \in OUsers(o) /\ OUsers(o) \in SUBSET Threads BY DEF OUsers
<1>2. oRef[o] = Cardinality(OUsers(o)) + (IF Queued(o) THEN 1 ELSE 0)
  BY DEF ObjectsCounted
<1>3. /\ Cardinality(OUsers(o)) \in Nat /\ Cardinality(OUsers(o)) >= 1
      /\ Cardinality(OUsers(o)) = 1 <=> OUsers(o) \ {t} = {}
  BY <1>1, CountAlone
<1> QED BY SMTT(30), <1>2, <1>3

\* The references of an object of which the queues have one.
LEMMA ObjectQueued ==
    ASSUME TypeOK, ObjectsCounted, NEW o \in Objects, Queued(o)
    PROVE  /\ oRef[o] \in Nat /\ oRef[o] >= 1
           /\ oRef[o] = 1 <=> OUsers(o) = {}
<1>1. OUsers(o) \in SUBSET Threads BY DEF OUsers
<1>2. oRef[o] = Cardinality(OUsers(o)) + 1 BY DEF ObjectsCounted
<1>3. Cardinality(OUsers(o)) \in Nat /\ (Cardinality(OUsers(o)) = 0 <=> OUsers(o) = {})
  BY <1>1, FiniteThreads
<1> QED BY SMTT(30), <1>2, <1>3

\* A step of t keeps the count of the sessions, if the reference counts change
\* by what the queue and t gain and lose.
LEMMA SessionsStep ==
    ASSUME SessionsCounted, NEW t \in Threads, Others(t),
           \A s \in Sessions :
              sRef'[s] = sRef[s] + SQueue(s)' - SQueue(s) + SUses(t, s)' - SUses(t, s)
    PROVE  SessionsCounted'
<1> SUFFICES ASSUME NEW s \in Sessions
             PROVE  sRef'[s] = Cardinality(SUsers(s)') + SQueue(s)'
  BY DEF SessionsCounted, SQueue
<1>1. SUsers(s) \in SUBSET Threads /\ SUsers(s)' \in SUBSET Threads BY DEF SUsers
<1>2. SUsers(s) \ {t} = SUsers(s)' \ {t} BY DEF SUsers, Others
<1>3. Cardinality(SUsers(s)') = Cardinality(SUsers(s)) + SUses(t, s)' - SUses(t, s)
  <2>1. (t \in SUsers(s) <=> ses[t] = s /\ pc[t] \notin Ending)
        /\ (t \in SUsers(s)' <=> ses'[t] = s /\ pc'[t] \notin Ending)
    BY DEF SUsers
  <2> QED BY SMTT(30), <1>1, <1>2, <2>1, CountStep DEF SUses
<1>4. sRef[s] = Cardinality(SUsers(s)) + SQueue(s) BY DEF SessionsCounted, SQueue
<1>5. Cardinality(SUsers(s)) \in Nat BY <1>1, FiniteThreads
<1>6. /\ SQueue(s) \in Int /\ SQueue(s)' \in Int
      /\ SUses(t, s) \in Int /\ SUses(t, s)' \in Int
  BY SMTT(30) DEF SQueue, SUses
<1> QED BY SMTT(30), <1>3, <1>4, <1>5, <1>6

\* The same of the objects.
LEMMA ObjectsStep ==
    ASSUME ObjectsCounted, NEW t \in Threads, Others(t),
           \A o \in Objects :
              oRef'[o] = oRef[o] + OQueue(o)' - OQueue(o) + OUses(t, o)' - OUses(t, o)
    PROVE  ObjectsCounted'
<1> SUFFICES ASSUME NEW o \in Objects
             PROVE  oRef'[o] = Cardinality(OUsers(o)') + OQueue(o)'
  BY DEF ObjectsCounted, OQueue
<1>1. OUsers(o) \in SUBSET Threads /\ OUsers(o)' \in SUBSET Threads BY DEF OUsers
<1>2. OUsers(o) \ {t} = OUsers(o)' \ {t} BY DEF OUsers, Others
<1>3. Cardinality(OUsers(o)') = Cardinality(OUsers(o)) + OUses(t, o)' - OUses(t, o)
  <2>1. (t \in OUsers(o) <=> obj[t] = o) /\ (t \in OUsers(o)' <=> obj'[t] = o)
    BY DEF OUsers
  <2> QED BY SMTT(30), <1>1, <1>2, <2>1, CountStep DEF OUses
<1>4. oRef[o] = Cardinality(OUsers(o)) + OQueue(o) BY DEF ObjectsCounted, OQueue
<1>5. Cardinality(OUsers(o)) \in Nat BY <1>1, FiniteThreads
<1>6. /\ OQueue(o) \in Int /\ OQueue(o)' \in Int
      /\ OUses(t, o) \in Int /\ OUses(t, o)' \in Int
  BY SMTT(30) DEF OQueue, OUses
<1> QED BY SMTT(30), <1>3, <1>4, <1>5, <1>6

\* A step of t keeps the places of all if it keeps that of t.
LEMMA PlacesStep ==
    ASSUME Places, NEW t \in Threads, Others(t), Place(t)'
    PROVE  Places'
BY DEF Places, Place, Others

-----------------------------------------------------------------------------
(* Steps that leave one side alone.                                        *)

\* The sessions, if t keeps its session and its reference.
LEMMA SessionsSame ==
    ASSUME IInv, NEW t \in Threads, Others(t), UNCHANGED sVars,
           ses'[t] = ses[t], pc'[t] \in Ending <=> pc[t] \in Ending
    PROVE  SessionsCounted' /\ SessionsKept'
<1>1. sRef' = sRef /\ queued' = queued /\ sState' = sState BY DEF sVars
<1>2. \A s \in Sessions : SQueue(s)' = SQueue(s) /\ SUses(t, s)' = SUses(t, s)
  BY <1>1 DEF SQueue, SUses
<1>3. \A s \in Sessions :
         sRef'[s] = sRef[s] + SQueue(s)' - SQueue(s) + SUses(t, s)' - SUses(t, s)
  <2> SUFFICES ASSUME NEW s \in Sessions
               PROVE  sRef[s] = sRef[s] + SQueue(s) - SQueue(s) + SUses(t, s) - SUses(t, s)
    BY <1>1, <1>2
  <2>1. SQueue(s) \in Int /\ SUses(t, s) \in Int /\ sRef[s] \in Int
    BY SMTT(30) DEF SQueue, SUses, IInv, TypeOK
  <2> QED BY SMTT(30), <2>1
<1>4. SessionsCounted' BY <1>3, SessionsStep DEF IInv
<1>5. \A u \in Threads : ses'[u] = ses[u] /\ (pc'[u] \in Ending <=> pc[u] \in Ending)
  BY DEF Others
<1>6. SessionsKept' BY <1>1, <1>5 DEF IInv, SessionsKept
<1> QED BY <1>4, <1>6

\* The objects, if t keeps what it has in its hands.
LEMMA ObjectsSame ==
    ASSUME IInv, NEW t \in Threads, Others(t), UNCHANGED <<oVars, hashed>>,
           obj'[t] = obj[t], held'[t] = held[t], pc'[t] = "handle" => pc[t] = "handle"
    PROVE  ObjectsCounted' /\ ObjectsKept'
<1>1. oRef' = oRef /\ oState' = oState /\ hashed' = hashed BY DEF oVars
<1>2. \A u \in Threads : /\ obj'[u] = obj[u] /\ held'[u] = held[u]
                         /\ pc'[u] = "handle" => pc[u] = "handle"
  BY DEF Others
<1>3. \A o : (Queued(o)' <=> Queued(o)) BY <1>1, <1>2 DEF Queued
<1>4. \A o \in Objects : OQueue(o)' = OQueue(o) /\ OUses(t, o)' = OUses(t, o)
  BY <1>3 DEF OQueue, OUses
<1>5. \A o \in Objects :
         oRef'[o] = oRef[o] + OQueue(o)' - OQueue(o) + OUses(t, o)' - OUses(t, o)
  <2> SUFFICES ASSUME NEW o \in Objects
               PROVE  oRef[o] = oRef[o] + OQueue(o) - OQueue(o) + OUses(t, o) - OUses(t, o)
    BY <1>1, <1>4
  <2>1. OQueue(o) \in Int /\ OUses(t, o) \in Int /\ oRef[o] \in Int
    BY SMTT(30) DEF OQueue, OUses, IInv, TypeOK
  <2> QED BY SMTT(30), <2>1
<1>6. ObjectsCounted' BY <1>5, ObjectsStep DEF IInv
<1>7. \A o : OUsers(o)' = OUsers(o) BY <1>2 DEF OUsers
<1>8. ObjectsKept'
  <2>1. \A o \in Objects : oState'[o] = "alive" <=> Queued(o)' \/ OUsers(o)' # {}
    BY <1>1, <1>3, <1>7 DEF IInv, ObjectsKept
  <2>2. \A u \in Threads : \A o \in held'[u] :
           o \notin hashed' /\ \A v \in Threads \ {u} : o \notin held'[v]
    BY <1>1, <1>2 DEF IInv, ObjectsKept
  <2>3. \A u \in Threads : pc'[u] = "handle" =>
           /\ obj'[u] \notin hashed'
           /\ \A v \in Threads : obj'[u] \notin held'[v] /\ (v # u => obj'[v] # obj'[u])
    BY <1>1, <1>2 DEF IInv, ObjectsKept
  <2> QED BY <2>1, <2>2, <2>3 DEF ObjectsKept
<1> QED BY <1>6, <1>8

\* The queues, if no session dies.
LEMMA QueuesSame ==
    ASSUME IInv, NEW t \in Threads, Others(t), UNCHANGED queues,
           \A s \in Sessions : sState[s] = "alive" => sState'[s] = "alive",
           pc'[t] = "destroy" => pc[t] = "destroy" /\ ses'[t] = ses[t]
    PROVE  QueuesAgree' /\ Emptied'
<1>1. list' = list /\ hashed' = hashed /\ owner' = owner BY DEF queues
<1>2. QueuesAgree' BY <1>1 DEF IInv, QueuesAgree
<1>3. Emptied' BY <1>1 DEF IInv, Emptied, Others
<1> QED BY <1>2, <1>3

-----------------------------------------------------------------------------
(* The steps, one by one: sessions.                                        *)

\* What the types and the place say of a thread.
LEMMA ThreadFacts ==
    ASSUME IInv, NEW t \in Threads
    PROVE  /\ TypeOK /\ Place(t)
           /\ ses[t] \in Sessions \cup {None} /\ obj[t] \in Objects \cup {None}
           /\ held[t] \subseteq Objects /\ bucket[t] \in 0..Buckets
           /\ None \notin Sessions /\ None \notin Objects
BY NoneAssumption DEF IInv, TypeOK, Places

\* A new session has one reference, its bucket's.
LEMMA OpenSessionIInv ==
    ASSUME IInv, NEW t \in Threads, NEW s \in Sessions, NSC_OpenSession(t, s)
    PROVE  IInv'
<1>1. /\ sState[s] = "unused" /\ queued' = queued \cup {s}
      /\ sState'[s] = "alive" /\ sRef'[s] = 1
      /\ \A r \in Sessions \ {s} : sState'[r] = sState[r] /\ sRef'[r] = sRef[r]
      /\ pc' = pc /\ ses' = ses /\ obj' = obj /\ held' = held /\ bucket' = bucket
      /\ UNCHANGED <<oVars, hashed, queues>>
  BY DEF NSC_OpenSession, IInv, TypeOK, tVars, queues
<1>2. TypeOK' BY DEF NSC_OpenSession, IInv, TypeOK, oVars, queues, tVars
<1>3. Others(t) BY <1>1 DEF Others
<1>4. s \notin queued /\ \A u \in Threads : ses[u] # s
  BY <1>1 DEF IInv, SessionsKept
<1>5. sRef[s] = 0
  <2>1. SUsers(s) = {} BY <1>4 DEF SUsers
  <2> QED BY SMTT(30), <1>4, <2>1, FS_EmptySet DEF IInv, SessionsCounted
<1>6. SessionsCounted'
  <2>1. \A r \in Sessions : SUses(t, r)' = SUses(t, r) /\ SUses(t, r) \in Int
    BY SMTT(30), <1>1 DEF SUses
  <2>2. \A r \in Sessions : sRef[r] \in Int BY SMTT(30) DEF IInv, TypeOK
  <2>3. \A r \in Sessions :
           sRef'[r] = sRef[r] + SQueue(r)' - SQueue(r) + SUses(t, r)' - SUses(t, r)
    BY SMTT(30), <1>1, <1>4, <1>5, <2>1, <2>2 DEF SQueue
  <2> QED BY <1>3, <2>3, SessionsStep DEF IInv
<1>7. SessionsKept' BY <1>1, <1>4 DEF IInv, SessionsKept
<1>8. Places' BY <1>1 DEF IInv, Places, Place
<1>9. ObjectsCounted' /\ ObjectsKept' BY <1>1, <1>3, ObjectsSame
<1>10. QueuesAgree' /\ Emptied' BY <1>1, <1>3, QueuesSame
<1> QED BY <1>2, <1>6, <1>7, <1>8, <1>9, <1>10 DEF IInv

\* A thread without a session takes a reference on one that is queued.
LEMMA GainSession ==
    ASSUME IInv, NEW t \in Threads, NEW s \in Sessions, Others(t), s \in queued,
           ses[t] = None, ses'[t] = s, pc'[t] \notin Ending,
           sState' = sState, queued' = queued, sRef' = [sRef EXCEPT ![s] = @ + 1]
    PROVE  SessionsCounted' /\ SessionsKept'
<1>1. sRef'[s] = sRef[s] + 1 /\ \A r \in Sessions \ {s} : sRef'[r] = sRef[r]
  BY DEF IInv, TypeOK
<1>2. \A r \in Sessions : SUses(t, r) = 0 /\ SUses(t, r)' = IF r = s THEN 1 ELSE 0
  BY ThreadFacts DEF SUses
<1>3. \A r \in Sessions : SQueue(r)' = SQueue(r) /\ SQueue(r) \in Int BY SMTT(30) DEF SQueue
<1>4. \A r \in Sessions : sRef[r] \in Int BY SMTT(30) DEF IInv, TypeOK
<1>5. \A r \in Sessions :
         sRef'[r] = sRef[r] + SQueue(r)' - SQueue(r) + SUses(t, r)' - SUses(t, r)
  BY SMTT(30), <1>1, <1>2, <1>3, <1>4
<1>6. SessionsCounted' BY <1>5, SessionsStep DEF IInv
<1>7. \A r \in Sessions : (\E u \in Threads : ses'[u] = r) => sState[r] = "alive"
  <2> SUFFICES ASSUME NEW r \in Sessions, NEW u \in Threads, ses'[u] = r
               PROVE  sState[r] = "alive"
    OBVIOUS
  <2>1. CASE u = t BY <2>1 DEF IInv, SessionsKept
  <2>2. CASE u # t BY <2>2 DEF IInv, SessionsKept, Others
  <2> QED BY <2>1, <2>2
<1>8. \A r \in Sessions : (\E u \in Threads : ses[u] = r) => \E u \in Threads : ses'[u] = r
  BY ThreadFacts DEF Others
<1>9. \A u \in Threads : pc'[u] \in Ending =>
         ses'[u] \notin queued' /\ \A v \in Threads \ {u} : ses'[v] # ses'[u]
  <2> SUFFICES ASSUME NEW u \in Threads, pc'[u] \in Ending
               PROVE  ses'[u] \notin queued /\ \A v \in Threads \ {u} : ses'[v] # ses'[u]
    OBVIOUS
  <2>1. u # t /\ pc[u] \in Ending /\ ses'[u] = ses[u] BY DEF Others
  <2>2. ses[u] \notin queued /\ \A v \in Threads \ {u} : ses[v] # ses[u]
    BY <2>1 DEF IInv, SessionsKept
  <2> QED BY <2>1, <2>2 DEF Others
<1>10. SessionsKept' BY <1>7, <1>8, <1>9 DEF IInv, SessionsKept
<1> QED BY <1>6, <1>10

\* Finding a session under the bucket's lock adds a reference to one in use.
LEMMA SessionFromHandleIInv ==
    ASSUME IInv, NEW t \in Threads, NEW s \in Sessions, NEW call \in Calls,
           sftk_SessionFromHandle(t, s, call)
    PROVE  IInv'
<1>1. /\ pc[t] = "idle" /\ pc'[t] = call /\ ses'[t] = s /\ s \in queued
      /\ obj' = obj /\ held' = held /\ bucket' = bucket
      /\ sState' = sState /\ queued' = queued /\ sRef' = [sRef EXCEPT ![s] = @ + 1]
      /\ UNCHANGED <<oVars, hashed, queues>>
  BY DEF sftk_SessionFromHandle, Goto, IInv, TypeOK, queues
<1>2. TypeOK' BY SMTT(30) DEF sftk_SessionFromHandle, Goto, Calls, IInv, TypeOK, oVars, queues
<1>3. Others(t) BY DEF sftk_SessionFromHandle, Goto, IInv, TypeOK, Others
<1>4. call \in {"find", "close"} /\ call \notin Ending BY DEF Calls, Ending
<1>5. Place(t)' BY <1>1, <1>4, ThreadFacts DEF Place
<1>6. Places' BY <1>3, <1>5, PlacesStep DEF IInv
<1>7. ses[t] = None BY <1>1, ThreadFacts DEF Place
<1>8. SessionsCounted' /\ SessionsKept' BY <1>1, <1>3, <1>4, <1>7, GainSession
<1>9. ObjectsCounted' /\ ObjectsKept'
  <2>1. pc'[t] # "handle" BY <1>1, <1>4
  <2> QED BY <1>1, <1>3, <2>1, ObjectsSame
<1>10. QueuesAgree' /\ Emptied'
  <2>1. pc'[t] # "destroy" BY <1>1, <1>4
  <2> QED BY <1>1, <1>3, <2>1, QueuesSame
<1> QED BY <1>2, <1>6, <1>8, <1>9, <1>10 DEF IInv

\* Where a thread goes on after its session.
LEMMA AfterSessionPlace ==
    ASSUME IInv, NEW t \in Threads
    PROVE  /\ AfterSession(t) \in {"free_object", "close_all", "idle"}
           /\ AfterSession(t) = "free_object" <=> obj[t] # None
           /\ AfterSession(t) = "close_all" => bucket[t] < Buckets
BY DEF AfterSession

\* A thread drops its reference on a session: the last one, and it goes on to
\* destroy it, or not, and it has no session any more.
LEMMA FreeSessionIInv ==
    ASSUME IInv, NEW t \in Threads, sftk_FreeSession(t)
    PROVE  IInv'
<1> DEFINE s == ses[t]
           last == sRef[ses[t]] = 1
<1>1. /\ pc[t] = "free_session" /\ held[t] = {}
      /\ pc'[t] = (IF last THEN "clear" ELSE AfterSession(t))
      /\ ses'[t] = (IF last THEN s ELSE None)
      /\ obj' = obj /\ held' = held /\ bucket' = bucket
      /\ sState' = sState /\ queued' = queued /\ sRef' = [sRef EXCEPT ![s] = @ - 1]
      /\ UNCHANGED <<oVars, hashed, queues>>
  BY DEF sftk_FreeSession, Goto, IInv, TypeOK, queues
<1>2. Others(t) BY DEF sftk_FreeSession, Goto, IInv, TypeOK, Others
<1>3. s \in Sessions BY <1>1, ThreadFacts DEF Place
<1>4. pc[t] \notin Ending BY <1>1 DEF Ending
<1>5. /\ sRef[s] \in Nat /\ sRef[s] >= 1
      /\ last <=> s \notin queued /\ SUsers(s) \ {t} = {}
  BY <1>3, <1>4, ThreadFacts, SessionAlone DEF IInv
<1>6. /\ pc'[t] \in {"clear", "free_object", "close_all", "idle"}
      /\ ses'[t] \in Sessions \cup {None} /\ sRef[s] - 1 \in Nat
  BY SMTT(30), <1>1, <1>3, <1>5, AfterSessionPlace
<1>7. TypeOK'
  <2>1. pc' = [pc EXCEPT ![t] = pc'[t]] /\ ses' = [ses EXCEPT ![t] = ses'[t]]
    BY SMTT(30) DEF sftk_FreeSession, Goto, IInv, TypeOK
  <2>2. sRef' \in [Sessions -> Nat] BY <1>1, <1>3, <1>6 DEF IInv, TypeOK
  <2>3. ses' \in [Threads -> Sessions \cup {None}] BY <1>6, <2>1 DEF IInv, TypeOK
  <2>4. pc' \in [Threads -> PCs] BY <1>6, <2>1 DEF IInv, TypeOK, PCs
  <2> QED BY <1>1, <2>2, <2>3, <2>4 DEF IInv, TypeOK, PCs, oVars, queues
<1>8. last => \A u \in Threads \ {t} : ses[u] # s
  <2> SUFFICES ASSUME last, NEW u \in Threads \ {t}, ses[u] = s PROVE FALSE
    OBVIOUS
  <2>1. u \notin SUsers(s) BY <1>5
  <2>2. pc[u] \in Ending BY <2>1 DEF SUsers
  <2> QED BY <2>2 DEF IInv, SessionsKept
<1>9. ~last => s \in queued \/ \E u \in Threads \ {t} : ses[u] = s
  BY <1>5 DEF SUsers
<1> HIDE DEF last, s
<1>10. s = ses[t] BY DEF s
<1>11. pc'[t] \in Ending <=> last BY <1>1, AfterSessionPlace DEF Ending
<1>12. SessionsCounted'
  <2>1. sRef'[s] = sRef[s] - 1 /\ \A r \in Sessions \ {s} : sRef'[r] = sRef[r]
    BY <1>1, <1>3 DEF IInv, TypeOK
  <2>2. \A r \in Sessions : SUses(t, r) = (IF r = s THEN 1 ELSE 0) /\ SUses(t, r)' = 0
    BY <1>1, <1>4, <1>10, <1>11, ThreadFacts DEF SUses
  <2>3. \A r \in Sessions : SQueue(r)' = SQueue(r) /\ SQueue(r) \in Int
    BY SMTT(30), <1>1 DEF SQueue
  <2>4. \A r \in Sessions : sRef[r] \in Int BY SMTT(30) DEF IInv, TypeOK
  <2>5. \A r \in Sessions :
           sRef'[r] = sRef[r] + SQueue(r)' - SQueue(r) + SUses(t, r)' - SUses(t, r)
    BY SMTT(30), <2>1, <2>2, <2>3, <2>4
  <2> QED BY <1>2, <2>5, SessionsStep DEF IInv
<1>13. SessionsKept'
  <2>1. CASE last
    <3>1. \A u \in Threads : ses'[u] = ses[u] BY <1>1, <1>2, <1>10, <2>1 DEF Others
    <3>2. \A u \in Threads : pc'[u] \in Ending =>
             ses'[u] \notin queued' /\ \A v \in Threads \ {u} : ses'[v] # ses'[u]
      <4> SUFFICES ASSUME NEW u \in Threads, pc'[u] \in Ending
                   PROVE  ses[u] \notin queued /\ \A v \in Threads \ {u} : ses[v] # ses[u]
        BY <1>1, <3>1
      <4>1. CASE u = t BY <1>5, <1>8, <1>10, <2>1, <4>1
      <4>2. CASE u # t BY <1>2, <4>2 DEF IInv, SessionsKept, Others
      <4> QED BY <4>1, <4>2
    <3>3. \A r : (\E u \in Threads : ses'[u] = r) <=> \E u \in Threads : ses[u] = r
      BY <3>1
    <3> QED BY <1>1, <3>2, <3>3 DEF IInv, SessionsKept
  <2>2. CASE ~last
    <3>1. \A r \in Sessions :
             (r \in queued \/ \E u \in Threads : ses'[u] = r)
                <=> (r \in queued \/ \E u \in Threads : ses[u] = r)
      BY <1>1, <1>2, <1>9, <1>10, <2>2, ThreadFacts DEF Others
    <3>2. \A u \in Threads : pc'[u] \in Ending =>
             ses'[u] \notin queued' /\ \A v \in Threads \ {u} : ses'[v] # ses'[u]
      <4> SUFFICES ASSUME NEW u \in Threads, pc'[u] \in Ending
                   PROVE  ses'[u] \notin queued /\ \A v \in Threads \ {u} : ses'[v] # ses'[u]
        BY <1>1
      <4>1. u # t /\ pc[u] \in Ending /\ ses'[u] = ses[u]
        BY <1>2, <1>11, <2>2 DEF Others
      <4>2. ses[u] \notin queued /\ \A v \in Threads \ {u} : ses[v] # ses[u]
        BY <4>1 DEF IInv, SessionsKept
      <4>3. ses[u] # None BY <4>1, ThreadFacts DEF Place, Ending
      <4> QED BY <1>1, <1>2, <2>2, <4>1, <4>2, <4>3 DEF Others
    <3> QED BY <1>1, <3>1, <3>2 DEF IInv, SessionsKept
  <2> QED BY <2>1, <2>2
<1>14. Place(t)'
  <2>1. CASE last BY <1>1, <1>3, <2>1, ThreadFacts DEF Place
  <2>2. CASE ~last BY <1>1, <2>2, ThreadFacts, AfterSessionPlace DEF Place
  <2> QED BY <2>1, <2>2
<1>15. Places' BY <1>2, <1>14, PlacesStep DEF IInv
<1>16. ObjectsCounted' /\ ObjectsKept'
  <2>1. pc'[t] # "handle" BY <1>6
  <2> QED BY <1>1, <1>2, <2>1, ObjectsSame
<1>17. QueuesAgree' /\ Emptied'
  <2>1. pc'[t] # "destroy" BY <1>6
  <2> QED BY <1>1, <1>2, <2>1, QueuesSame
<1> QED BY <1>7, <1>12, <1>13, <1>15, <1>16, <1>17 DEF IInv

\* The session that is freed is used by nobody else and owns no object.
LEMMA DestroySessionIInv ==
    ASSUME IInv, NEW t \in Threads, sftk_DestroySession(t)
    PROVE  IInv'
<1> DEFINE s == ses[t]
<1>1. /\ pc[t] = "destroy" /\ held[t] = {} /\ pc'[t] = AfterSession(t) /\ ses'[t] = None
      /\ obj' = obj /\ held' = held /\ bucket' = bucket
      /\ sRef' = sRef /\ queued' = queued /\ sState' = [sState EXCEPT ![s] = "freed"]
      /\ pc' = [pc EXCEPT ![t] = AfterSession(t)] /\ ses' = [ses EXCEPT ![t] = None]
      /\ UNCHANGED <<oVars, hashed, queues>>
  BY DEF sftk_DestroySession, Goto, IInv, TypeOK, queues
<1>2. Others(t) BY <1>1 DEF IInv, TypeOK, Others
<1>3. s \in Sessions BY <1>1, ThreadFacts DEF Place
<1>4. pc[t] \in Ending BY <1>1 DEF Ending
<1>5. /\ s \notin queued /\ list[s] = {}
      /\ \A u \in Threads \ {t} : ses[u] # s
  BY <1>1, <1>4 DEF IInv, SessionsKept, Emptied
<1> HIDE DEF s
<1>6. s = ses[t] BY DEF s
<1>7. pc'[t] \in {"free_object", "close_all", "idle"} BY <1>1, AfterSessionPlace
<1>8. TypeOK'
  <2>1. sState' \in [Sessions -> {"unused", "alive", "freed"}]
    BY <1>1, <1>3 DEF IInv, TypeOK
  <2>2. ses' \in [Threads -> Sessions \cup {None}] BY <1>1 DEF IInv, TypeOK
  <2>3. pc' \in [Threads -> PCs] BY <1>1, <1>7 DEF IInv, TypeOK, PCs
  <2> QED BY <1>1, <2>1, <2>2, <2>3 DEF IInv, TypeOK, PCs, oVars, queues
<1>9. sState'[s] = "freed" /\ \A r \in Sessions \ {s} : sState'[r] = sState[r]
  BY <1>1, <1>3 DEF IInv, TypeOK
<1>10. SessionsCounted'
  <2>1. \A r \in Sessions : SUses(t, r) = 0 /\ SUses(t, r)' = 0
    BY <1>1, <1>4, ThreadFacts DEF SUses
  <2>2. \A r \in Sessions : SQueue(r)' = SQueue(r) /\ SQueue(r) \in Int /\ sRef[r] \in Int
    BY SMTT(30), <1>1 DEF SQueue, IInv, TypeOK
  <2>3. \A r \in Sessions :
           sRef'[r] = sRef[r] + SQueue(r)' - SQueue(r) + SUses(t, r)' - SUses(t, r)
    BY SMTT(30), <1>1, <2>1, <2>2
  <2> QED BY <1>2, <2>3, SessionsStep DEF IInv
<1>11. SessionsKept'
  <2>1. \A r \in Sessions :
           sState'[r] = "alive" <=> r \in queued' \/ \E u \in Threads : ses'[u] = r
    <3> SUFFICES ASSUME NEW r \in Sessions
                 PROVE  sState'[r] = "alive" <=> r \in queued \/ \E u \in Threads : ses'[u] = r
      BY <1>1
    <3>1. CASE r = s
      <4>1. \A u \in Threads : ses'[u] # s
        BY ZenonT(60), <1>1, <1>2, <1>3, <1>5, ThreadFacts DEF Others
      <4> QED BY <1>5, <1>9, <3>1, <4>1
    <3>2. CASE r # s
      <4>1. (\E u \in Threads : ses'[u] = r) <=> \E u \in Threads : ses[u] = r
        BY <1>1, <1>2, <1>6, <3>2, ThreadFacts DEF Others
      <4>2. sState'[r] = sState[r] BY <1>9, <3>2
      <4> QED BY <4>1, <4>2 DEF IInv, SessionsKept
    <3> QED BY <3>1, <3>2
  <2>2. \A u \in Threads : pc'[u] \in Ending =>
           ses'[u] \notin queued' /\ \A v \in Threads \ {u} : ses'[v] # ses'[u]
    <3> SUFFICES ASSUME NEW u \in Threads, pc'[u] \in Ending
                 PROVE  ses'[u] \notin queued /\ \A v \in Threads \ {u} : ses'[v] # ses'[u]
      BY <1>1
    <3>1. pc'[t] \notin Ending BY <1>7 DEF Ending
    <3>2. u # t /\ pc[u] \in Ending /\ ses'[u] = ses[u]
      BY <1>2, <3>1 DEF Others
    <3>3. ses[u] \notin queued /\ \A v \in Threads \ {u} : ses[v] # ses[u]
      BY <3>2 DEF IInv, SessionsKept
    <3>4. ses[u] # None BY <3>2, ThreadFacts DEF Place, Ending
    <3> QED BY <1>1, <1>2, <3>2, <3>3, <3>4 DEF Others
  <2> QED BY <2>1, <2>2 DEF SessionsKept
<1>12. Place(t)' BY <1>1, <1>7, ThreadFacts, AfterSessionPlace DEF Place
<1>13. Places' BY <1>2, <1>12, PlacesStep DEF IInv
<1>14. ObjectsCounted' /\ ObjectsKept'
  <2>1. pc'[t] # "handle" BY <1>7
  <2> QED BY <1>1, <1>2, <2>1, ObjectsSame
<1>15. Emptied'
  <2>1. pc'[t] # "destroy" BY <1>7
  <2> QED BY ZenonT(60), <1>1, <1>2, <2>1 DEF IInv, Emptied, Others, queues
<1>16. QueuesAgree'
  <2> SUFFICES ASSUME NEW o \in Objects
               PROVE  /\ \A r \in Sessions : o \in list[r] <=> o \in hashed /\ owner[o] = r
                      /\ o \in hashed => owner[o] \in Sessions /\ sState'[owner[o]] = "alive"
    BY <1>1 DEF QueuesAgree, queues
  <2>1. /\ \A r \in Sessions : o \in list[r] <=> o \in hashed /\ owner[o] = r
        /\ o \in hashed => owner[o] \in Sessions /\ sState[owner[o]] = "alive"
    BY DEF IInv, QueuesAgree
  <2>2. o \in hashed => owner[o] # s BY <1>3, <1>5, <2>1
  <2> QED BY <1>9, <2>1, <2>2
<1> QED BY <1>8, <1>10, <1>11, <1>13, <1>14, <1>15, <1>16 DEF IInv

\* A session leaves its bucket, in the hands of t.
LEMMA Dequeue ==
    ASSUME IInv, NEW t \in Threads, NEW s \in Sessions, Others(t),
           ses'[t] = s, ses[t] \in {s, None}, pc[t] \notin Ending, pc'[t] \notin Ending,
           ses[t] = None => s \in queued, sState' = sState, queued' = queued \ {s}
    PROVE  SessionsKept'
<1>1. \A r \in Sessions :
         (r \in queued' \/ \E u \in Threads : ses'[u] = r)
            <=> (r \in queued \/ \E u \in Threads : ses[u] = r)
  <2> SUFFICES ASSUME NEW r \in Sessions
               PROVE (r \in queued' \/ \E u \in Threads : ses'[u] = r)
                        <=> (r \in queued \/ \E u \in Threads : ses[u] = r)
    OBVIOUS
  <2>1. CASE r = s BY <2>1
  <2>2. CASE r # s
    <3>1. r # None BY ThreadFacts
    <3>2. (\E u \in Threads : ses'[u] = r) <=> \E u \in Threads : ses[u] = r
      BY <2>2, <3>1 DEF Others
    <3> QED BY <2>2, <3>2
  <2> QED BY <2>1, <2>2
<1>2. \A u \in Threads : pc'[u] \in Ending =>
         ses'[u] \notin queued' /\ \A v \in Threads \ {u} : ses'[v] # ses'[u]
  <2> SUFFICES ASSUME NEW u \in Threads, pc'[u] \in Ending
               PROVE  ses'[u] \notin queued' /\ \A v \in Threads \ {u} : ses'[v] # ses'[u]
    OBVIOUS
  <2>1. u # t /\ pc[u] \in Ending /\ ses'[u] = ses[u] BY DEF Others
  <2>2. ses[u] \notin queued /\ \A v \in Threads \ {u} : ses[v] # ses[u]
    BY <2>1 DEF IInv, SessionsKept
  <2>3. ses[u] # s BY <2>1, <2>2
  <2> QED BY <2>1, <2>2, <2>3 DEF Others
<1> QED BY <1>1, <1>2 DEF IInv, SessionsKept

\* Closing takes the bucket's reference along with the thread's.
LEMMA CloseSessionIInv ==
    ASSUME IInv, NEW t \in Threads, NSC_CloseSession(t)
    PROVE  IInv'
<1> DEFINE s == ses[t]
<1>1. /\ pc[t] = "close" /\ pc'[t] = "free_session" /\ ses' = ses
      /\ obj' = obj /\ held' = held /\ bucket' = bucket
      /\ sState' = sState /\ queued' = queued \ {s}
      /\ sRef' = [sRef EXCEPT ![s] = IF s \in queued THEN @ - 1 ELSE @]
      /\ pc' = [pc EXCEPT ![t] = "free_session"]
      /\ UNCHANGED <<oVars, hashed, queues>>
  BY DEF NSC_CloseSession, Goto, IInv, TypeOK, queues
<1>2. Others(t) BY <1>1 DEF IInv, TypeOK, Others
<1>3. s \in Sessions BY <1>1, ThreadFacts DEF Place
<1>4. pc[t] \notin Ending /\ pc'[t] \notin Ending BY <1>1 DEF Ending
<1>5. sRef[s] \in Nat /\ sRef[s] >= 1 BY <1>3, <1>4, ThreadFacts, SessionAlone DEF IInv
<1> HIDE DEF s
<1>6. s = ses[t] BY DEF s
<1>7. TypeOK'
  <2>1. sRef' \in [Sessions -> Nat] BY SMTT(30), <1>1, <1>3, <1>5 DEF IInv, TypeOK
  <2>2. pc' \in [Threads -> PCs] BY <1>1 DEF IInv, TypeOK, PCs
  <2>3. queued' \subseteq Sessions BY <1>1 DEF IInv, TypeOK
  <2> QED BY <1>1, <2>1, <2>2, <2>3 DEF IInv, TypeOK, PCs, oVars, queues
<1>8. SessionsCounted'
  <2>1. /\ sRef'[s] = IF s \in queued THEN sRef[s] - 1 ELSE sRef[s]
        /\ \A r \in Sessions \ {s} : sRef'[r] = sRef[r]
    BY <1>1, <1>3 DEF IInv, TypeOK
  <2>2. \A r \in Sessions : SUses(t, r)' = SUses(t, r) /\ SUses(t, r) \in Int
    BY SMTT(30), <1>1, <1>4 DEF SUses
  <2>3. \A r \in Sessions : sRef[r] \in Int BY SMTT(30) DEF IInv, TypeOK
  <2>4. \A r \in Sessions :
           sRef'[r] = sRef[r] + SQueue(r)' - SQueue(r) + SUses(t, r)' - SUses(t, r)
    BY SMTT(30), <1>1, <2>1, <2>2, <2>3 DEF SQueue
  <2> QED BY <1>2, <2>4, SessionsStep DEF IInv
<1>9. SessionsKept' BY <1>1, <1>2, <1>3, <1>4, <1>6, ThreadFacts, Dequeue
<1>10. Place(t)' BY <1>1, ThreadFacts DEF Place
<1>11. Places' BY <1>2, <1>10, PlacesStep DEF IInv
<1>12. ObjectsCounted' /\ ObjectsKept'
  <2>1. pc'[t] # "handle" BY <1>1
  <2> QED BY <1>1, <1>2, <2>1, ObjectsSame
<1>13. QueuesAgree' /\ Emptied'
  <2>1. pc'[t] # "destroy" BY <1>1
  <2> QED BY <1>1, <1>2, <2>1, QueuesSame
<1> QED BY <1>7, <1>8, <1>9, <1>11, <1>12, <1>13 DEF IInv

\* sftk_CloseAllSessions takes over the reference of the bucket.
LEMMA TakeFromBucketIInv ==
    ASSUME IInv, NEW t \in Threads, NEW s \in queued, pc[t] = "close_all",
           queued' = queued \ {s}, ses' = [ses EXCEPT ![t] = s], Goto(t, "free_session"),
           UNCHANGED <<sState, sRef, oVars, queues, obj, held, bucket>>
    PROVE  IInv'
<1>1. /\ pc'[t] = "free_session" /\ ses'[t] = s /\ s \in Sessions
      /\ pc' = [pc EXCEPT ![t] = "free_session"] /\ UNCHANGED <<oVars, hashed, queues>>
  BY DEF Goto, IInv, TypeOK, queues
<1>2. Others(t) BY <1>1 DEF IInv, TypeOK, Others
<1>3. pc[t] \notin Ending /\ pc'[t] \notin Ending /\ ses[t] = None
  BY <1>1, ThreadFacts DEF Ending, Place
<1>4. TypeOK'
  <2>1. ses' \in [Threads -> Sessions \cup {None}] BY <1>1 DEF IInv, TypeOK
  <2>2. pc' \in [Threads -> PCs] BY <1>1 DEF IInv, TypeOK, PCs
  <2>3. queued' \subseteq Sessions BY DEF IInv, TypeOK
  <2> QED BY <2>1, <2>2, <2>3 DEF IInv, TypeOK, PCs, oVars, queues
<1>5. SessionsCounted'
  <2>1. \A r \in Sessions : SUses(t, r) = 0 /\ SUses(t, r)' = IF r = s THEN 1 ELSE 0
    BY <1>1, <1>3, ThreadFacts DEF SUses
  <2>2. \A r \in Sessions : sRef[r] \in Int /\ sRef'[r] = sRef[r] BY SMTT(30) DEF IInv, TypeOK
  <2>3. \A r \in Sessions :
           sRef'[r] = sRef[r] + SQueue(r)' - SQueue(r) + SUses(t, r)' - SUses(t, r)
    BY SMTT(30), <2>1, <2>2 DEF SQueue
  <2> QED BY <1>2, <2>3, SessionsStep DEF IInv
<1>6. SessionsKept' BY <1>1, <1>2, <1>3, Dequeue
<1>7. Place(t)' BY <1>1, ThreadFacts DEF Place
<1>8. Places' BY <1>2, <1>7, PlacesStep DEF IInv
<1>9. ObjectsCounted' /\ ObjectsKept'
  <2>1. pc'[t] # "handle" BY <1>1
  <2> QED BY <1>1, <1>2, <2>1, ObjectsSame
<1>10. QueuesAgree' /\ Emptied'
  <2>1. pc'[t] # "destroy" BY <1>1
  <2> QED BY <1>1, <1>2, <2>1, QueuesSame
<1> QED BY <1>4, <1>5, <1>6, <1>8, <1>9, <1>10 DEF IInv

\* A thread starts on the buckets, or goes on to the next one or back.
LEMMA NextBucketIInv ==
    ASSUME IInv, NEW t \in Threads, pc[t] \in {"idle", "close_all"},
           NEW b \in 0..Buckets, bucket' = [bucket EXCEPT ![t] = b],
           NEW place \in {"idle", "close_all"}, Goto(t, place),
           place = "close_all" => b < Buckets,
           UNCHANGED <<sVars, oVars, queues, ses, obj, held>>
    PROVE  IInv'
<1>1. /\ pc'[t] = place /\ bucket'[t] = b /\ UNCHANGED <<oVars, hashed, queues>>
      /\ pc' = [pc EXCEPT ![t] = place]
  BY DEF Goto, IInv, TypeOK, queues
<1>2. Others(t) BY <1>1 DEF IInv, TypeOK, Others
<1>3. TypeOK'
  <2>1. bucket' \in [Threads -> 0..Buckets] BY DEF IInv, TypeOK
  <2>2. pc' \in [Threads -> PCs] BY <1>1 DEF IInv, TypeOK, PCs
  <2> QED BY <2>1, <2>2 DEF IInv, TypeOK, PCs, sVars, oVars, queues
<1>4. pc[t] \notin Ending /\ pc'[t] \notin Ending BY <1>1 DEF Ending
<1>5. SessionsCounted' /\ SessionsKept' BY <1>2, <1>4, SessionsSame
<1>6. Place(t)' BY <1>1, ThreadFacts DEF Place
<1>7. Places' BY <1>2, <1>6, PlacesStep DEF IInv
<1>8. ObjectsCounted' /\ ObjectsKept'
  <2>1. pc'[t] # "handle" BY <1>1
  <2> QED BY <1>1, <1>2, <2>1, ObjectsSame
<1>9. QueuesAgree' /\ Emptied'
  <2>1. pc'[t] # "destroy" BY <1>1
  <2>2. sState' = sState BY DEF sVars
  <2> QED BY <1>1, <1>2, <2>1, <2>2, QueuesSame
<1> QED BY <1>3, <1>5, <1>7, <1>8, <1>9 DEF IInv

-----------------------------------------------------------------------------
(* The steps, one by one: objects.                                         *)

\* Queue references move between the queues and the hands of t.
LEMMA Requeue ==
    ASSUME IInv, NEW t \in Threads, Others(t), UNCHANGED oVars, obj' = obj,
           pc'[t] # "handle",
           \A o \in Objects : o \in hashed' \/ o \in held'[t] <=> o \in hashed \/ o \in held[t],
           \A o \in held'[t] : o \in Objects /\ o \notin hashed',
           hashed \subseteq Objects, hashed' \subseteq Objects
    PROVE  ObjectsCounted' /\ ObjectsKept'
<1>1. oRef' = oRef /\ oState' = oState BY DEF oVars
<1>2. \A u \in Threads : held[u] \subseteq Objects BY DEF IInv, TypeOK
<1>3. \A u \in Threads \ {t} : held'[u] = held[u] BY DEF Others
<1>4. \A u \in Threads : \A o \in held[u] :
         o \notin hashed /\ \A v \in Threads \ {u} : o \notin held[v]
  BY DEF IInv, ObjectsKept
<1>5. \A o \in Objects : Queued(o)' <=> Queued(o)
  <2> SUFFICES ASSUME NEW o \in Objects PROVE Queued(o)' <=> Queued(o) OBVIOUS
  <2>1. Queued(o) <=> o \in hashed \/ o \in held[t] \/ \E u \in Threads \ {t} : o \in held[u]
    BY DEF Queued
  <2>2. Queued(o)' <=> o \in hashed' \/ o \in held'[t] \/ \E u \in Threads \ {t} : o \in held'[u]
    BY DEF Queued
  <2>3. (\E u \in Threads \ {t} : o \in held'[u]) <=> \E u \in Threads \ {t} : o \in held[u]
    BY <1>3
  <2> QED BY <2>1, <2>2, <2>3
<1>6. \A u \in Threads \ {t} : \A o \in held[u] : o \notin hashed' /\ o \notin held'[t]
  BY <1>2, <1>4
<1>7. ObjectsCounted'
  <2>1. \A o \in Objects : OQueue(o)' = OQueue(o) /\ OUses(t, o)' = OUses(t, o)
    BY <1>5 DEF OQueue, OUses
  <2>2. \A o \in Objects : OQueue(o) \in Int /\ OUses(t, o) \in Int /\ oRef[o] \in Int
    BY SMTT(30) DEF OQueue, OUses, IInv, TypeOK
  <2>3. \A o \in Objects :
           oRef'[o] = oRef[o] + OQueue(o)' - OQueue(o) + OUses(t, o)' - OUses(t, o)
    BY SMTT(30), <1>1, <2>1, <2>2
  <2> QED BY <2>3, ObjectsStep DEF IInv
<1>8. ObjectsKept'
  <2>1. \A o \in Objects : oState'[o] = "alive" <=> Queued(o)' \/ OUsers(o)' # {}
    <3>1. \A o \in Objects : OUsers(o)' = OUsers(o) BY DEF OUsers
    <3> QED BY <1>1, <1>5, <3>1 DEF IInv, ObjectsKept
  <2>2. \A u \in Threads : \A o \in held'[u] :
           o \notin hashed' /\ \A v \in Threads \ {u} : o \notin held'[v]
    <3> SUFFICES ASSUME NEW u \in Threads, NEW o \in held'[u]
                 PROVE  o \notin hashed' /\ \A v \in Threads \ {u} : o \notin held'[v]
      OBVIOUS
    <3>1. CASE u = t
      <4>1. o \in held'[t] BY <3>1
      <4>2. \A v \in Threads \ {t} : o \notin held[v] BY <1>6, <4>1
      <4>3. o \notin hashed' BY <4>1
      <4> QED BY <1>3, <3>1, <4>2, <4>3
    <3>2. CASE u # t
      <4>1. o \in held[u] BY <1>3, <3>2
      <4>2. o \notin hashed' /\ o \notin held'[t] BY <1>6, <3>2, <4>1
      <4>3. \A v \in Threads \ {u} : o \notin held[v] BY <1>4, <4>1
      <4> QED BY <1>3, <4>2, <4>3
    <3> QED BY <3>1, <3>2
  <2>3. \A u \in Threads : pc'[u] = "handle" =>
           /\ obj'[u] \notin hashed'
           /\ \A v \in Threads : obj'[u] \notin held'[v] /\ (v # u => obj'[v] # obj'[u])
    <3> SUFFICES ASSUME NEW u \in Threads, pc'[u] = "handle"
                 PROVE  /\ obj[u] \notin hashed'
                        /\ \A v \in Threads : obj[u] \notin held'[v] /\ (v # u => obj[v] # obj[u])
      OBVIOUS
    <3>1. u # t /\ pc[u] = "handle" BY DEF Others
    <3>2. /\ obj[u] \notin hashed
          /\ \A v \in Threads : obj[u] \notin held[v] /\ (v # u => obj[v] # obj[u])
      BY <3>1 DEF IInv, ObjectsKept
    <3>3. obj[u] \in Objects BY <3>1, ThreadFacts DEF Place
    <3>4. obj[u] \notin hashed' /\ obj[u] \notin held'[t] BY <3>2, <3>3
    <3> QED BY <1>3, <3>2, <3>4
  <2> QED BY <2>1, <2>2, <2>3 DEF ObjectsKept
<1> QED BY <1>7, <1>8

\* Clearing takes the session's objects off the queues, with their references.
LEMMA ClearSessionIInv ==
    ASSUME IInv, NEW t \in Threads, sftk_ClearSession(t)
    PROVE  IInv'
<1> DEFINE s == ses[t]
           claimed == list[s] \cap hashed
<1>1. /\ pc[t] = "clear" /\ pc'[t] = "destroy" /\ ses' = ses /\ obj' = obj
      /\ bucket' = bucket /\ owner' = owner /\ hashed' = hashed \ claimed
      /\ held'[t] = claimed /\ held' = [held EXCEPT ![t] = claimed]
      /\ pc' = [pc EXCEPT ![t] = "destroy"] /\ list' = [list EXCEPT ![s] = {}]
      /\ UNCHANGED <<sVars, oVars>>
  BY DEF sftk_ClearSession, Goto, IInv, TypeOK
<1>2. Others(t) BY <1>1 DEF IInv, TypeOK, Others
<1>3. s \in Sessions /\ held[t] = {} BY <1>1, ThreadFacts DEF Place
<1>4. claimed \subseteq Objects /\ hashed \subseteq Objects BY <1>3 DEF IInv, TypeOK
<1> HIDE DEF claimed, s
<1>5. s = ses[t] /\ claimed = list[s] \cap hashed BY DEF claimed, s
<1>6. TypeOK'
  <2>1. held' \in [Threads -> SUBSET Objects] BY <1>1, <1>4 DEF IInv, TypeOK
  <2>2. pc' \in [Threads -> PCs] BY <1>1 DEF IInv, TypeOK, PCs
  <2>3. list' \in [Sessions -> SUBSET Objects] BY <1>1 DEF IInv, TypeOK
  <2>4. hashed' \subseteq Objects BY <1>1, <1>4
  <2> QED BY <1>1, <2>1, <2>2, <2>3, <2>4 DEF IInv, TypeOK, PCs, sVars, oVars
<1>7. SessionsCounted' /\ SessionsKept'
  <2>1. pc[t] \in Ending /\ pc'[t] \in Ending BY <1>1 DEF Ending
  <2> QED BY <1>1, <1>2, <2>1, SessionsSame
<1>8. ObjectsCounted' /\ ObjectsKept'
  <2>1. pc'[t] # "handle" BY <1>1
  <2>2. \A o \in Objects : o \in hashed' \/ o \in held'[t] <=> o \in hashed \/ o \in held[t]
    BY <1>1, <1>3, <1>5
  <2>3. hashed' \subseteq Objects /\ \A o \in held'[t] : o \in Objects /\ o \notin hashed'
    BY <1>1, <1>4
  <2> QED BY <1>1, <1>2, <1>4, <2>1, <2>2, <2>3, Requeue
<1>9. Place(t)' BY <1>1, ThreadFacts DEF Place
<1>10. Places' BY <1>2, <1>9, PlacesStep DEF IInv
<1>11. list'[s] = {} /\ \A r \in Sessions \ {s} : list'[r] = list[r]
  BY <1>1, <1>3 DEF IInv, TypeOK
<1>12. Emptied'
  <2> SUFFICES ASSUME NEW u \in Threads, pc'[u] = "destroy" PROVE list'[ses[u]] = {}
    BY <1>1 DEF Emptied
  <2>1. CASE u = t BY <1>5, <1>11, <2>1
  <2>2. CASE u # t
    <3>1. pc[u] = "destroy" BY <1>2, <2>2 DEF Others
    <3>2. list[ses[u]] = {} BY <3>1 DEF IInv, Emptied
    <3>3. ses[u] \in Sessions BY <3>1, ThreadFacts DEF Place
    <3> QED BY <1>11, <3>2, <3>3
  <2> QED BY <2>1, <2>2
<1>13. QueuesAgree'
  <2> SUFFICES ASSUME NEW o \in Objects
               PROVE  /\ \A r \in Sessions : o \in list'[r] <=> o \in hashed' /\ owner[o] = r
                      /\ o \in hashed' => owner[o] \in Sessions /\ sState[owner[o]] = "alive"
    BY <1>1 DEF QueuesAgree, sVars
  <2>1. /\ \A r \in Sessions : o \in list[r] <=> o \in hashed /\ owner[o] = r
        /\ o \in hashed => owner[o] \in Sessions /\ sState[owner[o]] = "alive"
    BY DEF IInv, QueuesAgree
  <2>2. o \in hashed' <=> o \in hashed /\ owner[o] # s BY <1>1, <1>3, <1>5, <2>1
  <2> QED BY <1>3, <1>11, <2>1, <2>2
<1> QED BY <1>6, <1>7, <1>8, <1>10, <1>12, <1>13 DEF IInv

\* Queueing an object gives its second reference to the queues.
LEMMA AddObjectIInv ==
    ASSUME IInv, NEW t \in Threads, sftk_AddObject(t)
    PROVE  IInv'
<1> DEFINE s == ses[t]
           o == obj[t]
<1>1. /\ pc[t] = "add" /\ pc'[t] = "free_session" /\ ses' = ses /\ obj' = obj
      /\ bucket' = bucket /\ owner' = [owner EXCEPT ![o] = s] /\ hashed' = hashed \cup {o}
      /\ held'[t] = {} /\ held' = [held EXCEPT ![t] = {}]
      /\ pc' = [pc EXCEPT ![t] = "free_session"] /\ list' = [list EXCEPT ![s] = @ \cup {o}]
      /\ UNCHANGED <<sVars, oVars>>
  BY DEF sftk_AddObject, Goto, IInv, TypeOK
<1>2. Others(t) BY <1>1 DEF IInv, TypeOK, Others
<1>3. s \in Sessions /\ o \in Objects /\ held[t] = {o} BY <1>1, ThreadFacts DEF Place
<1>4. o \notin hashed BY <1>3 DEF IInv, ObjectsKept
<1>5. hashed \subseteq Objects /\ hashed' \subseteq Objects BY <1>1, <1>3 DEF IInv, TypeOK
<1> HIDE DEF s, o
<1>6. s = ses[t] /\ o = obj[t] BY DEF s, o
<1>7. TypeOK'
  <2>1. held' \in [Threads -> SUBSET Objects] BY <1>1 DEF IInv, TypeOK
  <2>2. pc' \in [Threads -> PCs] BY <1>1 DEF IInv, TypeOK, PCs
  <2>3. list' \in [Sessions -> SUBSET Objects] BY <1>1, <1>3 DEF IInv, TypeOK
  <2>4. owner' \in [Objects -> Sessions \cup {None}] BY <1>1, <1>3 DEF IInv, TypeOK
  <2> QED BY <1>1, <1>5, <2>1, <2>2, <2>3, <2>4 DEF IInv, TypeOK, PCs, sVars, oVars
<1>8. SessionsCounted' /\ SessionsKept'
  <2>1. pc[t] \notin Ending /\ pc'[t] \notin Ending BY <1>1 DEF Ending
  <2> QED BY <1>1, <1>2, <2>1, SessionsSame
<1>9. ObjectsCounted' /\ ObjectsKept'
  <2>1. pc'[t] # "handle" BY <1>1
  <2>2. \A p \in Objects : p \in hashed' \/ p \in held'[t] <=> p \in hashed \/ p \in held[t]
    BY <1>1, <1>3
  <2>3. \A p \in held'[t] : p \in Objects /\ p \notin hashed' BY <1>1
  <2> QED BY <1>1, <1>2, <1>5, <2>1, <2>2, <2>3, Requeue
<1>10. Place(t)' BY <1>1, ThreadFacts DEF Place
<1>11. Places' BY <1>2, <1>10, PlacesStep DEF IInv
<1>12. list'[s] = list[s] \cup {o} /\ \A r \in Sessions \ {s} : list'[r] = list[r]
  BY <1>1, <1>3 DEF IInv, TypeOK
<1>13. Emptied'
  <2> SUFFICES ASSUME NEW u \in Threads, pc'[u] = "destroy" PROVE list'[ses[u]] = {}
    BY <1>1 DEF Emptied
  <2>1. u # t BY <1>1
  <2>2. pc[u] = "destroy" BY <1>2, <2>1 DEF Others
  <2>3. pc[u] \in Ending BY <2>2 DEF Ending
  <2>4. list[ses[u]] = {} BY <2>2 DEF IInv, Emptied
  <2>5. ses[u] # s BY <1>6, <2>1, <2>3 DEF IInv, SessionsKept
  <2>6. ses[u] \in Sessions BY <2>2, ThreadFacts DEF Place
  <2> QED BY <1>12, <2>4, <2>5, <2>6
<1>14. QueuesAgree'
  <2>1. owner'[o] = s /\ \A p \in Objects \ {o} : owner'[p] = owner[p]
    BY <1>1, <1>3 DEF IInv, TypeOK
  <2>2. sState[s] = "alive" BY <1>3, <1>6 DEF IInv, SessionsKept
  <2> SUFFICES ASSUME NEW p \in Objects
               PROVE  /\ \A r \in Sessions : p \in list'[r] <=> p \in hashed' /\ owner'[p] = r
                      /\ p \in hashed' => owner'[p] \in Sessions /\ sState[owner'[p]] = "alive"
    BY <1>1 DEF QueuesAgree, sVars
  <2>3. /\ \A r \in Sessions : p \in list[r] <=> p \in hashed /\ owner[p] = r
        /\ p \in hashed => owner[p] \in Sessions /\ sState[owner[p]] = "alive"
    BY DEF IInv, QueuesAgree
  <2>4. CASE p = o BY SMTT(30), <1>1, <1>3, <1>4, <1>12, <2>1, <2>2, <2>3, <2>4
  <2>5. CASE p # o BY SMTT(30), <1>1, <1>3, <1>12, <2>1, <2>3, <2>5
  <2> QED BY <2>4, <2>5
<1> QED BY <1>7, <1>8, <1>9, <1>11, <1>13, <1>14 DEF IInv

\* Only the thread that finds the object still queued takes it out, of the list
\* of a session on which it may have no reference.
LEMMA DeleteObjectIInv ==
    ASSUME IInv, NEW t \in Threads, sftk_DeleteObject(t)
    PROVE  IInv'
<1> DEFINE o == obj[t]
           s == owner[o]
           claims == o \in hashed
<1>1. /\ pc[t] = "delete" /\ pc'[t] = "free_session" /\ ses' = ses /\ obj' = obj
      /\ bucket' = bucket /\ owner' = owner
      /\ pc' = [pc EXCEPT ![t] = "free_session"]
      /\ claims => /\ hashed' = hashed \ {o} /\ list' = [list EXCEPT ![s] = @ \ {o}]
                   /\ held'[t] = {o} /\ held' = [held EXCEPT ![t] = {o}]
      /\ ~claims => hashed' = hashed /\ list' = list /\ held' = held
      /\ UNCHANGED <<sVars, oVars>>
  BY DEF sftk_DeleteObject, sftk_ClaimObjectRemovalLocked, Goto, IInv, TypeOK
<1>2. Others(t) BY <1>1 DEF IInv, TypeOK, Others
<1>3. o \in Objects /\ held[t] = {} BY <1>1, ThreadFacts DEF Place
<1>4. claims => s \in Sessions BY <1>3 DEF IInv, QueuesAgree
<1>5. hashed \subseteq Objects /\ hashed' \subseteq Objects BY <1>1 DEF IInv, TypeOK
<1> HIDE DEF o, s, claims
<1>6. s = owner[o] /\ (claims <=> o \in hashed) BY DEF s, o, claims
<1>7. TypeOK'
  <2>1. held' \in [Threads -> SUBSET Objects] BY SMTT(30), <1>1, <1>3 DEF IInv, TypeOK
  <2>2. pc' \in [Threads -> PCs] BY <1>1 DEF IInv, TypeOK, PCs
  <2>3. list' \in [Sessions -> SUBSET Objects] BY SMTT(30), <1>1, <1>4 DEF IInv, TypeOK
  <2> QED BY <1>1, <1>5, <2>1, <2>2, <2>3 DEF IInv, TypeOK, PCs, sVars, oVars
<1>8. SessionsCounted' /\ SessionsKept'
  <2>1. pc[t] \notin Ending /\ pc'[t] \notin Ending BY <1>1 DEF Ending
  <2> QED BY <1>1, <1>2, <2>1, SessionsSame
<1>9. ObjectsCounted' /\ ObjectsKept'
  <2>1. pc'[t] # "handle" BY <1>1
  <2>2. \A p \in Objects : p \in hashed' \/ p \in held'[t] <=> p \in hashed \/ p \in held[t]
    BY <1>1, <1>3, <1>6
  <2>3. \A p \in held'[t] : p \in Objects /\ p \notin hashed' BY <1>1, <1>3
  <2> QED BY <1>1, <1>2, <1>5, <2>1, <2>2, <2>3, Requeue
<1>10. Place(t)'
  <2>1. held'[t] \in {{}, {o}} BY <1>1, <1>3
  <2> QED BY <1>1, <2>1, ThreadFacts DEF Place
<1>11. Places' BY <1>2, <1>10, PlacesStep DEF IInv
<1>12. claims => list'[s] = list[s] \ {o} /\ \A r \in Sessions \ {s} : list'[r] = list[r]
  BY <1>1, <1>4 DEF IInv, TypeOK
<1>13. Emptied'
  <2> SUFFICES ASSUME NEW u \in Threads, pc'[u] = "destroy" PROVE list'[ses[u]] = {}
    BY <1>1 DEF Emptied
  <2>1. u # t BY <1>1
  <2>2. pc[u] = "destroy" BY <1>2, <2>1 DEF Others
  <2>3. list[ses[u]] = {} BY <2>2 DEF IInv, Emptied
  <2>4. ses[u] \in Sessions BY <2>2, ThreadFacts DEF Place
  <2> QED BY <1>1, <1>12, <2>3, <2>4
<1>14. QueuesAgree'
  <2> SUFFICES ASSUME NEW p \in Objects
               PROVE  /\ \A r \in Sessions : p \in list'[r] <=> p \in hashed' /\ owner[p] = r
                      /\ p \in hashed' => owner[p] \in Sessions /\ sState[owner[p]] = "alive"
    BY <1>1 DEF QueuesAgree, sVars
  <2>1. /\ \A r \in Sessions : p \in list[r] <=> p \in hashed /\ owner[p] = r
        /\ p \in hashed => owner[p] \in Sessions /\ sState[owner[p]] = "alive"
    BY DEF IInv, QueuesAgree
  <2>2. CASE claims
    <3>1. p \in hashed' <=> p \in hashed /\ p # o BY <1>1, <2>2
    <3>2. \A r \in Sessions : p \in list'[r] <=> p \in list[r] /\ ~(r = s /\ p = o)
      BY <1>4, <1>12, <2>2
    <3> QED BY <1>6, <2>1, <3>1, <3>2
  <2>3. CASE ~claims BY <1>1, <2>1, <2>3
  <2> QED BY <2>2, <2>3
<1> QED BY <1>7, <1>8, <1>9, <1>11, <1>13, <1>14 DEF IInv

\* A queue reference in hand is the only one of its object.
LEMMA DropQueueReferenceIInv ==
    ASSUME IInv, NEW t \in Threads, NEW o \in Objects, DropQueueReference(t, o)
    PROVE  IInv'
<1>1. /\ o \in held[t] /\ pc[t] \in {"destroy", "free_session"}
      /\ pc' = pc /\ ses' = ses /\ obj' = obj /\ bucket' = bucket
      /\ held' = [held EXCEPT ![t] = @ \ {o}] /\ held'[t] = held[t] \ {o}
      /\ oRef' = [oRef EXCEPT ![o] = @ - 1]
      /\ oState' = [oState EXCEPT ![o] = IF oRef[o] = 1 THEN "freed" ELSE @]
      /\ UNCHANGED <<sVars, queues>> /\ hashed' = hashed
  BY DEF DropQueueReference, sftk_FreeObject, IInv, TypeOK, queues
<1>2. Others(t) BY <1>1 DEF IInv, TypeOK, Others
<1>3. Queued(o) /\ o \notin hashed /\ \A u \in Threads \ {t} : o \notin held[u]
  BY <1>1 DEF IInv, ObjectsKept, Queued
<1>4. oRef[o] \in Nat /\ oRef[o] >= 1 /\ (oRef[o] = 1 <=> OUsers(o) = {})
  BY <1>3, ObjectQueued DEF IInv
<1>5. /\ oRef'[o] = oRef[o] - 1 /\ oState'[o] = (IF oRef[o] = 1 THEN "freed" ELSE oState[o])
      /\ \A p \in Objects \ {o} : oRef'[p] = oRef[p] /\ oState'[p] = oState[p]
  BY <1>1 DEF IInv, TypeOK
<1>6. TypeOK'
  <2>1. held' \in [Threads -> SUBSET Objects] BY <1>1 DEF IInv, TypeOK
  <2>2. oRef' \in [Objects -> Nat] BY SMTT(30), <1>1, <1>4 DEF IInv, TypeOK
  <2>3. oState' \in [Objects -> {"unused", "alive", "freed"}] BY <1>1 DEF IInv, TypeOK
  <2> QED BY <1>1, <2>1, <2>2, <2>3 DEF IInv, TypeOK, sVars, queues
<1>7. SessionsCounted' /\ SessionsKept' BY <1>1, <1>2, SessionsSame
<1>8. \A u \in Threads : held'[u] \subseteq held[u] /\ (u # t => held'[u] = held[u])
  BY <1>1, <1>2 DEF Others
<1>9. ~Queued(o)' BY <1>1, <1>3, <1>8 DEF Queued
<1>10. \A p \in Objects \ {o} : Queued(p)' <=> Queued(p)
  <2> SUFFICES ASSUME NEW p \in Objects \ {o} PROVE Queued(p)' <=> Queued(p) OBVIOUS
  <2>1. \A u \in Threads : p \in held'[u] <=> p \in held[u] BY <1>1, <1>8
  <2> QED BY <1>1, <2>1 DEF Queued
<1>11. ObjectsCounted'
  <2>1. \A p \in Objects : OUses(t, p)' = OUses(t, p) /\ OUses(t, p) \in Int
    BY SMTT(30), <1>1 DEF OUses
  <2>2. \A p \in Objects : oRef[p] \in Int BY SMTT(30) DEF IInv, TypeOK
  <2>3. /\ OQueue(o) = 1 /\ OQueue(o)' = 0
        /\ \A p \in Objects \ {o} : OQueue(p)' = OQueue(p) /\ OQueue(p) \in Int
    BY SMTT(30), <1>3, <1>9, <1>10 DEF OQueue
  <2>4. \A p \in Objects :
           oRef'[p] = oRef[p] + OQueue(p)' - OQueue(p) + OUses(t, p)' - OUses(t, p)
    BY SMTT(30), <1>5, <2>1, <2>2, <2>3
  <2> QED BY <1>2, <2>4, ObjectsStep DEF IInv
<1>12. ObjectsKept'
  <2>1. \A p \in Objects : OUsers(p)' = OUsers(p) BY <1>1 DEF OUsers
  <2>2. \A p \in Objects : oState'[p] = "alive" <=> Queued(p)' \/ OUsers(p)' # {}
    <3> SUFFICES ASSUME NEW p \in Objects
                 PROVE  oState'[p] = "alive" <=> Queued(p)' \/ OUsers(p) # {}
      BY <2>1
    <3>1. oState[p] = "alive" <=> Queued(p) \/ OUsers(p) # {} BY DEF IInv, ObjectsKept
    <3>2. CASE p = o BY <1>3, <1>4, <1>5, <1>9, <3>1, <3>2
    <3>3. CASE p # o BY <1>5, <1>10, <3>1, <3>3
    <3> QED BY <3>2, <3>3
  <2>3. \A u \in Threads : \A p \in held'[u] :
           p \notin hashed' /\ \A v \in Threads \ {u} : p \notin held'[v]
    BY <1>1, <1>8 DEF IInv, ObjectsKept
  <2>4. \A u \in Threads : pc'[u] = "handle" =>
           /\ obj'[u] \notin hashed'
           /\ \A v \in Threads : obj'[u] \notin held'[v] /\ (v # u => obj'[v] # obj'[u])
    BY <1>1, <1>8 DEF IInv, ObjectsKept
  <2> QED BY <2>2, <2>3, <2>4 DEF ObjectsKept
<1>13. Place(t)' BY <1>1, ThreadFacts DEF Place
<1>14. Places' BY <1>2, <1>13, PlacesStep DEF IInv
<1>15. QueuesAgree' /\ Emptied'
  <2>1. sState' = sState BY <1>1 DEF sVars
  <2> QED BY <1>1, <1>2, <2>1, QueuesSame
<1> QED BY <1>6, <1>7, <1>11, <1>12, <1>14, <1>15 DEF IInv

\* A thread drops the reference of the object it worked with.
LEMMA FreeOwnObjectIInv ==
    ASSUME IInv, NEW t \in Threads, FreeOwnObject(t)
    PROVE  IInv'
<1> DEFINE o == obj[t]
<1>1. /\ pc[t] = "free_object" /\ pc'[t] = "idle" /\ pc' = [pc EXCEPT ![t] = "idle"]
      /\ obj' = [obj EXCEPT ![t] = None] /\ obj'[t] = None
      /\ ses' = ses /\ held' = held /\ bucket' = bucket
      /\ oRef' = [oRef EXCEPT ![o] = @ - 1]
      /\ oState' = [oState EXCEPT ![o] = IF oRef[o] = 1 THEN "freed" ELSE @]
      /\ UNCHANGED <<sVars, queues>> /\ hashed' = hashed
  BY DEF FreeOwnObject, sftk_FreeObject, Goto, IInv, TypeOK, queues
<1>2. Others(t) BY <1>1 DEF IInv, TypeOK, Others
<1>3. o \in Objects BY <1>1, ThreadFacts DEF Place
<1>4. /\ oRef[o] \in Nat /\ oRef[o] >= 1
      /\ oRef[o] = 1 <=> ~Queued(o) /\ OUsers(o) \ {t} = {}
  BY <1>3, ObjectAlone DEF IInv
<1>5. t \in OUsers(o) BY DEF OUsers
<1> HIDE DEF o
<1>6. o = obj[t] BY DEF o
<1>7. /\ oRef'[o] = oRef[o] - 1 /\ oState'[o] = (IF oRef[o] = 1 THEN "freed" ELSE oState[o])
      /\ \A p \in Objects \ {o} : oRef'[p] = oRef[p] /\ oState'[p] = oState[p]
  BY <1>1, <1>3 DEF IInv, TypeOK
<1>8. TypeOK'
  <2>1. obj' \in [Threads -> Objects \cup {None}] BY <1>1 DEF IInv, TypeOK
  <2>2. oRef' \in [Objects -> Nat] BY SMTT(30), <1>1, <1>3, <1>4 DEF IInv, TypeOK
  <2>3. oState' \in [Objects -> {"unused", "alive", "freed"}] BY <1>1, <1>3 DEF IInv, TypeOK
  <2>4. pc' \in [Threads -> PCs] BY <1>1 DEF IInv, TypeOK, PCs
  <2> QED BY <1>1, <2>1, <2>2, <2>3, <2>4 DEF IInv, TypeOK, PCs, sVars, queues
<1>9. SessionsCounted' /\ SessionsKept'
  <2>1. pc[t] \notin Ending /\ pc'[t] \notin Ending BY <1>1 DEF Ending
  <2> QED BY <1>1, <1>2, <2>1, SessionsSame
<1>10. \A p \in Objects : Queued(p)' <=> Queued(p) BY <1>1 DEF Queued
<1>11. ObjectsCounted'
  <2>1. \A p \in Objects : OUses(t, p) = (IF p = o THEN 1 ELSE 0) /\ OUses(t, p)' = 0
    BY <1>1, <1>6, ThreadFacts DEF OUses
  <2>2. \A p \in Objects : oRef[p] \in Int /\ OQueue(p)' = OQueue(p) /\ OQueue(p) \in Int
    BY SMTT(30), <1>10 DEF OQueue, IInv, TypeOK
  <2>3. \A p \in Objects :
           oRef'[p] = oRef[p] + OQueue(p)' - OQueue(p) + OUses(t, p)' - OUses(t, p)
    BY SMTT(30), <1>7, <2>1, <2>2
  <2> QED BY <1>2, <2>3, ObjectsStep DEF IInv
<1>12. ObjectsKept'
  <2>1. \A p \in Objects : oState'[p] = "alive" <=> Queued(p)' \/ OUsers(p)' # {}
    <3> SUFFICES ASSUME NEW p \in Objects
                 PROVE  oState'[p] = "alive" <=> Queued(p) \/ OUsers(p)' # {}
      BY <1>10
    <3>1. oState[p] = "alive" <=> Queued(p) \/ OUsers(p) # {} BY DEF IInv, ObjectsKept
    <3>2. OUsers(p)' = OUsers(p) \ {t} BY SMTT(30), <1>1, <1>2, ThreadFacts DEF OUsers, Others
    <3>3. CASE p = o BY <1>4, <1>5, <1>7, <3>1, <3>2, <3>3
    <3>4. CASE p # o
      <4>1. t \notin OUsers(p) BY <1>6, <3>4 DEF OUsers
      <4>2. OUsers(p)' = OUsers(p) BY <3>2, <4>1
      <4> QED BY <1>7, <3>1, <3>4, <4>2
    <3> QED BY <3>3, <3>4
  <2>2. \A u \in Threads : \A p \in held'[u] :
           p \notin hashed' /\ \A v \in Threads \ {u} : p \notin held'[v]
    BY <1>1 DEF IInv, ObjectsKept
  <2>3. \A u \in Threads : pc'[u] = "handle" =>
           /\ obj'[u] \notin hashed'
           /\ \A v \in Threads : obj'[u] \notin held'[v] /\ (v # u => obj'[v] # obj'[u])
    <3> SUFFICES ASSUME NEW u \in Threads, pc'[u] = "handle"
                 PROVE  /\ obj'[u] \notin hashed
                        /\ \A v \in Threads : obj'[u] \notin held[v] /\ (v # u => obj'[v] # obj'[u])
      BY <1>1
    <3>1. u # t BY <1>1
    <3>2. pc[u] = "handle" /\ obj'[u] = obj[u] BY <1>2, <3>1 DEF Others
    <3>3. /\ obj[u] \notin hashed /\ obj[u] # None
          /\ \A v \in Threads : obj[u] \notin held[v] /\ (v # u => obj[v] # obj[u])
      BY <3>2, ThreadFacts DEF IInv, ObjectsKept, Place
    <3> QED BY <1>1, <1>2, <3>2, <3>3 DEF Others
  <2> QED BY <2>1, <2>2, <2>3 DEF ObjectsKept
<1>13. Place(t)' BY <1>1, ThreadFacts DEF Place
<1>14. Places' BY <1>2, <1>13, PlacesStep DEF IInv
<1>15. QueuesAgree' /\ Emptied'
  <2>1. sState' = sState /\ pc'[t] # "destroy" BY <1>1 DEF sVars
  <2> QED BY <1>1, <1>2, <2>1, QueuesSame
<1> QED BY <1>8, <1>9, <1>11, <1>12, <1>14, <1>15 DEF IInv

\* t gets a reference on an object: a new one, or one that is queued.
LEMMA GainObject ==
    ASSUME IInv, NEW t \in Threads, NEW o \in Objects, Others(t),
           obj[t] = None, obj'[t] = o, held' = held, hashed' = hashed,
           oRef'[o] = oRef[o] + 1, oState'[o] = "alive",
           \A p \in Objects \ {o} : oRef'[p] = oRef[p] /\ oState'[p] = oState[p],
           pc'[t] = "handle" => oState[o] # "alive",
           oState[o] = "alive" => o \in hashed
    PROVE  ObjectsCounted' /\ ObjectsKept'
<1>1. \A p \in Objects : Queued(p)' <=> Queued(p) BY DEF Queued
<1>2. ObjectsCounted'
  <2>1. \A p \in Objects : OUses(t, p) = 0 /\ OUses(t, p)' = (IF p = o THEN 1 ELSE 0)
    BY ThreadFacts DEF OUses
  <2>2. \A p \in Objects : oRef[p] \in Int /\ OQueue(p)' = OQueue(p) /\ OQueue(p) \in Int
    BY SMTT(30), <1>1 DEF OQueue, IInv, TypeOK
  <2>3. \A p \in Objects :
           oRef'[p] = oRef[p] + OQueue(p)' - OQueue(p) + OUses(t, p)' - OUses(t, p)
    BY SMTT(30), <2>1, <2>2
  <2> QED BY <2>3, ObjectsStep DEF IInv
<1>3. \A p \in Objects : oState'[p] = "alive" <=> Queued(p)' \/ OUsers(p)' # {}
  <2> SUFFICES ASSUME NEW p \in Objects
               PROVE  oState'[p] = "alive" <=> Queued(p) \/ OUsers(p)' # {}
    BY <1>1
  <2>1. CASE p = o
    <3>1. t \in OUsers(p)' BY <2>1 DEF OUsers
    <3> QED BY <2>1, <3>1
  <2>2. CASE p # o
    <3>1. OUsers(p)' = OUsers(p) BY SMTT(30), <2>2, ThreadFacts DEF OUsers, Others
    <3> QED BY <2>2, <3>1 DEF IInv, ObjectsKept
  <2> QED BY <2>1, <2>2
<1>4. \A u \in Threads : \A p \in held'[u] :
         p \notin hashed' /\ \A v \in Threads \ {u} : p \notin held'[v]
  BY DEF IInv, ObjectsKept
<1>5. \A u \in Threads \ {t} : pc[u] = "handle" => obj[u] # o
  <2> SUFFICES ASSUME NEW u \in Threads \ {t}, pc[u] = "handle", obj[u] = o PROVE FALSE
    OBVIOUS
  <2>1. u \in OUsers(o) BY DEF OUsers
  <2>2. oState[o] = "alive" BY <2>1 DEF IInv, ObjectsKept
  <2> QED BY <2>2 DEF IInv, ObjectsKept
<1>6. pc'[t] = "handle" => o \notin hashed /\ \A v \in Threads : o \notin held[v] /\ obj[v] # o
  <2> SUFFICES ASSUME oState[o] # "alive"
               PROVE  o \notin hashed /\ \A v \in Threads : o \notin held[v] /\ obj[v] # o
    OBVIOUS
  <2>1. ~Queued(o) /\ OUsers(o) = {} BY DEF IInv, ObjectsKept
  <2>2. \A v \in Threads : v \notin OUsers(o) BY <2>1
  <2> QED BY <2>1, <2>2 DEF Queued, OUsers
<1>7. \A u \in Threads : pc'[u] = "handle" =>
         /\ obj'[u] \notin hashed'
         /\ \A v \in Threads : obj'[u] \notin held'[v] /\ (v # u => obj'[v] # obj'[u])
  <2> SUFFICES ASSUME NEW u \in Threads, pc'[u] = "handle"
               PROVE  /\ obj'[u] \notin hashed
                      /\ \A v \in Threads : obj'[u] \notin held[v] /\ (v # u => obj'[v] # obj'[u])
    OBVIOUS
  <2>1. CASE u = t BY <1>6, <2>1 DEF Others
  <2>2. CASE u # t
    <3>1. pc[u] = "handle" /\ obj'[u] = obj[u] BY <2>2 DEF Others
    <3>2. /\ obj[u] \notin hashed
          /\ \A v \in Threads : obj[u] \notin held[v] /\ (v # u => obj[v] # obj[u])
      BY <3>1 DEF IInv, ObjectsKept
    <3>3. obj[u] # o BY <1>5, <2>2, <3>1
    <3> QED BY <3>1, <3>2, <3>3 DEF Others
  <2> QED BY <2>1, <2>2
<1>8. ObjectsKept' BY <1>3, <1>4, <1>7 DEF ObjectsKept
<1> QED BY <1>2, <1>8

\* A new object has one reference, its creator's.
LEMMA CreateObjectIInv ==
    ASSUME IInv, NEW t \in Threads, NEW s \in Sessions, NEW o \in Objects,
           NSC_CreateObject(t, s, o)
    PROVE  IInv'
<1>1. /\ pc[t] = "idle" /\ pc'[t] = "handle" /\ ses'[t] = s /\ obj'[t] = o /\ s \in queued
      /\ held' = held /\ bucket' = bucket /\ hashed' = hashed
      /\ pc' = [pc EXCEPT ![t] = "handle"] /\ ses' = [ses EXCEPT ![t] = s]
      /\ obj' = [obj EXCEPT ![t] = o]
      /\ sState' = sState /\ queued' = queued /\ sRef' = [sRef EXCEPT ![s] = @ + 1]
      /\ oState[o] = "unused" /\ UNCHANGED queues
      /\ oState' = [oState EXCEPT ![o] = "alive"] /\ oRef' = [oRef EXCEPT ![o] = 1]
  BY DEF NSC_CreateObject, Goto, IInv, TypeOK, queues
<1>2. Others(t) BY SMTT(30), <1>1 DEF IInv, TypeOK, Others
<1>3. ses[t] = None /\ obj[t] = None /\ held[t] = {} BY <1>1, ThreadFacts DEF Place
<1>4. TypeOK'
  <2>1. obj' \in [Threads -> Objects \cup {None}] BY <1>1 DEF IInv, TypeOK
  <2>2. ses' \in [Threads -> Sessions \cup {None}] BY <1>1 DEF IInv, TypeOK
  <2>3. oRef' \in [Objects -> Nat] BY <1>1 DEF IInv, TypeOK
  <2>4. oState' \in [Objects -> {"unused", "alive", "freed"}] BY <1>1 DEF IInv, TypeOK
  <2>5. pc' \in [Threads -> PCs] BY <1>1 DEF IInv, TypeOK, PCs
  <2>6. sRef' \in [Sessions -> Nat] BY SMTT(30), <1>1 DEF IInv, TypeOK
  <2> QED BY <1>1, <2>1, <2>2, <2>3, <2>4, <2>5, <2>6 DEF IInv, TypeOK, PCs, queues
<1>5. SessionsCounted' /\ SessionsKept'
  <2>1. pc'[t] \notin Ending BY <1>1 DEF Ending
  <2> QED BY <1>1, <1>2, <1>3, <2>1, GainSession
<1>6. oRef[o] = 0
  <2>1. oState[o] # "alive" BY <1>1
  <2>2. ~Queued(o) /\ OUsers(o) = {} BY <2>1 DEF IInv, ObjectsKept
  <2> QED BY SMTT(30), <2>2, FS_EmptySet DEF IInv, ObjectsCounted
<1>7. ObjectsCounted' /\ ObjectsKept'
  <2>1. /\ oRef'[o] = oRef[o] + 1 /\ oState'[o] = "alive" /\ oState[o] # "alive"
        /\ \A p \in Objects \ {o} : oRef'[p] = oRef[p] /\ oState'[p] = oState[p]
    BY SMTT(30), <1>1, <1>6 DEF IInv, TypeOK
  <2> QED BY <1>1, <1>2, <1>3, <2>1, GainObject
<1>8. Place(t)' BY <1>1, <1>3, ThreadFacts DEF Place
<1>9. Places' BY <1>2, <1>8, PlacesStep DEF IInv
<1>10. QueuesAgree' /\ Emptied'
  <2>1. pc'[t] # "destroy" BY <1>1
  <2> QED BY <1>1, <1>2, <2>1, QueuesSame
<1> QED BY <1>4, <1>5, <1>7, <1>9, <1>10 DEF IInv

\* Finding an object under the slot's lock adds a reference to one in use.
LEMMA ObjectFromHandleIInv ==
    ASSUME IInv, NEW t \in Threads, NEW o \in Objects, sftk_ObjectFromHandle(t, o)
    PROVE  IInv'
<1>1. /\ pc[t] = "find" /\ pc'[t] \in {"delete", "free_session"}
      /\ ses' = ses /\ held' = held /\ bucket' = bucket /\ hashed' = hashed
      /\ pc' = [pc EXCEPT ![t] = pc'[t]] /\ UNCHANGED <<sVars, queues>> /\ oState' = oState
      /\ o \in hashed => /\ oRef' = [oRef EXCEPT ![o] = @ + 1]
                         /\ obj' = [obj EXCEPT ![t] = o] /\ obj'[t] = o
      /\ o \notin hashed => oRef' = oRef /\ obj' = obj /\ pc'[t] = "free_session"
  BY DEF sftk_ObjectFromHandle, Goto, IInv, TypeOK, queues
<1>2. Others(t) BY <1>1 DEF IInv, TypeOK, Others
<1>3. obj[t] = None /\ held[t] = {} /\ ses[t] # None BY <1>1, ThreadFacts DEF Place
<1>4. TypeOK'
  <2>1. obj' \in [Threads -> Objects \cup {None}] BY <1>1 DEF IInv, TypeOK
  <2>2. oRef' \in [Objects -> Nat] BY SMTT(30), <1>1 DEF IInv, TypeOK
  <2>3. pc' \in [Threads -> PCs] BY <1>1 DEF IInv, TypeOK, PCs
  <2> QED BY <1>1, <2>1, <2>2, <2>3 DEF IInv, TypeOK, PCs, sVars, queues
<1>5. SessionsCounted' /\ SessionsKept'
  <2>1. pc[t] \notin Ending /\ pc'[t] \notin Ending BY <1>1 DEF Ending
  <2> QED BY <1>1, <1>2, <2>1, SessionsSame
<1>6. pc'[t] # "handle" /\ pc'[t] # "destroy" BY <1>1
<1>7. ObjectsCounted' /\ ObjectsKept'
  <2>1. CASE o \in hashed
    <3>1. oState[o] = "alive" BY <2>1 DEF IInv, ObjectsKept, Queued
    <3>2. /\ oRef'[o] = oRef[o] + 1 /\ oState'[o] = "alive"
          /\ \A p \in Objects \ {o} : oRef'[p] = oRef[p] /\ oState'[p] = oState[p]
      BY <1>1, <2>1, <3>1 DEF IInv, TypeOK
    <3> QED BY <1>1, <1>2, <1>3, <1>6, <2>1, <3>2, GainObject
  <2>2. CASE o \notin hashed
    <3>1. UNCHANGED <<oVars, hashed>> BY <1>1, <2>2 DEF oVars
    <3> QED BY <1>1, <1>2, <1>6, <2>2, <3>1, ObjectsSame
  <2> QED BY <2>1, <2>2
<1>8. Place(t)' BY <1>1, <1>3, ThreadFacts DEF Place
<1>9. Places' BY <1>2, <1>8, PlacesStep DEF IInv
<1>10. QueuesAgree' /\ Emptied'
  <2>1. sState' = sState BY <1>1 DEF sVars
  <2> QED BY <1>1, <1>2, <1>6, <2>1, QueuesSame
<1> QED BY <1>4, <1>5, <1>7, <1>9, <1>10 DEF IInv

\* The object is refused, or gets the reference its queues will hold.
LEMMA HandleObjectIInv ==
    ASSUME IInv, NEW t \in Threads, sftk_handleObject(t)
    PROVE  IInv'
<1> DEFINE adds == pc'[t] = "add"
<1>0. PICK o \in Objects \cup {None} : o = obj[t] BY ThreadFacts
<1>1. /\ pc[t] = "handle" /\ pc'[t] \in {"add", "free_session"}
      /\ ses' = ses /\ obj' = obj /\ bucket' = bucket /\ hashed' = hashed
      /\ pc' = [pc EXCEPT ![t] = pc'[t]] /\ UNCHANGED <<sVars, queues>> /\ oState' = oState
      /\ adds => /\ oRef' = [oRef EXCEPT ![o] = @ + 1]
                 /\ held' = [held EXCEPT ![t] = {o}] /\ held'[t] = {o}
      /\ ~adds => oRef' = oRef /\ held' = held
  BY <1>0 DEF sftk_handleObject, Goto, IInv, TypeOK, queues
<1>2. Others(t) BY <1>1 DEF IInv, TypeOK, Others
<1>3. o \in Objects /\ held[t] = {} /\ ses[t] # None BY <1>0, <1>1, ThreadFacts DEF Place
<1>4. /\ o \notin hashed
      /\ \A u \in Threads : o \notin held[u] /\ (u # t => obj[u] # o)
  BY <1>0, <1>1 DEF IInv, ObjectsKept
<1> HIDE DEF adds
<1>5. o = obj[t] /\ (adds <=> pc'[t] = "add") BY <1>0 DEF adds
<1>6. TypeOK'
  <2>1. held' \in [Threads -> SUBSET Objects] BY SMTT(30), <1>1, <1>3 DEF IInv, TypeOK
  <2>2. oRef' \in [Objects -> Nat] BY SMTT(30), <1>1, <1>3 DEF IInv, TypeOK
  <2>3. pc' \in [Threads -> PCs] BY <1>1 DEF IInv, TypeOK, PCs
  <2> QED BY <1>1, <2>1, <2>2, <2>3 DEF IInv, TypeOK, PCs, sVars, queues
<1>7. SessionsCounted' /\ SessionsKept'
  <2>1. pc[t] \notin Ending /\ pc'[t] \notin Ending BY <1>1 DEF Ending
  <2> QED BY <1>1, <1>2, <2>1, SessionsSame
<1>8. pc'[t] # "handle" /\ pc'[t] # "destroy" BY <1>1
<1>9. ObjectsCounted' /\ ObjectsKept'
  <2>1. CASE ~adds
    <3>1. UNCHANGED <<oVars, hashed>> BY <1>1, <2>1 DEF oVars
    <3> QED BY <1>1, <1>2, <1>8, <2>1, <3>1, ObjectsSame
  <2>2. CASE adds
    <3>1. /\ oRef'[o] = oRef[o] + 1 /\ held'[t] = {o}
          /\ \A p \in Objects \ {o} : oRef'[p] = oRef[p]
      BY <1>1, <1>3, <2>2 DEF IInv, TypeOK
    <3>2. \A u \in Threads \ {t} : held'[u] = held[u] BY <1>2 DEF Others
    <3>3. ~Queued(o) /\ Queued(o)'
      <4>1. ~Queued(o) BY <1>4 DEF Queued
      <4>2. o \in held'[t] BY <3>1
      <4>3. Queued(o)' BY <4>2 DEF Queued
      <4> QED BY <4>1, <4>3
    <3>4. \A p \in Objects \ {o} : Queued(p)' <=> Queued(p)
      <4> SUFFICES ASSUME NEW p \in Objects \ {o} PROVE Queued(p)' <=> Queued(p) OBVIOUS
      <4>1. \A u \in Threads : p \in held'[u] <=> p \in held[u] BY <1>3, <3>1, <3>2
      <4> QED BY <1>1, <4>1 DEF Queued
    <3>5. ObjectsCounted'
      <4>1. \A p \in Objects : OUses(t, p)' = OUses(t, p) /\ OUses(t, p) \in Int
        BY SMTT(30), <1>1 DEF OUses
      <4>2. \A p \in Objects : oRef[p] \in Int BY SMTT(30) DEF IInv, TypeOK
      <4>3. /\ OQueue(o) = 0 /\ OQueue(o)' = 1
            /\ \A p \in Objects \ {o} : OQueue(p)' = OQueue(p) /\ OQueue(p) \in Int
        BY SMTT(30), <3>3, <3>4 DEF OQueue
      <4>4. \A p \in Objects :
               oRef'[p] = oRef[p] + OQueue(p)' - OQueue(p) + OUses(t, p)' - OUses(t, p)
        BY SMTT(30), <3>1, <4>1, <4>2, <4>3
      <4> QED BY <1>2, <4>4, ObjectsStep DEF IInv
    <3>6. \A p \in Objects : oState'[p] = "alive" <=> Queued(p)' \/ OUsers(p)' # {}
      <4> SUFFICES ASSUME NEW p \in Objects
                   PROVE  oState[p] = "alive" <=> Queued(p)' \/ OUsers(p) # {}
        BY <1>1 DEF OUsers
      <4>1. oState[p] = "alive" <=> Queued(p) \/ OUsers(p) # {}
        BY DEF IInv, ObjectsKept
      <4>2. CASE p = o
        <5>1. t \in OUsers(o) BY <1>5 DEF OUsers
        <5> QED BY <4>1, <4>2, <5>1
      <4>3. CASE p # o BY <3>4, <4>1, <4>3
      <4> QED BY <4>2, <4>3
    <3>7. \A u \in Threads : \A p \in held'[u] :
             p \notin hashed' /\ \A v \in Threads \ {u} : p \notin held'[v]
      <4> SUFFICES ASSUME NEW u \in Threads, NEW p \in held'[u]
                   PROVE  p \notin hashed /\ \A v \in Threads \ {u} : p \notin held'[v]
        BY <1>1
      <4>1. CASE u = t
        <5>1. p = o BY <3>1, <4>1
        <5> QED BY <1>4, <3>2, <4>1, <5>1
      <4>2. CASE u # t
        <5>1. p \in held[u] BY <3>2, <4>2
        <5>2. p # o BY <1>4, <5>1
        <5>3. p \notin held'[t] BY <3>1, <5>2
        <5>4. p \notin hashed /\ \A v \in Threads \ {u} : p \notin held[v]
          BY <5>1 DEF IInv, ObjectsKept
        <5> QED BY <3>2, <5>3, <5>4
      <4> QED BY <4>1, <4>2
    <3>8. \A u \in Threads : pc'[u] = "handle" =>
             /\ obj'[u] \notin hashed'
             /\ \A v \in Threads : obj'[u] \notin held'[v] /\ (v # u => obj'[v] # obj'[u])
      <4> SUFFICES ASSUME NEW u \in Threads, pc'[u] = "handle"
                   PROVE  /\ obj[u] \notin hashed
                          /\ \A v \in Threads : obj[u] \notin held'[v] /\ (v # u => obj[v] # obj[u])
        BY <1>1
      <4>1. u # t BY <1>8
      <4>2. pc[u] = "handle" BY <1>2, <4>1 DEF Others
      <4>3. /\ obj[u] \notin hashed
            /\ \A v \in Threads : obj[u] \notin held[v] /\ (v # u => obj[v] # obj[u])
        BY <4>2 DEF IInv, ObjectsKept
      <4>4. obj[u] \notin held'[t] BY <1>4, <3>1, <4>1
      <4> QED BY <3>2, <4>3, <4>4
    <3>9. ObjectsKept' BY <3>6, <3>7, <3>8 DEF ObjectsKept
    <3> QED BY <3>5, <3>9
  <2> QED BY <2>1, <2>2
<1>10. Place(t)'
  <2>1. CASE adds BY <1>1, <1>3, <1>5, <2>1, ThreadFacts DEF Place
  <2>2. CASE ~adds BY <1>1, <1>3, <1>5, <2>2, ThreadFacts DEF Place
  <2> QED BY <2>1, <2>2
<1>11. Places' BY <1>2, <1>10, PlacesStep DEF IInv
<1>12. QueuesAgree' /\ Emptied'
  <2>1. sState' = sState BY <1>1 DEF sVars
  <2> QED BY <1>1, <1>2, <1>8, <2>1, QueuesSame
<1> QED BY <1>6, <1>7, <1>9, <1>11, <1>12 DEF IInv

\* Every object leaves the queues at once.
LEMMA InitTokenIInv ==
    ASSUME IInv, NEW t \in Threads, NSC_InitToken(t)
    PROVE  IInv'
<1>1. /\ hashed' = {} /\ list' = [s \in Sessions |-> list[s] \ hashed] /\ owner' = owner
      /\ oRef' = [o \in Objects |-> IF o \in hashed THEN oRef[o] - 1 ELSE oRef[o]]
      /\ oState' = [o \in Objects |-> IF o \in hashed /\ oRef[o] = 1
                                      THEN "freed" ELSE oState[o]]
      /\ pc' = pc /\ ses' = ses /\ obj' = obj /\ held' = held /\ bucket' = bucket
      /\ UNCHANGED sVars
  BY DEF NSC_InitToken, tVars
<1>2. Others(t) BY <1>1 DEF Others
<1>3. \A o \in hashed : o \in Objects /\ Queued(o) /\ \A u \in Threads : o \notin held[u]
  <2>1. hashed \subseteq Objects BY DEF IInv, TypeOK
  <2> QED BY <2>1 DEF IInv, ObjectsKept, Queued
<1>4. \A o \in hashed : oRef[o] \in Nat /\ oRef[o] >= 1 /\ (oRef[o] = 1 <=> OUsers(o) = {})
  BY <1>3, ObjectQueued DEF IInv
<1>5. \A o \in Objects : Queued(o)' <=> Queued(o) /\ o \notin hashed
  <2> SUFFICES ASSUME NEW o \in Objects PROVE Queued(o)' <=> Queued(o) /\ o \notin hashed
    OBVIOUS
  <2>1. Queued(o)' <=> \E u \in Threads : o \in held[u] BY <1>1 DEF Queued
  <2>2. (\E u \in Threads : o \in held[u]) => o \notin hashed BY <1>3
  <2> QED BY <2>1, <2>2 DEF Queued
<1>6. TypeOK'
  <2>1. oRef' \in [Objects -> Nat] BY SMTT(30), <1>1, <1>4 DEF IInv, TypeOK
  <2>2. oState' \in [Objects -> {"unused", "alive", "freed"}] BY <1>1 DEF IInv, TypeOK
  <2>3. list' \in [Sessions -> SUBSET Objects] BY <1>1 DEF IInv, TypeOK
  <2>4. hashed' \subseteq Objects BY <1>1
  <2> QED BY <1>1, <2>1, <2>2, <2>3, <2>4 DEF IInv, TypeOK, sVars
<1>7. SessionsCounted' /\ SessionsKept' BY <1>1, <1>2, SessionsSame
<1>8. ObjectsCounted'
  <2>0. obj' = obj BY <1>1
  <2>1. \A o \in Objects : OUses(t, o)' = OUses(t, o) /\ OUses(t, o) \in Int
    BY SMTT(30), <2>0 DEF OUses
  <2>2. \A o \in Objects : oRef[o] \in Int BY SMTT(30) DEF IInv, TypeOK
  <2>3. \A o \in Objects : /\ OQueue(o) \in Int
                           /\ o \in hashed => OQueue(o) = 1 /\ OQueue(o)' = 0
                           /\ o \notin hashed => OQueue(o)' = OQueue(o)
    BY SMTT(30), <1>3, <1>5 DEF OQueue
  <2>4. \A o \in Objects :
           oRef'[o] = oRef[o] + OQueue(o)' - OQueue(o) + OUses(t, o)' - OUses(t, o)
    BY SMTT(30), <1>1, <2>1, <2>2, <2>3
  <2> QED BY <1>2, <2>4, ObjectsStep DEF IInv
<1>9. ObjectsKept'
  <2>1. \A o \in Objects : oState'[o] = "alive" <=> Queued(o)' \/ OUsers(o)' # {}
    <3> SUFFICES ASSUME NEW o \in Objects
                 PROVE  oState'[o] = "alive" <=> Queued(o)' \/ OUsers(o) # {}
      BY <1>1 DEF OUsers
    <3>1. oState[o] = "alive" <=> Queued(o) \/ OUsers(o) # {} BY DEF IInv, ObjectsKept
    <3>2. oState'[o] = IF o \in hashed /\ oRef[o] = 1 THEN "freed" ELSE oState[o] BY <1>1
    <3> QED BY <1>3, <1>4, <1>5, <3>1, <3>2
  <2>2. \A u \in Threads : \A o \in held'[u] :
           o \notin hashed' /\ \A v \in Threads \ {u} : o \notin held'[v]
    <3>1. \A o : o \notin hashed' BY <1>1
    <3> QED BY <1>1, <3>1 DEF IInv, ObjectsKept
  <2>3. \A u \in Threads : pc'[u] = "handle" =>
           /\ obj'[u] \notin hashed'
           /\ \A v \in Threads : obj'[u] \notin held'[v] /\ (v # u => obj'[v] # obj'[u])
    <3>1. \A o : o \notin hashed' BY <1>1
    <3> QED BY <1>1, <3>1 DEF IInv, ObjectsKept
  <2> QED BY <2>1, <2>2, <2>3 DEF ObjectsKept
<1>10. Places' BY <1>1 DEF IInv, Places, Place
<1>11. Emptied'
  <2> SUFFICES ASSUME NEW u \in Threads, pc[u] = "destroy" PROVE list'[ses[u]] = {}
    BY <1>1 DEF Emptied
  <2>1. list[ses[u]] = {} BY DEF IInv, Emptied
  <2>2. ses[u] \in Sessions BY ThreadFacts DEF Place
  <2> QED BY <1>1, <2>1, <2>2
<1>12. QueuesAgree'
  <2> SUFFICES ASSUME NEW o \in Objects, NEW r \in Sessions PROVE o \notin list'[r]
    BY <1>1 DEF QueuesAgree
  <2>1. o \in list[r] => o \in hashed BY DEF IInv, QueuesAgree
  <2> QED BY <1>1, <2>1
<1> QED BY <1>6, <1>7, <1>8, <1>9, <1>10, <1>11, <1>12 DEF IInv

-----------------------------------------------------------------------------
(* Theorems.                                                               *)

\* A new slot has no session and no object.
LEMMA InitIInv == Init => IInv
<1> SUFFICES ASSUME Init PROVE IInv OBVIOUS
<1>1. TypeOK BY SMTT(30), HashAssumption DEF Init, TypeOK
<1>2. /\ \A s \in Sessions : SUsers(s) = {}
      /\ \A o \in Objects : OUsers(o) = {} /\ ~Queued(o)
  BY NoneAssumption DEF Init, SUsers, OUsers, Queued
<1>0. Cardinality({}) = 0 BY FS_EmptySet
<1>9. /\ \A s \in Sessions : Cardinality(SUsers(s)) = 0
      /\ \A o \in Objects : Cardinality(OUsers(o)) = 0
  BY <1>0, <1>2
<1>3. SessionsCounted BY SMTT(30), <1>9 DEF Init, SessionsCounted
<1>4. ObjectsCounted BY SMTT(30), <1>2, <1>9 DEF Init, ObjectsCounted
<1>5. Places BY DEF Init, Places, Place
<1>6. SessionsKept BY NoneAssumption DEF Init, SessionsKept, Ending
<1>7. ObjectsKept BY <1>2 DEF Init, ObjectsKept
<1>8. Emptied /\ QueuesAgree BY DEF Init, Emptied, QueuesAgree
<1> QED BY <1>1, <1>3, <1>4, <1>5, <1>6, <1>7, <1>8 DEF IInv

\* Going over the buckets is taking a session out of one, or going on.
LEMMA CloseAllSessionsIInv ==
    ASSUME IInv, NEW t \in Threads, StartCloseAll(t) \/ sftk_CloseAllSessions(t)
    PROVE  IInv'
<1>1. CASE StartCloseAll(t)
  <2>1. 0 \in 0..Buckets /\ 0 < Buckets BY SMTT(30), HashAssumption
  <2>2. "close_all" \in {"idle", "close_all"} /\ pc[t] \in {"idle", "close_all"}
    BY <1>1 DEF StartCloseAll
  <2> QED BY <1>1, <2>1, <2>2, NextBucketIInv DEF StartCloseAll
<1>2. CASE sftk_CloseAllSessions(t)
  <2>1. ASSUME NEW s \in queued, queued' = queued \ {s}, ses' = [ses EXCEPT ![t] = s],
               Goto(t, "free_session"), bucket' = bucket
        PROVE  IInv'
    <3>1. pc[t] = "close_all" /\ UNCHANGED <<sState, sRef, oVars, queues, obj, held, bucket>>
      BY <1>2, <2>1 DEF sftk_CloseAllSessions
    <3> QED BY <2>1, <3>1, TakeFromBucketIInv
  <2>2. ASSUME bucket' = [bucket EXCEPT ![t] = @ + 1],
               Goto(t, IF bucket[t] + 1 < Buckets THEN "close_all" ELSE "idle"),
               UNCHANGED <<queued, ses>>
        PROVE  IInv'
    <3>1. pc[t] = "close_all" /\ UNCHANGED <<sVars, oVars, queues, ses, obj, held>>
      BY <1>2, <2>2 DEF sftk_CloseAllSessions, sVars
    <3>0. bucket[t] \in 0..Buckets /\ bucket[t] < Buckets
      BY <3>1, ThreadFacts DEF Place
    <3>2. bucket[t] + 1 \in 0..Buckets BY SMTT(30), <3>0, HashAssumption
    <3>5. bucket' = [bucket EXCEPT ![t] = bucket[t] + 1] BY <2>2
    <3> DEFINE place == IF bucket[t] + 1 < Buckets THEN "close_all" ELSE "idle"
    <3>3. /\ place \in {"idle", "close_all"} /\ pc[t] \in {"idle", "close_all"}
          /\ place = "close_all" => bucket[t] + 1 < Buckets
      BY <3>1
    <3>4. Goto(t, place) BY <2>2
    <3> HIDE DEF place
    <3> QED BY <3>1, <3>2, <3>3, <3>4, <3>5, NextBucketIInv
  <2> QED BY <1>2, <2>1, <2>2 DEF sftk_CloseAllSessions
<1> QED BY <1>1, <1>2

\* Every step keeps the invariant.
LEMMA NextIInv == IInv /\ [Next]_vars => IInv'
<1> SUFFICES ASSUME IInv, [Next]_vars PROVE IInv' OBVIOUS
<1>1. CASE UNCHANGED vars
  <2>1. /\ sState' = sState /\ sRef' = sRef /\ queued' = queued /\ oState' = oState
        /\ oRef' = oRef /\ owner' = owner /\ list' = list /\ hashed' = hashed /\ pc' = pc
        /\ ses' = ses /\ obj' = obj /\ held' = held /\ bucket' = bucket
    BY <1>1 DEF vars, sVars, oVars, queues, tVars
  <2>2. TypeOK' BY <2>1 DEF IInv, TypeOK
  <2>3. SessionsCounted' BY <2>1 DEF IInv, SessionsCounted, SUsers
  <2>4. ObjectsCounted' BY <2>1 DEF IInv, ObjectsCounted, OUsers, Queued
  <2>5. Places' BY <2>1 DEF IInv, Places, Place
  <2>6. SessionsKept' BY <2>1 DEF IInv, SessionsKept
  <2>7. ObjectsKept' BY <2>1 DEF IInv, ObjectsKept, OUsers, Queued
  <2>8. (Emptied /\ QueuesAgree)' BY <2>1 DEF IInv, Emptied, QueuesAgree
  <2> QED BY <2>2, <2>3, <2>4, <2>5, <2>6, <2>7, <2>8 DEF IInv
<1>2. ASSUME NEW t \in Threads, Step(t) PROVE IInv'
  <2>1. ASSUME NEW s \in Sessions, NSC_OpenSession(t, s) PROVE IInv'
    BY <2>1, OpenSessionIInv
  <2>2. ASSUME NEW s \in Sessions, NEW call \in Calls, sftk_SessionFromHandle(t, s, call)
        PROVE  IInv'
    BY <2>2, SessionFromHandleIInv
  <2>3. ASSUME NEW s \in Sessions, NEW o \in Objects, NSC_CreateObject(t, s, o) PROVE IInv'
    BY <2>3, CreateObjectIInv
  <2>4. ASSUME NEW o \in Objects, sftk_ObjectFromHandle(t, o) PROVE IInv'
    BY <2>4, ObjectFromHandleIInv
  <2>5. ASSUME NEW o \in Objects, DropQueueReference(t, o) PROVE IInv'
    BY <2>5, DropQueueReferenceIInv
  <2>6. CASE sftk_FreeSession(t) BY <2>6, FreeSessionIInv
  <2>7. CASE sftk_ClearSession(t) BY SMTT(30), <2>7, ClearSessionIInv
  <2>8. CASE sftk_DestroySession(t) BY <2>8, DestroySessionIInv
  <2>9. CASE FreeOwnObject(t) BY <2>9, FreeOwnObjectIInv
  <2>10. CASE sftk_handleObject(t) BY <2>10, HandleObjectIInv
  <2>11. CASE sftk_AddObject(t) BY <2>11, AddObjectIInv
  <2>12. CASE sftk_DeleteObject(t) BY <2>12, DeleteObjectIInv
  <2>13. CASE NSC_InitToken(t) BY <2>13, InitTokenIInv
  <2>14. CASE NSC_CloseSession(t) BY <2>14, CloseSessionIInv
  <2>15. CASE StartCloseAll(t) \/ sftk_CloseAllSessions(t) BY <2>15, CloseAllSessionsIInv
  <2> QED BY <1>2, <2>1, <2>2, <2>3, <2>4, <2>5, <2>6, <2>7, <2>8, <2>9, <2>10,
             <2>11, <2>12, <2>13, <2>14, <2>15 DEF Step
<1> QED BY <1>1, <1>2 DEF Next

\* The references of sessions and objects are those of the queues and of the
\* threads, however opening, closing, creating, deleting and NSC_InitToken
\* interleave.
THEOREM IInvHolds == Spec => []IInv
BY InitIInv, NextIInv, PTL DEF Spec

\* No reference count of a session or an object falls below zero.
THEOREM TypeCorrect == Spec => []TypeOK
<1>1. IInv => TypeOK BY DEF IInv
<1> QED BY <1>1, IInvHolds, PTL

\* An object is on its session's list exactly if it is in the slot's hash, and
\* then its session has not been freed (what sftk_DeleteObject relies on).
THEOREM QueuesInStep == Spec => []QueuesAgree
<1>1. IInv => QueuesAgree BY DEF IInv
<1> QED BY <1>1, IInvHolds, PTL

\* No thread and no queue points to a session or an object that was freed, and
\* the counts of sftk_FreeSession and sftk_FreeObject are those asserted there.
THEOREM NoDangling == Spec => []NothingDangles
<1>1. ASSUME IInv PROVE NothingDangles
  <2>1. \A s \in queued : sState[s] = "alive" /\ sRef[s] > 0
    <3> SUFFICES ASSUME NEW s \in queued PROVE sState[s] = "alive" /\ sRef[s] > 0 OBVIOUS
    <3>1. s \in Sessions BY <1>1 DEF IInv, TypeOK
    <3>2. SUsers(s) \in SUBSET Threads BY DEF SUsers
    <3>3. Cardinality(SUsers(s)) \in Nat BY <3>2, FiniteThreads
    <3>4. sState[s] = "alive" BY <1>1, <3>1 DEF IInv, SessionsKept
    <3> QED BY SMTT(30), <1>1, <3>1, <3>3, <3>4 DEF IInv, SessionsCounted
  <2>2. \A o \in Objects : Queued(o) => oState[o] = "alive" /\ oRef[o] > 0
    <3> SUFFICES ASSUME NEW o \in Objects, Queued(o) PROVE oState[o] = "alive" /\ oRef[o] > 0
      OBVIOUS
    <3>1. oState[o] = "alive" BY <1>1 DEF IInv, ObjectsKept
    <3>2. oRef[o] \in Nat /\ oRef[o] >= 1 BY <1>1, ObjectQueued DEF IInv
    <3> QED BY SMTT(30), <3>1, <3>2
  <2>3. \A o \in hashed : oState[o] = "alive" /\ oRef[o] > 0
    <3>1. hashed \subseteq Objects BY <1>1 DEF IInv, TypeOK
    <3> QED BY <2>2, <3>1 DEF Queued
  <2>4. ASSUME NEW t \in Threads, ses[t] # None
        PROVE  /\ sState[ses[t]] = "alive"
               /\ pc[t] \in {"clear", "destroy"} <=> sRef[ses[t]] = 0
    <3>1. ses[t] \in Sessions BY <1>1, <2>4, ThreadFacts
    <3>2. sState[ses[t]] = "alive" BY <1>1, <3>1 DEF IInv, SessionsKept
    <3>3. CASE pc[t] \in Ending
      <4>1. ses[t] \notin queued /\ \A u \in Threads \ {t} : ses[u] # ses[t]
        BY <1>1, <3>3 DEF IInv, SessionsKept
      <4>2. SUsers(ses[t]) = {} BY SMTT(30), <3>3, <4>1 DEF SUsers
      <4>3. sRef[ses[t]] = 0
        BY SMTT(30), <1>1, <3>1, <4>1, <4>2, FS_EmptySet DEF IInv, SessionsCounted
      <4> QED BY <3>2, <3>3, <4>3 DEF Ending
    <3>4. CASE pc[t] \notin Ending
      <4>1. sRef[ses[t]] \in Nat /\ sRef[ses[t]] >= 1
        BY <1>1, <3>1, <3>4, SessionAlone DEF IInv
      <4> QED BY SMTT(30), <3>2, <3>4, <4>1 DEF Ending
    <3> QED BY <3>3, <3>4
  <2>5. ASSUME NEW t \in Threads, NEW o \in held[t] \cup ({obj[t]} \ {None})
        PROVE  oState[o] = "alive" /\ oRef[o] > 0
    <3>1. o \in Objects BY <1>1, <2>5, ThreadFacts
    <3>2. CASE o \in held[t] BY <2>2, <3>1, <3>2 DEF Queued
    <3>3. CASE obj[t] = o
      <4>1. t \in OUsers(o) BY <3>3 DEF OUsers
      <4>2. oState[o] = "alive" BY <1>1, <3>1, <4>1 DEF IInv, ObjectsKept
      <4>3. oRef[o] \in Nat /\ oRef[o] >= 1 BY <1>1, <3>1, <3>3, ObjectAlone DEF IInv
      <4> QED BY SMTT(30), <4>2, <4>3
    <3> QED BY <2>5, <3>2, <3>3
  <2> QED BY <2>1, <2>3, <2>4, <2>5 DEF NothingDangles
<1> QED BY <1>1, IInvHolds, PTL

\* A session or an object that is alive is queued or in some thread's hands:
\* none is left behind by closing, deleting or NSC_InitToken.
THEOREM NoLeaks == Spec => []NothingLeaks
<1>1. ASSUME IInv PROVE NothingLeaks
  <2>1. \A s \in Sessions :
           sState[s] = "alive" => s \in queued \/ \E t \in Threads : Uses(t, s)
    BY <1>1 DEF IInv, SessionsKept, Uses
  <2>2. ASSUME NEW o \in Objects, oState[o] = "alive"
        PROVE  o \in hashed \/ \E t \in Threads : obj[t] = o \/ o \in held[t]
    <3>1. Queued(o) \/ OUsers(o) # {} BY <1>1, <2>2 DEF IInv, ObjectsKept
    <3> QED BY <3>1 DEF Queued, OUsers
  <2> QED BY <2>1, <2>2 DEF NothingLeaks
<1> QED BY <1>1, IInvHolds, PTL
=============================================================================
