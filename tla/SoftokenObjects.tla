--------------------------- MODULE SoftokenObjects ---------------------------
(***************************************************************************)
(* The sessions of one softoken slot and the session objects they own, used *)
(* by threads that open and close sessions and create, read and destroy     *)
(* objects (pkcs11.c, pkcs11u.c, pkcs11c.c).                                *)
(*                                                                         *)
(* A session is found through the slot's buckets under a session lock; an  *)
(* object through the slot's hash under objectLock, which also guards the  *)
(* object lists of all sessions.  Both carry a reference count, and the    *)
(* queues hold a reference of their own.  Object handles belong to the     *)
(* slot, so a thread may delete an object of a session it has no reference *)
(* on.                                                                     *)
(*                                                                         *)
(* A section of code under one lock is one action: everything it reads or  *)
(* writes is only touched under that lock.  A session or object is its own *)
(* handle and is used once: handles wrap after 2^24 and 2^31 uses.         *)
(***************************************************************************)
EXTENDS Integers, FiniteSets

CONSTANTS Threads, Sessions, Objects,
          None,        \* no session, no object
          Buckets,     \* sessHashSize
          Hash         \* sftk_hash: the bucket of a session

ASSUME ThreadsAssumption == IsFiniteSet(Threads)
ASSUME NoneAssumption == None \notin Sessions /\ None \notin Objects
ASSUME HashAssumption == Buckets \in Nat \ {0} /\ Hash \in [Sessions -> 0..(Buckets - 1)]

VARIABLES
    \* sessions
    sState,      \* unused, alive or freed
    sRef,        \* session->refCount
    queued,      \* the sessions in slot->head[]
    list,        \* session->objects: what the session owns
    \* objects
    oState,
    oRef,        \* object->refCount
    hashed,      \* the objects in slot->sessObjHashTable
    owner,       \* so->session
    \* threads
    pc,
    ses,         \* the session a thread works with
    obj,         \* the object it has a reference on
    held,        \* objects whose queue reference is in its hands
    bucket       \* where sftk_CloseAllSessions is; Buckets when not in it

sVars == <<sState, sRef, queued>>
oVars == <<oState, oRef>>
queues == <<list, hashed, owner>>
tVars == <<pc, ses, obj, held, bucket>>
vars == <<sVars, oVars, queues, tVars>>

Init ==
    /\ sState = [s \in Sessions |-> "unused"] /\ sRef = [s \in Sessions |-> 0]
    /\ queued = {} /\ list = [s \in Sessions |-> {}]
    /\ oState = [o \in Objects |-> "unused"] /\ oRef = [o \in Objects |-> 0]
    /\ hashed = {} /\ owner = [o \in Objects |-> None]
    /\ pc = [t \in Threads |-> "idle"]
    /\ ses = [t \in Threads |-> None] /\ obj = [t \in Threads |-> None]
    /\ held = [t \in Threads |-> {}] /\ bucket = [t \in Threads |-> Buckets]

Goto(t, l) == pc' = [pc EXCEPT ![t] = l]

-----------------------------------------------------------------------------
(* References.                                                             *)

\* Where the calls that only look up a session go on.
Calls == {"find", "close"}

\* NSC_OpenSession: the new session's only reference is the bucket's.
NSC_OpenSession(t, s) ==
    /\ pc[t] = "idle" /\ sState[s] = "unused"
    /\ sState' = [sState EXCEPT ![s] = "alive"]
    /\ sRef' = [sRef EXCEPT ![s] = 1]
    /\ queued' = queued \cup {s}
    /\ UNCHANGED <<oVars, queues, tVars>>

\* sftk_SessionFromHandle at the start of a call; a session that is no longer
\* queued is an error, and the call returns.
sftk_SessionFromHandle(t, s, call) ==
    /\ pc[t] = "idle" /\ s \in queued
    /\ sRef' = [sRef EXCEPT ![s] = @ + 1]
    /\ ses' = [ses EXCEPT ![t] = s]
    /\ Goto(t, call)
    /\ UNCHANGED <<sState, queued, oVars, queues, obj, held, bucket>>

\* Where a thread goes when it is done with its session: it still drops its
\* object, or returns to the loop over the buckets.
AfterSession(t) ==
    IF obj[t] # None THEN "free_object"
    ELSE IF bucket[t] < Buckets THEN "close_all" ELSE "idle"

\* sftk_FreeSession: who drops the last reference destroys the session.
sftk_FreeSession(t) ==
    /\ pc[t] = "free_session" /\ held[t] = {}
    /\ sRef' = [sRef EXCEPT ![ses[t]] = @ - 1]
    /\ IF sRef[ses[t]] = 1
       THEN Goto(t, "clear") /\ UNCHANGED ses
       ELSE Goto(t, AfterSession(t)) /\ ses' = [ses EXCEPT ![t] = None]
    /\ UNCHANGED <<sState, queued, oVars, queues, obj, held, bucket>>

\* Mutant: only the session's own list is emptied.
sftk_ClearSession_ListOnly(t) ==
    /\ pc[t] = "clear"
    /\ list' = [list EXCEPT ![ses[t]] = {}]
    /\ held' = [held EXCEPT ![t] = list[ses[t]]]
    /\ Goto(t, "destroy")
    /\ UNCHANGED <<hashed, owner, sVars, oVars, ses, obj, bucket>>

\* Mutant: the objects leave both queues, but keep the reference of the queues.
sftk_ClearSession_Forgets(t) ==
    /\ pc[t] = "clear"
    /\ hashed' = hashed \ list[ses[t]]
    /\ list' = [list EXCEPT ![ses[t]] = {}]
    /\ Goto(t, "destroy")
    /\ UNCHANGED <<owner, sVars, oVars, ses, obj, held, bucket>>

\* sftk_ClearSession, the section under objectLock: the objects still in the
\* hash are claimed, and their queue reference with them.
sftk_ClearSession(t) ==
    LET claimed == list[ses[t]] \cap hashed
    IN  /\ pc[t] = "clear"
        /\ hashed' = hashed \ claimed
        /\ list' = [list EXCEPT ![ses[t]] = {}]
        /\ held' = [held EXCEPT ![t] = claimed]
        /\ Goto(t, "destroy")
        /\ UNCHANGED <<owner, sVars, oVars, ses, obj, bucket>>

\* The object after one reference to it is dropped (sftk_FreeObject).
sftk_FreeObject(o) ==
    /\ oRef' = [oRef EXCEPT ![o] = @ - 1]
    /\ oState' = [oState EXCEPT ![o] = IF oRef[o] = 1 THEN "freed" ELSE @]

\* A queue reference in hand is dropped: by sftk_ClearSession for each object
\* it claimed, by sftk_DeleteObject for the one.
DropQueueReference(t, o) ==
    /\ pc[t] \in {"destroy", "free_session"} /\ o \in held[t]
    /\ sftk_FreeObject(o)
    /\ held' = [held EXCEPT ![t] = @ \ {o}]
    /\ UNCHANGED <<sVars, queues, pc, ses, obj, bucket>>

\* The end of sftk_DestroySession.
sftk_DestroySession(t) ==
    /\ pc[t] = "destroy" /\ held[t] = {}
    /\ sState' = [sState EXCEPT ![ses[t]] = "freed"]
    /\ ses' = [ses EXCEPT ![t] = None]
    /\ Goto(t, AfterSession(t))
    /\ UNCHANGED <<sRef, queued, oVars, queues, obj, held, bucket>>

\* The thread's own reference, at the end of a call that had an object.
FreeOwnObject(t) ==
    /\ pc[t] = "free_object"
    /\ sftk_FreeObject(obj[t])
    /\ obj' = [obj EXCEPT ![t] = None]
    /\ Goto(t, "idle")
    /\ UNCHANGED <<sVars, queues, ses, held, bucket>>

-----------------------------------------------------------------------------
(* Objects.                                                                *)

\* NSC_CreateObject makes an object with one reference and looks up the
\* session; without one it frees the object, which nobody has seen.
NSC_CreateObject(t, s, o) ==
    /\ pc[t] = "idle" /\ oState[o] = "unused" /\ s \in queued
    /\ oState' = [oState EXCEPT ![o] = "alive"]
    /\ oRef' = [oRef EXCEPT ![o] = 1]
    /\ sRef' = [sRef EXCEPT ![s] = @ + 1]
    /\ ses' = [ses EXCEPT ![t] = s] /\ obj' = [obj EXCEPT ![t] = o]
    /\ Goto(t, "handle")
    /\ UNCHANGED <<sState, queued, queues, held, bucket>>

\* sftk_handleObject refuses the object, or sftk_AddObject takes the reference
\* the queues will hold.
sftk_handleObject(t) ==
    /\ pc[t] = "handle"
    /\ \/ /\ Goto(t, "free_session") /\ UNCHANGED <<oRef, held>>
       \/ /\ oRef' = [oRef EXCEPT ![obj[t]] = @ + 1]
          /\ held' = [held EXCEPT ![t] = {obj[t]}]
          /\ Goto(t, "add")
    /\ UNCHANGED <<sVars, oState, queues, ses, obj, bucket>>

\* sftk_AddObject, the section under objectLock: the object joins both queues.
sftk_AddObject(t) ==
    /\ pc[t] = "add"
    /\ owner' = [owner EXCEPT ![obj[t]] = ses[t]]
    /\ list' = [list EXCEPT ![ses[t]] = @ \cup {obj[t]}]
    /\ hashed' = hashed \cup {obj[t]}
    /\ held' = [held EXCEPT ![t] = {}]
    /\ Goto(t, "free_session")
    /\ UNCHANGED <<sVars, oVars, ses, obj, bucket>>

\* sftk_ObjectFromHandle for NSC_DestroyObject, which may go on to delete it,
\* and for the calls that only use it; none is found if it is not in the hash.
sftk_ObjectFromHandle(t, o) ==
    /\ pc[t] = "find"
    /\ IF o \in hashed
       THEN /\ oRef' = [oRef EXCEPT ![o] = @ + 1]
            /\ obj' = [obj EXCEPT ![t] = o]
            /\ \E l \in {"delete", "free_session"} : Goto(t, l)
       ELSE /\ Goto(t, "free_session")
            /\ UNCHANGED <<oRef, obj>>
    /\ UNCHANGED <<sVars, oState, queues, ses, held, bucket>>

\* Mutant: the claim is not tested, so the reference is dropped again.
sftk_ClaimObjectRemovalLocked_Always(o) == TRUE

\* sftk_ClaimObjectRemovalLocked: only the thread that finds the object still
\* queued removes it.
sftk_ClaimObjectRemovalLocked(o) == o \in hashed

\* sftk_DeleteObject, the section under objectLock.
sftk_DeleteObject(t) ==
    LET o == obj[t]
    IN  /\ pc[t] = "delete"
        /\ IF sftk_ClaimObjectRemovalLocked(o)
           THEN /\ hashed' = hashed \ {o}
                /\ list' = [list EXCEPT ![owner[o]] = @ \ {o}]
                /\ held' = [held EXCEPT ![t] = {o}]
           ELSE UNCHANGED <<hashed, list, held>>
        /\ Goto(t, "free_session")
        /\ UNCHANGED <<owner, sVars, oVars, ses, obj, bucket>>

\* NSC_InitToken, the section under objectLock: every object leaves both queues
\* and loses the reference they held.
NSC_InitToken(t) ==
    /\ pc[t] = "idle"
    /\ list' = [s \in Sessions |-> list[s] \ hashed]
    /\ hashed' = {}
    /\ oRef' = [o \in Objects |-> IF o \in hashed THEN oRef[o] - 1 ELSE oRef[o]]
    /\ oState' = [o \in Objects |-> IF o \in hashed /\ oRef[o] = 1
                                    THEN "freed" ELSE oState[o]]
    /\ UNCHANGED <<owner, sVars, tVars>>

-----------------------------------------------------------------------------
(* Closing sessions.                                                       *)

\* NSC_CloseSession under the session lock: the first to close it takes it out
\* of the bucket and drops the bucket's reference.
NSC_CloseSession(t) ==
    /\ pc[t] = "close"
    /\ queued' = queued \ {ses[t]}
    /\ sRef' = [sRef EXCEPT ![ses[t]] = IF ses[t] \in queued THEN @ - 1 ELSE @]
    /\ Goto(t, "free_session")
    /\ UNCHANGED <<sState, oVars, queues, ses, obj, held, bucket>>

\* sftk_CloseAllSessions: sessions are taken out of one bucket after the other;
\* the bucket's reference is then dropped with sftk_FreeSession.
StartCloseAll(t) ==
    /\ pc[t] = "idle"
    /\ bucket' = [bucket EXCEPT ![t] = 0]
    /\ Goto(t, "close_all")
    /\ UNCHANGED <<sVars, oVars, queues, ses, obj, held>>

sftk_CloseAllSessions(t) ==
    LET inBucket == {s \in queued : Hash[s] = bucket[t]}
    IN  /\ pc[t] = "close_all"
        /\ \/ \E s \in inBucket :
                 /\ queued' = queued \ {s}
                 /\ ses' = [ses EXCEPT ![t] = s]
                 /\ Goto(t, "free_session")
                 /\ UNCHANGED bucket
           \/ /\ inBucket = {}
              /\ bucket' = [bucket EXCEPT ![t] = @ + 1]
              /\ Goto(t, IF bucket[t] + 1 < Buckets THEN "close_all" ELSE "idle")
              /\ UNCHANGED <<queued, ses>>
        /\ UNCHANGED <<sState, sRef, oVars, queues, obj, held>>

Step(t) ==
    \/ \E s \in Sessions :
          \/ NSC_OpenSession(t, s)
          \/ \E call \in Calls : sftk_SessionFromHandle(t, s, call)
          \/ \E o \in Objects : NSC_CreateObject(t, s, o)
    \/ \E o \in Objects :
          \/ sftk_ObjectFromHandle(t, o)
          \/ DropQueueReference(t, o)
    \/ sftk_FreeSession(t)
    \/ sftk_ClearSession(t)
    \/ sftk_DestroySession(t)
    \/ FreeOwnObject(t)
    \/ sftk_handleObject(t)
    \/ sftk_AddObject(t)
    \/ sftk_DeleteObject(t)
    \/ NSC_InitToken(t)
    \/ NSC_CloseSession(t)
    \/ StartCloseAll(t)
    \/ sftk_CloseAllSessions(t)

Next == \E t \in Threads : Step(t)

Spec == Init /\ [][Next]_vars

-----------------------------------------------------------------------------
(* Properties.                                                             *)

\* A thread may touch its session: it holds a reference, or it destroys it.
Uses(t, s) == ses[t] = s

\* No count of references falls below zero, and pointers point at sessions and
\* objects or nowhere.
TypeOK ==
    /\ sState \in [Sessions -> {"unused", "alive", "freed"}]
    /\ oState \in [Objects -> {"unused", "alive", "freed"}]
    /\ sRef \in [Sessions -> Nat] /\ oRef \in [Objects -> Nat]
    /\ queued \subseteq Sessions /\ hashed \subseteq Objects
    /\ list \in [Sessions -> SUBSET Objects]
    /\ owner \in [Objects -> Sessions \cup {None}]
    /\ pc \in [Threads -> {"idle", "handle", "add", "find", "delete", "close", "close_all",
                            "free_session", "clear", "destroy", "free_object"}]
    /\ ses \in [Threads -> Sessions \cup {None}]
    /\ obj \in [Threads -> Objects \cup {None}]
    /\ held \in [Threads -> SUBSET Objects]
    /\ bucket \in [Threads -> 0..Buckets]

\* The invariant SFTKSlotStr and sftk_AddObject state: an object is on its
\* session's list exactly if it is in the slot's hash; and what sftk_DeleteObject
\* concludes from it: that session has not been freed, so the thread that wins
\* the claim may follow so->session without a reference on it.
QueuesAgree ==
    \A o \in Objects :
        /\ \A s \in Sessions : o \in list[s] <=> o \in hashed /\ owner[o] = s
        /\ o \in hashed => owner[o] \in Sessions /\ sState[owner[o]] = "alive"

\* Nobody holds a pointer to freed memory: a session or object in a queue, or in
\* the hands of a thread, is alive and, unless the thread is the one to destroy
\* it, counted (the release assertions of sftk_FreeSession, NSC_CloseSession,
\* sftk_ReferenceObject and sftk_FreeObject).
NothingDangles ==
    /\ \A s \in queued : sState[s] = "alive" /\ sRef[s] > 0
    /\ \A o \in hashed : oState[o] = "alive" /\ oRef[o] > 0
    /\ \A t \in Threads :
          /\ ses[t] # None =>
                /\ sState[ses[t]] = "alive"
                /\ pc[t] \in {"clear", "destroy"} <=> sRef[ses[t]] = 0
          /\ \A o \in held[t] \cup ({obj[t]} \ {None}) : oState[o] = "alive" /\ oRef[o] > 0

\* Nothing is leaked: a session out of its bucket is freed, or some thread has
\* yet to drop a reference or to destroy it; and likewise an object out of the
\* queues, so closing a session leaves none of its objects behind.
NothingLeaks ==
    /\ \A s \in Sessions :
          sState[s] = "alive" => s \in queued \/ \E t \in Threads : Uses(t, s)
    /\ \A o \in Objects :
          oState[o] = "alive" =>
              o \in hashed \/ \E t \in Threads : obj[t] = o \/ o \in held[t]
=============================================================================
