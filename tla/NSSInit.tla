------------------------------- MODULE NSSInit -------------------------------
(***************************************************************************)
(* Initialising and shutting down the library from several threads         *)
(* (nss/nssinit.c).  The application calls NSS_Init, NSS_Shutdown and      *)
(* NSS_ShutdownContext(NULL); libraries in the same process each have a    *)
(* context from NSS_InitContext and shut it down.                          *)
(*                                                                         *)
(* A step is a stretch of code under nssInitLock: from PR_Lock or from the *)
(* return of PR_WaitCondVar to PR_Unlock or the next PR_WaitCondVar.  What *)
(* nss_Init does without the lock, between its two sections, is the time a *)
(* thread is "in_init"; nss_Shutdown runs under the lock.  A thread that   *)
(* was notified and has not got the lock again is as one that asks for it  *)
(* the first time.                                                         *)
(***************************************************************************)
EXTENDS Integers, FiniteSets

CONSTANTS Callers      \* threads, each with at most one context

ASSUME CallersAssumption == IsFiniteSet(Callers)

VARIABLES
    nssIsInitted,
    nssInitContextList,   \* the callers whose context is in the list
    nssIsInInit,
    ready,       \* the basic initialisation was done and not undone (history)
    place,       \* where each thread is
    caller,      \* it calls for the application, for a context or, in NSS_Shutdown, all
    really,      \* its isReallyInitted
    skipped      \* waiters a single notification passed over (history)

globals == <<nssIsInitted, nssInitContextList, nssIsInInit, ready>>
initVars == <<globals, place, caller, really, skipped>>

At(p) == {t \in Callers : place[t] = p}
Waiting == At("init_waits") \cup At("shutdown_waits")

NSS_IsInitialized == nssIsInitted \/ nssInitContextList # {}

LibInit ==
    /\ nssIsInitted = FALSE /\ nssInitContextList = {} /\ nssIsInInit = 0
    /\ ready = FALSE
    /\ place = [t \in Callers |-> "out"]
    /\ caller = [t \in Callers |-> "application"]
    /\ really = [t \in Callers |-> FALSE]
    /\ skipped = {}

\* A waiter that is notified asks for the lock again.
Resume(p) == IF p = "init_waits" THEN "init" ELSE "shutdown"

-----------------------------------------------------------------------------

\* nss_Init up to PR_Lock; NSS_Init returns at once if nssIsInitted is seen set.
nss_Init(t, who) ==
    /\ place[t] = "out"
    /\ IF who = "context" THEN t \notin nssInitContextList ELSE ~nssIsInitted
    /\ place' = [place EXCEPT ![t] = "init"]
    /\ caller' = [caller EXCEPT ![t] = who]
    /\ UNCHANGED <<globals, really, skipped>>

\* The first section: until the library is initialised, one thread at a time.
EnterInit(t) ==
    /\ place[t] = "init"
    /\ IF ~NSS_IsInitialized /\ nssIsInInit > 0
       THEN /\ place' = [place EXCEPT ![t] = "init_waits"]
            /\ UNCHANGED <<nssIsInInit, really>>
       ELSE /\ place' = [place EXCEPT ![t] = "in_init"]
            /\ nssIsInInit' = nssIsInInit + 1
            /\ really' = [really EXCEPT ![t] = NSS_IsInitialized]
    /\ UNCHANGED <<nssIsInitted, nssInitContextList, ready, caller, skipped>>

\* Mutant: one waiter is notified where all could go on.
InitSucceeds_NotifyOne(t) ==
    /\ place[t] = "in_init"
    /\ ready' = TRUE
    /\ nssIsInitted' = (nssIsInitted \/ caller[t] = "application")
    /\ nssInitContextList' = IF caller[t] = "context" THEN nssInitContextList \cup {t}
                             ELSE nssInitContextList
    /\ nssIsInInit' = nssIsInInit - 1
    /\ IF Waiting = {} THEN place' = [place EXCEPT ![t] = "out"]
       ELSE \E w \in Waiting :
               place' = [place EXCEPT ![t] = "out", ![w] = Resume(@)]
    /\ UNCHANGED <<caller, really, skipped>>

\* The second section: the basic initialisation is done, unless another thread
\* had done it; the state is marked and all waiters are notified.
InitSucceeds(t) ==
    /\ place[t] = "in_init"
    /\ ready' = TRUE
    /\ nssIsInitted' = (nssIsInitted \/ caller[t] = "application")
    /\ nssInitContextList' = IF caller[t] = "context" THEN nssInitContextList \cup {t}
                             ELSE nssInitContextList
    /\ nssIsInInit' = nssIsInInit - 1
    /\ place' = [u \in Callers |-> IF u = t THEN "out"
                                   ELSE IF u \in Waiting THEN Resume(place[u])
                                   ELSE place[u]]
    /\ skipped' = {}
    /\ UNCHANGED <<caller, really>>

\* The loser path: nothing is undone, and one waiter is notified.
InitFails(t) ==
    /\ place[t] = "in_init"
    /\ nssIsInInit' = nssIsInInit - 1
    /\ \/ /\ Waiting = {}
          /\ place' = [place EXCEPT ![t] = "out"]
          /\ UNCHANGED skipped
       \/ \E w \in Waiting :
             /\ place' = [place EXCEPT ![t] = "out", ![w] = Resume(@)]
             /\ skipped' = Waiting \ {w}
    /\ UNCHANGED <<nssIsInitted, nssInitContextList, ready, caller, really>>

-----------------------------------------------------------------------------

\* Mutant: a shutdown does not wait for the threads in nss_Init.
InitBusy_Never == FALSE

InitBusy == nssIsInInit > 0

\* A shutdown waits while any thread is in nss_Init.  Then NSS_Shutdown calls
\* nss_Shutdown whoever else has NSS open; NSS_ShutdownContext removes its user
\* and calls it if that was the last one.
WaitOrShutdown(t, who) ==
    LET users == (IF nssIsInitted THEN {"application"} ELSE {}) \cup nssInitContextList
        me == IF who = "context" THEN t ELSE who
        down == who = "all" \/ users = {me}
    IN  /\ IF InitBusy
           THEN /\ place' = [place EXCEPT ![t] = "shutdown_waits"]
                /\ UNCHANGED <<nssIsInitted, nssInitContextList, ready>>
           ELSE /\ place' = [place EXCEPT ![t] = "out"]
                /\ nssIsInitted' = (nssIsInitted /\ who = "context" /\ ~down)
                /\ nssInitContextList' = IF down THEN {} ELSE nssInitContextList \ {me}
                /\ ready' = (ready /\ ~down)
        /\ caller' = [caller EXCEPT ![t] = who]
        /\ UNCHANGED <<nssIsInInit, really, skipped>>

\* NSS_Shutdown asks nssIsInitted once, before it waits.
NSS_Shutdown(t) == place[t] = "out" /\ nssIsInitted /\ WaitOrShutdown(t, "all")

NSS_ShutdownContext(t, who) == place[t] = "out" /\ WaitOrShutdown(t, who)

ShutdownResumes(t) == place[t] = "shutdown" /\ WaitOrShutdown(t, caller[t])

LibStep(t) ==
    \/ \E who \in {"application", "context"} :
          nss_Init(t, who) \/ NSS_ShutdownContext(t, who)
    \/ EnterInit(t) \/ InitSucceeds(t) \/ InitFails(t)
    \/ NSS_Shutdown(t) \/ ShutdownResumes(t)

LibNext == \E t \in Callers : LibStep(t)

LibSpec == LibInit /\ [][LibNext]_initVars

-----------------------------------------------------------------------------
(* Properties.                                                             *)

\* Types of the variables; nssIsInInit counts the threads in nss_Init.
LibTypeOK ==
    /\ nssIsInitted \in BOOLEAN /\ nssInitContextList \subseteq Callers
    /\ nssIsInInit = Cardinality(At("in_init"))
    /\ ready \in BOOLEAN
    /\ place \in [Callers -> {"out", "init", "init_waits", "in_init",
                              "shutdown", "shutdown_waits"}]
    /\ caller \in [Callers -> {"application", "context", "all"}] /\ really \in [Callers -> BOOLEAN]
    /\ skipped \subseteq Callers

\* "if we haven't done basic initialization, single thread the initializations":
\* a thread that does the basic initialisation is alone in nss_Init, on a
\* library that nobody has open; one that leaves it out finds it done and not
\* undone by a shutdown; and the library is ready for whoever has it open.
InitOnce ==
    /\ \A t \in At("in_init") :
          IF really[t] THEN ready
          ELSE ~NSS_IsInitialized /\ At("in_init") = {t}
    /\ NSS_IsInitialized => ready

\* A thread sleeps in PR_WaitCondVar only while what it waits for is not there:
\* every other wake-up reaches it.  The exception is a failed initialisation,
\* which wakes one of several waiters; the others sleep on until some later
\* initialisation succeeds.
SleepsForAReason ==
    /\ \A t \in At("init_waits") \ skipped : ~NSS_IsInitialized /\ nssIsInInit > 0
    /\ \A t \in At("shutdown_waits") \ skipped : nssIsInInit > 0
=============================================================================
