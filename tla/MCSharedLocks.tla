--------------------------- MODULE MCSharedLocks ---------------------------
(* What threads and processes wait for, three mechanisms side by side: the *)
(* reader-writer lock, the initialisation of the library, and the locks of *)
(* the server's session cache.  A behaviour is one of the mechanism named  *)
(* by part, while the others rest.                                         *)
(*                                                                         *)
(* In the session cache two sessions have certificates, of which one fits, *)
(* and server names that are kept in the same place.                       *)
EXTENDS NSSRWLock, NSSInit, ServerSessionCache, TLC

CONSTANTS a, b, n1, n2

MCSessions == {a, b}
MCNameOf == a :> n1 @@ b :> n2
MCIndexOf == n1 :> 0 @@ n2 :> 0

VARIABLE part

allVars == <<part, vars, initVars, serverVars>>

MCInit == part \in {"rwlock", "init", "server"} /\ Init /\ LibInit /\ ServerInit

MCNext ==
    \/ part = "rwlock" /\ Next /\ UNCHANGED <<part, initVars, serverVars>>
    \/ part = "init" /\ LibNext /\ UNCHANGED <<part, vars, serverVars>>
    \/ part = "server" /\ ServerNext /\ UNCHANGED <<part, vars, initVars>>

\* The fairness of NSSRWLock and of ServerSessionCache, each for its part.
MCFairness ==
    /\ \A t \in Threads :
          /\ WF_vars(part = "rwlock" /\ LockRead_Woken(t))
          /\ WF_vars(part = "rwlock" /\ LockWrite_Woken(t))
          /\ WF_vars(part = "rwlock" /\ NSSRWLock_UnlockRead(t))
          /\ WF_vars(part = "rwlock" /\ NSSRWLock_UnlockWrite(t))
    /\ \A l \in LockNames :
          /\ WF_serverVars(part = "server" /\ LockPoller(l))
          /\ WF_serverVars(part = "server" /\ Ages(l))

MCSpec == MCInit /\ [][MCNext]_allVars /\ MCFairness
=============================================================================
