---------------------------- MODULE MCResumption ----------------------------
(* Both ends of a resumption, side by side: the client's session cache and *)
(* the server's anti-replay filters.  A behaviour is one of the end named  *)
(* by part, while the other rests.                                         *)
(*                                                                         *)
(* Client: two sockets, each run by its thread, and memory for three       *)
(* sessions.  Server: two threads; a microsecond is a tick, two make a     *)
(* millisecond, and the window is 8.  One attempt claims an age that is in *)
(* the window before and after a rollover, the other comes later; a third  *)
(* has an external PSK and shares bits with both.                          *)
(* The sockets bear the names of the server's threads, which changes       *)
(* nothing and lets one permutation serve for both.                        *)
EXTENDS Tls13AntiReplay, ClientSessionCache, TLC

CONSTANTS a1, a2, x

MCAge == [a \in Attempts |-> IF a \in External THEN 0 ELSE 4]
MCCreation == [a \in Attempts |-> IF a = a1 THEN 2 ELSE IF a = a2 THEN 9 ELSE 0]
MCHash == [a \in Attempts |-> IF a = a1 THEN {1, 2} ELSE IF a = a2 THEN {3, 4} ELSE {2, 3}]
MCSymmetry == Permutations(Threads) \cup Permutations(Sids)

VARIABLE part

MCInit == part \in {"client", "server"} /\ Init /\ ClientInit

MCNext ==
    \/ part = "client" /\ ClientNext /\ UNCHANGED <<part, vars>>
    \/ part = "server" /\ Next /\ UNCHANGED <<part, cacheVars>>

MCSpec == MCInit /\ [][MCNext]_<<part, vars, cacheVars>>
=============================================================================
