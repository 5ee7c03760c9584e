----------------------------- MODULE MCSoftoken -----------------------------
(* A slot of the software token, two sides of it side by side: its         *)
(* sessions and session objects, and the login and key database.  A        *)
(* behaviour is one of the side named by part, while the other rests.      *)
(* Both have the same threads, so that one permutation serves for both.    *)
EXTENDS SoftokenObjects, SoftokenLogin, TLC

CONSTANTS s1, s2

MCSessions == {s1, s2}
MCHash == s1 :> 0 @@ s2 :> 1
MCSymmetry == Permutations(Threads) \cup Permutations(Passwords)

VARIABLE part

MCInit == part \in {"objects", "login"} /\ Init /\ LoginInit

MCNext ==
    \/ part = "objects" /\ Next /\ UNCHANGED <<part, loginVars>>
    \/ part = "login" /\ LoginNext /\ UNCHANGED <<part, vars>>

MCSpec == MCInit /\ [][MCNext]_<<part, vars, loginVars>>
=============================================================================
