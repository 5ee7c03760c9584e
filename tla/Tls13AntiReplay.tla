--------------------------- MODULE Tls13AntiReplay ---------------------------
(***************************************************************************)
(* The anti-replay context of a TLS 1.3 server (tls13replay.c, sslbloom.c):*)
(* two Bloom filters that take turns, a check of the ticket age, server    *)
(* threads that run both without a common lock, and restarts.              *)
(*                                                                         *)
(* A 0-RTT attempt stands for its PSK binder, all its copies included.     *)
(* The hash of a binder is the set of filter bits it selects: Add and      *)
(* Check agree on "all of them are set", also where two hashes coincide.   *)
(* Time is ssl_Time in microseconds and never runs backwards.  A restart   *)
(* keeps the ticket keys, so that attempts are as valid after it.          *)
(***************************************************************************)
EXTENDS Integers, FiniteSets

CONSTANTS
    Attempts,
    External,      \* those with an external PSK, which has no age
    ticketAge,     \* the age a client claims, in milliseconds
    creationTime,  \* of the ticket, by the clock of the server
    Bits, Hash,    \* filter bits, and those an attempt selects
    Window,
    UsecPerMsec,   \* PR_USEC_PER_MSEC
    MaxDelay,      \* from the check of the age to the monitor
    Threads, None,
    MaxTime,       \* bound on the clock
    MaxRestarts    \* bound on restarts

ASSUME AttemptsAssumption ==
    /\ External \subseteq Attempts /\ None \notin Attempts
    /\ ticketAge \in [Attempts -> Nat] /\ creationTime \in [Attempts -> Nat]
    /\ Hash \in [Attempts -> SUBSET Bits]
ASSUME WindowAssumption == Window \in Nat \ {0} /\ UsecPerMsec \in Nat \ {0}
ASSUME DelayAssumption == MaxDelay \in 0..UsecPerMsec
ASSUME BoundAssumption == MaxTime \in Nat /\ MaxRestarts \in Nat

VARIABLES
    now,
    filters, current, nextUpdate,   \* the context
    checking,      \* the attempt whose age a thread has found good, or None
    checkedAt,     \* and when it did (0 with None)
    started,       \* when the context was created (history)
    restarts,
    seen,          \* attempts that reached a filter since (history)
    acceptedAt,    \* when a ticket's attempt was accepted, or Never (history)
    repeated       \* attempts accepted a second time (history)

ctx == <<filters, current, nextUpdate>>
history == <<started, restarts, seen, acceptedAt, repeated>>
vars == <<now, ctx, checking, checkedAt, history>>

Never == -1

Other(i) == 1 - i

\* The second filter starts full: nothing is accepted until it is zeroed.
CreatedFilters == [i \in 0..1 |-> IF i = 1 THEN Bits ELSE {}]

\* SSLExp_CreateAntiReplayContext.
Init ==
    /\ now = 0
    /\ filters = CreatedFilters
    /\ current = 0 /\ nextUpdate = Window
    /\ checking = [th \in Threads |-> None] /\ checkedAt = [th \in Threads |-> 0]
    /\ started = 0 /\ restarts = 0 /\ seen = {}
    /\ acceptedAt = [a \in Attempts \ External |-> Never] /\ repeated = {}

-----------------------------------------------------------------------------

Abs(n) == IF n < 0 THEN -n ELSE n

\* Mutant: a whole window of error is allowed to either side.
Allowance_Whole == Window \div UsecPerMsec

Allowance == Window \div (UsecPerMsec * 2)

tls13_InWindow(a, t) ==
    Abs(ticketAge[a] - ((t - creationTime[a]) \div UsecPerMsec)) < Allowance

\* tls13_IsReplay up to the monitor: an attempt outside the window is rejected
\* here; any copy of any attempt may arrive, at any time, at any thread.
CheckAge(th, a) ==
    /\ checking[th] = None
    /\ now >= creationTime[a]
    /\ a \in External \/ tls13_InWindow(a, now)
    /\ checking' = [checking EXCEPT ![th] = a]
    /\ checkedAt' = [checkedAt EXCEPT ![th] = now]
    /\ UNCHANGED <<now, ctx, history>>

Return(th) ==
    /\ checking' = [checking EXCEPT ![th] = None]
    /\ checkedAt' = [checkedAt EXCEPT ![th] = 0]

\* tls13_HkdfExpandLabelRaw fails: the attempt is rejected.
HashFails(th) ==
    /\ checking[th] # None
    /\ Return(th)
    /\ UNCHANGED <<now, ctx, history>>

\* Mutant: the filter that is zeroed is the one that was in use.
Updated_ZeroesOld ==
    IF now >= nextUpdate
    THEN [current |-> Other(current), nextUpdate |-> now + Window,
          filters |-> [filters EXCEPT ![current] = {}]]
    ELSE [current |-> current, nextUpdate |-> nextUpdate, filters |-> filters]

\* tls13_AntiReplayUpdate.
Updated ==
    IF now >= nextUpdate
    THEN [current |-> Other(current), nextUpdate |-> now + Window,
          filters |-> [filters EXCEPT ![Other(current)] = {}]]
    ELSE [current |-> current, nextUpdate |-> nextUpdate, filters |-> filters]

\* sslBloom_Add on the current filter, sslBloom_Check on the other.
Found(a, u) == \/ Hash[a] \subseteq u.filters[u.current]
               \/ Hash[a] \subseteq u.filters[Other(u.current)]

\* The early data is accepted.
Accept(a) ==
    IF a \in External THEN UNCHANGED <<acceptedAt, repeated>>
    ELSE /\ acceptedAt' = [acceptedAt EXCEPT ![a] = now]
         /\ repeated' = IF acceptedAt[a] = Never THEN repeated ELSE repeated \cup {a}

\* tls13_IsReplay in the monitor.
tls13_IsReplay(th) ==
    LET a == checking[th]
        u == Updated
    IN  /\ a # None
        /\ current' = u.current /\ nextUpdate' = u.nextUpdate
        /\ filters' = [u.filters EXCEPT ![u.current] = @ \cup Hash[a]]
        /\ Return(th)
        /\ seen' = seen \cup {a}
        /\ IF Found(a, u) THEN UNCHANGED <<acceptedAt, repeated>> ELSE Accept(a)
        /\ UNCHANGED <<now, started, restarts>>

\* The server process ends and another one creates its context.
Restart ==
    /\ restarts < MaxRestarts /\ restarts' = restarts + 1
    /\ filters' = CreatedFilters
    /\ current' = 0 /\ nextUpdate' = now + Window
    /\ checking' = [th \in Threads |-> None] /\ checkedAt' = [th \in Threads |-> 0]
    /\ started' = now /\ seen' = {}
    /\ UNCHANGED <<now, acceptedAt, repeated>>

\* Time passes; no thread is held up between its two looks at the clock for
\* longer than MaxDelay.
Tick ==
    /\ now < MaxTime
    /\ \A th \in Threads : checking[th] # None => now + 1 - checkedAt[th] <= MaxDelay
    /\ now' = now + 1
    /\ UNCHANGED <<ctx, checking, checkedAt, history>>

Next ==
    \/ \E th \in Threads :
          \/ \E a \in Attempts : CheckAge(th, a)
          \/ HashFails(th)
          \/ tls13_IsReplay(th)
    \/ Restart
    \/ Tick

Spec == Init /\ [][Next]_vars

-----------------------------------------------------------------------------
(* Properties.                                                             *)

\* There are two filters of Bits each: sslBloom_Fill and sslBloom_Add set no
\* other bit.
TypeOK ==
    /\ now \in Nat /\ nextUpdate \in Nat /\ started \in Nat /\ restarts \in Nat
    /\ filters \in [0..1 -> SUBSET Bits] /\ current \in 0..1
    /\ checking \in [Threads -> Attempts \cup {None}]
    /\ checkedAt \in [Threads -> Nat]
    /\ seen \subseteq Attempts /\ repeated \subseteq Attempts
    /\ acceptedAt \in [Attempts \ External -> Nat \cup {Never}]

\* Early data that rests on a ticket is accepted once: in whichever threads its
\* copies are handled, however the filters roll over in between, and across
\* restarts (the argument in the comment of tls13_InWindow).
AcceptedOnce == repeated = {}

\* Bits that no other attempt supplies.
Distinct(a) == ~(Hash[a] \subseteq UNION {Hash[b] : b \in Attempts \ {a}})

\* And it is not refused for ever: an attempt that comes in time and for the
\* first time is accepted, once a whole window has passed since the context was
\* created (tls13_AntiReplayUpdate zeroes the filter that started full) and if
\* no other attempts fill its bits.
FirstIsAccepted ==
    [][\A th \in Threads : \A a \in Attempts \ (seen \cup External) :
          (tls13_IsReplay(th) /\ checking[th] = a /\ Distinct(a)
              /\ now >= started + Window)
          => acceptedAt'[a] = now]_vars
=============================================================================
