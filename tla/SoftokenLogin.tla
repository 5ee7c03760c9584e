---------------------------- MODULE SoftokenLogin ----------------------------
(***************************************************************************)
(* The login state of one softoken slot and the key database behind it     *)
(* (pkcs11.c, sftkpwd.c, sftkdb.c, sdb.c): threads log in and out, open and *)
(* close sessions, write private objects and change the password, which    *)
(* re-encrypts every object in one transaction of the database.            *)
(*                                                                         *)
(* Three things must agree and are guarded by three different locks: the   *)
(* flag isLoggedIn and the count of sessions (slotLock), the key cached in *)
(* the handle (passwordLock) and the states of the sessions (one lock per  *)
(* bucket).  pwCheckLock serialises the calls that check a password.  A    *)
(* write transaction of the database excludes every other one.             *)
(*                                                                         *)
(* A key is what the password and the salt of the password entry derive to. *)
(* The database has a password and no call makes it empty, so needLogin is *)
(* set and the security officer never logs in; it is not being updated from *)
(* an older one.                                                           *)
(***************************************************************************)
EXTENDS Integers, FiniteSets, Sequences

CONSTANTS Users,        \* the threads
          Handles,      \* sessions
          Rows,         \* private objects of the key database
          Passwords,
          NoKey,
          NumBuckets,   \* sessHashSize
          BucketOf      \* the bucket of a session

\* The salt is the one the database came with or the one an upgrade draws.
Keys == Passwords \X {"old", "fresh"}

ASSUME NoKeyAssumption == NoKey \notin Keys
ASSUME SessionsAssumption == IsFiniteSet(Users) /\ IsFiniteSet(Handles)
ASSUME BucketsAssumption ==
    NumBuckets \in Nat \ {0} /\ BucketOf \in [Handles -> 0..(NumBuckets - 1)]

VARIABLES
    \* the key database
    entry,       \* the password entry: its key, and whether its iteration count is low
    stored,      \* the key each object is encrypted with, NoKey when there is none
    late,        \* objects encrypted while a committed change had not switched keys
    xact,        \* the open write transaction, <<>> when there is none
    \* the handle and the slot
    cached,      \* keydb->passwordKey
    checking,    \* who holds pwCheckLock: a set with at most one thread
    isLoggedIn,
    sessionCount,
    state,       \* session->info.state: closed, public or user
    \* threads
    at, op,
    key,         \* the key a thread is about to switch to
    todo,        \* the objects it has still to convert
    row          \* the bucket sftk_update_all_states or sftk_CloseAllSessions is at

dbVars == <<entry, stored, late, xact>>
slotVars == <<isLoggedIn, sessionCount, state>>
local == <<op, key, todo, row>>
loginVars == <<dbVars, cached, checking, slotVars, at, local>>

LoginInit ==
    /\ \E p \in Passwords, low \in BOOLEAN : entry = [key |-> <<p, "old">>, low |-> low]
    /\ stored = [o \in Rows |-> NoKey] /\ late = {} /\ xact = <<>>
    /\ cached = NoKey /\ checking = {}
    /\ isLoggedIn = FALSE /\ sessionCount = 0
    /\ state = [s \in Handles |-> "closed"]
    /\ at = [t \in Users |-> "idle"] /\ op = [t \in Users |-> "none"]
    /\ key = [t \in Users |-> NoKey] /\ todo = [t \in Users |-> {}]
    /\ row = [t \in Users |-> 0]

Enter(t, l) == at' = [at EXCEPT ![t] = l]

\* The call returns: nothing of it is left in the thread.
Return(t) ==
    /\ Enter(t, "idle")
    /\ op' = [op EXCEPT ![t] = "none"] /\ key' = [key EXCEPT ![t] = NoKey]
    /\ todo' = [todo EXCEPT ![t] = {}] /\ row' = [row EXCEPT ![t] = 0]

Queued == {s \in Handles : state[s] # "closed"}

-----------------------------------------------------------------------------
(* Sessions.                                                               *)

\* sftk_update_state
sftk_update_state == IF isLoggedIn THEN "user" ELSE "public"

\* NSC_OpenSession counts the session under slotLock ...
OpenSession(t) ==
    /\ at[t] = "idle" /\ sessionCount < Cardinality(Handles)
    /\ sessionCount' = sessionCount + 1
    /\ Enter(t, "open")
    /\ UNCHANGED <<dbVars, cached, checking, isLoggedIn, state, local>>

\* ... and then queues it under its bucket's lock, in the state of that moment.
QueueSession(t) ==
    /\ at[t] = "open"
    /\ \E s \in Handles \ Queued : state' = [state EXCEPT ![s] = sftk_update_state]
    /\ Return(t)
    /\ UNCHANGED <<dbVars, cached, checking, isLoggedIn, sessionCount>>

\* NSC_CloseSession, the section under the bucket's lock ...
CloseSession(t, s) ==
    /\ at[t] = "idle" /\ s \in Queued
    /\ state' = [state EXCEPT ![s] = "closed"]
    /\ Enter(t, "uncount")
    /\ UNCHANGED <<dbVars, cached, checking, isLoggedIn, sessionCount, local>>

\* ... and the one under slotLock: the last session to go logs the user out.
\* sftk_CloseAllSessions only counts.
Uncount(t) ==
    /\ at[t] = "uncount"
    /\ sessionCount' = sessionCount - 1
    /\ IF op[t] = "close_all"
       THEN Enter(t, "close_all") /\ UNCHANGED <<isLoggedIn, cached, local>>
       ELSE /\ isLoggedIn' = (isLoggedIn /\ sessionCount > 1)
            /\ cached' = IF sessionCount > 1 THEN cached ELSE NoKey
            /\ Return(t)
    /\ UNCHANGED <<dbVars, checking, state>>

\* NSC_CloseAllSessions: first it logs out ...
CloseAllSessions(t) ==
    /\ at[t] = "idle"
    /\ isLoggedIn' = FALSE /\ cached' = NoKey
    /\ op' = [op EXCEPT ![t] = "close_all"]
    /\ Enter(t, "close_all")
    /\ UNCHANGED <<dbVars, checking, sessionCount, state, key, todo, row>>

\* ... then it takes the sessions out of one bucket after the other.
CloseBucket(t) ==
    LET inBucket == {s \in Queued : BucketOf[s] = row[t]}
    IN  /\ at[t] = "close_all"
        /\ \/ /\ \E s \in inBucket : state' = [state EXCEPT ![s] = "closed"]
              /\ Enter(t, "uncount")
              /\ UNCHANGED local
           \/ /\ inBucket = {} /\ row[t] + 1 < NumBuckets
              /\ row' = [row EXCEPT ![t] = @ + 1]
              /\ UNCHANGED <<state, at, op, key, todo>>
           \/ /\ inBucket = {} /\ row[t] + 1 = NumBuckets
              /\ Return(t)
              /\ UNCHANGED state
        /\ UNCHANGED <<dbVars, cached, checking, isLoggedIn, sessionCount>>

\* Mutant: it stops at the last bucket without updating it.
sftk_update_all_states_Short(t) ==
    /\ at[t] = "update"
    /\ IF row[t] + 1 < NumBuckets
       THEN /\ state' = [s \in Handles |-> IF s \in Queued /\ BucketOf[s] = row[t]
                                           THEN sftk_update_state ELSE state[s]]
            /\ row' = [row EXCEPT ![t] = @ + 1]
            /\ UNCHANGED <<at, op, key, todo>>
       ELSE Return(t) /\ UNCHANGED state
    /\ UNCHANGED <<dbVars, cached, checking, isLoggedIn, sessionCount>>

\* sftk_update_all_states: one bucket after the other, each under its lock.
sftk_update_all_states(t) ==
    /\ at[t] = "update"
    /\ state' = [s \in Handles |-> IF s \in Queued /\ BucketOf[s] = row[t]
                                   THEN sftk_update_state ELSE state[s]]
    /\ IF row[t] + 1 < NumBuckets
       THEN row' = [row EXCEPT ![t] = @ + 1] /\ UNCHANGED <<at, op, key, todo>>
       ELSE Return(t)
    /\ UNCHANGED <<dbVars, cached, checking, isLoggedIn, sessionCount>>

-----------------------------------------------------------------------------
(* Login and logout.                                                       *)

\* NSC_Login finds a session and that nobody is logged in.
NSC_Login(t) ==
    /\ at[t] = "idle" /\ Queued # {} /\ ~isLoggedIn
    /\ op' = [op EXCEPT ![t] = "login"]
    /\ Enter(t, "login")
    /\ UNCHANGED <<dbVars, cached, checking, slotVars, key, todo, row>>

\* Mutant: the password is checked without pwCheckLock.
sftkdb_CheckPassword_Unlocked(t, pw) ==
    /\ at[t] = "login"
    /\ IF pw = entry.key[1]
       THEN /\ key' = [key EXCEPT ![t] = entry.key]
            /\ Enter(t, "login_switch")
            /\ UNCHANGED <<op, todo, row>>
       ELSE Return(t)
    /\ UNCHANGED <<checking, dbVars, cached, slotVars>>

\* sftkdb_CheckPassword under pwCheckLock: the key is derived from the entry
\* and decrypts it if the password is right.
sftkdb_CheckPassword(t, pw) ==
    /\ at[t] = "login" /\ checking = {}
    /\ IF pw = entry.key[1]
       THEN /\ checking' = {t}
            /\ key' = [key EXCEPT ![t] = entry.key]
            /\ Enter(t, "login_switch")
            /\ UNCHANGED <<op, todo, row>>
       ELSE Return(t) /\ UNCHANGED checking
    /\ UNCHANGED <<dbVars, cached, slotVars>>

\* The rest of sftkdb_finishPasswordCheck: the key is cached; an entry with a
\* low iteration count is upgraded, otherwise pwCheckLock is released.
sftkdb_finishPasswordCheck(t) ==
    /\ at[t] = "login_switch"
    /\ cached' = key[t]
    /\ IF entry.low
       THEN Enter(t, "upgrade") /\ UNCHANGED checking
       ELSE Enter(t, "flags") /\ checking' = checking \ {t}
    /\ UNCHANGED <<dbVars, slotVars, local>>

\* Mutant: the flag is set because the password was right.
FinishLogin_Always(t) ==
    /\ at[t] = "flags"
    /\ isLoggedIn' = TRUE
    /\ Enter(t, "update")
    /\ UNCHANGED <<dbVars, cached, checking, sessionCount, state, local>>

\* The end of NSC_Login and NSC_SetPIN under slotLock: "make sure the login
\* state matches the underlying database state".
FinishLogin(t) ==
    /\ at[t] = "flags"
    /\ isLoggedIn' = (cached # NoKey)
    /\ Enter(t, "update")
    /\ UNCHANGED <<dbVars, cached, checking, sessionCount, state, local>>

\* NSC_Logout finds a session and that the user is logged in; then, under
\* slotLock, it logs out whatever happened in between.
NSC_Logout(t) ==
    /\ at[t] = "idle" /\ Queued # {} /\ isLoggedIn
    /\ Enter(t, "logout")
    /\ UNCHANGED <<dbVars, cached, checking, slotVars, local>>

ClearLogin(t) ==
    /\ at[t] = "logout"
    /\ isLoggedIn' = FALSE /\ cached' = NoKey
    /\ Enter(t, "update")
    /\ UNCHANGED <<dbVars, checking, sessionCount, state, local>>

-----------------------------------------------------------------------------
(* Transactions of the key database.                                       *)

\* sdb_Begin: BEGIN IMMEDIATE waits for every other write transaction.
sdb_Begin(t, rows, lateRows) ==
    /\ xact = <<>>
    /\ xact' = <<[by |-> t, stored |-> rows, late |-> lateRows]>>

\* sdb_complete ends the transaction of the calling thread and no other, so a
\* caller whose sdb_Begin failed aborts nothing.
sdb_Abort(t) ==
    /\ xact' = IF xact # <<>> /\ xact[1].by = t THEN <<>> ELSE xact
    /\ UNCHANGED <<entry, stored, late>>

sdb_Commit ==
    stored' = xact[1].stored /\ late' = xact[1].late /\ xact' = <<>>

\* A change is between its commit and sftkdb_switchKeys.
Committed == \E t \in Users : at[t] = "switch"

\* sftkdb_write of a private object, new or updated, encrypted with the cached
\* key; without one it fails.
sftkdb_write(t, o) ==
    /\ at[t] = "idle" /\ cached # NoKey
    /\ sdb_Begin(t, [stored EXCEPT ![o] = cached],
                 IF Committed THEN late \cup {o} ELSE late \ {o})
    /\ Enter(t, "write")
    /\ UNCHANGED <<entry, stored, late, cached, checking, slotVars, local>>

FinishWrite(t) ==
    /\ at[t] = "write"
    /\ \/ sdb_Abort(t)
       \/ sdb_Commit /\ UNCHANGED entry
    /\ Return(t)
    /\ UNCHANGED <<cached, checking, slotVars>>

\* sftkdb_DestroyObject, a transaction that does not look at the key.
sftkdb_DestroyObject(t, o) ==
    /\ at[t] = "idle" /\ xact = <<>> /\ stored[o] # NoKey
    /\ stored' = [stored EXCEPT ![o] = NoKey] /\ late' = late \ {o}
    /\ UNCHANGED <<entry, xact, cached, checking, slotVars, at, local>>

-----------------------------------------------------------------------------
(* Changing the password.                                                  *)

\* NSC_SetPIN looks up a session, which must be a user session.
NSC_SetPIN(t) ==
    /\ at[t] = "idle" /\ \E s \in Handles : state[s] = "user"
    /\ op' = [op EXCEPT ![t] = "set_pin"]
    /\ Enter(t, "set_pin")
    /\ UNCHANGED <<dbVars, cached, checking, slotVars, key, todo, row>>

\* The call fails: its transaction, if it has one, is aborted and pwCheckLock
\* released.  A login goes on: "Upgrade is best-effort".
FailChange(t) ==
    /\ sdb_Abort(t)
    /\ checking' = checking \ {t}
    /\ IF op[t] = "login"
       THEN Enter(t, "flags") /\ UNCHANGED local
       ELSE Return(t)
    /\ UNCHANGED <<cached, slotVars>>

\* sftkdb_reencryptDatabase for NSC_SetPIN, to the check of the old password,
\* which caches its key.  The salt is kept: its length suits both passwords.
sftkdb_ChangePassword(t, old, new) ==
    /\ at[t] = "set_pin" /\ checking = {} /\ xact = <<>>
    /\ IF old = entry.key[1]
       THEN /\ sdb_Begin(t, stored, late)
            /\ checking' = {t}
            /\ cached' = entry.key
            /\ key' = [key EXCEPT ![t] = <<new, entry.key[2]>>]
            /\ todo' = [todo EXCEPT ![t] = Rows]
            /\ Enter(t, "convert")
            /\ UNCHANGED <<entry, stored, late, slotVars, op, row>>
       ELSE Return(t) /\ UNCHANGED <<dbVars, cached, checking, slotVars>>

\* sftkdb_reencryptDatabase for sftkdb_upgradeKDF: the same password with a
\* fresh salt.
sftkdb_upgradeKDF(t) ==
    /\ at[t] = "upgrade" /\ xact = <<>>
    /\ sdb_Begin(t, stored, late)
    /\ key' = [key EXCEPT ![t] = <<@[1], "fresh">>]
    /\ todo' = [todo EXCEPT ![t] = Rows]
    /\ Enter(t, "convert")
    /\ UNCHANGED <<entry, stored, late, cached, checking, slotVars, op, row>>

\* Mutant: an object that cannot be read is passed over.
sftk_convertAttributes_Skips(t, o) ==
    /\ at[t] = "convert" /\ o \in todo[t]
    /\ IF xact[1].stored[o] = cached /\ cached # NoKey
       THEN xact' = <<[xact[1] EXCEPT !.stored[o] = key[t], !.late = @ \ {o}]>>
       ELSE UNCHANGED xact
    /\ todo' = [todo EXCEPT ![t] = @ \ {o}]
    /\ UNCHANGED <<entry, stored, late, cached, checking, slotVars, at, op, key, row>>

\* sftk_convertAttributes: the object is read with the cached key and written
\* with the new one; if it cannot be read the change fails.
sftk_convertAttributes(t, o) ==
    /\ at[t] = "convert" /\ o \in todo[t]
    /\ IF xact[1].stored[o] \in {NoKey, cached}
       THEN /\ xact' = <<[xact[1] EXCEPT !.stored[o] = IF @ = NoKey THEN @ ELSE key[t],
                                         !.late = @ \ {o}]>>
            /\ todo' = [todo EXCEPT ![t] = @ \ {o}]
            /\ UNCHANGED <<entry, stored, late, cached, checking, slotVars, at, op, key, row>>
       ELSE FailChange(t)

\* The password entry is written and the transaction committed; any call of the
\* database may fail instead.
CommitChange(t) ==
    /\ at[t] = "convert" /\ todo[t] = {}
    /\ entry' = [key |-> key[t], low |-> FALSE]
    /\ sdb_Commit
    /\ Enter(t, "switch")
    /\ UNCHANGED <<cached, checking, slotVars, local>>

DatabaseFails(t) == at[t] \in {"set_pin", "upgrade", "convert"} /\ FailChange(t)

\* sftkdb_switchKeys after the commit, and the release of pwCheckLock.
sftkdb_switchKeys(t) ==
    /\ at[t] = "switch"
    /\ cached' = key[t]
    /\ checking' = checking \ {t}
    /\ Enter(t, "flags")
    /\ UNCHANGED <<dbVars, slotVars, local>>

\* The process ends at any moment and is started again: sqlite rolls the open
\* transaction back, and nobody is logged in.
Crash ==
    /\ xact' = <<>> /\ cached' = NoKey /\ checking' = {}
    /\ isLoggedIn' = FALSE /\ sessionCount' = 0
    /\ state' = [s \in Handles |-> "closed"]
    /\ at' = [t \in Users |-> "idle"] /\ op' = [t \in Users |-> "none"]
    /\ key' = [t \in Users |-> NoKey] /\ todo' = [t \in Users |-> {}]
    /\ row' = [t \in Users |-> 0]
    /\ UNCHANGED <<entry, stored, late>>

LoginStep(t) ==
    \/ OpenSession(t) \/ QueueSession(t)
    \/ \E s \in Handles : CloseSession(t, s)
    \/ Uncount(t)
    \/ CloseAllSessions(t) \/ CloseBucket(t)
    \/ sftk_update_all_states(t)
    \/ NSC_Login(t) \/ FinishLogin(t)
    \/ \E pw \in Passwords : sftkdb_CheckPassword(t, pw)
    \/ sftkdb_finishPasswordCheck(t)
    \/ NSC_Logout(t) \/ ClearLogin(t)
    \/ NSC_SetPIN(t)
    \/ \E old, new \in Passwords : sftkdb_ChangePassword(t, old, new)
    \/ sftkdb_upgradeKDF(t)
    \/ \E o \in Rows :
          \/ sftk_convertAttributes(t, o)
          \/ sftkdb_write(t, o)
          \/ sftkdb_DestroyObject(t, o)
    \/ FinishWrite(t)
    \/ CommitChange(t) \/ DatabaseFails(t) \/ sftkdb_switchKeys(t)

LoginNext == Crash \/ \E t \in Users : LoginStep(t)

LoginSpec == LoginInit /\ [][LoginNext]_loginVars

-----------------------------------------------------------------------------
(* Properties.                                                             *)

\* Types of the variables.
LoginTypeOK ==
    /\ entry \in [key : Keys, low : BOOLEAN]
    /\ stored \in [Rows -> Keys \cup {NoKey}] /\ late \subseteq Rows
    /\ \/ xact = <<>>
       \/ \E x \in [by : Users, stored : [Rows -> Keys \cup {NoKey}], late : SUBSET Rows] :
             xact = <<x>>
    /\ cached \in Keys \cup {NoKey} /\ checking \subseteq Users
    /\ isLoggedIn \in BOOLEAN /\ sessionCount \in Nat
    /\ state \in [Handles -> {"closed", "public", "user"}]
    /\ at \in [Users -> {"idle", "open", "uncount", "close_all", "update", "login",
                         "login_switch", "upgrade", "flags", "logout", "write",
                         "set_pin", "convert", "switch"}]
    /\ op \in [Users -> {"none", "login", "set_pin", "close_all"}]
    /\ key \in [Users -> Keys \cup {NoKey}] /\ todo \in [Users -> SUBSET Rows]
    /\ row \in [Users -> 0..(NumBuckets - 1)]

\* "A key attached to the handle tells us the token is logged in": whoever sees
\* the slot logged in finds a key in the handle, though the flag and the key
\* are set by different calls under different locks.
LoginMatchesDatabase == isLoggedIn => cached # NoKey

\* Once the calls that log in, log out or close all sessions have ended, the
\* state of every session is the slot's: no session opened or updated in
\* between keeps the other state.
StatesSettle ==
    (\A t \in Users : at[t] # "update" /\ op[t] # "close_all") =>
        \A s \in Queued : state[s] = sftk_update_state

\* The cached key is that of the password entry on disk, except between the
\* commit of a change and its sftkdb_switchKeys.
CachedKeyIsCurrent == cached \in {NoKey, entry.key} \/ Committed

\* After any number of changes, failures and crashes, an object is encrypted
\* with the key of the password entry, unless it was written in that window.
StoredKeysAgree ==
    \A o \in Rows : stored[o] \in {NoKey, entry.key} \/ o \in late
=============================================================================
