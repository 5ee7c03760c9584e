------------------------ MODULE SoftokenLoginProofs ------------------------
(***************************************************************************)
(* The login of a slot and its key database, for any finite sets of        *)
(* threads and sessions, any buckets, objects and passwords.  The          *)
(* invariant says which lock or transaction protects a key while a thread  *)
(* has it in its hands, what a transaction would leave, and which walk     *)
(* over the buckets has still to come to a session whose state is not the  *)
(* slot's.                                                                 *)
(***************************************************************************)
EXTENDS SoftokenLogin, FiniteSetTheorems, TLAPS

\* The leaves are Zenon's unless they name SMT.
USE ZenonT(20)

\* A thread holds pwCheckLock from a password that was right to the switch of
\* keys, and the write transaction while it writes or converts.
LocksHeld ==
    /\ \A t \in Users : at[t] \in {"login_switch", "upgrade", "convert", "switch"} => checking = {t}
    /\ \A t \in Users : at[t] \in {"write", "convert"} <=> xact # <<>> /\ xact[1].by = t

\* The key a thread is about to switch to: that of the entry, except while it
\* converts the objects to a new one.
KeysRight ==
    \A t \in Users :
        /\ at[t] \in {"login_switch", "upgrade", "switch"} => key[t] = entry.key
        /\ at[t] = "convert" => key[t] \in Keys

\* What a transaction would leave: objects of the entry's key or written late,
\* and those that are converted already have the new key.
XactAgrees ==
    xact # <<>> =>
        LET x == xact[1]
        IN  \A o \in Rows :
               IF at[x.by] = "convert" /\ o \notin todo[x.by]
               THEN x.stored[o] \in {NoKey, key[x.by]}
               ELSE x.stored[o] \in {NoKey, entry.key} \/ o \in x.late

\* The sessions counted are those queued, and those that a thread is about to
\* queue or has taken out.
Moving == {t \in Users : at[t] \in {"open", "uncount"}}
SessionsAreCounted == sessionCount = Cardinality(Queued) + Cardinality(Moving)

\* A walk over the buckets begins at the first one.
WalksStart ==
    \A t \in Users :
        /\ op[t] = "close_all" => at[t] \in {"close_all", "uncount"}
        /\ at[t] = "close_all" => op[t] = "close_all"
        /\ at[t] # "update" /\ op[t] # "close_all" => row[t] = 0

\* A session that has not the slot's state is in a bucket that some walk has
\* still to come to.
Walks(t, s) == (at[t] = "update" \/ op[t] = "close_all") /\ row[t] <= BucketOf[s]
StatesWalked ==
    \A s \in Queued : state[s] = sftk_update_state \/ \E t \in Users : Walks(t, s)

LoginIInv ==
    /\ LoginTypeOK /\ LocksHeld /\ KeysRight
    /\ LoginMatchesDatabase /\ CachedKeyIsCurrent
    /\ XactAgrees /\ StoredKeysAgree
    /\ SessionsAreCounted /\ WalksStart /\ StatesWalked

-----------------------------------------------------------------------------
(* Counting sessions.                                                      *)

LEMMA CountFacts ==
    /\ IsFiniteSet(Queued) /\ Cardinality(Queued) \in Nat
    /\ IsFiniteSet(Moving) /\ Cardinality(Moving) \in Nat
<1>1. Queued \subseteq Handles /\ Moving \subseteq Users BY DEF Queued, Moving
<1>2. IsFiniteSet(Queued) /\ IsFiniteSet(Moving)
  BY <1>1, SessionsAssumption, FS_Subset
<1> QED BY <1>2, FS_CardinalityType

\* Where a thread moves a session, the count follows.
LEMMA CountAll ==
    ASSUME SessionsAreCounted, sessionCount' = sessionCount, Queued' = Queued, Moving' = Moving
    PROVE  SessionsAreCounted'
BY DEF SessionsAreCounted

LEMMA CountIn ==
    ASSUME SessionsAreCounted, NEW t, t \notin Moving, Moving' = Moving \cup {t},
           sessionCount' = sessionCount + 1, Queued' = Queued
    PROVE  SessionsAreCounted'
<1>1. Cardinality(Moving') = Cardinality(Moving) + 1 BY CountFacts, FS_AddElement
<1> QED BY SMTT(30), <1>1, CountFacts DEF SessionsAreCounted

LEMMA CountQueued ==
    ASSUME SessionsAreCounted, NEW t, t \in Moving, Moving' = Moving \ {t},
           NEW s, s \notin Queued, Queued' = Queued \cup {s}, sessionCount' = sessionCount
    PROVE  SessionsAreCounted'
<1>1. Cardinality(Moving') = Cardinality(Moving) - 1 BY CountFacts, FS_RemoveElement
<1>2. Cardinality(Queued') = Cardinality(Queued) + 1 BY CountFacts, FS_AddElement
<1> QED BY SMTT(30), <1>1, <1>2, CountFacts DEF SessionsAreCounted

LEMMA CountTaken ==
    ASSUME SessionsAreCounted, NEW t, t \notin Moving, Moving' = Moving \cup {t},
           NEW s, s \in Queued, Queued' = Queued \ {s}, sessionCount' = sessionCount
    PROVE  SessionsAreCounted'
<1>1. Cardinality(Moving') = Cardinality(Moving) + 1 BY CountFacts, FS_AddElement
<1>2. Cardinality(Queued') = Cardinality(Queued) - 1 BY CountFacts, FS_RemoveElement
<1> QED BY SMTT(30), <1>1, <1>2, CountFacts DEF SessionsAreCounted

LEMMA CountOut ==
    ASSUME SessionsAreCounted, NEW t, t \in Moving, Moving' = Moving \ {t},
           sessionCount' = sessionCount - 1, Queued' = Queued
    PROVE  SessionsAreCounted'
<1>1. Cardinality(Moving') = Cardinality(Moving) - 1 BY CountFacts, FS_RemoveElement
<1> QED BY SMTT(30), <1>1, CountFacts DEF SessionsAreCounted

\* The thread that takes the last session off the count leaves none queued.
LEMMA LastSession ==
    ASSUME SessionsAreCounted, NEW t, t \in Moving
    PROVE  sessionCount \in Nat /\ sessionCount >= 1 /\ (sessionCount <= 1 => Queued = {})
<1>1. Cardinality(Moving) >= 1
  <2>1. Cardinality(Moving \ {t}) = Cardinality(Moving) - 1 /\ IsFiniteSet(Moving \ {t})
    BY CountFacts, FS_RemoveElement
  <2>2. Cardinality(Moving \ {t}) \in Nat BY <2>1, FS_CardinalityType
  <2> QED BY SMTT(30), <2>1, <2>2, CountFacts
<1>2. sessionCount <= 1 => Cardinality(Queued) = 0
  BY SMTT(30), <1>1, CountFacts DEF SessionsAreCounted
<1>3. sessionCount \in Nat /\ sessionCount >= 1
  BY SMTT(30), <1>1, CountFacts DEF SessionsAreCounted
<1> QED BY <1>2, <1>3, CountFacts, FS_EmptySet

LEMMA LoginCounts ==
    ASSUME LoginTypeOK, SessionsAreCounted, WalksStart, NEW t \in Users, LoginStep(t)
    PROVE  SessionsAreCounted'
<1>1. ASSUME at'[t] \notin {"open", "uncount"}, at[t] \notin {"open", "uncount"},
             sessionCount' = sessionCount, Queued' = Queued,
             \A u \in Users \ {t} : at'[u] = at[u]
      PROVE SessionsAreCounted'
  <2>1. Moving' = Moving BY <1>1 DEF Moving
  <2> QED BY <1>1, <2>1, CountAll
<1>2. ASSUME state' = state PROVE Queued' = Queued BY <1>2 DEF Queued
<1>3. CASE OpenSession(t)
  <2>1. t \notin Moving /\ Moving' = Moving \cup {t}
    BY SMTT(30), <1>3 DEF OpenSession, Moving, Enter, LoginTypeOK
  <2> QED BY <1>3, <2>1, <1>2, CountIn DEF OpenSession
<1>4. CASE QueueSession(t)
  <2>1. t \in Moving /\ Moving' = Moving \ {t}
    BY <1>4 DEF QueueSession, Moving, Return, Enter, LoginTypeOK
  <2>2. PICK s \in Handles \ Queued : state' = [state EXCEPT ![s] = sftk_update_state]
    BY <1>4 DEF QueueSession
  <2>3. s \notin Queued /\ Queued' = Queued \cup {s}
    BY SMTT(30), <2>2 DEF Queued, LoginTypeOK, sftk_update_state
  <2> QED BY <1>4, <2>1, <2>3, CountQueued DEF QueueSession
<1>5. ASSUME NEW s \in Queued, state' = [state EXCEPT ![s] = "closed"],
             at[t] \in {"idle", "close_all"}, Enter(t, "uncount"), sessionCount' = sessionCount
      PROVE SessionsAreCounted'
  <2>1. t \notin Moving /\ Moving' = Moving \cup {t}
    BY SMTT(30), <1>5 DEF Moving, Enter, LoginTypeOK
  <2>2. Queued' = Queued \ {s} BY <1>5 DEF Queued, LoginTypeOK
  <2> QED BY <1>5, <2>1, <2>2, CountTaken
<1>6. ASSUME NEW s \in Handles, CloseSession(t, s) PROVE SessionsAreCounted'
  BY <1>5, <1>6 DEF CloseSession
<1>7. CASE Uncount(t)
  <2>1. t \in Moving /\ Moving' = Moving \ {t}
    BY SMTT(30), <1>7 DEF Uncount, Moving, Return, Enter, LoginTypeOK
  <2> QED BY <1>7, <2>1, <1>2, CountOut DEF Uncount
<1>8. CASE CloseBucket(t)
  <2>1. CASE \E s \in Queued : state' = [state EXCEPT ![s] = "closed"] /\ Enter(t, "uncount")
    BY <1>5, <1>8, <2>1 DEF CloseBucket
  <2>2. CASE UNCHANGED <<state, at>> BY <1>1, <1>2, <1>8, <2>2 DEF CloseBucket, LoginTypeOK
  <2>3. CASE UNCHANGED state /\ Return(t)
    BY <1>1, <1>2, <1>8, <2>3 DEF CloseBucket, LoginTypeOK, Return, Enter
  <2> QED BY <1>8, <2>1, <2>2, <2>3 DEF CloseBucket
<1>9. CASE sftk_update_all_states(t)
  <2>1. Queued' = Queued
    BY <1>9 DEF sftk_update_all_states, Queued, LoginTypeOK, sftk_update_state
  <2>2. \A u \in Users \ {t} : at'[u] = at[u]
    BY SMTT(30), <1>9 DEF sftk_update_all_states, Return, Enter, LoginTypeOK
  <2>3. at'[t] \in {"idle", "update"}
    BY <1>9 DEF sftk_update_all_states, Return, Enter, LoginTypeOK
  <2> QED BY <1>1, <1>9, <2>1, <2>2, <2>3 DEF sftk_update_all_states
<1>10. CASE CloseAllSessions(t) \/ NSC_Login(t) \/ FinishLogin(t) \/ NSC_Logout(t)
            \/ ClearLogin(t) \/ NSC_SetPIN(t) \/ sftkdb_upgradeKDF(t)
  BY SMTT(30), <1>1, <1>2, <1>10
     DEF CloseAllSessions, NSC_Login, FinishLogin, NSC_Logout, ClearLogin, NSC_SetPIN,
         sftkdb_upgradeKDF, Enter, LoginTypeOK, slotVars
<1>11. CASE sftkdb_finishPasswordCheck(t) \/ CommitChange(t) \/ sftkdb_switchKeys(t)
            \/ FinishWrite(t) \/ DatabaseFails(t)
  BY SMTT(30), <1>1, <1>2, <1>11
     DEF sftkdb_finishPasswordCheck, CommitChange, sftkdb_switchKeys, FinishWrite,
         DatabaseFails, FailChange, Enter, Return, LoginTypeOK, slotVars, local
<1>12. ASSUME NEW pw \in Passwords, sftkdb_CheckPassword(t, pw) PROVE SessionsAreCounted'
  BY SMTT(30), <1>1, <1>2, <1>12 DEF sftkdb_CheckPassword, Enter, Return, LoginTypeOK, slotVars
<1>13. ASSUME NEW old \in Passwords, NEW new \in Passwords, sftkdb_ChangePassword(t, old, new)
       PROVE SessionsAreCounted'
  BY SMTT(30), <1>1, <1>2, <1>13 DEF sftkdb_ChangePassword, Enter, Return, LoginTypeOK, slotVars
<1>14. ASSUME NEW o \in Rows,
              sftk_convertAttributes(t, o) \/ sftkdb_write(t, o) \/ sftkdb_DestroyObject(t, o)
       PROVE SessionsAreCounted'
  <2>1. CASE sftk_convertAttributes(t, o)
    BY SMTT(30), <1>1, <1>2, <2>1 DEF sftk_convertAttributes, FailChange, Enter, Return,
       LoginTypeOK, slotVars, local
  <2>2. CASE sftkdb_write(t, o) \/ sftkdb_DestroyObject(t, o)
    <3>1. state' = state /\ sessionCount' = sessionCount /\ Moving' = Moving
      BY <2>2 DEF sftkdb_write, sftkdb_DestroyObject, Enter, LoginTypeOK, slotVars, Moving
    <3> QED BY <3>1, <1>2, CountAll
  <2> QED BY <1>14, <2>1, <2>2
<1> QED
  BY <1>3, <1>4, <1>6, <1>7, <1>8, <1>9, <1>10, <1>11, <1>12, <1>13, <1>14 DEF LoginStep

-----------------------------------------------------------------------------
(* Types.                                                                  *)

Places == {"idle", "open", "uncount", "close_all", "update", "login", "login_switch",
           "upgrade", "flags", "logout", "write", "set_pin", "convert", "switch"}
Ops == {"none", "login", "set_pin", "close_all"}
Xacts == [by : Users, stored : [Rows -> Keys \cup {NoKey}], late : SUBSET Rows]

DbTypes ==
    /\ entry \in [key : Keys, low : BOOLEAN]
    /\ stored \in [Rows -> Keys \cup {NoKey}] /\ late \subseteq Rows
    /\ xact = <<>> \/ \E x \in Xacts : xact = <<x>>
SlotTypes ==
    /\ cached \in Keys \cup {NoKey} /\ checking \subseteq Users
    /\ isLoggedIn \in BOOLEAN /\ sessionCount \in Nat
    /\ state \in [Handles -> {"closed", "public", "user"}]
ThreadTypes ==
    /\ at \in [Users -> Places] /\ op \in [Users -> Ops]
    /\ key \in [Users -> Keys \cup {NoKey}] /\ todo \in [Users -> SUBSET Rows]
    /\ row \in [Users -> 0..(NumBuckets - 1)]

LEMMA MadeKeys ==
    ASSUME NEW k \in Keys
    PROVE  <<k[1], "fresh">> \in Keys /\ \A pw \in Passwords : <<pw, k[2]>> \in Keys
<1>1. PICK pw \in Passwords, salt \in {"old", "fresh"} : k = <<pw, salt>> BY SMTT(30) DEF Keys
<1>2. k[1] = pw /\ k[2] = salt BY <1>1
<1> QED BY <1>2 DEF Keys

LEMMA TypeParts == LoginTypeOK <=> DbTypes /\ SlotTypes /\ ThreadTypes
BY DEF LoginTypeOK, DbTypes, SlotTypes, ThreadTypes, Places, Ops, Xacts

LEMMA TypePartsNext == LoginTypeOK' <=> DbTypes' /\ SlotTypes' /\ ThreadTypes'
BY DEF LoginTypeOK, DbTypes, SlotTypes, ThreadTypes, Places, Ops, Xacts

LEMMA ReturnTypes ==
    ASSUME ThreadTypes, NEW t \in Users, Return(t)
    PROVE  ThreadTypes'
BY SMTT(30), BucketsAssumption DEF ThreadTypes, Return, Enter, Places, Ops

LEMMA EnterTypes ==
    ASSUME ThreadTypes, NEW t \in Users, NEW l \in Places, Enter(t, l), UNCHANGED local
    PROVE  ThreadTypes'
BY DEF ThreadTypes, Enter, local

LEMMA DbSame == DbTypes /\ UNCHANGED dbVars => DbTypes'
BY DEF DbTypes, dbVars

LEMMA DbAbort == ASSUME DbTypes, NEW t, sdb_Abort(t) PROVE DbTypes'
BY DEF DbTypes, sdb_Abort

LEMMA DbCommit == DbTypes /\ xact # <<>> /\ sdb_Commit /\ UNCHANGED entry => DbTypes'
BY SMTT(30) DEF DbTypes, sdb_Commit, Xacts

LEMMA DbBegin ==
    ASSUME DbTypes, NEW t \in Users, NEW rows \in [Rows -> Keys \cup {NoKey}],
           NEW lateRows \in SUBSET Rows, sdb_Begin(t, rows, lateRows),
           UNCHANGED <<entry, stored, late>>
    PROVE  DbTypes'
BY DEF DbTypes, sdb_Begin, Xacts

LEMMA SlotSame == SlotTypes /\ UNCHANGED <<cached, checking, slotVars>> => SlotTypes'
BY DEF SlotTypes, slotVars

LEMMA FailChangeTypes ==
    ASSUME LoginTypeOK, NEW t \in Users, FailChange(t)
    PROVE  LoginTypeOK'
<1>1. DbTypes' BY TypeParts, DbAbort DEF FailChange
<1>2. SlotTypes' BY TypeParts DEF FailChange, SlotTypes, slotVars
<1>3. ThreadTypes' BY TypeParts, EnterTypes, ReturnTypes DEF FailChange, Places
<1> QED BY <1>1, <1>2, <1>3, TypePartsNext

LEMMA LoginTypes ==
    ASSUME LoginTypeOK, LocksHeld, KeysRight, SessionsAreCounted, NEW t \in Users, LoginStep(t)
    PROVE  LoginTypeOK'
<1> SUFFICES DbTypes' /\ SlotTypes' /\ ThreadTypes' BY TypePartsNext
<1>0. DbTypes /\ SlotTypes /\ ThreadTypes BY TypeParts
<1>1. CASE OpenSession(t)
  BY SMTT(30), <1>0, <1>1, DbSame, EnterTypes DEF OpenSession, SlotTypes, Places
<1>2. CASE QueueSession(t)
  <2>1. SlotTypes' BY <1>0, <1>2 DEF QueueSession, SlotTypes, sftk_update_state
  <2> QED BY <1>0, <1>2, <2>1, DbSame, ReturnTypes DEF QueueSession
<1>3. ASSUME NEW s \in Handles, CloseSession(t, s) PROVE DbTypes' /\ SlotTypes' /\ ThreadTypes'
  <2>1. SlotTypes' BY <1>0, <1>3 DEF CloseSession, SlotTypes
  <2> QED BY <1>0, <1>3, <2>1, DbSame, EnterTypes DEF CloseSession, Places
<1>4. CASE Uncount(t)
  <2>1. sessionCount \in Nat /\ sessionCount >= 1
    <3>1. t \in Moving BY <1>4 DEF Uncount, Moving
    <3> QED BY <3>1, LastSession
  <2>2. SlotTypes'
    <3>1. sessionCount' \in Nat BY SMTT(30), <1>4, <2>1 DEF Uncount
    <3>2. UNCHANGED <<checking, state>> BY <1>4 DEF Uncount
    <3>3. isLoggedIn' \in BOOLEAN /\ cached' \in {cached, NoKey}
      BY <1>0, <1>4 DEF Uncount, SlotTypes
    <3> QED BY <1>0, <3>1, <3>2, <3>3 DEF SlotTypes
  <2>3. ThreadTypes' BY <1>0, <1>4, EnterTypes, ReturnTypes DEF Uncount, Places
  <2> QED BY <1>0, <1>4, <2>2, <2>3, DbSame DEF Uncount
<1>5. CASE CloseAllSessions(t)
  <2>1. SlotTypes' BY <1>0, <1>5 DEF CloseAllSessions, SlotTypes
  <2>2. ThreadTypes' BY <1>0, <1>5 DEF CloseAllSessions, ThreadTypes, Enter, Places, Ops
  <2> QED BY <1>0, <1>5, <2>1, <2>2, DbSame DEF CloseAllSessions
<1>6. CASE CloseBucket(t)
  <2>1. SlotTypes' BY <1>0, <1>6 DEF CloseBucket, SlotTypes, Queued
  <2>2. Enter(t, "uncount") /\ UNCHANGED local => ThreadTypes' BY <1>0, EnterTypes DEF Places
  <2>3. row[t] + 1 < NumBuckets /\ row' = [row EXCEPT ![t] = @ + 1] /\ UNCHANGED <<at, op, key, todo>>
        => ThreadTypes'
    BY SMTT(30), <1>0, BucketsAssumption DEF ThreadTypes
  <2>4. ThreadTypes' BY <1>0, <1>6, <2>2, <2>3, ReturnTypes DEF CloseBucket
  <2> QED BY <1>0, <1>6, <2>1, <2>4, DbSame DEF CloseBucket
<1>7. CASE sftk_update_all_states(t)
  <2>1. SlotTypes' BY <1>0, <1>7 DEF sftk_update_all_states, SlotTypes, sftk_update_state
  <2>3. row[t] + 1 < NumBuckets /\ row' = [row EXCEPT ![t] = @ + 1] /\ UNCHANGED <<at, op, key, todo>>
        => ThreadTypes'
    BY SMTT(30), <1>0, BucketsAssumption DEF ThreadTypes
  <2>4. ThreadTypes' BY <1>0, <1>7, <2>3, ReturnTypes DEF sftk_update_all_states
  <2> QED BY <1>0, <1>7, <2>1, <2>4, DbSame DEF sftk_update_all_states
<1>8. CASE NSC_Login(t) \/ NSC_SetPIN(t)
  <2>1. ThreadTypes' BY <1>0, <1>8 DEF NSC_Login, NSC_SetPIN, ThreadTypes, Enter, Places, Ops
  <2> QED BY <1>0, <1>8, <2>1, DbSame, SlotSame DEF NSC_Login, NSC_SetPIN
<1>9. CASE FinishLogin(t) \/ ClearLogin(t)
  <2>1. SlotTypes' BY <1>0, <1>9 DEF FinishLogin, ClearLogin, SlotTypes
  <2> QED BY <1>0, <1>9, <2>1, DbSame, EnterTypes DEF FinishLogin, ClearLogin, Places
<1>10. CASE NSC_Logout(t)
  BY <1>0, <1>10, DbSame, SlotSame, EnterTypes DEF NSC_Logout, Places
<1>11. ASSUME NEW pw \in Passwords, sftkdb_CheckPassword(t, pw)
       PROVE  DbTypes' /\ SlotTypes' /\ ThreadTypes'
  <2>1. SlotTypes' BY <1>0, <1>11 DEF sftkdb_CheckPassword, SlotTypes, slotVars
  <2>2. CASE pw = entry.key[1]
    <3>1. entry.key \in Keys BY <1>0 DEF DbTypes
    <3>2. ThreadTypes'
      BY <1>0, <1>11, <2>2, <3>1 DEF sftkdb_CheckPassword, ThreadTypes, Enter, Places
    <3> QED BY <1>0, <1>11, <2>1, <3>2, DbSame DEF sftkdb_CheckPassword
  <2>3. CASE pw # entry.key[1]
    BY <1>0, <1>11, <2>1, <2>3, ReturnTypes, DbSame DEF sftkdb_CheckPassword
  <2> QED BY <2>2, <2>3
<1>12. CASE sftkdb_finishPasswordCheck(t)
  <2>1. SlotTypes'
    BY <1>0, <1>12 DEF sftkdb_finishPasswordCheck, SlotTypes, slotVars, ThreadTypes
  <2> QED BY <1>0, <1>12, <2>1, DbSame, EnterTypes DEF sftkdb_finishPasswordCheck, Places
<1>13. ASSUME NEW old \in Passwords, NEW new \in Passwords, sftkdb_ChangePassword(t, old, new)
       PROVE  DbTypes' /\ SlotTypes' /\ ThreadTypes'
  <2>1. CASE old = entry.key[1]
    <3>1. entry.key \in Keys /\ <<new, entry.key[2]>> \in Keys BY <1>0, MadeKeys DEF DbTypes
    <3>2. ThreadTypes'
      BY <1>0, <1>13, <2>1, <3>1 DEF sftkdb_ChangePassword, ThreadTypes, Enter, Places
    <3>3. SlotTypes' BY <1>0, <1>13, <2>1, <3>1 DEF sftkdb_ChangePassword, SlotTypes, slotVars
    <3>4. DbTypes'
      <4>1. stored \in [Rows -> Keys \cup {NoKey}] /\ late \in SUBSET Rows BY <1>0 DEF DbTypes
      <4> QED BY <1>0, <1>13, <2>1, <4>1, DbBegin DEF sftkdb_ChangePassword
    <3> QED BY <3>2, <3>3, <3>4
  <2>2. CASE old # entry.key[1]
    BY <1>0, <1>13, <2>2, DbSame, SlotSame, ReturnTypes DEF sftkdb_ChangePassword
  <2> QED BY <2>1, <2>2
<1>14. CASE sftkdb_upgradeKDF(t)
  <2>1. key[t] \in Keys BY <1>0, <1>14 DEF sftkdb_upgradeKDF, KeysRight, DbTypes
  <2>2. <<key[t][1], "fresh">> \in Keys BY <2>1, MadeKeys
  <2>3. ThreadTypes' BY <1>0, <1>14, <2>2 DEF sftkdb_upgradeKDF, ThreadTypes, Enter, Places
  <2>4. stored \in [Rows -> Keys \cup {NoKey}] /\ late \in SUBSET Rows BY <1>0 DEF DbTypes
  <2>5. DbTypes' BY <1>0, <1>14, <2>4, DbBegin DEF sftkdb_upgradeKDF
  <2> QED BY <1>0, <1>14, <2>3, <2>5, SlotSame DEF sftkdb_upgradeKDF
<1>15. ASSUME NEW o \in Rows, sftk_convertAttributes(t, o)
       PROVE  DbTypes' /\ SlotTypes' /\ ThreadTypes'
  <2>1. CASE FailChange(t) BY <2>1, FailChangeTypes, TypePartsNext
  <2>2. CASE xact[1].stored[o] \in {NoKey, cached}
    <3>1. SlotTypes' BY <1>0, <1>15, <2>2, SlotSame DEF sftk_convertAttributes
    <3>2. ThreadTypes' BY <1>0, <1>15, <2>2 DEF sftk_convertAttributes, ThreadTypes
    <3>3. xact[1] \in Xacts /\ key[t] \in Keys
      BY SMTT(30), <1>0, <1>15 DEF sftk_convertAttributes, DbTypes, LocksHeld, KeysRight
    <3>4. [xact[1] EXCEPT !.stored[o] = IF @ = NoKey THEN @ ELSE key[t], !.late = @ \ {o}] \in Xacts
      BY <3>3 DEF Xacts
    <3>5. DbTypes' BY <1>0, <1>15, <2>2, <3>4 DEF sftk_convertAttributes, DbTypes
    <3> QED BY <3>1, <3>2, <3>5
  <2> QED BY <1>15, <2>1, <2>2 DEF sftk_convertAttributes
<1>16. ASSUME NEW o \in Rows, sftkdb_write(t, o)
       PROVE  DbTypes' /\ SlotTypes' /\ ThreadTypes'
  <2>1. /\ [stored EXCEPT ![o] = cached] \in [Rows -> Keys \cup {NoKey}]
        /\ (IF Committed THEN late \cup {o} ELSE late \ {o}) \in SUBSET Rows
    BY <1>0 DEF DbTypes, SlotTypes
  <2>2. DbTypes' BY <1>0, <1>16, <2>1, DbBegin DEF sftkdb_write
  <2> QED BY <1>0, <1>16, <2>2, SlotSame, EnterTypes DEF sftkdb_write, Places
<1>17. ASSUME NEW o \in Rows, sftkdb_DestroyObject(t, o)
       PROVE  DbTypes' /\ SlotTypes' /\ ThreadTypes'
  <2>1. DbTypes' BY <1>0, <1>17 DEF sftkdb_DestroyObject, DbTypes
  <2>2. ThreadTypes' BY <1>0, <1>17 DEF sftkdb_DestroyObject, ThreadTypes, local
  <2> QED BY <1>0, <1>17, <2>1, <2>2, SlotSame DEF sftkdb_DestroyObject
<1>18. CASE FinishWrite(t)
  <2>1. xact # <<>> BY <1>18 DEF FinishWrite, LocksHeld
  <2> QED BY <1>0, <1>18, <2>1, DbAbort, DbCommit, SlotSame, ReturnTypes DEF FinishWrite
<1>19. CASE CommitChange(t)
  <2>1. xact[1] \in Xacts /\ key[t] \in Keys
    BY SMTT(30), <1>0, <1>19 DEF CommitChange, DbTypes, LocksHeld, KeysRight
  <2>2. DbTypes' BY <1>0, <1>19, <2>1 DEF CommitChange, sdb_Commit, DbTypes, Xacts
  <2> QED BY <1>0, <1>19, <2>2, SlotSame, EnterTypes DEF CommitChange, Places
<1>20. CASE DatabaseFails(t) BY <1>20, FailChangeTypes, TypePartsNext DEF DatabaseFails
<1>21. CASE sftkdb_switchKeys(t)
  <2>1. SlotTypes' BY <1>0, <1>21 DEF sftkdb_switchKeys, SlotTypes, slotVars, ThreadTypes
  <2> QED BY <1>0, <1>21, <2>1, DbSame, EnterTypes DEF sftkdb_switchKeys, Places
<1> QED
  BY <1>1, <1>2, <1>3, <1>4, <1>5, <1>6, <1>7, <1>8, <1>9, <1>10, <1>11, <1>12, <1>13, <1>14,
     <1>15, <1>16, <1>17, <1>18, <1>19, <1>20, <1>21 DEF LoginStep

-----------------------------------------------------------------------------
(* Locks, transactions and keys.                                           *)

LEMMA LoginLocks ==
    ASSUME LoginTypeOK, LocksHeld, KeysRight, NEW t \in Users, LoginStep(t)
    PROVE  LocksHeld' /\ KeysRight'
<1> DEFINE Lock(u) == at[u] \in {"login_switch", "upgrade", "convert", "switch"} => checking = {u}
           Xact(u) == at[u] \in {"write", "convert"} <=> xact # <<>> /\ xact[1].by = u
           Key(u) == /\ at[u] \in {"login_switch", "upgrade", "switch"} => key[u] = entry.key
                     /\ at[u] = "convert" => key[u] \in Keys
           P(u) == Lock(u) /\ Xact(u) /\ Key(u)
<1> SUFFICES ASSUME NEW u \in Users PROVE P(u)' BY DEF LocksHeld, KeysRight
<1>0. DbTypes /\ SlotTypes /\ ThreadTypes BY TypeParts
<1>a. P(u) /\ P(t) BY DEF LocksHeld, KeysRight
<1>b. at \in [Users -> Places] /\ key \in [Users -> Keys \cup {NoKey}] BY <1>0 DEF ThreadTypes
<1>1. ASSUME NEW l \in Places \ {"login_switch", "upgrade", "convert", "switch", "write"},
             (Enter(t, l) /\ key' = key) \/ Return(t),
             at[t] \notin {"login_switch", "upgrade", "convert", "switch", "write"},
             UNCHANGED <<xact, entry, checking>>
      PROVE P(u)'
  BY SMTT(30), <1>a, <1>b, <1>1 DEF Enter, Return
<1>2. CASE OpenSession(t) BY <1>1, <1>2 DEF OpenSession, Places, dbVars, local
<1>3. CASE QueueSession(t) BY <1>1, <1>3 DEF QueueSession, Places, dbVars
<1>4. CASE Uncount(t) BY <1>1, <1>4 DEF Uncount, Places, dbVars, local
<1>5. CASE CloseAllSessions(t) BY <1>1, <1>5 DEF CloseAllSessions, Places, dbVars
<1>6. CASE CloseBucket(t)
  BY SMTT(30), <1>a, <1>b, <1>6 DEF CloseBucket, Enter, dbVars, slotVars, local, Return
<1>7. CASE sftk_update_all_states(t)
  BY <1>a, <1>b, <1>7 DEF sftk_update_all_states, Enter, dbVars, slotVars, local, Return
<1>8. CASE NSC_Login(t) BY <1>1, <1>8 DEF NSC_Login, Places, dbVars
<1>9. CASE FinishLogin(t) BY <1>1, <1>9 DEF FinishLogin, Places, dbVars, local
<1>10. CASE sftkdb_finishPasswordCheck(t)
  BY SMTT(30), <1>a, <1>b, <1>10 DEF sftkdb_finishPasswordCheck, Enter, dbVars, slotVars, local
<1>11. CASE NSC_Logout(t) BY <1>1, <1>11 DEF NSC_Logout, Places, dbVars, local
<1>12. CASE ClearLogin(t) BY <1>1, <1>12 DEF ClearLogin, Places, dbVars, local
<1>13. CASE NSC_SetPIN(t) BY <1>1, <1>13 DEF NSC_SetPIN, Places, dbVars
<1>14. CASE sftkdb_upgradeKDF(t)
  <2>1. /\ at' = [at EXCEPT ![t] = "convert"] /\ key' = [key EXCEPT ![t] = <<key[t][1], "fresh">>]
        /\ xact = <<>> /\ xact' # <<>> /\ xact'[1].by = t
        /\ UNCHANGED <<entry, checking>> /\ at[t] = "upgrade"
    BY <1>14 DEF sftkdb_upgradeKDF, Enter, sdb_Begin
  <2>2. key[t] \in Keys BY <1>0, <1>a, <2>1 DEF DbTypes
  <2>3. <<key[t][1], "fresh">> \in Keys BY <2>2, MadeKeys
  <2> QED BY <1>a, <1>b, <2>1, <2>3
<1>15. CASE FinishWrite(t)
  BY <1>a, <1>b, <1>15 DEF FinishWrite, Enter, dbVars, slotVars, local, Return, sdb_Abort,
     sdb_Commit
<1>16. CASE CommitChange(t)
  BY <1>a, <1>b, <1>16 DEF CommitChange, Enter, dbVars, slotVars, local, sdb_Commit
<1>17. CASE DatabaseFails(t)
  BY SMTT(30), <1>a, <1>b, <1>17 DEF DatabaseFails, Enter, dbVars, slotVars, local, FailChange,
     Return, sdb_Abort
<1>18. CASE sftkdb_switchKeys(t)
  BY <1>a, <1>b, <1>18 DEF sftkdb_switchKeys, Enter, dbVars, slotVars, local
<1>19. ASSUME NEW s \in Handles, CloseSession(t, s) PROVE P(u)'
  BY <1>0, <1>a, <1>b, <1>19 DEF CloseSession, Enter, dbVars, slotVars, local
<1>20. ASSUME NEW pw \in Passwords, sftkdb_CheckPassword(t, pw) PROVE P(u)'
  BY SMTT(30), <1>0, <1>a, <1>b, <1>20 DEF sftkdb_CheckPassword, Enter, dbVars, slotVars,
     local, Return
<1>21. ASSUME NEW old \in Passwords, NEW new \in Passwords, sftkdb_ChangePassword(t, old, new) PROVE P(u)'
  BY SMTT(30), <1>0, <1>a, <1>b, <1>21 DEF sftkdb_ChangePassword, Enter, dbVars, slotVars,
     local, Return, sdb_Begin, Keys, DbTypes
<1>22. ASSUME NEW o \in Rows, sftk_convertAttributes(t, o) PROVE P(u)'
  <2>1. CASE FailChange(t)
    BY SMTT(30), <1>a, <1>b, <1>22, <2>1 DEF sftk_convertAttributes, Enter, local, FailChange,
       Return, sdb_Abort
  <2>2. CASE xact[1].stored[o] \in {NoKey, cached}
    <3>1. xact[1] \in Xacts BY SMTT(30), <1>0, <1>a, <1>22 DEF sftk_convertAttributes, DbTypes
    <3> DEFINE x == [xact[1] EXCEPT !.stored[o] = IF @ = NoKey THEN @ ELSE key[t], !.late = @ \ {o}]
    <3>a. x.by = xact[1].by BY <3>1 DEF Xacts
    <3>b. xact' = <<x>> BY <1>22, <2>2 DEF sftk_convertAttributes
    <3>2. xact' # <<>> /\ xact'[1].by = xact[1].by
      <4> HIDE DEF x
      <4> QED BY <3>a, <3>b
    <3>3. UNCHANGED <<entry, checking, at, key>> /\ at[t] = "convert"
      BY <1>22, <2>2 DEF sftk_convertAttributes
    <3> QED BY <1>a, <1>b, <3>2, <3>3
  <2> QED BY <1>22, <2>1, <2>2 DEF sftk_convertAttributes
<1>23. ASSUME NEW o \in Rows, sftkdb_write(t, o) PROVE P(u)'
  BY <1>0, <1>a, <1>b, <1>23 DEF sftkdb_write, Enter, dbVars, slotVars, local, sdb_Begin
<1>24. ASSUME NEW o \in Rows, sftkdb_DestroyObject(t, o) PROVE P(u)'
  BY <1>0, <1>a, <1>b, <1>24 DEF sftkdb_DestroyObject, Enter, dbVars, slotVars, local
<1> QED
  BY <1>2, <1>3, <1>4, <1>5, <1>6, <1>7, <1>8, <1>9, <1>10, <1>11, <1>12, <1>13, <1>14, <1>15,
     <1>16, <1>17, <1>18, <1>19, <1>20, <1>21, <1>22, <1>23, <1>24
  DEF LoginStep

\* What no thread but t changes of its own.
LoginOthers(t) ==
    \A u \in Users \ {t} :
        /\ at'[u] = at[u] /\ op'[u] = op[u] /\ key'[u] = key[u]
        /\ todo'[u] = todo[u] /\ row'[u] = row[u]

LEMMA OthersKept ==
    ASSUME LoginTypeOK, NEW t \in Users, LoginStep(t)
    PROVE  LoginOthers(t)
<1>0. ThreadTypes BY TypeParts
<1>1. ASSUME NEW l, Enter(t, l), UNCHANGED local PROVE LoginOthers(t)
  BY <1>0, <1>1 DEF LoginOthers, Enter, local, ThreadTypes
<1>2. Return(t) => LoginOthers(t) BY <1>0 DEF LoginOthers, Return, Enter, ThreadTypes
<1>3. FailChange(t) => LoginOthers(t) BY <1>1, <1>2 DEF FailChange
<1>4. UNCHANGED local /\ UNCHANGED at => LoginOthers(t) BY DEF LoginOthers, local
<1>5. ASSUME NEW v, row' = [row EXCEPT ![t] = v], UNCHANGED <<at, op, key, todo>>
      PROVE LoginOthers(t)
  BY <1>0, <1>5 DEF LoginOthers, ThreadTypes
<1>6. ASSUME NEW l, Enter(t, l), NEW v, op' = [op EXCEPT ![t] = v], UNCHANGED <<key, todo, row>>
      PROVE LoginOthers(t)
  BY <1>0, <1>6 DEF LoginOthers, ThreadTypes, Enter
<1>7. ASSUME NEW l, Enter(t, l), NEW v, key' = [key EXCEPT ![t] = v], UNCHANGED <<op, row>>,
             NEW w, todo' = [todo EXCEPT ![t] = w] \/ todo' = todo
      PROVE LoginOthers(t)
  BY <1>0, <1>7 DEF LoginOthers, ThreadTypes, Enter
<1>8. ASSUME NEW v, todo' = [todo EXCEPT ![t] = v], UNCHANGED <<at, op, key, row>>
      PROVE LoginOthers(t)
  BY <1>0, <1>8 DEF LoginOthers, ThreadTypes
<1>9. CASE OpenSession(t) \/ QueueSession(t) \/ Uncount(t)
  BY <1>1, <1>2, <1>9 DEF OpenSession, QueueSession, Uncount
<1>10. ASSUME NEW s \in Handles, CloseSession(t, s) PROVE LoginOthers(t)
  BY <1>1, <1>10 DEF CloseSession
<1>11. CASE CloseBucket(t) BY <1>1, <1>2, <1>5, <1>11 DEF CloseBucket
<1>12. CASE sftk_update_all_states(t) BY <1>2, <1>5, <1>12 DEF sftk_update_all_states
<1>13. CASE CloseAllSessions(t) \/ NSC_Login(t) \/ NSC_SetPIN(t)
  BY <1>6, <1>13 DEF CloseAllSessions, NSC_Login, NSC_SetPIN
<1>14. CASE FinishLogin(t) \/ NSC_Logout(t) \/ ClearLogin(t) \/ CommitChange(t) \/ sftkdb_switchKeys(t)
  BY <1>1, <1>14 DEF FinishLogin, NSC_Logout, ClearLogin, CommitChange, sftkdb_switchKeys
<1>15. CASE sftkdb_finishPasswordCheck(t) BY <1>1, <1>15 DEF sftkdb_finishPasswordCheck
<1>16. ASSUME NEW pw \in Passwords, sftkdb_CheckPassword(t, pw) PROVE LoginOthers(t)
  BY <1>2, <1>7, <1>16 DEF sftkdb_CheckPassword
<1>17. ASSUME NEW old \in Passwords, NEW new \in Passwords, sftkdb_ChangePassword(t, old, new)
       PROVE LoginOthers(t)
  BY <1>2, <1>7, <1>17 DEF sftkdb_ChangePassword
<1>18. CASE sftkdb_upgradeKDF(t) BY <1>7, <1>18 DEF sftkdb_upgradeKDF
<1>19. ASSUME NEW o \in Rows, sftk_convertAttributes(t, o) PROVE LoginOthers(t)
  BY <1>3, <1>8, <1>19 DEF sftk_convertAttributes
<1>20. ASSUME NEW o \in Rows, sftkdb_write(t, o) \/ sftkdb_DestroyObject(t, o) PROVE LoginOthers(t)
  BY <1>1, <1>4, <1>20 DEF sftkdb_write, sftkdb_DestroyObject
<1>21. CASE FinishWrite(t) \/ DatabaseFails(t)
  BY <1>2, <1>3, <1>21 DEF FinishWrite, DatabaseFails
<1> QED
  BY <1>9, <1>10, <1>11, <1>12, <1>13, <1>14, <1>15, <1>16, <1>17, <1>18, <1>19, <1>20, <1>21
  DEF LoginStep

\* The key in the handle.
LEMMA LoginCached ==
    ASSUME LoginTypeOK, LocksHeld, KeysRight, SessionsAreCounted,
           LoginMatchesDatabase, CachedKeyIsCurrent, NEW t \in Users, LoginStep(t)
    PROVE  LoginMatchesDatabase' /\ CachedKeyIsCurrent'
<1>0. DbTypes /\ SlotTypes /\ ThreadTypes /\ LoginOthers(t) BY TypeParts, OthersKept
<1>1. ASSUME at[t] = "switch" => at'[t] = "switch" PROVE Committed => Committed'
  BY <1>0, <1>1 DEF Committed, LoginOthers
<1>2. ASSUME at[t] # "switch", UNCHANGED <<cached, entry, isLoggedIn>>
      PROVE LoginMatchesDatabase' /\ CachedKeyIsCurrent'
  BY <1>1, <1>2 DEF LoginMatchesDatabase, CachedKeyIsCurrent
<1>3. ASSUME at[t] # "switch", cached' = NoKey, isLoggedIn' = FALSE
      PROVE LoginMatchesDatabase' /\ CachedKeyIsCurrent'
  BY <1>3 DEF LoginMatchesDatabase, CachedKeyIsCurrent
<1>4. ASSUME cached' = entry'.key, entry'.key \in Keys
      PROVE LoginMatchesDatabase' /\ CachedKeyIsCurrent'
  BY <1>4, NoKeyAssumption DEF LoginMatchesDatabase, CachedKeyIsCurrent
<1>5. entry.key \in Keys BY <1>0 DEF DbTypes
<1>6. CASE OpenSession(t) \/ QueueSession(t) \/ CloseBucket(t) \/ sftk_update_all_states(t)
  BY <1>2, <1>6 DEF OpenSession, QueueSession, CloseBucket, sftk_update_all_states, dbVars
<1>7. ASSUME NEW s \in Handles, CloseSession(t, s) PROVE LoginMatchesDatabase' /\ CachedKeyIsCurrent'
  BY <1>2, <1>7 DEF CloseSession, dbVars
<1>8. CASE Uncount(t)
  <2>1. at[t] = "uncount" /\ entry' = entry BY <1>8 DEF Uncount, dbVars
  <2>2. CASE op[t] = "close_all" BY <1>2, <1>8, <2>1, <2>2 DEF Uncount
  <2>3. CASE op[t] # "close_all"
    <3>1. isLoggedIn' => isLoggedIn /\ sessionCount > 1 BY <1>8, <2>3 DEF Uncount
    <3>2. cached' = IF sessionCount > 1 THEN cached ELSE NoKey BY <1>8, <2>3 DEF Uncount
    <3> QED BY <1>1, <2>1, <3>1, <3>2 DEF LoginMatchesDatabase, CachedKeyIsCurrent
  <2> QED BY <2>2, <2>3
<1>9. CASE CloseAllSessions(t) \/ ClearLogin(t) BY <1>3, <1>9 DEF CloseAllSessions, ClearLogin
<1>10. CASE NSC_Login(t) \/ NSC_SetPIN(t) \/ NSC_Logout(t)
  BY <1>2, <1>10 DEF NSC_Login, NSC_SetPIN, NSC_Logout, dbVars, slotVars
<1>11. CASE FinishLogin(t)
  <2>1. at[t] = "flags" /\ UNCHANGED <<cached, entry>> /\ isLoggedIn' = (cached # NoKey)
    BY <1>11 DEF FinishLogin, dbVars
  <2> QED BY <1>1, <2>1 DEF LoginMatchesDatabase, CachedKeyIsCurrent
<1>12. ASSUME NEW pw \in Passwords, sftkdb_CheckPassword(t, pw)
       PROVE LoginMatchesDatabase' /\ CachedKeyIsCurrent'
  BY <1>2, <1>12 DEF sftkdb_CheckPassword, dbVars, slotVars
<1>13. CASE sftkdb_finishPasswordCheck(t)
  BY <1>4, <1>5, <1>13 DEF sftkdb_finishPasswordCheck, KeysRight, dbVars
<1>14. ASSUME NEW old \in Passwords, NEW new \in Passwords, sftkdb_ChangePassword(t, old, new)
       PROVE LoginMatchesDatabase' /\ CachedKeyIsCurrent'
  BY <1>2, <1>4, <1>5, <1>14 DEF sftkdb_ChangePassword, dbVars, slotVars
<1>15. CASE sftkdb_upgradeKDF(t) BY <1>2, <1>15 DEF sftkdb_upgradeKDF, slotVars
<1>16. ASSUME NEW o \in Rows,
              sftk_convertAttributes(t, o) \/ sftkdb_write(t, o) \/ sftkdb_DestroyObject(t, o)
       PROVE LoginMatchesDatabase' /\ CachedKeyIsCurrent'
  BY <1>2, <1>16 DEF sftk_convertAttributes, sftkdb_write, sftkdb_DestroyObject, FailChange,
     sdb_Abort, slotVars
<1>17. CASE FinishWrite(t) \/ DatabaseFails(t)
  BY <1>2, <1>17 DEF FinishWrite, DatabaseFails, FailChange, sdb_Abort, slotVars
<1>18. CASE CommitChange(t)
  <2>1. at'[t] = "switch" /\ UNCHANGED <<cached, isLoggedIn>>
    BY <1>0, <1>18 DEF CommitChange, Enter, slotVars, ThreadTypes
  <2> QED BY <2>1 DEF Committed, LoginMatchesDatabase, CachedKeyIsCurrent
<1>19. CASE sftkdb_switchKeys(t)
  BY <1>4, <1>5, <1>19 DEF sftkdb_switchKeys, KeysRight, dbVars
<1> QED
  BY <1>6, <1>7, <1>8, <1>9, <1>10, <1>11, <1>12, <1>13, <1>14, <1>15, <1>16, <1>17, <1>18,
     <1>19
  DEF LoginStep

\* The objects of the database and those of the open transaction.
LEMMA LoginStored ==
    ASSUME LoginTypeOK, LocksHeld, KeysRight, CachedKeyIsCurrent,
           XactAgrees, StoredKeysAgree, NEW t \in Users, LoginStep(t)
    PROVE  XactAgrees' /\ StoredKeysAgree'
<1> DEFINE Agrees == \A o \in Rows : xact[1].stored[o] \in {NoKey, entry.key} \/ o \in xact[1].late
<1>0. DbTypes /\ SlotTypes /\ ThreadTypes /\ LoginOthers(t) BY TypeParts, OthersKept
<1>1. ASSUME at[t] \notin {"write", "convert"}, UNCHANGED dbVars
      PROVE XactAgrees' /\ StoredKeysAgree'
  <2>1. StoredKeysAgree' BY <1>1 DEF StoredKeysAgree, dbVars
  <2>2. CASE xact = <<>> BY <1>1, <2>1, <2>2 DEF XactAgrees, dbVars
  <2>3. CASE xact # <<>>
    <3>1. xact[1].by \in Users \ {t} BY SMTT(30), <1>0, <1>1, <2>3 DEF DbTypes, Xacts, LocksHeld
    <3>2. /\ at'[xact[1].by] = at[xact[1].by] /\ key'[xact[1].by] = key[xact[1].by]
          /\ todo'[xact[1].by] = todo[xact[1].by] /\ xact' = xact /\ entry' = entry
      BY <1>0, <1>1, <3>1 DEF LoginOthers, dbVars
    <3> QED BY <2>1, <3>2 DEF XactAgrees
  <2> QED BY <2>2, <2>3
<1>2. ASSUME xact' = <<>>, UNCHANGED <<entry, stored, late>> PROVE XactAgrees' /\ StoredKeysAgree'
  BY <1>2 DEF XactAgrees, StoredKeysAgree
<1>3. ASSUME FailChange(t), at[t] # "write" PROVE XactAgrees' /\ StoredKeysAgree'
  <2>1. CASE xact # <<>> /\ xact[1].by = t BY <1>2, <1>3, <2>1 DEF FailChange, sdb_Abort
  <2>2. CASE ~(xact # <<>> /\ xact[1].by = t)
    <3>1. at[t] \notin {"write", "convert"} BY <2>2 DEF LocksHeld
    <3> QED BY <1>1, <1>3, <2>2, <3>1 DEF FailChange, sdb_Abort, dbVars
  <2> QED BY <2>1, <2>2
<1>4. CASE OpenSession(t) \/ QueueSession(t) \/ Uncount(t) \/ CloseAllSessions(t) \/ CloseBucket(t)
           \/ sftk_update_all_states(t)
  BY <1>1, <1>4 DEF OpenSession, QueueSession, Uncount, CloseAllSessions, CloseBucket,
                    sftk_update_all_states
<1>5. ASSUME NEW s \in Handles, CloseSession(t, s) PROVE XactAgrees' /\ StoredKeysAgree'
  BY <1>1, <1>5 DEF CloseSession
<1>6. CASE NSC_Login(t) \/ FinishLogin(t) \/ NSC_Logout(t) \/ ClearLogin(t) \/ NSC_SetPIN(t)
           \/ sftkdb_finishPasswordCheck(t) \/ sftkdb_switchKeys(t)
  BY <1>1, <1>6 DEF NSC_Login, FinishLogin, NSC_Logout, ClearLogin, NSC_SetPIN,
                    sftkdb_finishPasswordCheck, sftkdb_switchKeys
<1>7. ASSUME NEW pw \in Passwords, sftkdb_CheckPassword(t, pw) PROVE XactAgrees' /\ StoredKeysAgree'
  BY <1>1, <1>7 DEF sftkdb_CheckPassword
<1>8. ASSUME NEW rows, NEW lateRows, sdb_Begin(t, rows, lateRows), UNCHANGED <<entry, stored, late>>,
             \A o \in Rows : rows[o] \in {NoKey, entry.key} \/ o \in lateRows,
             at'[t] = "convert" => todo'[t] = Rows
      PROVE XactAgrees' /\ StoredKeysAgree'
  <2>1. /\ xact'[1].by = t /\ xact'[1].stored = rows /\ xact'[1].late = lateRows
    BY <1>8 DEF sdb_Begin
  <2>2. StoredKeysAgree' BY <1>8 DEF StoredKeysAgree
  <2>3. XactAgrees' BY <1>8, <2>1 DEF XactAgrees
  <2> QED BY <2>2, <2>3
<1>9. ASSUME NEW old \in Passwords, NEW new \in Passwords, sftkdb_ChangePassword(t, old, new)
      PROVE XactAgrees' /\ StoredKeysAgree'
  <2>1. CASE old # entry.key[1] BY <1>1, <1>9, <2>1 DEF sftkdb_ChangePassword
  <2>2. CASE old = entry.key[1]
    <3>1. todo'[t] = Rows BY <1>0, <1>9, <2>2 DEF sftkdb_ChangePassword, ThreadTypes
    <3> QED BY <1>8, <1>9, <2>2, <3>1 DEF sftkdb_ChangePassword, StoredKeysAgree
  <2> QED BY <2>1, <2>2
<1>10. CASE sftkdb_upgradeKDF(t)
  <2>1. todo'[t] = Rows BY <1>0, <1>10 DEF sftkdb_upgradeKDF, ThreadTypes
  <2> QED BY <1>8, <1>10, <2>1 DEF sftkdb_upgradeKDF, StoredKeysAgree
<1>11. ASSUME NEW o \in Rows, sftkdb_write(t, o) PROVE XactAgrees' /\ StoredKeysAgree'
  <2> DEFINE rows == [stored EXCEPT ![o] = cached]
             lateRows == IF Committed THEN late \cup {o} ELSE late \ {o}
  <2>1. \A i \in Rows : rows[i] \in {NoKey, entry.key} \/ i \in lateRows
    <3> SUFFICES ASSUME NEW i \in Rows PROVE rows[i] \in {NoKey, entry.key} \/ i \in lateRows
      OBVIOUS
    <3>1. stored \in [Rows -> Keys \cup {NoKey}] BY <1>0 DEF DbTypes
    <3>2. CASE i = o BY <3>1, <3>2 DEF CachedKeyIsCurrent
    <3>3. CASE i # o BY <3>1, <3>3 DEF StoredKeysAgree
    <3> QED BY <3>2, <3>3
  <2>2. sdb_Begin(t, rows, lateRows) /\ UNCHANGED <<entry, stored, late>>
    BY <1>11 DEF sftkdb_write
  <2>3. at'[t] # "convert" BY <1>0, <1>11 DEF sftkdb_write, Enter, ThreadTypes
  <2> HIDE DEF rows, lateRows
  <2> QED BY <1>8, <2>1, <2>2, <2>3
<1>12. ASSUME NEW o \in Rows, sftkdb_DestroyObject(t, o) PROVE XactAgrees' /\ StoredKeysAgree'
  <2>1. xact' = <<>> BY <1>12 DEF sftkdb_DestroyObject
  <2>2. StoredKeysAgree' BY <1>0, <1>12 DEF sftkdb_DestroyObject, StoredKeysAgree, DbTypes
  <2> QED BY <2>1, <2>2 DEF XactAgrees
<1>13. CASE FinishWrite(t)
  <2>1. xact # <<>> /\ xact[1].by = t /\ at[t] = "write" BY <1>13 DEF FinishWrite, LocksHeld
  <2>2. CASE sdb_Abort(t) BY <1>2, <2>1, <2>2 DEF sdb_Abort
  <2>3. CASE sdb_Commit /\ UNCHANGED entry
    <3>1. Agrees BY <2>1 DEF XactAgrees
    <3> QED BY <2>3, <3>1 DEF XactAgrees, StoredKeysAgree, sdb_Commit
  <2> QED BY <1>13, <2>2, <2>3 DEF FinishWrite
<1>14. CASE CommitChange(t)
  <2>1. xact # <<>> /\ xact[1].by = t /\ at[t] = "convert" /\ todo[t] = {}
    BY <1>14 DEF CommitChange, LocksHeld
  <2>2. \A o \in Rows : xact[1].stored[o] \in {NoKey, key[t]} BY <2>1 DEF XactAgrees
  <2>3. entry'.key = key[t] /\ stored' = xact[1].stored /\ xact' = <<>>
    BY <1>14 DEF CommitChange, sdb_Commit
  <2> QED BY <2>2, <2>3 DEF XactAgrees, StoredKeysAgree
<1>15. CASE DatabaseFails(t) BY <1>3, <1>15 DEF DatabaseFails
<1>16. ASSUME NEW o \in Rows, sftk_convertAttributes(t, o) PROVE XactAgrees' /\ StoredKeysAgree'
  <2>1. xact # <<>> /\ xact[1].by = t /\ at[t] = "convert"
    BY <1>16 DEF sftk_convertAttributes, LocksHeld
  <2>2. CASE FailChange(t) BY <1>3, <2>1, <2>2
  <2>3. CASE xact[1].stored[o] \in {NoKey, cached}
    <3> DEFINE x == [xact[1] EXCEPT !.stored[o] = IF @ = NoKey THEN @ ELSE key[t], !.late = @ \ {o}]
    <3>1. xact[1] \in Xacts BY SMTT(30), <1>0, <2>1 DEF DbTypes
    <3>2. /\ x.by = t /\ x.late = xact[1].late \ {o}
          /\ x.stored = [xact[1].stored EXCEPT ![o] = IF @ = NoKey THEN @ ELSE key[t]]
      BY <2>1, <3>1 DEF Xacts
    <3>3. /\ xact' = <<x>> /\ at'[t] = "convert" /\ key'[t] = key[t] /\ todo'[t] = todo[t] \ {o}
          /\ UNCHANGED <<entry, stored, late>>
      BY <1>0, <1>16, <2>1, <2>3 DEF sftk_convertAttributes, ThreadTypes
    <3> HIDE DEF x
    <3>4. xact'[1] = x BY <3>3
    <3>5. StoredKeysAgree' BY <3>3 DEF StoredKeysAgree
    <3>6. ASSUME NEW i \in Rows
          PROVE IF i \notin todo'[t] THEN x.stored[i] \in {NoKey, key[t]}
                ELSE x.stored[i] \in {NoKey, entry.key} \/ i \in x.late
      <4>1. xact[1].stored \in [Rows -> Keys \cup {NoKey}] BY <3>1 DEF Xacts
      <4>2. IF i \notin todo[t] THEN xact[1].stored[i] \in {NoKey, key[t]}
            ELSE xact[1].stored[i] \in {NoKey, entry.key} \/ i \in xact[1].late
        BY <2>1 DEF XactAgrees
      <4>3. CASE i = o BY <3>2, <3>3, <4>1, <4>3
      <4>4. CASE i # o BY <3>2, <3>3, <4>1, <4>2, <4>4
      <4> QED BY <4>3, <4>4
    <3>7. XactAgrees' BY <3>2, <3>3, <3>4, <3>6 DEF XactAgrees
    <3> QED BY <3>5, <3>7
  <2> QED BY <1>16, <2>2, <2>3 DEF sftk_convertAttributes
<1> QED
  BY <1>4, <1>5, <1>6, <1>7, <1>9, <1>10, <1>11, <1>12, <1>13, <1>14, <1>15, <1>16 DEF LoginStep

-----------------------------------------------------------------------------
(* The states of the sessions.                                             *)

LEMMA LoginWalksStart ==
    ASSUME LoginTypeOK, WalksStart, NEW t \in Users, LoginStep(t)
    PROVE  WalksStart'
<1> DEFINE W(u) == /\ op[u] = "close_all" => at[u] \in {"close_all", "uncount"}
                   /\ at[u] = "close_all" => op[u] = "close_all"
                   /\ at[u] # "update" /\ op[u] # "close_all" => row[u] = 0
<1>0. ThreadTypes /\ LoginOthers(t) /\ W(t) BY TypeParts, OthersKept DEF WalksStart
<1> SUFFICES W(t)'
  <2>1. \A u \in Users \ {t} : W(u)' BY <1>0 DEF LoginOthers, WalksStart
  <2> QED BY SMTT(30), <2>1 DEF WalksStart
<1>1. Return(t) => W(t)' BY <1>0 DEF Return, Enter, ThreadTypes
<1>2. ASSUME NEW l \in Places \ {"close_all"}, Enter(t, l), op'[t] = op[t] \/ op'[t] # "close_all",
             row'[t] = row[t], at[t] \notin {"close_all", "uncount", "update"}
      PROVE W(t)'
  BY <1>0, <1>2 DEF Enter, ThreadTypes
<1>3. CASE OpenSession(t) \/ QueueSession(t)
  BY <1>1, <1>2, <1>3 DEF OpenSession, QueueSession, local, Places
<1>4. ASSUME NEW s \in Handles, CloseSession(t, s) PROVE W(t)'
  BY <1>2, <1>4 DEF CloseSession, local, Places
<1>5. CASE Uncount(t)
  <2>1. CASE op[t] = "close_all" BY <1>0, <1>5, <2>1 DEF Uncount, Enter, local, ThreadTypes
  <2>2. CASE op[t] # "close_all" BY <1>1, <1>5, <2>2 DEF Uncount
  <2> QED BY <2>1, <2>2
<1>6. CASE CloseAllSessions(t)
  BY <1>0, <1>6 DEF CloseAllSessions, Enter, ThreadTypes
<1>7. CASE CloseBucket(t)
  <2>1. Enter(t, "uncount") /\ UNCHANGED local => W(t)'
    BY <1>0, <1>7 DEF CloseBucket, Enter, local, ThreadTypes
  <2>2. UNCHANGED <<at, op>> => W(t)' BY <1>0, <1>7 DEF CloseBucket
  <2> QED BY <1>1, <1>7, <2>1, <2>2 DEF CloseBucket
<1>8. CASE sftk_update_all_states(t)
  <2>1. UNCHANGED <<at, op>> => W(t)' BY <1>0, <1>8 DEF sftk_update_all_states
  <2> QED BY <1>1, <1>8, <2>1 DEF sftk_update_all_states
<1>9. CASE NSC_Login(t) \/ NSC_SetPIN(t)
  <2>1. op'[t] # "close_all" BY <1>0, <1>9 DEF NSC_Login, NSC_SetPIN, ThreadTypes
  <2> QED BY <1>2, <1>9, <2>1 DEF NSC_Login, NSC_SetPIN, Places
<1>10. CASE FinishLogin(t) \/ NSC_Logout(t) \/ ClearLogin(t)
  BY <1>2, <1>10 DEF FinishLogin, NSC_Logout, ClearLogin, local, Places
<1>11. CASE sftkdb_finishPasswordCheck(t) \/ sftkdb_switchKeys(t) \/ CommitChange(t)
  BY <1>2, <1>11 DEF sftkdb_finishPasswordCheck, sftkdb_switchKeys, CommitChange, local, Places
<1>12. ASSUME NEW pw \in Passwords, sftkdb_CheckPassword(t, pw) PROVE W(t)'
  BY <1>1, <1>2, <1>12 DEF sftkdb_CheckPassword, Places
<1>13. ASSUME NEW old \in Passwords, NEW new \in Passwords, sftkdb_ChangePassword(t, old, new)
       PROVE W(t)'
  BY <1>1, <1>2, <1>13 DEF sftkdb_ChangePassword, Places
<1>14. CASE sftkdb_upgradeKDF(t) BY <1>2, <1>14 DEF sftkdb_upgradeKDF, Places
<1>15. ASSUME FailChange(t), at[t] \notin {"close_all", "uncount", "update"} PROVE W(t)'
  BY <1>1, <1>2, <1>15 DEF FailChange, local, Places
<1>16. ASSUME NEW o \in Rows, sftk_convertAttributes(t, o) PROVE W(t)'
  <2>1. UNCHANGED <<at, op, row>> => W(t)' BY SMTT(30), <1>0
  <2> QED BY <1>15, <1>16, <2>1 DEF sftk_convertAttributes
<1>17. ASSUME NEW o \in Rows, sftkdb_write(t, o) \/ sftkdb_DestroyObject(t, o) PROVE W(t)'
  BY <1>0, <1>2, <1>17 DEF sftkdb_write, sftkdb_DestroyObject, local, Places
<1>18. CASE FinishWrite(t) \/ DatabaseFails(t)
  BY SMTT(30), <1>1, <1>15, <1>18 DEF FinishWrite, DatabaseFails
<1> QED
  BY <1>3, <1>4, <1>5, <1>6, <1>7, <1>8, <1>9, <1>10, <1>11, <1>12, <1>13, <1>14, <1>16, <1>17,
     <1>18
  DEF LoginStep

LEMMA LoginWalks ==
    ASSUME LoginTypeOK, WalksStart, SessionsAreCounted, StatesWalked, NEW t \in Users, LoginStep(t)
    PROVE  StatesWalked'
<1> DEFINE Good(s) == state[s] = sftk_update_state \/ \E u \in Users : Walks(u, s)
           Walking == at[t] = "update" \/ op[t] = "close_all"
<1>0. SlotTypes /\ ThreadTypes /\ LoginOthers(t) /\ WalksStart'
  BY TypeParts, OthersKept, LoginWalksStart
<1>1. ASSUME NEW s \in Handles, NEW u \in Users \ {t}, Walks(u, s) PROVE Walks(u, s)'
  BY <1>0, <1>1 DEF LoginOthers, Walks
<1>2. ASSUME NEW s \in Queued, s \in Handles, state'[s] = state[s], UNCHANGED isLoggedIn,
             Walks(t, s) => Walks(t, s)'
      PROVE Good(s)'
  <2>1. CASE state[s] = sftk_update_state BY <1>2, <2>1 DEF sftk_update_state
  <2>2. CASE \E u \in Users : Walks(u, s) BY <1>1, <1>2, <2>2
  <2> QED BY <2>1, <2>2 DEF StatesWalked
<1>3. ASSUME \A s \in Queued : state'[s] = state[s] \/ state'[s] = "closed", UNCHANGED isLoggedIn,
             \A s \in Handles \ Queued : state'[s] = "closed",
             \A s \in Queued : Walks(t, s) /\ state'[s] # "closed" => Walks(t, s)'
      PROVE StatesWalked'
  <2>1. \A s \in Queued' : s \in Queued /\ s \in Handles /\ state'[s] # "closed"
    BY <1>3 DEF Queued
  <2> QED BY <1>2, <1>3, <2>1 DEF StatesWalked
<1>4. ASSUME UNCHANGED <<state, isLoggedIn>>, ~Walking PROVE StatesWalked'
  <2>1. \A s \in Handles \ Queued : state'[s] = "closed" BY <1>4 DEF Queued
  <2> QED BY <1>3, <1>4, <2>1 DEF Walks
<1>5. ASSUME Queued' \subseteq Handles, at'[t] = "update" \/ op'[t] = "close_all", row'[t] = 0
      PROVE StatesWalked'
  <2>1. \A s \in Handles : Walks(t, s)' BY SMTT(30), <1>5, BucketsAssumption DEF Walks
  <2> QED BY <1>5, <2>1 DEF StatesWalked
<1>6. Queued' \subseteq Handles BY DEF Queued
<1>7. at[t] \notin {"update", "close_all", "uncount"} => ~Walking BY DEF WalksStart
<1>8. CASE OpenSession(t) BY <1>4, <1>7, <1>8 DEF OpenSession
<1>9. CASE QueueSession(t)
  <2>1. PICK s \in Handles \ Queued : state' = [state EXCEPT ![s] = sftk_update_state]
    BY <1>9 DEF QueueSession
  <2>2. UNCHANGED isLoggedIn /\ ~Walking BY <1>7, <1>9 DEF QueueSession
  <2>3. sftk_update_state' = sftk_update_state BY <2>2 DEF sftk_update_state
  <2>4. Good(s)' BY <1>0, <2>1, <2>3 DEF SlotTypes
  <2>5. ASSUME NEW i \in Queued', i # s PROVE Good(i)'
    <3>1. i \in Queued /\ i \in Handles /\ state'[i] = state[i]
      BY <1>0, <2>1, <2>5 DEF Queued, SlotTypes
    <3> QED BY <1>2, <2>2, <3>1 DEF Walks
  <2> QED BY <2>4, <2>5 DEF StatesWalked
<1>10. ASSUME NEW s \in Handles, CloseSession(t, s) PROVE StatesWalked'
  <2>1. UNCHANGED isLoggedIn /\ ~Walking BY <1>7, <1>10 DEF CloseSession
  <2>2. \A i \in Handles : state'[i] = IF i = s THEN "closed" ELSE state[i]
    BY <1>0, <1>10 DEF CloseSession, SlotTypes
  <2> QED BY <1>3, <2>1, <2>2 DEF Walks, Queued
<1>11. CASE Uncount(t)
  <2>1. state' = state /\ Queued' = Queued BY <1>11 DEF Uncount, Queued
  <2>2. CASE op[t] = "close_all"
    <3>1. UNCHANGED <<isLoggedIn, op, row>> BY <1>11, <2>2 DEF Uncount, local
    <3>2. \A s \in Queued : Walks(t, s)' <=> Walks(t, s)
      BY <1>11, <2>2, <3>1 DEF Walks, Uncount
    <3> QED BY <1>3, <2>1, <3>1, <3>2 DEF Queued
  <2>3. CASE op[t] # "close_all" /\ sessionCount > 1
    <3>1. isLoggedIn' = isLoggedIn BY <1>0, <1>11, <2>3 DEF Uncount, SlotTypes
    <3>2. ~Walking BY <1>11, <2>3 DEF Uncount
    <3> QED BY <1>4, <2>1, <3>1, <3>2
  <2>4. CASE ~(sessionCount > 1)
    <3>1. t \in Moving BY <1>11 DEF Uncount, Moving
    <3>2. Queued = {} BY SMTT(30), <2>4, <3>1, LastSession
    <3> QED BY <2>1, <3>2 DEF StatesWalked
  <2> QED BY <2>2, <2>3, <2>4
<1>12. CASE CloseAllSessions(t)
  <2>1. row'[t] = 0 /\ op'[t] = "close_all"
    BY <1>0, <1>12 DEF CloseAllSessions, WalksStart, ThreadTypes
  <2> QED BY <1>5, <1>6, <2>1
<1>13. CASE CloseBucket(t)
  <2>1. UNCHANGED isLoggedIn /\ op[t] = "close_all" /\ at[t] = "close_all"
    BY <1>13 DEF CloseBucket, WalksStart
  <2>2. CASE \E s \in Queued : state' = [state EXCEPT ![s] = "closed"] /\ UNCHANGED local
    <3>1. PICK s \in Queued : state' = [state EXCEPT ![s] = "closed"] /\ UNCHANGED local BY <2>2
    <3>2. \A i \in Handles : state'[i] = IF i = s THEN "closed" ELSE state[i]
      BY <1>0, <3>1 DEF SlotTypes
    <3>3. \A i \in Queued : Walks(t, i)' <=> Walks(t, i) BY <2>1, <3>1 DEF Walks, local
    <3> QED BY <1>3, <2>1, <3>2, <3>3 DEF Queued
  <2>3. CASE {s \in Queued : BucketOf[s] = row[t]} = {} /\ state' = state /\ row[t] + 1 < NumBuckets
             /\ row' = [row EXCEPT ![t] = @ + 1] /\ UNCHANGED <<at, op>>
    <3>1. row'[t] = row[t] + 1 /\ row[t] \in Nat BY SMTT(30), <1>0, <2>3 DEF ThreadTypes
    <3>2. \A i \in Queued : BucketOf[i] \in Nat /\ BucketOf[i] # row[t]
      BY SMTT(30), <2>3, BucketsAssumption DEF Queued
    <3>3. \A i \in Queued : Walks(t, i) => Walks(t, i)'
      BY SMTT(30), <2>1, <2>3, <3>1, <3>2 DEF Walks
    <3> QED BY <1>3, <2>1, <2>3, <3>3 DEF Queued
  <2>4. CASE {s \in Queued : BucketOf[s] = row[t]} = {} /\ state' = state /\ row[t] + 1 = NumBuckets
    <3>1. \A i \in Queued : BucketOf[i] \in 0..(NumBuckets - 1) /\ BucketOf[i] # row[t]
      BY <2>4, BucketsAssumption DEF Queued
    <3>2. row[t] \in Nat BY SMTT(30), <1>0 DEF ThreadTypes
    <3>3. \A i \in Queued : ~Walks(t, i)
      BY SMTT(30), <2>4, <3>1, <3>2, BucketsAssumption DEF Walks
    <3> QED BY <1>3, <2>1, <2>4, <3>3 DEF Queued
  <2> QED BY <1>13, <2>2, <2>3, <2>4 DEF CloseBucket
<1>14. CASE sftk_update_all_states(t)
  <2>1. UNCHANGED isLoggedIn /\ at[t] = "update" /\ op[t] # "close_all"
    BY <1>14 DEF sftk_update_all_states, WalksStart
  <2>2. sftk_update_state' = sftk_update_state BY <2>1 DEF sftk_update_state
  <2>3. \A s \in Handles : state'[s] = IF s \in Queued /\ BucketOf[s] = row[t]
                                      THEN sftk_update_state ELSE state[s]
    BY <1>14 DEF sftk_update_all_states
  <2>4. ASSUME NEW s \in Queued' PROVE Good(s)'
    <3>1. s \in Handles /\ s \in Queued BY <2>3, <2>4 DEF Queued, sftk_update_state
    <3>2. CASE BucketOf[s] = row[t] BY <2>2, <2>3, <3>1, <3>2
    <3>3. CASE BucketOf[s] # row[t]
      <4>1. state'[s] = state[s] BY <2>3, <3>1, <3>3
      <4>2. BucketOf[s] \in 0..(NumBuckets - 1) /\ row[t] \in Nat
        BY SMTT(30), <1>0, <3>1, BucketsAssumption DEF ThreadTypes
      <4>3. CASE row[t] + 1 < NumBuckets
        <5>1. row'[t] = row[t] + 1 /\ at' = at
          BY <1>0, <1>14, <4>3 DEF sftk_update_all_states, ThreadTypes
        <5>2. Walks(t, s) => Walks(t, s)' BY SMTT(30), <2>1, <3>3, <4>2, <5>1 DEF Walks
        <5> QED BY <1>2, <2>1, <3>1, <4>1, <5>2
      <4>4. CASE ~(row[t] + 1 < NumBuckets)
        <5>1. ~Walks(t, s) BY SMTT(30), <3>3, <4>2, <4>4, BucketsAssumption DEF Walks
        <5> QED BY <1>2, <2>1, <3>1, <4>1, <5>1
      <4> QED BY <4>3, <4>4
    <3> QED BY <3>2, <3>3
  <2> QED BY <2>4 DEF StatesWalked
<1>15. CASE FinishLogin(t) \/ ClearLogin(t)
  <2>1. at'[t] = "update" /\ row'[t] = 0
    BY <1>0, <1>7, <1>15 DEF FinishLogin, ClearLogin, Enter, local, WalksStart, ThreadTypes
  <2> QED BY <1>5, <1>6, <2>1
<1>16. CASE NSC_Login(t) \/ NSC_Logout(t) \/ NSC_SetPIN(t) \/ sftkdb_finishPasswordCheck(t)
            \/ sftkdb_switchKeys(t) \/ CommitChange(t) \/ sftkdb_upgradeKDF(t)
  BY <1>4, <1>7, <1>16 DEF NSC_Login, NSC_Logout, NSC_SetPIN, sftkdb_finishPasswordCheck,
     sftkdb_switchKeys, CommitChange, sftkdb_upgradeKDF, slotVars
<1>17. ASSUME NEW pw \in Passwords, sftkdb_CheckPassword(t, pw) PROVE StatesWalked'
  BY <1>4, <1>7, <1>17 DEF sftkdb_CheckPassword, slotVars
<1>18. ASSUME NEW old \in Passwords, NEW new \in Passwords, sftkdb_ChangePassword(t, old, new)
       PROVE StatesWalked'
  BY <1>4, <1>7, <1>18 DEF sftkdb_ChangePassword, slotVars
<1>19. ASSUME NEW o \in Rows,
              sftk_convertAttributes(t, o) \/ sftkdb_write(t, o) \/ sftkdb_DestroyObject(t, o)
       PROVE StatesWalked'
  BY <1>4, <1>7, <1>19 DEF sftk_convertAttributes, sftkdb_write, sftkdb_DestroyObject,
     FailChange, slotVars
<1>20. CASE FinishWrite(t) \/ DatabaseFails(t)
  BY <1>4, <1>7, <1>20 DEF FinishWrite, DatabaseFails, FailChange, slotVars
<1> QED
  BY <1>8, <1>9, <1>10, <1>11, <1>12, <1>13, <1>14, <1>15, <1>16, <1>17, <1>18, <1>19, <1>20
  DEF LoginStep

-----------------------------------------------------------------------------
(* The theorems.                                                           *)

\* Nobody is in a call, at the start and after a crash, and nothing is open.
LEMMA AtRest ==
    ASSUME DbTypes, StoredKeysAgree, xact = <<>>, cached = NoKey, checking = {}, ~isLoggedIn,
           isLoggedIn \in BOOLEAN, sessionCount = 0, state = [s \in Handles |-> "closed"],
           at = [t \in Users |-> "idle"], op = [t \in Users |-> "none"],
           key = [t \in Users |-> NoKey], todo = [t \in Users |-> {}], row = [t \in Users |-> 0]
    PROVE  LoginIInv
<1>1. SlotTypes BY DEF SlotTypes
<1>2. ThreadTypes BY SMTT(30), BucketsAssumption DEF ThreadTypes, Places, Ops
<1>3. LoginTypeOK BY <1>1, <1>2, TypeParts
<1>4. LocksHeld /\ KeysRight /\ WalksStart BY DEF LocksHeld, KeysRight, WalksStart
<1>5. LoginMatchesDatabase /\ CachedKeyIsCurrent /\ XactAgrees
  BY DEF LoginMatchesDatabase, CachedKeyIsCurrent, XactAgrees
<1>6. Queued = {} /\ Moving = {} BY DEF Queued, Moving
<1>7. SessionsAreCounted BY SMTT(30), <1>6, FS_EmptySet DEF SessionsAreCounted
<1>8. StatesWalked BY <1>6 DEF StatesWalked
<1> QED BY <1>3, <1>4, <1>5, <1>7, <1>8 DEF LoginIInv

LEMMA AtRestNext ==
    ASSUME DbTypes', StoredKeysAgree', Crash
    PROVE  LoginIInv'
<1>1. SlotTypes' BY DEF SlotTypes, Crash
<1>2. ThreadTypes' BY SMTT(30), BucketsAssumption DEF ThreadTypes, Places, Ops, Crash
<1>3. LoginTypeOK' BY <1>1, <1>2, TypePartsNext
<1>4. LocksHeld' /\ KeysRight' /\ WalksStart' BY DEF LocksHeld, KeysRight, WalksStart, Crash
<1>5. LoginMatchesDatabase' /\ CachedKeyIsCurrent' /\ XactAgrees'
  BY DEF LoginMatchesDatabase, CachedKeyIsCurrent, XactAgrees, Crash
<1>6. Queued' = {} /\ Moving' = {} BY DEF Queued, Moving, Crash
<1>7. SessionsAreCounted' BY SMTT(30), <1>6, FS_EmptySet DEF SessionsAreCounted, Crash
<1>8. StatesWalked' BY <1>6 DEF StatesWalked
<1> QED BY <1>3, <1>4, <1>5, <1>7, <1>8 DEF LoginIInv

LEMMA LoginInitIInv == LoginInit => LoginIInv
<1> SUFFICES ASSUME LoginInit PROVE LoginIInv OBVIOUS
<1>1. DbTypes BY SMTT(30) DEF LoginInit, DbTypes, Keys
<1>2. StoredKeysAgree BY DEF LoginInit, StoredKeysAgree
<1>3. ~isLoggedIn /\ isLoggedIn \in BOOLEAN BY DEF LoginInit
<1> QED BY <1>1, <1>2, <1>3, AtRest DEF LoginInit

LEMMA LoginNextIInv == LoginIInv /\ [LoginNext]_loginVars => LoginIInv'
<1> SUFFICES ASSUME LoginIInv, [LoginNext]_loginVars PROVE LoginIInv' OBVIOUS
<1>1. CASE UNCHANGED loginVars
  <2>1. LoginTypeOK' BY <1>1 DEF LoginIInv, LoginTypeOK, loginVars, dbVars, slotVars, local
  <2>2. Queued' = Queued /\ Moving' = Moving
    BY <1>1 DEF Queued, Moving, loginVars, slotVars
  <2>3. SessionsAreCounted' BY <1>1, <2>2 DEF LoginIInv, SessionsAreCounted, loginVars, slotVars
  <2>4. LocksHeld' /\ KeysRight' /\ WalksStart'
    BY <1>1 DEF LoginIInv, LocksHeld, KeysRight, WalksStart, loginVars, dbVars, local
  <2>5. LoginMatchesDatabase' /\ CachedKeyIsCurrent'
    BY <1>1 DEF LoginIInv, LoginMatchesDatabase, CachedKeyIsCurrent, Committed, loginVars,
       dbVars, slotVars
  <2>6. XactAgrees' /\ StoredKeysAgree'
    BY <1>1 DEF LoginIInv, XactAgrees, StoredKeysAgree, loginVars, dbVars, local
  <2>7. StatesWalked'
    BY <1>1, <2>2 DEF LoginIInv, StatesWalked, Walks, sftk_update_state, loginVars, slotVars,
       local
  <2> QED BY <2>1, <2>3, <2>4, <2>5, <2>6, <2>7 DEF LoginIInv
<1>2. CASE Crash
  <2>1. DbTypes' BY <1>2, TypeParts DEF LoginIInv, Crash, DbTypes
  <2>2. StoredKeysAgree' BY <1>2 DEF LoginIInv, Crash, StoredKeysAgree
  <2> QED BY <1>2, <2>1, <2>2, AtRestNext
<1>3. ASSUME NEW t \in Users, LoginStep(t) PROVE LoginIInv'
  BY <1>3, LoginTypes, LoginLocks, LoginCached, LoginStored, LoginCounts, LoginWalksStart,
     LoginWalks DEF LoginIInv
<1> QED BY <1>1, <1>2, <1>3 DEF LoginNext

\* The inductive invariant of the slot's login and its key database holds.
THEOREM LoginIInvHolds == LoginSpec => []LoginIInv
BY LoginInitIInv, LoginNextIInv, PTL DEF LoginSpec

\* Every variable keeps its type; in particular the count of sessions, which
\* NSC_CloseSession and sftk_CloseAllSessions decrement, never wraps below zero.
THEOREM LoginTypeCorrect == LoginSpec => []LoginTypeOK
<1>1. LoginIInv => LoginTypeOK BY DEF LoginIInv
<1> QED BY <1>1, LoginIInvHolds, PTL

\* Whenever the slot says that the user is logged in, the handle of the key
\* database has a key: for any number of threads, sessions and buckets.
THEOREM LoggedInHasKey == LoginSpec => []LoginMatchesDatabase
<1>1. LoginIInv => LoginMatchesDatabase BY DEF LoginIInv
<1> QED BY <1>1, LoginIInvHolds, PTL

\* When no call that changes the login is under way, every session has the
\* state of the slot, whatever the order in which the walks over the buckets,
\* the sessions opened meanwhile and the last close ran.
THEOREM SessionStatesSettle == LoginSpec => []StatesSettle
<1>1. LoginIInv => StatesSettle BY DEF LoginIInv, StatesWalked, Walks, StatesSettle
<1> QED BY <1>1, LoginIInvHolds, PTL

\* The key in the handle is that of the password entry, except in the window
\* between the commit of a change and sftkdb_switchKeys.
THEOREM CachedKeyCurrent == LoginSpec => []CachedKeyIsCurrent
<1>1. LoginIInv => CachedKeyIsCurrent BY DEF LoginIInv
<1> QED BY <1>1, LoginIInvHolds, PTL

\* Through any number of password changes, failed changes and crashes, every
\* object is readable with the key of the password entry, or was written in
\* that window.
THEOREM ObjectsReadable == LoginSpec => []StoredKeysAgree
<1>1. LoginIInv => StoredKeysAgree BY DEF LoginIInv
<1> QED BY <1>1, LoginIInvHolds, PTL
=============================================================================
