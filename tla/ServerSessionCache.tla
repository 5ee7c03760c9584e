-------------------------- MODULE ServerSessionCache --------------------------
(***************************************************************************)
(* The server's session cache (ssl/sslsnce.c): memory shared by several    *)
(* processes, in which a session, the certificate of its client and the    *)
(* server name it was for are kept in three tables under three locks.  A   *)
(* process may die at any point, and LockPoller releases a lock whose      *)
(* recorded owner is gone.                                                 *)
(*                                                                         *)
(* There is one set of sessions; sets share nothing but their locks.  The  *)
(* locks lie in memory in the order of Locks; nobody takes the one of the  *)
(* wrapping keys here.  A process dies between two of the steps below,     *)
(* never inside the copy of an entry.  sslMutex_Lock does not fail, and    *)
(* the number of a dead process is not used again.                         *)
(***************************************************************************)
EXTENDS Integers, FiniteSets

CONSTANTS
    Procs, Nobody,
    Sessions,        \* sessions, by their ID
    HasCert,         \* those with a client certificate
    NameOf,          \* the server name of each, or Nobody
    IndexOf,         \* the place of each server name in srvNameCacheData
    EntriesPerSet,   \* SID_CACHE_ENTRIES_PER_SET
    NumCerts,        \* numCertCacheEntries
    NumNames,        \* numSrvNameCacheEntries
    SSL3Timeout,     \* seconds a session may be resumed
    UsecPerSec,      \* microseconds in a second, more than the seconds of a run
    MaxTime,         \* last second of the clock
    MaxDeaths        \* processes that die

ASSUME SizesAssumption ==
    EntriesPerSet \in Nat \ {0} /\ NumCerts \in Nat \ {0} /\ NumNames \in Nat \ {0}
ASSUME TimesAssumption == SSL3Timeout \in Nat /\ UsecPerSec \in Nat
ASSUME NobodyAssumption == Nobody \notin Procs \cup Sessions
ASSUME NamesAssumption ==
    \A s \in Sessions : NameOf[s] # Nobody => IndexOf[NameOf[s]] \in 0..(NumNames - 1)

VARIABLES
    mutex,           \* who holds each lock
    lockPid,         \* lock->pid
    old,             \* owned locks whose timeStamp is older than mutexTimeout
    alive,           \* processes that run
    sidCacheData, next,
    certCacheData, nextCertCacheEntry,
    srvNameCacheData,
    clock,           \* ssl_CacheNow(), in seconds
    cachedOnce,      \* sessions that some process has put or is putting in
    proc             \* what each process does and where it is

tables == <<sidCacheData, next, certCacheData, nextCertCacheEntry, srvNameCacheData>>
locks == <<mutex, lockPid, old>>
serverVars == <<locks, alive, tables, clock, cachedOnce, proc>>

Locks == <<"set", "key", "cert", "name">>
LockNames == {Locks[i] : i \in DOMAIN Locks}
NumSIDCacheLocks == 1

\* Mutant: the lock of the certificates, the last one polled, is left out.
locks_to_poll_One == NumSIDCacheLocks + 1

locks_to_poll == NumSIDCacheLocks + 2

Polled == {Locks[i] : i \in 1..locks_to_poll}

Idle == [op |-> "idle", sid |-> Nobody, phase |-> "out", lock |-> "set",
         cert |-> -1, name |-> -1, expires |-> 0, slot |-> Nobody,
         cce |-> Nobody, snce |-> Nobody]
NoEntry == [valid |-> FALSE, sid |-> Nobody, cert |-> -1, name |-> -1, expires |-> 0]

ServerInit ==
    /\ mutex = [l \in LockNames |-> Nobody] /\ lockPid = [l \in LockNames |-> Nobody]
    /\ old = {} /\ alive = Procs
    /\ sidCacheData = [i \in 0..(EntriesPerSet - 1) |-> NoEntry] /\ next = 0
    /\ certCacheData = [i \in 0..(NumCerts - 1) |-> Nobody] /\ nextCertCacheEntry = 0
    /\ srvNameCacheData = [i \in 0..(NumNames - 1) |-> Nobody]
    /\ clock = 0 /\ cachedOnce = {} /\ proc = [p \in Procs |-> Idle]

Is(p, phase, op, lock) ==
    /\ p \in alive
    /\ proc[p].phase = phase /\ proc[p].op = op /\ proc[p].lock = lock

Update(p, f) == proc' = [proc EXCEPT ![p] = f]
Ask(r, lock) == [r EXCEPT !.phase = "wants", !.lock = lock]

-----------------------------------------------------------------------------
(* Locks.                                                                  *)

\* LockSidCacheLock gets the mutex ...
LockMutex(p) ==
    LET l == proc[p].lock IN
    /\ p \in alive /\ proc[p].phase = "wants" /\ mutex[l] = Nobody
    /\ mutex' = [mutex EXCEPT ![l] = p]
    /\ Update(p, [proc[p] EXCEPT !.phase = "got"])
    /\ UNCHANGED <<lockPid, old, alive, tables, clock, cachedOnce>>

\* ... and then says who has it and since when.
RecordOwner(p) ==
    LET l == proc[p].lock IN
    /\ p \in alive /\ proc[p].phase = "got"
    /\ lockPid' = [lockPid EXCEPT ![l] = p]
    /\ Update(p, [proc[p] EXCEPT !.phase = "in"])
    /\ UNCHANGED <<mutex, old, alive, tables, clock, cachedOnce>>

\* UnlockSidCacheLock clears the owner; the mutex is released by UnlockMutex.
Leave(p, r) ==
    /\ lockPid' = [lockPid EXCEPT ![r.lock] = Nobody] /\ old' = old \ {r.lock}
    /\ Update(p, [r EXCEPT !.phase = "leaving"])
    /\ UNCHANGED <<mutex, alive, clock, cachedOnce>>

\* Where a process goes on after the lock it releases.
AfterUnlock(r) ==
    CASE r.lock = "set" -> Idle
      [] r.op = "cache" /\ r.lock = "name" /\ r.sid \in HasCert -> Ask(r, "cert")
      [] r.op = "cache" /\ (r.lock = "cert" \/ (r.lock = "name" /\ r.sid \notin HasCert)) ->
            Ask(r, "set")
      [] r.op = "lookup" /\ r.lock = "cert" /\ r.slot # Nobody /\ r.name # -1 -> Ask(r, "name")
      [] OTHER -> [r EXCEPT !.phase = "found", !.lock = "set"]

UnlockMutex(p) ==
    /\ p \in alive /\ proc[p].phase = "leaving"
    /\ mutex' = [mutex EXCEPT ![proc[p].lock] = Nobody]
    /\ Update(p, AfterUnlock(proc[p]))
    /\ UNCHANGED <<lockPid, old, alive, tables, clock, cachedOnce>>

-----------------------------------------------------------------------------
(* Putting a session in: its name, its certificate, then the session.      *)

ssl_ServerCacheSessionID(p, s) ==
    LET r == [Idle EXCEPT !.op = "cache", !.sid = s,
                          !.expires = (clock + SSL3Timeout) * UsecPerSec]
    IN  /\ p \in alive /\ proc[p] = Idle /\ s \notin cachedOnce
        /\ cachedOnce' = cachedOnce \cup {s}
        /\ Update(p, Ask(r, IF NameOf[s] # Nobody THEN "name"
                            ELSE IF s \in HasCert THEN "cert" ELSE "set"))
        /\ UNCHANGED <<locks, alive, tables, clock>>

CacheSrvName(p) ==
    LET name == NameOf[proc[p].sid] IN
    /\ Is(p, "in", "cache", "name")
    /\ srvNameCacheData' = [srvNameCacheData EXCEPT ![IndexOf[name]] = name]
    /\ Leave(p, [proc[p] EXCEPT !.name = IndexOf[name]])
    /\ UNCHANGED <<sidCacheData, next, certCacheData, nextCertCacheEntry>>

CacheCert(p) ==
    /\ Is(p, "in", "cache", "cert")
    /\ certCacheData' = [certCacheData EXCEPT ![nextCertCacheEntry] = proc[p].sid]
    /\ nextCertCacheEntry' = (nextCertCacheEntry + 1) % NumCerts
    /\ Leave(p, [proc[p] EXCEPT !.cert = nextCertCacheEntry])
    /\ UNCHANGED <<sidCacheData, next, srvNameCacheData>>

WriteEntry(p) ==
    LET r == proc[p] IN
    /\ Is(p, "in", "cache", "set")
    /\ sidCacheData' = [sidCacheData EXCEPT
          ![next] = [valid |-> TRUE, sid |-> r.sid, cert |-> r.cert, name |-> r.name,
                     expires |-> r.expires]]
    /\ next' = (next + 1) % EntriesPerSet
    /\ Leave(p, r)
    /\ UNCHANGED <<certCacheData, nextCertCacheEntry, srvNameCacheData>>

-----------------------------------------------------------------------------
(* Looking a session up, and taking one out.                               *)

\* FindSID goes from the newest entry back to the first that matches: where that
\* is, and the entries it found timed out on the way.
FindSID(s) ==
    LET back(i) == (next - i) % EntriesPerSet
        timedOut(e) == clock > e.expires
        match(e) == e.valid /\ ~timedOut(e) /\ e.sid = s
        hits == {i \in 1..EntriesPerSet : match(sidCacheData[back(i)])}
        first == CHOOSE i \in hits : \A j \in hits : i <= j
        passed == IF hits = {} THEN 1..EntriesPerSet ELSE 1..first
        out == {k \in {back(i) : i \in passed} : timedOut(sidCacheData[k])}
    IN  [slot |-> IF hits = {} THEN Nobody ELSE back(first), out |-> out]

\* The entries whose valid flag is cleared
Invalidate(slots) ==
    sidCacheData' = [k \in DOMAIN sidCacheData |->
                        IF k \in slots THEN [sidCacheData[k] EXCEPT !.valid = FALSE]
                        ELSE sidCacheData[k]]

ServerSessionIDLookup(p, s) ==
    /\ p \in alive /\ proc[p] = Idle
    /\ Update(p, Ask([Idle EXCEPT !.op = "lookup", !.sid = s], "set"))
    /\ UNCHANGED <<locks, alive, tables, clock, cachedOnce>>

\* The entry is looked for; with it, its certificate or its name if it has one.
FindEntry(p) ==
    LET f == FindSID(proc[p].sid)
        e == sidCacheData[f.slot]
        r == [proc[p] EXCEPT !.slot = f.slot, !.cert = e.cert, !.name = e.name]
    IN  /\ Is(p, "in", "lookup", "set")
        /\ Invalidate(f.out)
        /\ \/ /\ f.slot = Nobody /\ Leave(p, proc[p])
           \/ /\ f.slot # Nobody
              /\ Update(p, IF e.cert # -1 THEN Ask(r, "cert")
                           ELSE IF e.name # -1 THEN Ask(r, "name")
                           ELSE [r EXCEPT !.phase = "found"])
              /\ UNCHANGED <<locks, alive, clock, cachedOnce>>
        /\ UNCHANGED <<next, certCacheData, nextCertCacheEntry, srvNameCacheData>>

\* Mutant: the certificate is taken to be that of the session.
CertMatches_Always(r) == TRUE

\* The ring may have come round since; the session ID beside the certificate
\* says whose it is.
CertMatches(r) == certCacheData[r.cert] = r.sid

NameMatches(r) == srvNameCacheData[r.name] = NameOf[r.sid]

\* A certificate or a name of another session invalidates the entry.
CopyCert(p) ==
    LET r == proc[p] IN
    /\ Is(p, "in", "lookup", "cert")
    /\ \/ /\ CertMatches(r)
          /\ Leave(p, [r EXCEPT !.cce = certCacheData[r.cert]])
          /\ UNCHANGED tables
       \/ /\ ~CertMatches(r)
          /\ Invalidate({r.slot})
          /\ Leave(p, [r EXCEPT !.slot = Nobody])
          /\ UNCHANGED <<next, certCacheData, nextCertCacheEntry, srvNameCacheData>>

CopyName(p) ==
    LET r == proc[p] IN
    /\ Is(p, "in", "lookup", "name")
    /\ \/ /\ NameMatches(r)
          /\ Leave(p, [r EXCEPT !.snce = srvNameCacheData[r.name]])
          /\ UNCHANGED tables
       \/ /\ ~NameMatches(r)
          /\ Invalidate({r.slot})
          /\ Leave(p, [r EXCEPT !.slot = Nobody])
          /\ UNCHANGED <<next, certCacheData, nextCertCacheEntry, srvNameCacheData>>

\* "grab a copy while holding the lock"
CopyEntry(p) ==
    /\ Is(p, "found", "lookup", "set")
    /\ Leave(p, proc[p])
    /\ UNCHANGED tables

ssl_ServerUncacheSessionID(p, s) ==
    /\ p \in alive /\ proc[p] = Idle
    /\ \E k \in DOMAIN sidCacheData : sidCacheData[k].sid = s   \* a session once cached
    /\ Update(p, Ask([Idle EXCEPT !.op = "uncache", !.sid = s], "set"))
    /\ UNCHANGED <<locks, alive, tables, clock, cachedOnce>>

UncacheEntry(p) ==
    LET f == FindSID(proc[p].sid) IN
    /\ Is(p, "in", "uncache", "set")
    /\ Invalidate(f.out \cup ({f.slot} \ {Nobody}))
    /\ Leave(p, proc[p])
    /\ UNCHANGED <<next, certCacheData, nextCertCacheEntry, srvNameCacheData>>

-----------------------------------------------------------------------------
(* Death, time, and the poller.                                            *)

\* A process dies, whatever it holds.
Dies(p) ==
    /\ p \in alive
    /\ Cardinality(Procs \ alive) < MaxDeaths
    /\ alive' = alive \ {p} /\ Update(p, Idle)
    /\ UNCHANGED <<locks, tables, clock, cachedOnce>>

Ages(l) ==
    /\ l \notin old /\ lockPid[l] # Nobody
    /\ old' = old \cup {l}
    /\ UNCHANGED <<mutex, lockPid, alive, tables, clock, cachedOnce, proc>>

Tick ==
    /\ clock < MaxTime /\ clock' = clock + 1
    /\ UNCHANGED <<locks, alive, tables, cachedOnce, proc>>

\* Mutant: a lock held for long is released whether or not its owner is there.
Abandoned_Old(p) == TRUE

\* kill(pid, 0) finds no such process
Abandoned(p) == p \notin alive

\* A lock of LockPoller's round: "Treat this mutex as abandoned."  What the
\* code reads, asks and does is one step here: the owner does not both release
\* the lock and die between the poller's reading its number and asking for it.
LockPoller(l) ==
    /\ l \in Polled /\ l \in old /\ lockPid[l] # Nobody /\ Abandoned(lockPid[l])
    /\ mutex' = [mutex EXCEPT ![l] = Nobody] /\ lockPid' = [lockPid EXCEPT ![l] = Nobody]
    /\ old' = old \ {l}
    /\ UNCHANGED <<alive, tables, clock, cachedOnce, proc>>

ServerStep(p) ==
    \/ \E s \in Sessions : ssl_ServerCacheSessionID(p, s) \/ ServerSessionIDLookup(p, s)
                           \/ ssl_ServerUncacheSessionID(p, s)
    \/ LockMutex(p) \/ RecordOwner(p) \/ UnlockMutex(p)
    \/ CacheSrvName(p) \/ CacheCert(p) \/ WriteEntry(p)
    \/ FindEntry(p) \/ CopyCert(p) \/ CopyName(p) \/ CopyEntry(p) \/ UncacheEntry(p)
    \/ Dies(p)

ServerNext ==
    \/ \E p \in Procs : ServerStep(p)
    \/ \E l \in LockNames : Ages(l) \/ LockPoller(l)
    \/ Tick

ServerSpec == ServerInit /\ [][ServerNext]_serverVars

\* The poller's thread goes over all its locks again and again, and time passes.
ServerFairness ==
    \A l \in LockNames : WF_serverVars(LockPoller(l)) /\ WF_serverVars(Ages(l))

ServerLiveSpec == ServerSpec /\ ServerFairness

-----------------------------------------------------------------------------
(* Properties.                                                             *)

\* Types of the tables, the locks and what the processes remember.
ServerTypeOK ==
    LET ids == Sessions \cup {Nobody}
        names == {NameOf[s] : s \in Sessions} \cup {Nobody}
        certs == -1..(NumCerts - 1)
        slots == 0..(EntriesPerSet - 1)
    IN  /\ mutex \in [LockNames -> Procs \cup {Nobody}]
        /\ lockPid \in [LockNames -> Procs \cup {Nobody}]
        /\ old \subseteq LockNames /\ alive \subseteq Procs
        /\ sidCacheData \in [slots -> [valid : BOOLEAN, sid : ids, cert : certs,
                                       name : -1..(NumNames - 1), expires : Int]]
        /\ next \in slots
        /\ certCacheData \in [0..(NumCerts - 1) -> ids]
        /\ nextCertCacheEntry \in 0..(NumCerts - 1)
        /\ srvNameCacheData \in [0..(NumNames - 1) -> names]
        /\ clock \in Nat
        /\ proc \in [Procs -> [op : {"idle", "cache", "lookup", "uncache"}, sid : ids,
                              phase : {"out", "wants", "got", "in", "found", "leaving"},
                              lock : LockNames, cert : certs, name : -1..(NumNames - 1),
                              expires : Int, slot : slots \cup {Nobody},
                              cce : ids, snce : names]]

\* What a lookup is about to return
Found(p) == Is(p, "leaving", "lookup", "set") /\ proc[p].slot # Nobody

\* A session is found with the certificate of its own client and the server
\* name it was made for, although all three tables are overwritten by other
\* sessions meanwhile and their writers may have died half way.
FoundIsOwn ==
    \A p \in Procs : Found(p) =>
        /\ sidCacheData[proc[p].slot].valid
        /\ proc[p].cce = IF proc[p].sid \in HasCert THEN proc[p].sid ELSE Nobody
        /\ proc[p].snce = NameOf[proc[p].sid]

Holds(p, l) ==
    \/ proc[p].lock = l /\ proc[p].phase \notin {"out", "wants"}
    \/ l = "set" /\ proc[p].op = "lookup" /\ proc[p].lock \in {"cert", "name"}

\* Releasing the locks of dead processes never lets two live ones into the
\* same table.
OneHolder ==
    \A l \in LockNames : \A p, q \in alive : Holds(p, l) /\ Holds(q, l) => p = q

\* "Treat this mutex as abandoned": a lock whose owner is recorded and dead is
\* released in the end, so that from some time on there is none (a dead process
\* takes no more locks).  It does not hold of the lock of the server names,
\* which LockPoller does not reach.
DeadLocksReleased ==
    <>[](\A l \in LockNames \ {"name"} : lockPid[l] \in alive \cup {Nobody})

\* "SessionID has timed out.  Invalidate the entry.": FindSID does not return a
\* session after its expirationTime.
FoundIsFresh ==
    \A p \in Procs : Is(p, "in", "lookup", "set") =>
        LET k == FindSID(proc[p].sid).slot
        IN  k = Nobody \/ clock * UsecPerSec <= sidCacheData[k].expires
=============================================================================
