# TLA+ models of NSS

NSS is a set of C libraries for TLS and DTLS, certificates, PKCS #11 tokens and
their databases. This directory holds TLA+ modules that are translated from its
source, the TLC configurations that check them on small instances, and proofs
that TLAPS checks for every value of the constants. `PROJECT.json` maps every
definition to the source lines it stands for and lists the runs, mutants,
hazards and theorems.

Three areas are covered, chosen because several actors meet in them:

- **DTLS**, where NSS does by hand what TCP gives TLS for free: records that are
  lost, repeated and reordered, messages that are cut and put together again,
  timers, acknowledgments, and keys that change while records are under way;
- **resumption**: the session cache of the client, that of the server (shared
  memory of several processes) and the 0-RTT anti-replay context;
- **shared state of the library**: the reader-writer lock, initialisation and
  shutdown, and in softoken the sessions, objects, login and key database.

Contents: [Inventory](#inventory),
[the modules and the code](#the-modules-and-the-code), [the runs](#the-runs),
[fairness](#fairness), [what is proved](#what-is-proved),
[where code and comments disagree](#where-code-and-comments-disagree),
[what is not modelled](#what-is-not-modelled).

## Inventory

| Part | Where (`src/lib/`) | State | Hard behaviour | Module |
| --- | --- | --- | --- | --- |
| DTLS records | `ssl/dtlscon.c`, `ssl/ssl3con.c` | replay ring, next number, failure count, per epoch | replays, jumps of the window, truncated numbers | DtlsRecordRead |
| DTLS handshake transport | `ssl/dtlscon.c` | flight, MTU estimate, timers; mark, map and buffer of a message | loss, overlap, path MTU, jump to a retried ClientHello | DtlsMessages, DtlsReassembly, DtlsReceiver, DtlsFlight |
| DTLS 1.3 | `ssl/dtls13con.c` | lists of sent and received records, KeyUpdate in progress, epochs | both ends at once, lost ACKs, last epoch | Dtls13KeyUpdate, DtlsUnackedRange, DtlsFlight |
| TLS 1.3 handshake | `ssl/tls13con.c`, `tls13exthandle.c`, `tls13psk.c`, `tls13ech.c` | wait state, secrets, 0-RTT state | tickets, key update | only as used by the DTLS and cache modules |
| TLS 1.2 and older | `ssl/ssl3con.c`, `ssl3gthr.c` | wait state, pending specs | renegotiation, asynchronous certificate checks | only as used by the DTLS and cache modules |
| Cipher specs | `ssl/sslspec.c` | specs with 8-bit reference counts | queued messages hold specs | none |
| Sockets and locks | `ssl/sslsock.c`, `sslsecur.c` | six locks in the order of `notes.txt` | lock order, callbacks | none |
| 0-RTT anti-replay | `ssl/tls13replay.c`, `sslbloom.c` | two Bloom filters | threads, restart, clock | Tls13AntiReplay |
| Client session cache | `ssl/sslnonce.c` | list of sessions with reference counts | expiry, eviction and clearing while handshakes hold sessions | ClientSessionCache |
| Server session cache | `ssl/sslsnce.c`, `sslmutex.c` | shared memory: session sets, certificate and name tables, locks with owner and time | several processes, one of which dies with a lock | ServerSessionCache |
| Initialisation | `nss/nssinit.c` | flag, counter, context list | concurrent inits, failing ones, shutdown | NSSInit |
| Softoken sessions and objects | `softoken/pkcs11.c`, `pkcs11u.c`, `pkcs11c.c` | two queues per object, reference counts | slot-wide handles, closing against deleting | SoftokenObjects |
| Softoken login and key database | `softoken/pkcs11.c`, `sftkpwd.c`, `sftkdb.c`, `sdb.c` | login flag, session states, cached key, encrypted objects | three locks, password change as one transaction, crash | SoftokenLogin |
| Reader-writer lock | `util/nssrwlk.c` | counters and owner under a mutex | preference, nesting, wakeups | NSSRWLock |
| Certificates, CRL and OCSP caches | `pki/`, `certdb/`, `certhigh/` | caches of objects | lock given up between read and write, fetch outside the monitor | none |
| PKCS #11 wrapper, tokens | `pk11wrap/`, `dev/` | modules, slots, token presence | token removed in use | none |
| Utilities, encoders, cryptography | `util/`, `base/`, `smime/`, `pkcs7/`, `pkcs12/`, `crmf/`, `jar/`, `cryptohi/`, `freebl/`, `libpkix/`, `mozpkix/`, `ckfw/`, `dbm/`, `sqlite/`, `zlib/` | mostly local | none that interleaves | none |

The parts meet as follows. A record goes through the replay ring and the cipher
spec of its epoch, then to reassembly, then to the handshake, which answers with
a flight. ACKs change the flight and, for a KeyUpdate, the write keys. A
handshake takes a session from a cache and puts one back; 0-RTT data passes the
anti-replay context first. The module list, the token list, the dynamic OIDs and
the CRL caches are guarded by the reader-writer lock. In softoken the login
decides which objects a session may use, and the key that the login caches
encrypts what is written to the key database.

## The modules and the code

Data is abstracted and control is kept: contents of records are not modelled,
a byte is the message it belongs to, a key is the password and salt it is
derived from. Each module says at its head what it abstracts. Where threads
share memory an action is one stretch of code under one lock.

**DtlsRecordRead** is the read side of one cipher spec. `dtls_ReadSequenceNumber`
completes a truncated number, `dtls_RecordGetRecvd` and `dtls_RecordSetRecvd` are
the replay ring with its byte-wise slide (`Slide`, `SlidBytes`), and
`HandlePeerRecord`/`HandleForeignRecord` are `ssl3_HandleRecord` up to the
content. A record unprotects exactly when the number recovered for it is its own,
that number being the nonce. Numbers are below `max_records`, so the 64-bit
arithmetic of the code does not wrap.

**DtlsMessages** declares the messages of a handshake and their lengths, for
DtlsReassembly and DtlsFlight. **DtlsReassembly** is `dtls_HandleHandshake`: one disjunct each for a whole next
message, a message that is not the next, and part of the next one, with the
abandoned reassembly on a length that disagrees and the handler that would block.
**DtlsReceiver** is the abstract specification: a set of offsets and a message that
is handed up when the set is full. `DtlsReassembly!ImplementsReceiver` maps mark
and map to that set.

**DtlsUnackedRange** is the loop of `dtls_NextUnackedRange`, one step per move.

**DtlsFlight** composes a sender and a receiver over a path. The sender cuts
(`dtls_FragmentHandshake`), packs (`dtls_SendFragment`), retransmits, lowers its MTU
estimate and drops what is acknowledged. A transmission is one step of the model; inside it
`Rounds` repeats the loop of `dtls_TransmitMessageFlight` on a record `Packing` (messages to go,
offset, pending buffer, datagrams sent), `MaxRounds` times, which is proved to be enough
(`RoundsSuffice`). The receiver is the abstract
`DtlsReceiver` with the ACK list, the ACK timer and the holddown timer. A flight is of
one of three kinds: of DTLS 1.2, answered by another flight, or the last one of
a DTLS 1.3 client, which is only acknowledged.

**Dtls13KeyUpdate** composes two whole endpoints after the handshake: KeyUpdate in
both directions, tickets, application data, ACKs, timers, epochs and
`allowPreviousEpoch`, over a network that delays, reorders and, if `Lossy`, drops.

**NSSRWLock** has one action for every stretch of code under the lock's mutex, so
that a wakeup, the return from `PR_WaitCondVar` and what other threads do in
between are separate steps. Waits may end without a notification.

**Tls13AntiReplay** has server threads that check a ticket's age and then, in a
separate step and at a later time, enter the monitor; the clock moves in between.
A restart loses the filters and keeps the ticket keys.

**ClientSessionCache** is the list of `sslnonce.c` with what a client handshake does
to it: `ssl3_SendClientHello` looks a session up, offers it or not, the ServerHello
of TLS 1.2 or 1.3 confirms or replaces it, `ssl3_FinishHandshake` and
`tls13_HandleNewSessionTicket` cache it. Alerts, `SSL_InvalidateSession`,
`SSL_ClearSessionCache`, expiry, closing and threads in `SSL_GetChannelInfo`
come in between, and allocations may fail. `references` is computed by the code's increments and decrements;
`ReferencesExact` counts the pointers.

**ServerSessionCache** has processes that cache, look up and uncache sessions. Taking
a lock is two steps (`LockMutex`, `RecordOwner`) and so is releasing it, since a
process may die between them. `LockPoller` reads the time stamp and the owner without
the lock. A certificate or name is found through an index that another session may
have overwritten, which `CertMatches` and `NameMatches` test.

**NSSInit** has threads in the two locked sections of `nss_Init` and in the two
shutdown functions, with the waits on `nssInitCondition`. `ready` and `skipped` are
history variables.

**SoftokenObjects** is one slot's sessions and session objects. `list` and `hashed`
are the two queues of an object, `held` the reference of the queues while a thread
carries it, and `sftk_ClaimObjectRemovalLocked` decides which thread does.
**SoftokenLogin** is the same slot's login state and key database. A password change
is a transaction of one step per object; any call of the database may fail and the
process may crash between any two steps. `late` marks objects written between
the commit of a change and `sftkdb_switchKeys`, see
[below](#where-code-and-comments-disagree).

`MC*` modules give the constants their values. Four of them put models that share no
state side by side: the variable `part` picks one in the initial state and the
others rest, so that every behaviour is one of a single model.
`*Proofs` modules hold the theorems, three of them those of several models (ReplayProofs,
DtlsFragmentProofs, LibraryProofs). Names that would clash where models meet carry the
model's (`LibInit`, `FlightSpec`, `LoginTypeOK`). Definitions named `<definition>_<Change>` are deliberate faults (`Mutant:` in
their comments): each property of a passing run is violated when the definition is
replaced by one of them.

## The runs

| Run | States | What holds |
| --- | --- | --- |
| `dtls_pieces` | 173,197 | Records: none is handed up twice; inside the window the ring is exact; a late record within the window less a byte and the half range of its header passes under its own number. Fragments: a message handed up is whole and its own; what is acknowledged is held; no message is stuck; the abstract receiver is implemented. Ranges: the search ends with the tightest range around what is not acknowledged, or with none if there is nothing. |
| `key_update` | 1,177,696 | Epochs of writer and reader are equal or one apart while an ACK is awaited; what is written now can be read; nothing leaves the flight before it was handled; one KeyUpdate at a time; the reader always has an epoch left for it. |
| `key_update_completes` | 35,784 | Without loss each KeyUpdate completes or an end has sent a fatal alert. |
| `flight` | 45,303 | Datagrams keep to the estimate; what the sender takes for acknowledged the receiver has; nothing is forgotten unhandled. |
| `flight_completes` | 5,604 | On a lossy path with an MTU below the first estimate the flight is delivered and the timer is cancelled. |
| `shared_locks` | 283,179 | Lock: exclusion, no lost wakeup, every request granted. Initialisation: the basic part is done once, by one thread alone, and whoever has the library open finds it done; nobody sleeps without a reason but those a failed initialisation passed over. Server cache: a session is found with its own certificate and name only; the poller never lets two processes into a table; a lock of a dead process that recorded itself, if it is one the poller looks at, is released. |
| `resumption` | 1,582,156 | Early data on a ticket is accepted once; the first attempt in time is accepted. Every session of the client cache has exactly one reference for each pointer to it, and is in the list exactly while it is marked so. |
| `softoken` | 1,372,091 | Objects: both queues agree, nothing dangles, nothing leaks. Login: the flag implies a cached key; session states settle; the cached key is that of the password entry and so is the key of every object, but for the window between commit and switch. |
| `key_update_ack_lost` | violation | See [below](#where-code-and-comments-disagree). |
| `flight_final_cut` | violation | " |
| `flight_path_mtu` | violation | " |
| `server_session_expiry` | violation | " |

Deadlock is checked in `softoken`. It is not in the others: a connection with nothing
to send, a search that has returned, threads that have made all their requests, a
clock at its end, and waiters that a failed initialisation passed over really stop.

### Bounds

- `dtls_pieces`: a ring of 2 bytes of 2 bits, header ranges of 4 and 8, 13
  records, 2 failures. The window slides by one byte, by less than its
  length, by exactly it and by more, each header wraps, and the limit is reached.
  Messages of 3, 4 and 0 bytes with every cut, order and repetition; 4 bytes allow
  two gaps and overlaps on both sides. All lists of up to three records of messages of
  up to 4 bytes, from all offsets: one inside, one that overlaps and one apart.
- `key_update`: epochs 3 and 4, so that both the first and the last update
  happen; two messages of its own and two responses for each end. The liveness runs
  leave epochs to spare and have one message of its own and one response for each end
  (3, 4 and 5 are reached, so the two epoch bits of the header wrap).
- `flight`: MTUs 6 and 3 and a path of 4 bytes, so that the first transmission
  of a full datagram fails; a message that is cut, one that shares a datagram and an
  empty one. `flight_completes` has MTUs 5, 4 and 3 and a path of 3, with messages for
  which one downgrade is enough (see `flight_path_mtu` for one that needs two).
- `shared_locks`: three threads with three requests each on the lock: a writer, one
  that waits and one that comes in between, with nesting. Three threads in
  initialisation: one inside, one woken, one passed over. Two processes, of which one dies,
  and two sessions that compete for one place in the certificate table and one in the
  name table.
- `resumption`: a window of 8 ticks and a millisecond of 2, two tickets with
  distinct hashes and an external PSK that overlaps both, 22 ticks (more than two
  rollovers), one restart, two threads. Two sockets and memory for three sessions: each
  may hold one while the third is in the list. Threads, sockets and
  session memory are interchangeable, hence the symmetry; no liveness is checked.
- `softoken`: three threads, two sessions in different buckets and two objects: one
  thread closes, one deletes, one looks up. Two passwords, one private object, an
  upgrade of the salt; crashes and failures are not bounded. Threads and passwords are
  interchangeable.
- `server_session_expiry`: one session with a lifetime of one second, three seconds.

## Fairness

Safety runs assume none. The liveness properties assume only what follows.

- **Timers** (weak fairness). `dtls_CheckTimer` runs on every read of the
  application, so a timer that stays armed fires.
- **The path** (strong fairness). A record or ACK that is sent again and again
  arrives some time; in DtlsFlight it is the newest ACK that does, and older ones
  do not stay in transit for ever. Nothing is assumed of a record or ACK that is
  sent a finite number of times.
- **The answer** (weak fairness, DtlsFlight). A receiver that has the whole flight
  has sent its answer and keeps a timer of its own for it.
- **Lock holders** (weak fairness, NSSRWLock). A notified thread gets the
  mutex at last, and a thread that holds a lock releases it.
- **The poller** (weak fairness, ServerSessionCache). `LockPoller` is a thread that sleeps
  and looks again as long as the cache is open, and a time stamp that nobody renews grows old.
- **The loop** (weak fairness, DtlsUnackedRange). The function is not stopped.

The holddown timer is left out of the liveness runs (`Holddown = FALSE`): once it
has expired the server no longer answers a retransmitted Finished, by design.

## What is proved

TLAPS proves every invariant, every action property and the refinement that the passing
runs check, for every value of the constants that satisfies the named `ASSUME`s of the
modules (DtlsReassembly: for an end that is not a fresh server). The assumptions bound
nothing that the code does not bound, unless stated. Each proof has
an inductive invariant (`IInv`, or `LibIInv`, `FlightIInv` and so on where several models
meet): `Init => IInv`, `IInv /\ [Next]_vars => IInv'`, with one lemma per action or group
of actions.

**ReplayProofs**

- *DtlsRecordRead*: `ReadTypeOK`, `HandledAtMostOnce`, `RingExact`,
  `LateRecordAccepted`, for any size of byte, ring and header. `RingExact` alone is not
  inductive: that a number which the window reaches for the first time
  finds its bit clear needs that the window ends on a byte boundary and is exactly
  the ring long (`Aligned`), and that nothing to its right was handed up.
  `NextInWindow` ties the next expected number to the window for the
  late records. The arithmetic of division with remainder is in lemmas.
- *Tls13AntiReplay*: the type invariant, `AcceptedOnce`, and the action property
  `FirstIsAccepted`, for any window, attempts, hashes, threads and number of restarts. An
  accepted attempt is in the current filter, or in the other one with a window to go, or
  too old for the age check. `DelayAssumption` is needed: a thread spends at most a
  millisecond between its two looks at the clock. The code does not enforce it; the
  millisecond is what rounding the allowance down leaves. `FirstIsAccepted` rests on
  `FilledBySeen`: the filter in use holds only bits of attempts that were seen, and after
  the first update, which zeroes the filter that started full, so does the other.

**DtlsFragmentProofs**

- *DtlsReassembly*: the type invariant, the four invariants of the run and the
  refinement of DtlsReceiver, for any number of messages of any length, if the end is not
  a fresh server (`~Stateless`; the run covers a fresh one). `Progress` says that mark,
  map and remembered bytes agree and that the byte at the mark is missing.
- *DtlsUnackedRange*: the type invariant, `RangeIsTight`,
  `NoneMeansAcknowledged`, for any message and any list of records. `Narrowed` says that
  all that was cut off is acknowledged.
- *DtlsFlight*: `FlightTypeOK`, `DatagramsFit`, `AckedIsHeld`, `ForgottenIsHandled`, for any
  messages, flights, MTU plateaus and path. `FlightIInv` says that every record the sender
  counts as acknowledged, the receiver remembers or an ACK under way lists is one the
  receiver holds (`PeerHolds`), and that what it has of the message it waits for is not all
  of it (`Waiting`); without the ACKs under way `AckedIsHeld` is not inductive. The packing is
  an iteration inside one step: `Fitting(m)` is the invariant of a round (the pending
  datagram has room for another byte, nothing sent exceeds `m`), and `RoundsSuffice` shows
  that the bound on the rounds cuts nothing off, by the measure `Within` of messages and
  bytes passed. Induction over the rounds goes through the least round that fails
  (`LeastExists`).

**Dtls13KeyUpdateProofs**: the type invariant and the five invariants of the run,
for any number of epochs and messages, with or without loss and holddown. The invariant
relates for each direction the writer's flight, the KeyUpdate in progress, the
reader's counters, and the records and ACKs under way: an ACK, in the network
or about to be sent, lists only what was handled, and a record under way was
sent under an epoch not above the writer's.

**LibraryProofs**

- *NSSRWLock*: `TypeOK`, `Exclusion`, `NoLostWakeup`, for any finite set of
  threads. `Counted` equates the counters with the cardinalities of the sets of
  threads they count; `Owned` ties the owner to the thread that holds the write lock.
- *NSSInit*: the type invariant, `InitOnce`, `SleepsForAReason`, for any finite set of threads.
  The two are inductive only together, and with `nssIsInInit` as the number of threads in
  `nss_Init`: the count decides who waits, and who waits finds the library not open.

**SoftokenObjectsProofs**: `TypeOK`, `QueuesAgree`, `NothingDangles`, `NothingLeaks`, for any
finite set of threads and any sessions, objects and buckets. None of the last
three is inductive. `SessionsCounted` and `ObjectsCounted` say that a count is the number of
threads that hold the thing plus one if a queue does; `Places` says what a thread holds at
each place of its call (one that clears a session is alone with it, one that adds an object
carries the queues' reference); `SessionsKept`, `ObjectsKept` and `Emptied` say that
what is held is alive and that a session past `sftk_ClearSession` owns nothing. A step
changes one count and one holder; lemmas on cardinalities turn that into the new count.

**SoftokenLoginProofs**: the type invariant, `LoginMatchesDatabase`, `StatesSettle`,
`CachedKeyIsCurrent`, `StoredKeysAgree`, for any finite sets of threads and sessions and any
buckets, objects and passwords, with failures and crashes at any step. `LocksHeld` and
`KeysRight` say which lock or transaction protects a key while a thread carries it;
`XactAgrees` what a transaction would leave if it were committed now; `StatesWalked` that a
session whose state is not the slot's is in a bucket some walk has still to come to, and
`SessionsAreCounted` that the slot's count misses no session on its way in or out.

**ClientSessionCacheProofs**: the type invariant and `ReferencesExact`, for any finite set of
sockets and any sessions. `Counted` is `ReferencesExact` in the form in which steps keep it.
That no session is put into the list twice needs `Placed` (what a handshake holds at each of its
stages) and `Apart` (a session that was never cached is known to one handshake, and one
that a TLS 1.3 handshake has renewed to no other such handshake).

**ServerSessionCacheProofs**: the type invariant, `OneHolder` and `FoundIsOwn`, for any numbers of
processes, sessions and table entries, with processes that die anywhere. `MutexHeld` ties the
mutex and the owner on record to the section a process is in, so that the poller frees only
locks of the dead; `EntriesComplete` and `InOrder` say that an entry is written with both
its indexes or none, and what a lookup has by each of its steps.

Only model-checked: the liveness properties (`SearchTerminates`, `KeyUpdateCompletes`,
`FlightCompletes`, `EveryoneIsServed`, `DeadLocksReleased`), since the prover does not do
fairness, and the fresh server of DtlsReassembly, for which one of the invariants
needs the different lengths of the two hellos that the run has (see below).

## Where code and comments disagree

Four runs show a behaviour that differs from what a comment says.

1. `key_update_ack_lost`. If the ACK of a KeyUpdate is lost, the retransmitted
   KeyUpdate counts as an old message. `dtls_RetransmitDetected` ignores it when the
   receiver has no timer armed, and no ACK is set up. The sender retransmits for ever
   and every later key update is dropped, because one is in progress. A new
   post-handshake message of the same sender would bring the ACK, since
   `dtls13_SendAck` lists everything received; the run has none to send.
2. `flight_final_cut`. `dtls_ReceivedFirstMessageInFlight` empties the ACK list when the
   first message of a flight is complete, and with it the records that carried
   its earlier fragments. For the last flight of a client (a Certificate in several
   records) nothing but the ACK ends the retransmission, and it never covers them.
3. `flight_path_mtu`. The estimate is lowered to what is below `maxMessageSent`, which
   never shrinks: the second downgrade computes what the first did.
4. `server_session_expiry`. `FindSID` compares the clock of the cache, in seconds, with an
   expiration time in microseconds (`sslsnce.c:619` and `777`), so that no entry ever
   times out; `UsecPerSec` in the model is larger than any time of a run.

Noted while modelling, without a run of their own:

- A KeyUpdate of the previous epoch that arrives after `allowPreviousEpoch` is cleared
  is answered with a fatal `illegal_parameter` (`dtls13con.c:489`); the comment at
  `ssl3con.c:14072` speaks of discarding. `KeyUpdateCompletes` accepts the alert as an end.
- `dtls13_HolddownTimerCb` empties the whole ACK list (`dtls13con.c:664`), also of
  post-handshake messages not acknowledged yet.
- A second ClientHello of the same length as a partly received first one
  inherits its high water mark (`dtlscon.c:344` and `435`). A cookie makes the second one
  longer in practice; the run uses different lengths.
- A KeyUpdate that asks for a response at the last write epoch is left unhandled
  without an alert (`dtls13con.c:854`).
- The range that `dtls_NextUnackedRange` returns may have acknowledged bytes in
  its interior; `RangeIsTight` states what does hold.
- A session that leaves the client cache while a connection uses it (by
  `SSL_ClearSessionCache`, `SSL_InvalidateSession` or expiry) becomes `invalid_cache`, and
  not `never_cached`; the next NewSessionTicket of that connection keeps it
  (`tls13con.c:6615`) and `CacheSID` puts it back into the list, with a new lock over the old
  one. The reference counts stay exact.
- A session found unfit to be offered is freed, but what `ssl3con.c:5774` takes out of the
  cache is the session the socket had before, so the unfit one stays in the list.
- `LockPoller` looks at `numSIDCacheLocks + 2` locks (`sslsnce.c:1469`) of the
  `numSIDCacheLocks + 3` there are: the lock of the server names is never released for a
  dead process. Neither is one whose holder dies before it has recorded itself or after it
  has cleared the record. `DeadLocksReleased` is stated for the rest.
- A failed `nss_Init` wakes one waiter; if that one is a shutdown the others sleep until a
  later initialisation succeeds (`skipped` in NSSInit). `NSS_Shutdown` asks `nssIsInitted`
  before it waits and not again after.
- Between `sdb_Commit` and `sftkdb_switchKeys` (`sftkpwd.c:1533` to `1540`) another
  thread can begin a write and encrypt with the old key; the object is then not readable with
  the new one, and a later change of the password fails on it. `StoredKeysAgree` leaves
  those objects (`late`) out.
- `sftkdb_reencryptDatabase` calls `sdb_Abort` also when `sdb_Begin` failed; `sdb_complete`
  compares the thread and leaves the transaction of another thread alone, after a debug
  assertion that does not hold.
- A login that is under way when the last session is closed may end logged in
  with no session open.

## What is not modelled

In the modelled files: HelloVerifyRequest and cookies, version conversion, header
layout and sequence number masking, the DTLS 1.2 holddown of Finished, the
back-off of timers (an armed timer may fire at any time), the reference count of the
anti-replay context, and the rank checks of debug builds in the lock; sessions of an
external cache and resumption tokens; setting up and inheriting the server's shared
memory, its wrapping and ticket keys, the reuse of process numbers; the callbacks of
`NSS_RegisterShutdown`; in softoken, operation contexts and searches, `NSC_CopyObject`,
`NSC_InitPIN`, an empty password, the security officer, read-only sessions, the update of an
older database, integrity signatures as rows of their own, and the memory of token objects.
The replay ring is not repeated inside Dtls13KeyUpdate and DtlsFlight: a record there
stands for all its copies. SQLite is taken to make transactions atomic and durable.

Elsewhere, and why:

- *Handshake message order* (`tls13con.c`, `ssl3con.c`): runs under one lock of one
  socket, and which branch is taken is decided by the contents of messages; a model that
  abstracts the contents allows every order the code refuses.
- *Cipher specs, sockets*: reference counts without a second actor, and a lock order that is a
  convention of some hundred functions.
- *Certificate, CRL and OCSP caches*: each access is one critical section, and what it
  does depends on the contents of certificates and responses. The lock they rest on is modelled.
- *PKCS #11 wrapper, tokens*: most of the state is behind the PKCS #11 interface.
- *Cryptography, encoders, decoders, path validation*: computations on data that
  does not fit a model checker.

NSS has more than a million lines, most of them in the last group, in tables and in
vendored libraries (SQLite, zlib, dbm). The definitions stand for a few thousand lines of it,
well below a hundredth; what is covered is where actors interleave, not most of the code.
