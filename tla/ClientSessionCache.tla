-------------------------- MODULE ClientSessionCache --------------------------
(***************************************************************************)
(* The client's session cache (ssl/sslnonce.c): a list of reference-       *)
(* counted sessions under one lock, shared by the handshakes of several    *)
(* sockets, by threads that ask for information about a socket, and by     *)
(* SSL_ClearSessionCache.                                                  *)
(*                                                                         *)
(* A step is one stretch under cacheLock together with the code up to the  *)
(* next one.  The sockets connect to the same server, so that every        *)
(* session of the list matches.  A handshake is cut down to what it does   *)
(* with sessions: which one it offers, whether the server takes it, and    *)
(* what is cached at the end (TLS 1.2) or for each ticket (TLS 1.3).       *)
(* Left out: sessions from an external cache, and the first of the two     *)
(* lookups of a new connection (ssl_BeginClientHandshake).                 *)
(***************************************************************************)
EXTENDS Integers, FiniteSets, Sequences

CONSTANTS
    Sockets,     \* each with the thread that runs its handshake
    Sids,        \* memory for sessions
    NoSid

ASSUME SocketsAssumption == IsFiniteSet(Sockets)
ASSUME NoSidAssumption == NoSid \notin Sids

VARIABLES
    references,  \* sid->references
    cached,      \* sid->cached, or "freed"
    unresumable, \* sessions with keys.resumable off
    expired,     \* sessions whose expirationTime has passed
    cache,       \* the list
    sidOf,       \* ss->sec.ci.sid
    mine,        \* the local variable sid of the handshake
    asked,       \* the session a thread in SSL_GetChannelInfo refers to
    stage        \* how far the handshake is

sids == <<references, cached, unresumable, expired, cache>>
cacheVars == <<sids, sidOf, mine, asked, stage>>

Listed == {cache[i] : i \in DOMAIN cache}

\* The list without the sessions of out
Without(out) ==
    LET kept == {i \in DOMAIN cache : cache[i] \notin out}
        nth(k) == CHOOSE i \in kept : Cardinality({j \in kept : j <= i}) = k
    IN  [k \in 1..Cardinality(kept) |-> cache[nth(k)]]

ClientInit ==
    /\ references = [s \in Sids |-> 0] /\ cached = [s \in Sids |-> "freed"]
    /\ unresumable = {} /\ expired = {} /\ cache = <<>>
    /\ sidOf = [c \in Sockets |-> NoSid] /\ mine = [c \in Sockets |-> NoSid]
    /\ asked = [c \in Sockets |-> NoSid] /\ stage = [c \in Sockets |-> "idle"]

Goto(c, p) == stage' = [stage EXCEPT ![c] = p]

\* Each session of more gets a reference and each of fewer loses one
\* (ssl_FreeLockedSID); ssl_DestroySID frees those that nobody refers to.
Count(more, fewer, marked) ==
    LET n(s) == references[s] + (IF s \in more THEN 1 ELSE 0) - (IF s \in fewer THEN 1 ELSE 0)
        gone == {s \in Sids : n(s) = 0}
    IN  /\ references' = [s \in Sids |-> n(s)]
        /\ cached' = [s \in Sids |-> IF s \in gone THEN "freed" ELSE marked[s]]
        /\ unresumable' = unresumable \ gone /\ expired' = expired \ gone

\* Taken off the list, which gives up its reference.
Delist(gone) == [s \in Sids |-> IF s \in gone THEN "invalid_cache" ELSE cached[s]]

-----------------------------------------------------------------------------
(* The operations of the cache.                                            *)

\* The sessions before the first that can be resumed are passed; those that
\* have timed out are thrown out on the way.
ssl_LookupSID(c) ==
    LET hits == {i \in DOMAIN cache : cache[i] \notin expired \cup unresumable}
        seen == IF hits = {} THEN Len(cache)
                ELSE CHOOSE i \in hits : \A j \in hits : i <= j
        out == {cache[i] : i \in 1..seen} \cap expired
        hit == IF hits = {} THEN {} ELSE {cache[seen]}
    IN  /\ Count(hit, out, Delist(out))
        /\ cache' = Without(out)
        /\ mine' = [mine EXCEPT ![c] = IF hits = {} THEN NoSid ELSE cache[seen]]

\* Mutant: a session is released whether or not it is in the list.
UncacheSID_Unchecked(s) == s # NoSid

\* UncacheSID does something only for a session in the list.
UncacheSID(s) == s # NoSid /\ cached[s] = "in_client_cache"

ssl_UncacheSessionID(c) ==
    LET out == IF UncacheSID(sidOf[c]) THEN {sidOf[c]} ELSE {}
    IN  Count({}, out, Delist(out)) /\ cache' = Without(out)

\* The caller's reference passes to the socket, which releases its old session.
ssl_SetSocketSID(c, s) ==
    /\ Count({}, {sidOf[c]} \ {NoSid}, cached)
    /\ sidOf' = [sidOf EXCEPT ![c] = s]
    /\ UNCHANGED cache

\* ssl3_NewSessionID, put into the socket or kept in a local variable.
NewSessionID(s) == cached[s] = "freed"

SetNewSocketSID(c, s) ==
    /\ NewSessionID(s)
    /\ Count({s}, {sidOf[c]} \ {NoSid}, [cached EXCEPT ![s] = "never_cached"])
    /\ sidOf' = [sidOf EXCEPT ![c] = s]
    /\ UNCHANGED cache

\* ssl_CacheSessionID and CacheSID: the asserts of debug builds left out, all
\* that keeps a session from being cached is keys.resumable.
CacheSID(c) ==
    LET s == sidOf[c] IN
    IF s \in unresumable THEN UNCHANGED sids
    ELSE /\ Count({s}, {}, [cached EXCEPT ![s] = "in_client_cache"])
         /\ cache' = <<s>> \o cache

-----------------------------------------------------------------------------
(* The handshake of a socket.                                              *)

\* ssl3_SendClientHello, first or for a renegotiation
SendClientHello(c) ==
    /\ stage[c] \in {"idle", "done12"}
    /\ ssl_LookupSID(c) /\ Goto(c, "looked")
    /\ UNCHANGED <<sidOf, asked>>

\* After a HelloRetryRequest: the same session, with a reference of its own.
\* (That there is only one HelloRetryRequest makes no difference here.)
SendSecondHello(c) ==
    /\ stage[c] = "hello" /\ cached[sidOf[c]] # "never_cached"
    /\ Count({sidOf[c]}, {}, cached)
    /\ mine' = [mine EXCEPT ![c] = sidOf[c]] /\ Goto(c, "looked")
    /\ UNCHANGED <<cache, sidOf, asked>>

\* The session found cannot be used: the code uncaches the socket's old one ...
SidNotOK(c) ==
    /\ stage[c] = "looked" /\ mine[c] # NoSid
    /\ ssl_UncacheSessionID(c) /\ Goto(c, "not_ok")
    /\ UNCHANGED <<sidOf, mine, asked>>

\* ... and releases the one it found.
FreeFound(c) ==
    /\ stage[c] = "not_ok"
    /\ Count({}, {mine[c]}, cached)
    /\ mine' = [mine EXCEPT ![c] = NoSid] /\ Goto(c, "looked")
    /\ UNCHANGED <<cache, sidOf, asked>>

OfferSid(c) ==
    /\ stage[c] = "looked" /\ mine[c] # NoSid
    /\ ssl_SetSocketSID(c, mine[c])
    /\ mine' = [mine EXCEPT ![c] = NoSid] /\ Goto(c, "hello")
    /\ UNCHANGED asked

OfferNothing(c, s) ==
    /\ stage[c] = "looked" /\ mine[c] = NoSid
    /\ SetNewSocketSID(c, s) /\ Goto(c, "hello")
    /\ UNCHANGED <<mine, asked>>

\* ssl3_HandleServerHello: the offered session is resumed and stays.
Resumed12(c) ==
    /\ stage[c] = "hello" /\ cached[sidOf[c]] # "never_cached" /\ sidOf[c] \notin unresumable
    /\ Goto(c, "open12")
    /\ UNCHANGED <<sids, sidOf, mine, asked>>

\* "throw the old one away"
NotResumed12(c) ==
    /\ stage[c] = "hello"
    /\ unresumable' = unresumable \cup {sidOf[c]} /\ Goto(c, "unresumed12")
    /\ UNCHANGED <<references, cached, expired, cache, sidOf, mine, asked>>

Uncache12(c) ==
    /\ stage[c] = "unresumed12"
    /\ ssl_UncacheSessionID(c) /\ Goto(c, "renew12")
    /\ UNCHANGED <<sidOf, mine, asked>>

\* tls13_HandleServerHelloPart2: resumed or not, the session is replaced; if
\* it was refused it is uncached first.
Resumed13(c) ==
    /\ stage[c] = "hello" /\ cached[sidOf[c]] # "never_cached"
    /\ Goto(c, "renew13")
    /\ UNCHANGED <<sids, sidOf, mine, asked>>

NotResumed13(c) ==
    /\ stage[c] = "hello"
    /\ ssl_UncacheSessionID(c) /\ Goto(c, "renew13")
    /\ UNCHANGED <<sidOf, mine, asked>>

RenewSid(c, s) ==
    /\ stage[c] \in {"renew12", "renew13"}
    /\ SetNewSocketSID(c, s) /\ Goto(c, IF stage[c] = "renew12" THEN "open12" ELSE "open13")
    /\ UNCHANGED <<mine, asked>>

\* ssl3_NewSessionID finds no memory: ssl3_SendClientHello leaves the socket its
\* old session, the others leave it none, and the handshake fails.
NoMemory(c) ==
    /\ \/ stage[c] = "looked" /\ mine[c] = NoSid /\ UNCHANGED <<sids, sidOf>>
       \/ stage[c] \in {"renew12", "renew13"} /\ ssl_SetSocketSID(c, NoSid)
    /\ Goto(c, "dead")
    /\ UNCHANGED <<mine, asked>>

\* ssl3_FinishHandshake caches a session that is new, if it can wrap its key.
FinishHandshake(c) ==
    /\ stage[c] = "open12" /\ Goto(c, "done12")
    /\ \/ cached[sidOf[c]] = "never_cached" /\ CacheSID(c)
       \/ UNCHANGED sids
    /\ UNCHANGED <<sidOf, mine, asked>>

\* tls13_HandleNewSessionTicket: a session that is in the cache is replaced ...
HandleNewSessionTicket(c, s) ==
    /\ stage[c] = "open13" /\ cached[sidOf[c]] = "in_client_cache"
    /\ NewSessionID(s)
    /\ Count({s}, {}, [cached EXCEPT ![s] = "never_cached"])
    /\ mine' = [mine EXCEPT ![c] = s] /\ Goto(c, "ticket")
    /\ UNCHANGED <<cache, sidOf, asked>>

\* The certificate is not copied: the new session is released.
CopyCertFails(c) ==
    /\ stage[c] = "ticket"
    /\ Count({}, {mine[c]}, cached)
    /\ mine' = [mine EXCEPT ![c] = NoSid] /\ Goto(c, "dead")
    /\ UNCHANGED <<cache, sidOf, asked>>

UncacheOld(c) ==
    /\ stage[c] = "ticket"
    /\ ssl_UncacheSessionID(c) /\ Goto(c, "replace")
    /\ UNCHANGED <<sidOf, mine, asked>>

ReplaceOld(c) ==
    /\ stage[c] = "replace"
    /\ ssl_SetSocketSID(c, mine[c])
    /\ mine' = [mine EXCEPT ![c] = NoSid] /\ Goto(c, "cache13")
    /\ UNCHANGED asked

\* ... and any other one used as it is.
KeepSid(c) ==
    /\ stage[c] = "open13" /\ cached[sidOf[c]] # "in_client_cache"
    /\ Goto(c, "cache13")
    /\ UNCHANGED <<sids, sidOf, mine, asked>>

\* The session is cached, unless its secret cannot be derived or wrapped.
CacheTicket(c) ==
    /\ stage[c] = "cache13"
    /\ \/ CacheSID(c) /\ Goto(c, "open13")
       \/ UNCHANGED sids /\ Goto(c, "dead")
    /\ UNCHANGED <<sidOf, mine, asked>>

SSL_InvalidateSession(c) ==
    /\ stage[c] \in {"hello", "open12", "open13", "done12"}
    /\ ssl_UncacheSessionID(c)
    /\ UNCHANGED <<sidOf, mine, asked, stage>>

\* A fatal alert, sent or received, ends the connection.
FatalAlert(c) ==
    /\ stage[c] \in {"hello", "open12", "open13", "done12"}
    /\ ssl_UncacheSessionID(c) /\ Goto(c, "dead")
    /\ UNCHANGED <<sidOf, mine, asked>>

\* The socket is closed (ssl_DestroySecurityInfo), and another one opened.
CloseSocket(c) ==
    /\ stage[c] \in {"hello", "open12", "open13", "done12", "dead"} /\ asked[c] = NoSid
    /\ ssl_SetSocketSID(c, NoSid) /\ Goto(c, "idle")
    /\ UNCHANGED <<mine, asked>>

-----------------------------------------------------------------------------
(* Other threads.                                                          *)

\* SSL_GetChannelInfo, SSL_GetPreliminaryChannelInfo
ssl_ReferenceSocketSID(c) ==
    /\ asked[c] = NoSid /\ sidOf[c] # NoSid /\ stage[c] # "idle"
    /\ Count({sidOf[c]}, {}, cached)
    /\ asked' = [asked EXCEPT ![c] = sidOf[c]]
    /\ UNCHANGED <<cache, sidOf, mine, stage>>

FreeAsked(c) ==
    /\ asked[c] # NoSid
    /\ Count({}, {asked[c]}, cached)
    /\ asked' = [asked EXCEPT ![c] = NoSid]
    /\ UNCHANGED <<cache, sidOf, mine, stage>>

SSL_ClearSessionCache ==
    /\ cache # <<>>
    /\ Count({}, Listed, Delist(Listed)) /\ cache' = <<>>
    /\ UNCHANGED <<sidOf, mine, asked, stage>>

Expires(s) ==
    /\ cached[s] \notin {"freed", "never_cached"} /\ s \notin expired
    /\ expired' = expired \cup {s}
    /\ UNCHANGED <<references, cached, unresumable, cache, sidOf, mine, asked, stage>>

ClientStep(c) ==
    \/ SendClientHello(c) \/ SendSecondHello(c) \/ SidNotOK(c) \/ FreeFound(c)
    \/ OfferSid(c) \/ Resumed12(c) \/ NotResumed12(c) \/ Uncache12(c)
    \/ Resumed13(c) \/ NotResumed13(c) \/ NoMemory(c) \/ FinishHandshake(c)
    \/ CopyCertFails(c) \/ UncacheOld(c) \/ ReplaceOld(c) \/ KeepSid(c) \/ CacheTicket(c)
    \/ SSL_InvalidateSession(c) \/ FatalAlert(c) \/ CloseSocket(c)
    \/ ssl_ReferenceSocketSID(c) \/ FreeAsked(c)
    \/ \E s \in Sids : OfferNothing(c, s) \/ RenewSid(c, s) \/ HandleNewSessionTicket(c, s)

ClientNext ==
    \/ \E c \in Sockets : ClientStep(c)
    \/ SSL_ClearSessionCache
    \/ \E s \in Sids : Expires(s)

ClientSpec == ClientInit /\ [][ClientNext]_cacheVars

-----------------------------------------------------------------------------
(* Properties.                                                             *)

\* Types of the variables.
ClientTypeOK ==
    /\ references \in [Sids -> Nat]
    /\ cached \in [Sids -> {"freed", "never_cached", "in_client_cache", "invalid_cache"}]
    /\ unresumable \subseteq Sids /\ expired \subseteq Sids /\ cache \in Seq(Sids)
    /\ {sidOf, mine, asked} \subseteq [Sockets -> Sids \cup {NoSid}]
    /\ stage \in [Sockets -> {"idle", "looked", "not_ok", "hello", "unresumed12", "renew12",
                              "open12", "done12", "renew13", "open13", "ticket", "replace",
                              "cache13", "dead"}]

Holders(f, s) == Cardinality({c \in Sockets : f[c] = s})

\* A session has one reference for each pointer to it, from a socket, a local
\* variable of a handshake, a thread that asks about the socket, or the list:
\* none is freed under somebody who uses it, and none is left behind.  The list
\* holds a session once, exactly while it is marked as in the cache; the
\* release assert of ssl_DestroySID, that it is not in the cache, follows.
ReferencesExact ==
    \A s \in Sids :
        /\ references[s] = Holders(sidOf, s) + Holders(mine, s) + Holders(asked, s)
                           + Cardinality({i \in DOMAIN cache : cache[i] = s})
        /\ Cardinality({i \in DOMAIN cache : cache[i] = s})
              = IF cached[s] = "in_client_cache" THEN 1 ELSE 0
        /\ cached[s] = "freed" <=> references[s] = 0
=============================================================================
