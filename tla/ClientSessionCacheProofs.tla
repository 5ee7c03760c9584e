---------------------- MODULE ClientSessionCacheProofs ----------------------
(***************************************************************************)
(* The references of a session of the client's cache are the pointers to   *)
(* it, for any number of sockets and sessions.                             *)
(*                                                                         *)
(* A step moves references together with pointers (Balance).  What remains *)
(* is that a session is put into the list only when it is not there: one   *)
(* that was never cached is known to one handshake only (Apart), and after *)
(* a TLS 1.3 handshake has renewed its session no other such handshake has *)
(* it.                                                                     *)
(***************************************************************************)
EXTENDS ClientSessionCache, FiniteSetTheorems, TLAPS

\* The leaves are Zenon's unless they name SMT.
USE ZenonT(20)

-----------------------------------------------------------------------------
(* The list.                                                               *)

NoDuplicates(q) == \A i, j \in DOMAIN q : q[i] = q[j] => i = j
Elements(q) == {q[i] : i \in DOMAIN q}

\* The members of a finite set of numbers can be counted off: each number from
\* 1 on is the rank of exactly one of them.
LEMMA Ranks ==
    ASSUME NEW K, K \subseteq Nat, IsFiniteSet(K)
    PROVE  LET rank(i) == Cardinality({j \in K : j <= i})
           IN  /\ Cardinality(K) \in Nat
               /\ \A i \in K : rank(i) \in 1..Cardinality(K)
               /\ \A i, j \in K : rank(i) = rank(j) => i = j
               /\ \A k \in 1..Cardinality(K) : \E i \in K : rank(i) = k
<1> DEFINE below(i) == {j \in K : j <= i}
           rank(i) == Cardinality(below(i))
           n == Cardinality(K)
           f == [i \in K |-> rank(i)]
<1>1. n \in Nat BY FS_CardinalityType
<1>2. ASSUME NEW i \in K PROVE IsFiniteSet(below(i)) /\ rank(i) \in 1..n
  <2>1. below(i) \in SUBSET K /\ i \in below(i) BY SMTT(30)
  <2> HIDE DEF below
  <2>2. IsFiniteSet(below(i)) /\ rank(i) <= n BY <2>1, FS_Subset
  <2>3. rank(i) \in Nat /\ rank(i) # 0 BY <2>1, <2>2, FS_CardinalityType, FS_EmptySet
  <2> QED BY SMTT(30), <1>1, <2>2, <2>3
<1>3. ASSUME NEW i \in K, NEW j \in K, i < j PROVE rank(i) # rank(j)
  <2>a. i \in Nat /\ j \in Nat /\ \A k \in K : k \in Nat OBVIOUS
  <2>b. /\ \A k \in K : k <= i => k <= j
        /\ j <= j /\ ~(j <= i)
    BY SMTT(30), <1>3, <2>a
  <2>1. below(i) \in SUBSET below(j) /\ j \in below(j) /\ j \notin below(i) BY <2>b
  <2>2. IsFiniteSet(below(j)) BY <1>2
  <2> HIDE DEF below
  <2> QED BY <2>1, <2>2, FS_Subset
<1>4. \A i, j \in K : rank(i) = rank(j) => i = j
  <2> SUFFICES ASSUME NEW i \in K, NEW j \in K, i # j PROVE rank(i) # rank(j)
    OBVIOUS
  <2>1. i < j \/ j < i BY SMTT(30)
  <2> HIDE DEF rank
  <2> QED BY <1>3, <2>1
<1> HIDE DEF rank
<1>5. f \in Injection(K, 1..n)
  <2>1. f \in [K -> 1..n] BY <1>2
  <2>2. \A a, b \in K : f[a] = f[b] => a = b BY <1>4
  <2> QED BY <2>1, <2>2 DEF Injection, IsInjective
<1>6. IsFiniteSet(1..n) /\ Cardinality(1..n) = n BY SMTT(30), <1>1, FS_Interval
<1>7. f \in Surjection(K, 1..n)
  <2> HIDE DEF f
  <2> QED BY <1>5, <1>6, FS_Injection
<1>8. ASSUME NEW k \in 1..n PROVE \E i \in K : rank(i) = k
  <2>1. PICK i \in K : f[i] = k
    <3> HIDE DEF f
    <3> QED BY <1>7 DEF Surjection
  <2> QED BY <2>1
<1> HIDE DEF n
<1>9. QED BY <1>1, <1>2, <1>4, <1>8 DEF n, rank

\* The sessions of out leave the list, the others stay once each.
LEMMA WithoutFacts ==
    ASSUME cache \in Seq(Sids), NoDuplicates(cache), NEW out
    PROVE  LET w == Without(out)
           IN  /\ w \in Seq(Sids) /\ NoDuplicates(w)
               /\ Elements(w) = Elements(cache) \ out
<1> DEFINE kept == {i \in DOMAIN cache : cache[i] \notin out}
           rank(i) == Cardinality({j \in kept : j <= i})
           nth(k) == CHOOSE i \in kept : rank(i) = k
           n == Cardinality(kept)
           w == [k \in 1..n |-> cache[nth(k)]]
<1>1. kept \subseteq Nat /\ IsFiniteSet(kept) /\ kept \subseteq DOMAIN cache
  <2>1. kept \in SUBSET (1..Len(cache)) BY SMTT(30)
  <2>2. IsFiniteSet(1..Len(cache)) BY SMTT(30), FS_Interval
  <2> QED BY SMTT(30), <2>1, <2>2, FS_Subset
<1>2. Without(out) = w BY DEF Without
<1>3. /\ \A i \in kept : cache[i] \in Elements(cache) \ out
      /\ \A s \in Elements(cache) \ out : \E i \in kept : cache[i] = s
      /\ \A i, j \in kept : cache[i] = cache[j] => i = j
      /\ Elements(cache) \subseteq Sids
  BY SMTT(30) DEF Elements, NoDuplicates
<1> HIDE DEF kept
<1>4. /\ n \in Nat /\ \A i \in kept : rank(i) \in 1..n
      /\ \A i, j \in kept : rank(i) = rank(j) => i = j
      /\ \A k \in 1..n : \E i \in kept : rank(i) = k
  BY <1>1, Ranks
<1> HIDE DEF rank, n
<1>5. \A k \in 1..n : nth(k) \in kept /\ rank(nth(k)) = k BY <1>4
<1>6. \A i \in kept : rank(i) \in 1..n /\ nth(rank(i)) = i BY <1>4, <1>5
<1> HIDE DEF nth
<1>7. w \in Seq(Sids)
  <2>1. w \in [1..n -> Sids] BY <1>3, <1>5
  <2> QED BY SMTT(30), <1>4, <2>1
<1>8. NoDuplicates(w)
  <2>1. \A k, l \in 1..n : cache[nth(k)] = cache[nth(l)] => k = l BY <1>3, <1>5
  <2> QED BY <2>1 DEF NoDuplicates
<1>9. Elements(w) = Elements(cache) \ out
  <2>1. \A k \in 1..n : cache[nth(k)] \in Elements(cache) \ out BY <1>3, <1>5
  <2>2. \A s \in Elements(cache) \ out : \E k \in 1..n : cache[nth(k)] = s BY <1>3, <1>6
  <2>3. Elements(w) = {cache[nth(k)] : k \in 1..n} BY DEF Elements
  <2> QED BY <2>1, <2>2, <2>3
<1> HIDE DEF w
<1> QED BY <1>2, <1>7, <1>8, <1>9

\* How often a list without duplicates holds a session.
LEMMA Occurrences ==
    ASSUME NEW q, NEW T, q \in Seq(T), NoDuplicates(q), NEW s
    PROVE  Cardinality({i \in DOMAIN q : q[i] = s}) = IF s \in Elements(q) THEN 1 ELSE 0
<1>1. CASE s \in Elements(q)
  <2>1. PICK i \in DOMAIN q : q[i] = s BY <1>1 DEF Elements
  <2>2. {j \in DOMAIN q : q[j] = s} = {i} BY <2>1 DEF NoDuplicates
  <2> QED BY <1>1, <2>2, FS_Singleton
<1>2. CASE s \notin Elements(q)
  <2>1. {j \in DOMAIN q : q[j] = s} = {} BY <1>2 DEF Elements
  <2> QED BY <1>2, <2>1, FS_EmptySet
<1> QED BY <1>1, <1>2

\* A session joins the list at its head.
LEMMA ConsFacts ==
    ASSUME NEW q \in Seq(Sids), NoDuplicates(q), NEW s \in Sids, s \notin Elements(q)
    PROVE  LET w == <<s>> \o q
           IN  w \in Seq(Sids) /\ NoDuplicates(w) /\ Elements(w) = Elements(q) \cup {s}
<1> DEFINE w == <<s>> \o q
<1>1. /\ w \in Seq(Sids) /\ Len(w) = Len(q) + 1 /\ w[1] = s
      /\ \A i \in 2..(Len(q) + 1) : w[i] = q[i - 1]
  BY SMTT(30)
<1>2. DOMAIN w = 1..(Len(q) + 1) /\ DOMAIN q = 1..Len(q) BY SMTT(30), <1>1
<1> HIDE DEF w
<1>3. NoDuplicates(w)
  <2> SUFFICES ASSUME NEW i \in 1..(Len(q) + 1), NEW j \in 1..(Len(q) + 1), w[i] = w[j], i # j PROVE FALSE
    BY <1>2 DEF NoDuplicates
  <2>1. \A k \in 2..(Len(q) + 1) : k - 1 \in 1..Len(q) /\ w[k] = q[k - 1] /\ w[k] # s
    BY SMTT(30), <1>1, <1>2 DEF Elements
  <2>2. i # 1 /\ j # 1 BY SMTT(30), <1>1, <2>1
  <2>3. i - 1 \in 1..Len(q) /\ j - 1 \in 1..Len(q) /\ q[i - 1] = q[j - 1] BY SMTT(30), <2>1, <2>2
  <2> QED BY SMTT(30), <1>2, <2>3 DEF NoDuplicates
<1>4. Elements(w) = Elements(q) \cup {s}
  <2>1. \A i \in 1..(Len(q) + 1) : w[i] = s \/ (i - 1 \in 1..Len(q) /\ w[i] = q[i - 1]) BY SMTT(30), <1>1
  <2>2. \A i \in 1..Len(q) : i + 1 \in 1..(Len(q) + 1) /\ w[i + 1] = q[i] BY SMTT(30), <1>1
  <2>3. 1 \in 1..(Len(q) + 1) BY SMTT(30)
  <2>4. Elements(w) \subseteq Elements(q) \cup {s} BY <1>2, <2>1 DEF Elements
  <2>5. Elements(q) \subseteq Elements(w) BY <1>2, <2>2 DEF Elements
  <2>6. s \in Elements(w) BY <1>1, <1>2, <2>3 DEF Elements
  <2> QED BY <2>4, <2>5, <2>6
<1> QED BY <1>1, <1>3, <1>4 DEF w

-----------------------------------------------------------------------------
(* The pointers.                                                           *)

One(b) == IF b THEN 1 ELSE 0

LEMMA HoldersType ==
    ASSUME NEW f, NEW s
    PROVE  Holders(f, s) \in Nat /\ ((\E c \in Sockets : f[c] = s) <=> Holders(f, s) > 0)
<1> DEFINE S == {c \in Sockets : f[c] = s}
<1>1. IsFiniteSet(S)
  <2>1. S \in SUBSET Sockets OBVIOUS
  <2> QED BY <2>1, SocketsAssumption, FS_Subset
<1>2. Cardinality(S) \in Nat /\ (Cardinality(S) = 0 <=> S = {})
  <2> HIDE DEF S
  <2> QED BY <1>1, FS_CardinalityType, FS_EmptySet
<1> QED BY SMTT(30), <1>2 DEF Holders

\* A pointer of one socket changes.
SameBut(f, g, c) == \A d \in Sockets \ {c} : g[d] = f[d]

LEMMA HoldersUpdate ==
    ASSUME NEW f, NEW g, NEW c \in Sockets, SameBut(f, g, c), NEW s
    PROVE  Holders(g, s) = Holders(f, s) - One(f[c] = s) + One(g[c] = s)
<1> DEFINE S == {d \in Sockets : f[d] = s}
           R == {d \in Sockets : g[d] = s}
<1>1. IsFiniteSet(S)
  <2>1. S \in SUBSET Sockets OBVIOUS
  <2> QED BY <2>1, SocketsAssumption, FS_Subset
<1>2. R = IF g[c] = s THEN (S \ {c}) \cup {c} ELSE S \ {c} BY DEF SameBut
<1>3. c \in S <=> f[c] = s OBVIOUS
<1>4. Cardinality(S) \in Nat BY <1>1, FS_CardinalityType
<1>5. Holders(f, s) = Cardinality(S) /\ Holders(g, s) = Cardinality(R) BY DEF Holders
<1> HIDE DEF S, R
<1>6. /\ IsFiniteSet(S \ {c})
      /\ Cardinality(S \ {c}) = IF c \in S THEN Cardinality(S) - 1 ELSE Cardinality(S)
  BY <1>1, FS_RemoveElement
<1>7. Cardinality((S \ {c}) \cup {c}) = Cardinality(S \ {c}) + 1 BY <1>6, FS_AddElement
<1> QED BY SMTT(30), <1>2, <1>3, <1>4, <1>5, <1>6, <1>7 DEF One

Marks == {"freed", "never_cached", "in_client_cache", "invalid_cache"}
Stages == {"idle", "looked", "not_ok", "hello", "unresumed12", "renew12", "open12", "done12",
           "renew13", "open13", "ticket", "replace", "cache13", "dead"}
Pointer == [Sockets -> Sids \cup {NoSid}]

Pointers(s) == Holders(sidOf, s) + Holders(mine, s) + Holders(asked, s) + One(s \in Elements(cache))

\* ReferencesExact, in the form in which a step is shown to keep it.
Counted ==
    /\ NoDuplicates(cache)
    /\ \A s \in Sids : /\ references[s] = Pointers(s)
                       /\ cached[s] = "freed" <=> Pointers(s) = 0
                       /\ cached[s] = "in_client_cache" <=> s \in Elements(cache)

\* The stages from ssl3_SendClientHello on have a session, and those of TLS 1.3
\* after the session is renewed have one that no other such handshake has.
HasSid == {"hello", "unresumed12", "renew12", "open12", "done12", "renew13", "open13", "ticket",
           "replace", "cache13"}
Renewed13 == {"open13", "ticket", "replace", "cache13"}
Fresh(s) == s # NoSid /\ cached[s] = "never_cached"

Placed(st, sid, local, marks) ==
    /\ st \in HasSid => sid # NoSid
    /\ local # NoSid => st \in {"looked", "not_ok", "ticket", "replace"}
    /\ st \in {"not_ok", "ticket", "replace"} => local # NoSid
    /\ st \in {"ticket", "replace"} => marks[local] = "never_cached"
    /\ st = "cache13" => marks[sid] # "in_client_cache"
    /\ sid # NoSid /\ marks[sid] = "never_cached" => local # sid

InStage(c) == Placed(stage[c], sidOf[c], mine[c], cached)

\* A session that was never cached is known to one handshake only.
Apart(c, d) ==
    /\ stage[c] \in Renewed13 /\ stage[d] \in Renewed13 => sidOf[c] # sidOf[d]
    /\ Fresh(sidOf[c]) => mine[d] # sidOf[c] /\ sidOf[d] # sidOf[c]
    /\ Fresh(mine[c]) => mine[d] # mine[c] /\ sidOf[d] # mine[c]

ClientIInv ==
    /\ ClientTypeOK /\ Counted
    /\ \A c \in Sockets : InStage(c) /\ \A d \in Sockets \ {c} : Apart(c, d)

-----------------------------------------------------------------------------

LEMMA ClientTypes ==
    ClientTypeOK <=> /\ references \in [Sids -> Nat] /\ cached \in [Sids -> Marks]
                     /\ unresumable \subseteq Sids /\ expired \subseteq Sids /\ cache \in Seq(Sids)
                     /\ sidOf \in Pointer /\ mine \in Pointer /\ asked \in Pointer
                     /\ stage \in [Sockets -> Stages]
BY DEF ClientTypeOK, Marks, Pointer, Stages

LEMMA ClientTypesNext ==
    ClientTypeOK' <=> /\ references' \in [Sids -> Nat] /\ cached' \in [Sids -> Marks]
                      /\ unresumable' \subseteq Sids /\ expired' \subseteq Sids /\ cache' \in Seq(Sids)
                      /\ sidOf' \in Pointer /\ mine' \in Pointer /\ asked' \in Pointer
                      /\ stage' \in [Sockets -> Stages]
BY DEF ClientTypeOK, Marks, Pointer, Stages

LEMMA PointersType ==
    ASSUME NEW s
    PROVE  /\ Pointers(s) \in Nat
           /\ Pointers(s) = 0 <=> /\ \A c \in Sockets : sidOf[c] # s /\ mine[c] # s /\ asked[c] # s
                                 /\ s \notin Elements(cache)
<1>1. /\ Holders(sidOf, s) \in Nat /\ ((\E c \in Sockets : sidOf[c] = s) <=> Holders(sidOf, s) > 0)
      /\ Holders(mine, s) \in Nat /\ ((\E c \in Sockets : mine[c] = s) <=> Holders(mine, s) > 0)
      /\ Holders(asked, s) \in Nat /\ ((\E c \in Sockets : asked[c] = s) <=> Holders(asked, s) > 0)
  BY HoldersType
<1> QED BY SMTT(30), <1>1 DEF Pointers, One

LEMMA PointersNext ==
    ASSUME NEW s
    PROVE  Pointers(s)' = Holders(sidOf', s) + Holders(mine', s) + Holders(asked', s)
                          + One(s \in Elements(cache'))
BY DEF Pointers, Holders, One, Elements

LEMMA PointersTypeNext ==
    ASSUME NEW s
    PROVE  /\ Pointers(s)' \in Nat
           /\ Pointers(s)' = 0 <=> /\ \A c \in Sockets : sidOf'[c] # s /\ mine'[c] # s /\ asked'[c] # s
                                  /\ s \notin Elements(cache')
<1>1. /\ Holders(sidOf', s) \in Nat /\ ((\E c \in Sockets : sidOf'[c] = s) <=> Holders(sidOf', s) > 0)
      /\ Holders(mine', s) \in Nat /\ ((\E c \in Sockets : mine'[c] = s) <=> Holders(mine', s) > 0)
      /\ Holders(asked', s) \in Nat /\ ((\E c \in Sockets : asked'[c] = s) <=> Holders(asked', s) > 0)
  BY HoldersType
<1> QED BY SMTT(30), <1>1, PointersNext DEF One

\* References are counted, with the marks of the sessions that stay.
Counts(more, fewer, marked) ==
    /\ references' = [s \in Sids |-> references[s] + One(s \in more) - One(s \in fewer)]
    /\ cached' = [s \in Sids |-> IF references'[s] = 0 THEN "freed" ELSE marked[s]]
    /\ unresumable' \subseteq Sids /\ expired' \subseteq Sids

LEMMA CountCounts ==
    ASSUME ClientTypeOK, NEW more, NEW fewer, NEW marked, Count(more, fewer, marked)
    PROVE  Counts(more, fewer, marked)
BY ClientTypes DEF Count, Counts, One

LEMMA SameCounts ==
    ASSUME ClientTypeOK, Counted, UNCHANGED <<references, cached>>,
           unresumable' \subseteq Sids, expired' \subseteq Sids
    PROVE  Counts({}, {}, cached)
<1>1. references \in [Sids -> Nat] /\ cached \in [Sids -> Marks] BY ClientTypes
<1>2. \A s \in Sids : cached[s] = "freed" <=> references[s] = 0 BY DEF Counted
<1>3. references' = [s \in Sids |-> references[s] + One(s \in {}) - One(s \in {})] BY SMTT(30), <1>1 DEF One
<1>4. cached' = [s \in Sids |-> IF references'[s] = 0 THEN "freed" ELSE cached[s]] BY <1>1, <1>2
<1> QED BY <1>3, <1>4 DEF Counts

\* A step that moves references together with the pointers.
LEMMA CountInv ==
    ASSUME ClientTypeOK, Counted, NEW more, NEW fewer, NEW marked \in [Sids -> Marks],
           Counts(more, fewer, marked),
           cache' \in Seq(Sids), NoDuplicates(cache'),
           sidOf' \in Pointer, mine' \in Pointer, asked' \in Pointer, stage' \in [Sockets -> Stages],
           \A s \in Sids :
               /\ Pointers(s)' = Pointers(s) + One(s \in more) - One(s \in fewer)
               /\ marked[s] = "in_client_cache" <=> s \in Elements(cache')
               /\ marked[s] = "freed" => Pointers(s)' = 0
    PROVE  /\ ClientTypeOK' /\ Counted'
           /\ \A s \in Sids : cached'[s] = IF Pointers(s)' = 0 THEN "freed" ELSE marked[s]
<1>1. /\ references' = [s \in Sids |-> references[s] + One(s \in more) - One(s \in fewer)]
      /\ cached' = [s \in Sids |-> IF references'[s] = 0 THEN "freed" ELSE marked[s]]
      /\ unresumable' \subseteq Sids /\ expired' \subseteq Sids
  BY DEF Counts
<1>2. \A s \in Sids : references'[s] = Pointers(s)' BY <1>1 DEF Counted
<1>3. \A s \in Sids : cached'[s] = IF Pointers(s)' = 0 THEN "freed" ELSE marked[s] BY <1>1, <1>2
<1>4. \A s \in Sids : Pointers(s)' \in Nat /\ (s \in Elements(cache') => Pointers(s)' # 0)
  BY PointersTypeNext
<1>5. references' \in [Sids -> Nat] BY <1>1, <1>2, <1>4
<1>6. cached' \in [Sids -> Marks] BY <1>1 DEF Marks
<1>7. ClientTypeOK' BY <1>1, <1>5, <1>6, ClientTypesNext
<1>8. Counted'
  <2>1. NoDuplicates(cache)' BY DEF NoDuplicates
  <2>2. ASSUME NEW s \in Sids
        PROVE  /\ references'[s] = Pointers(s)' /\ (cached'[s] = "freed" <=> Pointers(s)' = 0)
               /\ cached'[s] = "in_client_cache" <=> s \in Elements(cache')
    BY <1>2, <1>3, <1>4
  <2>3. Elements(cache)' = Elements(cache') BY DEF Elements
  <2> QED BY <2>1, <2>2, <2>3 DEF Counted
<1> QED BY <1>3, <1>7, <1>8

\* The pointers of one socket change, and the list.
OnlyOf(c) ==
    /\ sidOf' = [sidOf EXCEPT ![c] = sidOf'[c]] /\ mine' = [mine EXCEPT ![c] = mine'[c]]
    /\ asked' = [asked EXCEPT ![c] = asked'[c]] /\ stage' = [stage EXCEPT ![c] = stage'[c]]

LEMMA PointersMove ==
    ASSUME ClientTypeOK, NEW c \in Sockets, OnlyOf(c), NEW s
    PROVE  Pointers(s)' = Pointers(s) - One(sidOf[c] = s) + One(sidOf'[c] = s)
                          - One(mine[c] = s) + One(mine'[c] = s) - One(asked[c] = s) + One(asked'[c] = s)
                          - One(s \in Elements(cache)) + One(s \in Elements(cache'))
<1>1. sidOf \in Pointer /\ mine \in Pointer /\ asked \in Pointer BY ClientTypes
<1>2. /\ Holders(sidOf', s) = Holders(sidOf, s) - One(sidOf[c] = s) + One(sidOf'[c] = s)
      /\ Holders(mine', s) = Holders(mine, s) - One(mine[c] = s) + One(mine'[c] = s)
      /\ Holders(asked', s) = Holders(asked, s) - One(asked[c] = s) + One(asked'[c] = s)
  <2>1. SameBut(sidOf, sidOf', c) /\ SameBut(mine, mine', c) /\ SameBut(asked, asked', c)
    BY <1>1 DEF OnlyOf, Pointer, SameBut
  <2>2. Holders(sidOf', s) = Holders(sidOf, s) - One(sidOf[c] = s) + One(sidOf'[c] = s)
    BY SMTT(30), <2>1, HoldersUpdate
  <2>3. Holders(mine', s) = Holders(mine, s) - One(mine[c] = s) + One(mine'[c] = s)
    BY SMTT(30), <2>1, HoldersUpdate
  <2>4. Holders(asked', s) = Holders(asked, s) - One(asked[c] = s) + One(asked'[c] = s)
    BY SMTT(30), <2>1, HoldersUpdate
  <2> QED BY <2>2, <2>3, <2>4
<1>3. /\ Holders(sidOf, s) \in Nat /\ Holders(mine, s) \in Nat /\ Holders(asked, s) \in Nat
  BY HoldersType
<1>4. \A x : One(x) \in {0, 1} BY DEF One
<1> QED BY SMTT(30), <1>2, <1>3, <1>4, PointersNext DEF Pointers

\* A session somebody points to is not freed.
LEMMA Held ==
    ASSUME ClientIInv, NEW s \in Sids, cached[s] = "freed"
    PROVE  /\ \A c \in Sockets : sidOf[c] # s /\ mine[c] # s /\ asked[c] # s
           /\ s \notin Elements(cache)
<1>1. Pointers(s) = 0 BY DEF ClientIInv, Counted
<1> QED BY <1>1, PointersType

\* A pointer a handshake has after a step: one that it had, one to a session
\* that others know as well, or one to a session that is new.
Known(c, s) ==
    \/ s \in {sidOf[c], mine[c], NoSid}
    \/ s \in Sids /\ (cached'[s] # "never_cached" \/ cached[s] = "freed")

\* The other handshakes stay where they are.  X are the sessions that are cached.
LEMMA StagesKept ==
    ASSUME ClientIInv, ClientTypeOK', NEW c \in Sockets, OnlyOf(c), NEW X,
           \A s \in Sids :
               /\ cached'[s] = "never_cached" => cached[s] \in {"never_cached", "freed"}
               /\ s \notin X /\ cached[s] = "never_cached"
                      => cached'[s] = "never_cached" \/ \A d \in Sockets : mine'[d] # s
               /\ s \notin X /\ cached'[s] = "in_client_cache" => cached[s] = "in_client_cache",
           \A d \in Sockets \ {c} :
               (Fresh(mine[d]) => mine[d] \notin X) /\ (stage[d] = "cache13" => sidOf[d] \notin X),
           InStage(c)', Known(c, sidOf'[c]), Known(c, mine'[c]),
           stage'[c] \in Renewed13 =>
               \/ stage[c] \in Renewed13 /\ sidOf'[c] = sidOf[c]
               \/ sidOf'[c] = mine[c] /\ Fresh(mine[c])
               \/ sidOf'[c] \in Sids /\ cached[sidOf'[c]] = "freed"
    PROVE  \A e \in Sockets : InStage(e)' /\ \A d \in Sockets \ {e} : Apart(e, d)'
<1>0. /\ sidOf \in Pointer /\ mine \in Pointer /\ stage \in [Sockets -> Stages]
      /\ \A d \in Sockets : sidOf[d] \in Sids \cup {NoSid} /\ mine[d] \in Sids \cup {NoSid}
  BY ClientTypes DEF ClientIInv, Pointer
<1>1. \A d \in Sockets \ {c} : sidOf'[d] = sidOf[d] /\ mine'[d] = mine[d] /\ stage'[d] = stage[d]
  BY SMTT(30), <1>0 DEF OnlyOf, Pointer
<1>2. \A d \in Sockets : InStage(d) /\ \A e \in Sockets \ {d} : Apart(d, e) BY DEF ClientIInv
<1>3. \A s \in Sids : cached[s] = "freed" => \A d \in Sockets : sidOf[d] # s /\ mine[d] # s
  BY Held
<1>4. ASSUME NEW d \in Sockets, NEW s, s = sidOf[d] \/ s = mine[d], Fresh(s)' PROVE Fresh(s)
  <2>1. s \in Sids BY SMTT(30), <1>0, <1>4 DEF Fresh
  <2>2. cached[s] \in {"never_cached", "freed"} BY <1>4, <2>1 DEF Fresh
  <2> QED BY <1>3, <1>4, <2>1, <2>2, NoSidAssumption DEF Fresh
<1>5. ASSUME NEW d \in Sockets \ {c} PROVE InStage(d)'
  <2>1. InStage(d) BY <1>2
  <2>2. Fresh(mine[d]) => cached'[mine[d]] = "never_cached"
    <3> SUFFICES ASSUME Fresh(mine[d]) PROVE cached'[mine[d]] = "never_cached"
      OBVIOUS
    <3>1. mine[d] \in Sids /\ cached[mine[d]] = "never_cached" BY <1>0 DEF Fresh
    <3>2. mine'[d] = mine[d] /\ mine[d] \notin X BY <1>1
    <3> QED BY <3>1, <3>2
  <2>3. stage[d] = "cache13" => cached'[sidOf[d]] # "in_client_cache"
    <3> SUFFICES ASSUME stage[d] = "cache13" PROVE cached'[sidOf[d]] # "in_client_cache"
      OBVIOUS
    <3>1. sidOf[d] # NoSid /\ cached[sidOf[d]] # "in_client_cache"
      BY <2>1 DEF InStage, Placed, HasSid
    <3>2. sidOf[d] \in Sids /\ sidOf[d] \notin X BY <1>0, <3>1
    <3> QED BY <3>1, <3>2
  <2>4. sidOf[d] # NoSid /\ cached'[sidOf[d]] = "never_cached" => mine[d] # sidOf[d]
    BY <1>4, <2>1 DEF Fresh, InStage, Placed
  <2>5. Placed(stage[d], sidOf[d], mine[d], cached')
    BY <2>1, <2>2, <2>3, <2>4 DEF InStage, Placed, Fresh
  <2> QED BY <1>1, <2>5 DEF InStage
<1>6. ASSUME NEW d \in Sockets \ {c}, NEW e \in Sockets \ {c}, d # e PROVE Apart(d, e)'
  <2>1. Apart(d, e) BY SMTT(30), <1>2, <1>6
  <2>2. (Fresh(sidOf[d])' => Fresh(sidOf[d])) /\ (Fresh(mine[d])' => Fresh(mine[d]))
    BY SMTT(30), <1>1, <1>4 DEF Fresh
  <2> QED BY <1>1, <2>1, <2>2 DEF Apart
<1>7. ASSUME NEW d \in Sockets \ {c}, NEW s, Known(c, s), s # NoSid,
             s \in Sids => (cached'[s] = "never_cached" => cached[s] \in {"never_cached", "freed"})
      PROVE  /\ cached'[s] = "never_cached" => mine[d] # s /\ sidOf[d] # s
             /\ s = sidOf[d] => ~Fresh(s)'
             /\ s = mine[d] => ~Fresh(s)'
  <2>1. s \in Sids BY SMTT(30), <1>0, <1>7 DEF Known
  <2>2. Apart(c, d) /\ Apart(d, c) BY SMTT(30), <1>2
  <2>3. CASE s \in {sidOf[c], mine[c]}
    <3>1. Fresh(s)' => Fresh(s) BY <1>4, <2>3
    <3> QED BY <1>7, <2>2, <2>3, <3>1 DEF Apart, Fresh
  <2>4. CASE cached'[s] # "never_cached" BY <2>4 DEF Fresh
  <2>5. CASE cached[s] = "freed" BY <1>3, <2>1, <2>5
  <2> QED BY <1>7, <2>3, <2>4, <2>5 DEF Known
<1>8. sidOf'[c] \in Sids \cup {NoSid} /\ mine'[c] \in Sids \cup {NoSid} BY ClientTypesNext DEF Pointer
<1>9. ASSUME NEW d \in Sockets \ {c}
      PROVE  stage'[c] \in Renewed13 /\ stage[d] \in Renewed13 => sidOf'[c] # sidOf[d]
  <2>1. Apart(c, d) BY <1>2
  <2> QED BY <1>3, <2>1 DEF Apart
<1>10. ASSUME NEW d \in Sockets \ {c} PROVE Apart(c, d)' /\ Apart(d, c)'
  <2>1. sidOf'[d] = sidOf[d] /\ mine'[d] = mine[d] /\ stage'[d] = stage[d] BY <1>1
  <2>2. sidOf'[c] # NoSid => /\ cached'[sidOf'[c]] = "never_cached" => mine[d] # sidOf'[c] /\ sidOf[d] # sidOf'[c]
                             /\ sidOf'[c] = sidOf[d] => cached'[sidOf[d]] # "never_cached"
                             /\ sidOf'[c] = mine[d] => cached'[mine[d]] # "never_cached"
    BY <1>7, <1>8 DEF Fresh
  <2>3. mine'[c] # NoSid => /\ cached'[mine'[c]] = "never_cached" => mine[d] # mine'[c] /\ sidOf[d] # mine'[c]
                            /\ mine'[c] = sidOf[d] => cached'[sidOf[d]] # "never_cached"
                            /\ mine'[c] = mine[d] => cached'[mine[d]] # "never_cached"
    BY <1>7, <1>8 DEF Fresh
  <2>4. Apart(c, d)' BY <1>9, <2>1, <2>2, <2>3 DEF Apart, Fresh
  <2>5. Apart(d, c)' BY <1>9, <2>1, <2>2, <2>3 DEF Apart, Fresh
  <2> QED BY <2>4, <2>5
<1>11. ASSUME NEW e \in Sockets PROVE InStage(e)'
  <2>1. CASE e = c BY <2>1
  <2>2. CASE e # c BY <1>5, <2>2
  <2> QED BY <2>1, <2>2
<1>12. ASSUME NEW e \in Sockets, NEW d \in Sockets \ {e} PROVE Apart(e, d)'
  <2>1. CASE e = c BY <1>10, <2>1
  <2>2. CASE d = c BY <1>10, <2>2
  <2>3. CASE e # c /\ d # c BY <1>6, <2>3
  <2> QED BY <2>1, <2>2, <2>3
<1> QED BY <1>11, <1>12

\* Each reference that is taken or given up is one of a pointer that changes,
\* of the socket c or of the list.
Balance(c, more, fewer) ==
    \A s \in Sids :
        One(s \in more) - One(s \in fewer)
          = One(sidOf'[c] = s) - One(sidOf[c] = s) + One(mine'[c] = s) - One(mine[c] = s)
            + One(asked'[c] = s) - One(asked[c] = s)
            + One(s \in Elements(cache')) - One(s \in Elements(cache))

Marking(more, marked, X) ==
    \A s \in Sids :
        /\ marked[s] = "in_client_cache" <=> s \in Elements(cache')
        /\ marked[s] = "freed" => cached[s] = "freed" /\ s \notin more
        /\ marked[s] = "never_cached" => cached[s] \in {"never_cached", "freed"}
        /\ s \notin X => /\ cached[s] = "never_cached" => marked[s] = "never_cached"
                         /\ marked[s] = "in_client_cache" => cached[s] = "in_client_cache"

KnownAs(c, s, marked) ==
    \/ s \in {sidOf[c], mine[c], NoSid}
    \/ s \in Sids /\ (marked[s] # "never_cached" \/ cached[s] = "freed")

LEMMA BalancedPointers ==
    ASSUME ClientTypeOK, NEW c \in Sockets, OnlyOf(c), NEW more, NEW fewer, Balance(c, more, fewer),
           NEW s \in Sids
    PROVE  Pointers(s)' = Pointers(s) + One(s \in more) - One(s \in fewer)
<1> DEFINE m == One(s \in more)
           n == One(s \in fewer)
           a == One(sidOf[c] = s)
           b == One(sidOf'[c] = s)
           g == One(mine[c] = s)
           h == One(mine'[c] = s)
           u == One(asked[c] = s)
           v == One(asked'[c] = s)
           w == One(s \in Elements(cache))
           x == One(s \in Elements(cache'))
<1>1. Pointers(s)' = Pointers(s) - a + b - g + h - u + v - w + x BY SMTT(30), PointersMove
<1>2. m - n = b - a + h - g + v - u + x - w BY DEF Balance
<1>3. Pointers(s) \in Nat BY PointersType
<1>4. /\ m \in Int /\ n \in Int /\ a \in Int /\ b \in Int /\ g \in Int /\ h \in Int /\ u \in Int
      /\ v \in Int /\ w \in Int /\ x \in Int
  BY SMTT(30) DEF One
<1> HIDE DEF m, n, a, b, g, h, u, v, w, x
<1>5. Pointers(s)' = Pointers(s) + m - n BY SMTT(30), <1>1, <1>2, <1>3, <1>4
<1> QED BY <1>5 DEF m, n

LEMMA StepIInv ==
    ASSUME ClientIInv, NEW c \in Sockets, OnlyOf(c), NEW more, NEW fewer,
           NEW marked \in [Sids -> Marks], Counts(more, fewer, marked), NEW X,
           cache' \in Seq(Sids), NoDuplicates(cache'),
           sidOf'[c] \in Sids \cup {NoSid}, mine'[c] \in Sids \cup {NoSid},
           asked'[c] \in Sids \cup {NoSid}, stage'[c] \in Stages,
           Balance(c, more, fewer), Marking(more, marked, X),
           \A d \in Sockets \ {c} :
               (Fresh(mine[d]) => mine[d] \notin X) /\ (stage[d] = "cache13" => sidOf[d] \notin X),
           Placed(stage'[c], sidOf'[c], mine'[c], marked),
           KnownAs(c, sidOf'[c], marked), KnownAs(c, mine'[c], marked),
           stage'[c] \in Renewed13 =>
               \/ stage[c] \in Renewed13 /\ sidOf'[c] = sidOf[c]
               \/ sidOf'[c] = mine[c] /\ Fresh(mine[c])
               \/ sidOf'[c] \in Sids /\ cached[sidOf'[c]] = "freed"
    PROVE  ClientIInv'
<1>0. /\ ClientTypeOK /\ Counted /\ sidOf \in Pointer /\ mine \in Pointer /\ asked \in Pointer
      /\ stage \in [Sockets -> Stages]
  BY ClientTypes DEF ClientIInv
<1>1. /\ sidOf' \in Pointer /\ mine' \in Pointer /\ asked' \in Pointer /\ stage' \in [Sockets -> Stages]
  BY <1>0 DEF OnlyOf, Pointer
<1>2. ASSUME NEW s \in Sids PROVE Pointers(s)' = Pointers(s) + One(s \in more) - One(s \in fewer)
  BY SMTT(30), <1>0, BalancedPointers
<1>3. ASSUME NEW s \in Sids, marked[s] = "freed" PROVE Pointers(s)' = 0
  <2>1. cached[s] = "freed" /\ s \notin more BY <1>3 DEF Marking
  <2>2. Pointers(s) = 0 BY <1>0, <2>1 DEF Counted
  <2>3. Pointers(s)' \in Nat BY PointersTypeNext
  <2>4. One(s \in more) = 0 /\ One(s \in fewer) \in {0, 1} BY <2>1 DEF One
  <2>5. Pointers(s)' = 0 + 0 - One(s \in fewer) BY <1>2, <2>2, <2>4
  <2> QED BY SMTT(30), <2>3, <2>4, <2>5
<1>4. /\ ClientTypeOK' /\ Counted'
      /\ \A s \in Sids : cached'[s] = IF Pointers(s)' = 0 THEN "freed" ELSE marked[s]
  <2>1. \A s \in Sids : marked[s] = "in_client_cache" <=> s \in Elements(cache') BY DEF Marking
  <2> QED BY SMTT(30), <1>0, <1>1, <1>2, <1>3, <2>1, CountInv
<1>5. \A s \in Sids : Pointers(s)' = 0 => \A d \in Sockets : sidOf'[d] # s /\ mine'[d] # s
  BY PointersTypeNext
<1>6. /\ sidOf'[c] # NoSid => cached'[sidOf'[c]] = marked[sidOf'[c]]
      /\ mine'[c] # NoSid => cached'[mine'[c]] = marked[mine'[c]]
  BY <1>4, <1>5
<1>7. InStage(c)'
  <2>1. Placed(stage'[c], sidOf'[c], mine'[c], cached')
    BY <1>6 DEF Placed, HasSid
  <2> QED BY <2>1 DEF InStage
<1>8. Known(c, sidOf'[c]) /\ Known(c, mine'[c]) BY <1>6 DEF KnownAs, Known
<1>9. \A s \in Sids :
          /\ cached'[s] = "never_cached" => cached[s] \in {"never_cached", "freed"}
          /\ s \notin X /\ cached[s] = "never_cached"
                 => cached'[s] = "never_cached" \/ \A d \in Sockets : mine'[d] # s
          /\ s \notin X /\ cached'[s] = "in_client_cache" => cached[s] = "in_client_cache"
  BY SMTT(30), <1>4, <1>5 DEF Marking
<1>10. \A e \in Sockets : InStage(e)' /\ \A d \in Sockets \ {e} : Apart(e, d)'
  BY <1>4, <1>7, <1>8, <1>9, StagesKept
<1> QED BY <1>4, <1>10 DEF ClientIInv

-----------------------------------------------------------------------------
(* The steps of a socket, by what they do to the list and to the marks.    *)

\* What a step of c does to c's own pointers.
MovesOnly(c, more, fewer) ==
    \A s \in Sids :
        One(s \in more) - One(s \in fewer)
          = One(sidOf'[c] = s) - One(sidOf[c] = s) + One(mine'[c] = s) - One(mine[c] = s)
            + One(asked'[c] = s) - One(asked[c] = s)

LEMMA SameListBalance ==
    ASSUME NEW c \in Sockets, NEW more, NEW fewer, MovesOnly(c, more, fewer), UNCHANGED cache
    PROVE  Balance(c, more, fewer)
<1>1. \A x : One(x) \in {0, 1} BY DEF One
<1> QED BY SMTT(30), <1>1 DEF MovesOnly, Balance

TypedStep(c) ==
    /\ sidOf'[c] \in Sids \cup {NoSid} /\ mine'[c] \in Sids \cup {NoSid}
    /\ asked'[c] \in Sids \cup {NoSid} /\ stage'[c] \in Stages

\* Pointers to known sessions are copied, moved and dropped.
LEMMA PointerStep ==
    ASSUME ClientIInv, NEW c \in Sockets, OnlyOf(c), NEW more, NEW fewer,
           Counts(more, fewer, cached), UNCHANGED cache, TypedStep(c),
           MovesOnly(c, more, fewer), \A s \in more : cached[s] # "freed",
           Placed(stage'[c], sidOf'[c], mine'[c], cached),
           {sidOf'[c], mine'[c]} \subseteq {sidOf[c], mine[c], NoSid},
           stage'[c] \in Renewed13 =>
               \/ stage[c] \in Renewed13 /\ sidOf'[c] = sidOf[c]
               \/ sidOf'[c] = mine[c] /\ Fresh(mine[c])
    PROVE  ClientIInv'
<1>1. cached \in [Sids -> Marks] /\ cache \in Seq(Sids) /\ Counted BY ClientTypes DEF ClientIInv
<1>2. cache' \in Seq(Sids) /\ NoDuplicates(cache') BY <1>1 DEF Counted
<1>3. Balance(c, more, fewer) BY SameListBalance
<1>4. Marking(more, cached, {}) BY <1>1 DEF Marking, Counted
<1>5. KnownAs(c, sidOf'[c], cached) /\ KnownAs(c, mine'[c], cached) BY DEF KnownAs
<1> QED BY <1>1, <1>2, <1>3, <1>4, <1>5, StepIInv DEF TypedStep

\* One of the pointers is to a session that is new.
LEMMA NewStep ==
    ASSUME ClientIInv, NEW c \in Sockets, OnlyOf(c), NEW new \in Sids, cached[new] = "freed", NEW fewer,
           Counts({new}, fewer, [cached EXCEPT ![new] = "never_cached"]), UNCHANGED cache, TypedStep(c),
           MovesOnly(c, {new}, fewer),
           Placed(stage'[c], sidOf'[c], mine'[c], [cached EXCEPT ![new] = "never_cached"]),
           {sidOf'[c], mine'[c]} \subseteq {sidOf[c], mine[c], NoSid, new},
           stage'[c] \in Renewed13 => sidOf'[c] = new \/ (stage[c] \in Renewed13 /\ sidOf'[c] = sidOf[c])
    PROVE  ClientIInv'
<1> DEFINE marked == [cached EXCEPT ![new] = "never_cached"]
<1>1. cached \in [Sids -> Marks] /\ cache \in Seq(Sids) /\ Counted BY ClientTypes DEF ClientIInv
<1>2. cache' \in Seq(Sids) /\ NoDuplicates(cache') BY <1>1 DEF Counted
<1>3. Balance(c, {new}, fewer) BY SameListBalance
<1>4. /\ marked \in [Sids -> Marks]
      /\ \A s \in Sids : marked[s] = IF s = new THEN "never_cached" ELSE cached[s]
  BY <1>1 DEF Marks
<1>5. Counts({new}, fewer, marked) /\ Placed(stage'[c], sidOf'[c], mine'[c], marked) OBVIOUS
<1> HIDE DEF marked
<1>6. new \notin Elements(cache) BY Held
<1>7. Marking({new}, marked, {}) BY <1>1, <1>4, <1>6 DEF Marking, Counted
<1>8. KnownAs(c, sidOf'[c], marked) /\ KnownAs(c, mine'[c], marked) BY SMTT(30) DEF KnownAs
<1> QED BY SMTT(30), <1>2, <1>3, <1>4, <1>5, <1>7, <1>8, StepIInv DEF TypedStep

\* Sessions leave the list.
LEMMA DelistStep ==
    ASSUME ClientIInv, NEW c \in Sockets, OnlyOf(c), NEW more, NEW out, out \subseteq Elements(cache),
           Counts(more, out, Delist(out)), cache' = Without(out), TypedStep(c),
           MovesOnly(c, more, {}), \A s \in more : cached[s] # "freed",
           Placed(stage'[c], sidOf'[c], mine'[c], Delist(out)),
           KnownAs(c, sidOf'[c], Delist(out)), KnownAs(c, mine'[c], Delist(out)),
           stage'[c] \in Renewed13 => stage[c] \in Renewed13 /\ sidOf'[c] = sidOf[c]
    PROVE  ClientIInv'
<1>1. cached \in [Sids -> Marks] /\ cache \in Seq(Sids) /\ Counted BY ClientTypes DEF ClientIInv
<1>2. cache' \in Seq(Sids) /\ NoDuplicates(cache') /\ Elements(cache') = Elements(cache) \ out
  BY <1>1, WithoutFacts DEF Counted
<1>3. Balance(c, more, out)
  <2>1. \A x : One(x) \in {0, 1} BY DEF One
  <2>2. \A s \in Sids : One(s \in {}) - One(s \in out) = One(s \in Elements(cache')) - One(s \in Elements(cache))
    BY SMTT(30), <1>2 DEF One
  <2>3. \A s \in Sids : One(s \in {}) = 0 BY DEF One
  <2> QED BY SMTT(30), <2>1, <2>2, <2>3 DEF MovesOnly, Balance
<1>4. /\ Delist(out) \in [Sids -> Marks]
      /\ \A s \in Sids : Delist(out)[s] = IF s \in out THEN "invalid_cache" ELSE cached[s]
  BY <1>1 DEF Delist, Marks
<1>5. Marking(more, Delist(out), {})
  <2>1. \A s \in Sids : cached[s] = "in_client_cache" <=> s \in Elements(cache) BY <1>1 DEF Counted
  <2> QED BY <1>2, <1>4, <2>1 DEF Marking
<1> QED BY <1>2, <1>3, <1>4, <1>5, StepIInv DEF TypedStep

\* Where a step leaves the pointers of c and its stage.
Moves(c, sid, local, info, st) ==
    /\ sidOf' = [sidOf EXCEPT ![c] = sid] /\ mine' = [mine EXCEPT ![c] = local]
    /\ asked' = [asked EXCEPT ![c] = info] /\ stage' = [stage EXCEPT ![c] = st]

LEMMA MovesFacts ==
    ASSUME ClientIInv, NEW c \in Sockets, NEW sid, NEW local, NEW info, NEW st,
           Moves(c, sid, local, info, st)
    PROVE  /\ OnlyOf(c)
           /\ sidOf'[c] = sid /\ mine'[c] = local /\ asked'[c] = info /\ stage'[c] = st
BY ClientTypes DEF ClientIInv, Moves, OnlyOf, Pointer

LEMMA OfSocket ==
    ASSUME ClientIInv, NEW c \in Sockets
    PROVE  /\ sidOf[c] \in Sids \cup {NoSid} /\ mine[c] \in Sids \cup {NoSid}
           /\ asked[c] \in Sids \cup {NoSid} /\ stage[c] \in Stages
           /\ sidOf = [sidOf EXCEPT ![c] = sidOf[c]] /\ mine = [mine EXCEPT ![c] = mine[c]]
           /\ asked = [asked EXCEPT ![c] = asked[c]] /\ stage = [stage EXCEPT ![c] = stage[c]]
           /\ Placed(stage[c], sidOf[c], mine[c], cached)
           /\ \A s \in {sidOf[c], mine[c], asked[c]} \ {NoSid} : s \in Sids /\ cached[s] # "freed"
           /\ ClientTypeOK /\ Counted
<1>1. /\ sidOf \in Pointer /\ mine \in Pointer /\ asked \in Pointer /\ stage \in [Sockets -> Stages]
      /\ InStage(c) /\ ClientTypeOK /\ Counted
  BY ClientTypes DEF ClientIInv
<1>2. \A s \in Sids : cached[s] = "freed" => sidOf[c] # s /\ mine[c] # s /\ asked[c] # s BY Held
<1>3. /\ sidOf[c] \in Sids \cup {NoSid} /\ mine[c] \in Sids \cup {NoSid}
      /\ asked[c] \in Sids \cup {NoSid} /\ stage[c] \in Stages
      /\ sidOf = [sidOf EXCEPT ![c] = sidOf[c]] /\ mine = [mine EXCEPT ![c] = mine[c]]
      /\ asked = [asked EXCEPT ![c] = asked[c]] /\ stage = [stage EXCEPT ![c] = stage[c]]
  BY <1>1 DEF Pointer
<1> QED BY <1>1, <1>2, <1>3 DEF InStage

\* Nothing but the stage changes, or whether the session can be resumed.
LEMMA StageStep ==
    ASSUME ClientIInv, NEW c \in Sockets, NEW st \in Stages, Goto(c, st),
           UNCHANGED <<references, cached, expired, cache, sidOf, mine, asked>>,
           unresumable' \subseteq Sids, Placed(st, sidOf[c], mine[c], cached),
           st \in Renewed13 => stage[c] \in Renewed13
    PROVE  ClientIInv'
<1>1. Moves(c, sidOf[c], mine[c], asked[c], st) BY OfSocket DEF Moves, Goto
<1>2. OnlyOf(c) /\ sidOf'[c] = sidOf[c] /\ mine'[c] = mine[c] /\ asked'[c] = asked[c] /\ stage'[c] = st
  BY <1>1, MovesFacts
<1>3. Counts({}, {}, cached) BY OfSocket, ClientTypes, SameCounts
<1>4. MovesOnly(c, {}, {}) BY SMTT(30), <1>2 DEF MovesOnly, One
<1>5. TypedStep(c) BY <1>2, OfSocket DEF TypedStep
<1> QED BY SMTT(30), <1>2, <1>3, <1>4, <1>5, PointerStep

\* ssl_UncacheSessionID
LEMMA UncacheStep ==
    ASSUME ClientIInv, NEW c \in Sockets, NEW st \in Stages, Goto(c, st), ssl_UncacheSessionID(c),
           UNCHANGED <<sidOf, mine, asked>>, Placed(st, sidOf[c], mine[c], cached),
           st \in Renewed13 => stage[c] \in Renewed13
    PROVE  ClientIInv'
<1> DEFINE out == IF UncacheSID(sidOf[c]) THEN {sidOf[c]} ELSE {}
<1>1. Moves(c, sidOf[c], mine[c], asked[c], st) BY OfSocket DEF Moves, Goto
<1>2. OnlyOf(c) /\ sidOf'[c] = sidOf[c] /\ mine'[c] = mine[c] /\ asked'[c] = asked[c] /\ stage'[c] = st
  BY <1>1, MovesFacts
<1>3. Count({}, out, Delist(out)) /\ cache' = Without(out) BY DEF ssl_UncacheSessionID
<1>4. /\ \A s \in out : s \in Sids /\ cached[s] = "in_client_cache"
      /\ out \subseteq Elements(cache)
  BY OfSocket DEF UncacheSID, Counted
<1> HIDE DEF out
<1>5. Counts({}, out, Delist(out)) BY <1>3, OfSocket, CountCounts
<1>6. MovesOnly(c, {}, {}) BY SMTT(30), <1>2 DEF MovesOnly, One
<1>7. TypedStep(c) BY <1>2, OfSocket DEF TypedStep
<1>8. \A s \in Sids : Delist(out)[s] = IF s \in out THEN "invalid_cache" ELSE cached[s] BY DEF Delist
<1>9. Placed(st, sidOf[c], mine[c], Delist(out))
  BY SMTT(30), <1>4, <1>8, OfSocket DEF Placed, HasSid
<1>10. KnownAs(c, sidOf'[c], Delist(out)) /\ KnownAs(c, mine'[c], Delist(out)) BY <1>2 DEF KnownAs
<1> QED BY SMTT(30), <1>2, <1>3, <1>4, <1>5, <1>6, <1>7, <1>9, <1>10, DelistStep

-----------------------------------------------------------------------------
(* The actions.                                                            *)

LEMMA StageSteps ==
    ASSUME ClientIInv, NEW c \in Sockets,
           Resumed12(c) \/ Resumed13(c) \/ KeepSid(c) \/ NotResumed12(c)
    PROVE  ClientIInv'
<1>1. unresumable \subseteq Sids BY ClientTypes DEF ClientIInv
<1>2. CASE Resumed12(c)
  <2>1. Placed("open12", sidOf[c], mine[c], cached) BY <1>2, OfSocket DEF Resumed12, Placed, HasSid
  <2> QED BY <1>1, <1>2, <2>1, StageStep DEF Resumed12, sids, Stages, Renewed13
<1>3. CASE Resumed13(c)
  <2>1. Placed("renew13", sidOf[c], mine[c], cached) BY <1>3, OfSocket DEF Resumed13, Placed, HasSid
  <2> QED BY SMTT(30), <1>1, <1>3, <2>1, StageStep DEF Resumed13, sids, Stages, Renewed13
<1>4. CASE KeepSid(c)
  <2>1. Placed("cache13", sidOf[c], mine[c], cached) BY <1>4, OfSocket DEF KeepSid, Placed, HasSid
  <2> QED BY SMTT(30), <1>1, <1>4, <2>1, StageStep DEF KeepSid, sids, Stages, Renewed13
<1>5. CASE NotResumed12(c)
  <2>1. Placed("unresumed12", sidOf[c], mine[c], cached) /\ sidOf[c] \in Sids
    BY <1>5, OfSocket DEF NotResumed12, Placed, HasSid
  <2> QED BY SMTT(30), <1>1, <1>5, <2>1, StageStep DEF NotResumed12, Stages, Renewed13
<1> QED BY <1>2, <1>3, <1>4, <1>5

LEMMA UncacheSteps ==
    ASSUME ClientIInv, NEW c \in Sockets,
           \/ SidNotOK(c) \/ Uncache12(c) \/ NotResumed13(c) \/ UncacheOld(c)
           \/ SSL_InvalidateSession(c) \/ FatalAlert(c)
    PROVE  ClientIInv'
<1>1. CASE SidNotOK(c)
  <2>1. Placed("not_ok", sidOf[c], mine[c], cached) BY SMTT(30), <1>1, OfSocket DEF SidNotOK, Placed, HasSid
  <2> QED BY <1>1, <2>1, UncacheStep DEF SidNotOK, Stages, Renewed13
<1>2. CASE Uncache12(c)
  <2>1. Placed("renew12", sidOf[c], mine[c], cached) BY SMTT(30), <1>2, OfSocket DEF Uncache12, Placed, HasSid
  <2> QED BY <1>2, <2>1, UncacheStep DEF Uncache12, Stages, Renewed13
<1>3. CASE NotResumed13(c)
  <2>1. Placed("renew13", sidOf[c], mine[c], cached) BY <1>3, OfSocket DEF NotResumed13, Placed, HasSid
  <2> QED BY <1>3, <2>1, UncacheStep DEF NotResumed13, Stages, Renewed13
<1>4. CASE UncacheOld(c)
  <2>1. Placed("replace", sidOf[c], mine[c], cached) BY SMTT(30), <1>4, OfSocket DEF UncacheOld, Placed, HasSid
  <2> QED BY <1>4, <2>1, UncacheStep DEF UncacheOld, Stages, Renewed13
<1>5. CASE SSL_InvalidateSession(c)
  <2>1. Goto(c, stage[c]) /\ Placed(stage[c], sidOf[c], mine[c], cached) /\ stage[c] \in Stages
    BY <1>5, OfSocket DEF SSL_InvalidateSession, Goto
  <2> QED BY <1>5, <2>1, UncacheStep DEF SSL_InvalidateSession
<1>6. CASE FatalAlert(c)
  <2>1. Placed("dead", sidOf[c], mine[c], cached) BY SMTT(30), <1>6, OfSocket DEF FatalAlert, Placed, HasSid
  <2> QED BY <1>6, <2>1, UncacheStep DEF FatalAlert, Stages, Renewed13
<1> QED BY SMTT(30), <1>1, <1>2, <1>3, <1>4, <1>5, <1>6

\* The handshake gives up the session of its local variable.
LEMMA DropSteps ==
    ASSUME ClientIInv, NEW c \in Sockets, FreeFound(c) \/ CopyCertFails(c)
    PROVE  ClientIInv'
<1>1. PICK st \in {"looked", "dead"} :
          /\ stage[c] = IF st = "looked" THEN "not_ok" ELSE "ticket"
          /\ Goto(c, st) /\ Count({}, {mine[c]}, cached) /\ mine' = [mine EXCEPT ![c] = NoSid]
          /\ UNCHANGED <<cache, sidOf, asked>>
  BY DEF FreeFound, CopyCertFails
<1>2. mine[c] # NoSid /\ Placed(st, sidOf[c], NoSid, cached)
  BY <1>1, OfSocket DEF Placed, HasSid
<1>3. Moves(c, sidOf[c], NoSid, asked[c], st) BY <1>1, OfSocket DEF Moves, Goto
<1>4. OnlyOf(c) /\ sidOf'[c] = sidOf[c] /\ mine'[c] = NoSid /\ asked'[c] = asked[c] /\ stage'[c] = st
  BY SMTT(30), <1>3, MovesFacts
<1>5. Counts({}, {mine[c]}, cached) BY <1>1, OfSocket, CountCounts
<1>6. MovesOnly(c, {}, {mine[c]}) BY SMTT(30), <1>4, NoSidAssumption DEF MovesOnly, One
<1>7. TypedStep(c) BY <1>1, <1>4, OfSocket DEF TypedStep, Stages
<1>8. st \notin Renewed13 BY <1>1 DEF Renewed13
<1> QED BY SMTT(30), <1>1, <1>2, <1>4, <1>5, <1>6, <1>7, <1>8, PointerStep

\* ssl_SetSocketSID, with the session of the local variable or with none
LEMMA SetStep ==
    ASSUME ClientIInv, NEW c \in Sockets, NEW st \in Stages, NEW sid \in {mine[c], NoSid},
           ssl_SetSocketSID(c, sid), Moves(c, sid, NoSid, asked[c], st),
           sid = NoSid => mine[c] = NoSid,
           Placed(st, sid, NoSid, cached), st \in Renewed13 => Fresh(sid)
    PROVE  ClientIInv'
<1>1. OnlyOf(c) /\ sidOf'[c] = sid /\ mine'[c] = NoSid /\ asked'[c] = asked[c] /\ stage'[c] = st
  BY SMTT(30), MovesFacts
<1>2. Counts({}, {sidOf[c]} \ {NoSid}, cached) /\ UNCHANGED cache
  BY OfSocket, CountCounts DEF ssl_SetSocketSID
<1>3. MovesOnly(c, {}, {sidOf[c]} \ {NoSid}) BY SMTT(30), <1>1, NoSidAssumption DEF MovesOnly, One
<1>4. TypedStep(c) BY <1>1, OfSocket DEF TypedStep
<1>5. st \in Renewed13 => sid = mine[c] /\ Fresh(mine[c]) BY DEF Fresh
<1> QED BY SMTT(30), <1>1, <1>2, <1>3, <1>4, <1>5, PointerStep

LEMMA SetSteps ==
    ASSUME ClientIInv, NEW c \in Sockets,
           OfferSid(c) \/ ReplaceOld(c) \/ CloseSocket(c) \/ NoMemory(c)
    PROVE  ClientIInv'
<1>1. CASE OfferSid(c)
  <2>1. Moves(c, mine[c], NoSid, asked[c], "hello") BY <1>1, OfSocket DEF OfferSid, ssl_SetSocketSID, Moves, Goto
  <2>2. Placed("hello", mine[c], NoSid, cached) BY SMTT(30), <1>1, OfSocket DEF OfferSid, Placed
  <2> QED BY <1>1, <2>1, <2>2, SetStep DEF OfferSid, Stages, Renewed13
<1>2. CASE ReplaceOld(c)
  <2>1. Moves(c, mine[c], NoSid, asked[c], "cache13")
    BY <1>2, OfSocket DEF ReplaceOld, ssl_SetSocketSID, Moves, Goto
  <2>2. Placed("cache13", mine[c], NoSid, cached) /\ Fresh(mine[c])
    BY <1>2, OfSocket DEF ReplaceOld, Placed, Fresh
  <2> QED BY <1>2, <2>1, <2>2, SetStep DEF ReplaceOld, Stages, Fresh
<1>3. CASE CloseSocket(c)
  <2>1. mine[c] = NoSid BY <1>3, OfSocket DEF CloseSocket, Placed
  <2>2. Moves(c, NoSid, NoSid, asked[c], "idle")
    BY <1>3, <2>1, OfSocket DEF CloseSocket, ssl_SetSocketSID, Moves, Goto
  <2>3. Placed("idle", NoSid, NoSid, cached) BY DEF Placed, HasSid
  <2> QED BY SMTT(30), <1>3, <2>1, <2>2, <2>3, SetStep DEF CloseSocket, Stages, Renewed13
<1>4. ASSUME stage[c] = "looked", mine[c] = NoSid, UNCHANGED <<sids, sidOf, mine, asked>>, Goto(c, "dead")
      PROVE  ClientIInv'
  <2>1. Placed("dead", sidOf[c], mine[c], cached) BY <1>4 DEF Placed, HasSid
  <2>2. unresumable \subseteq Sids BY ClientTypes DEF ClientIInv
  <2> QED BY SMTT(30), <1>4, <2>1, <2>2, StageStep DEF sids, Stages, Renewed13
<1>5. ASSUME stage[c] \in {"renew12", "renew13"}, ssl_SetSocketSID(c, NoSid), UNCHANGED <<mine, asked>>,
             Goto(c, "dead")
      PROVE  ClientIInv'
  <2>1. mine[c] = NoSid BY <1>5, OfSocket DEF Placed
  <2>2. Moves(c, NoSid, NoSid, asked[c], "dead") BY <1>5, <2>1, OfSocket DEF ssl_SetSocketSID, Moves, Goto
  <2>3. Placed("dead", NoSid, NoSid, cached) BY DEF Placed, HasSid
  <2> QED BY SMTT(30), <1>5, <2>1, <2>2, <2>3, SetStep DEF Stages, Renewed13
<1>6. CASE NoMemory(c) BY SMTT(30), <1>4, <1>5, <1>6 DEF NoMemory
<1> QED BY <1>1, <1>2, <1>3, <1>6

\* SetNewSocketSID
LEMMA SetNewStep ==
    ASSUME ClientIInv, NEW c \in Sockets, NEW s \in Sids, NEW st \in {"hello", "open12", "open13"},
           SetNewSocketSID(c, s), mine[c] = NoSid, Goto(c, st), UNCHANGED <<mine, asked>>
    PROVE  ClientIInv'
<1>1. Moves(c, s, NoSid, asked[c], st) BY OfSocket DEF SetNewSocketSID, Moves, Goto
<1>2. OnlyOf(c) /\ sidOf'[c] = s /\ mine'[c] = NoSid /\ asked'[c] = asked[c] /\ stage'[c] = st
  BY <1>1, MovesFacts
<1>3. /\ Counts({s}, {sidOf[c]} \ {NoSid}, [cached EXCEPT ![s] = "never_cached"]) /\ UNCHANGED cache
      /\ cached[s] = "freed"
  BY OfSocket, CountCounts DEF SetNewSocketSID, NewSessionID
<1>4. MovesOnly(c, {s}, {sidOf[c]} \ {NoSid}) BY SMTT(30), <1>2, NoSidAssumption DEF MovesOnly, One
<1>5. TypedStep(c) BY <1>2, OfSocket DEF TypedStep, Stages
<1>6. Placed(st, s, NoSid, [cached EXCEPT ![s] = "never_cached"]) BY NoSidAssumption DEF Placed, HasSid
<1> QED BY <1>2, <1>3, <1>4, <1>5, <1>6, NewStep

LEMMA NewSteps ==
    ASSUME ClientIInv, NEW c \in Sockets, NEW s \in Sids,
           OfferNothing(c, s) \/ RenewSid(c, s) \/ HandleNewSessionTicket(c, s)
    PROVE  ClientIInv'
<1>1. CASE OfferNothing(c, s) BY <1>1, SetNewStep DEF OfferNothing
<1>2. CASE RenewSid(c, s)
  <2>1. mine[c] = NoSid BY <1>2, OfSocket DEF RenewSid, Placed
  <2> QED BY <1>2, <2>1, SetNewStep DEF RenewSid
<1>3. CASE HandleNewSessionTicket(c, s)
  <2>1. /\ stage[c] = "open13" /\ cached[s] = "freed" /\ UNCHANGED cache
        /\ Counts({s}, {}, [cached EXCEPT ![s] = "never_cached"])
    BY <1>3, OfSocket, CountCounts DEF HandleNewSessionTicket, NewSessionID
  <2>2. mine[c] = NoSid /\ sidOf[c] \in Sids /\ sidOf[c] # s BY SMTT(30), <2>1, OfSocket DEF Placed, HasSid
  <2>3. Moves(c, sidOf[c], s, asked[c], "ticket") BY <1>3, OfSocket DEF HandleNewSessionTicket, Moves, Goto
  <2>4. OnlyOf(c) /\ sidOf'[c] = sidOf[c] /\ mine'[c] = s /\ asked'[c] = asked[c] /\ stage'[c] = "ticket"
    BY <2>3, MovesFacts
  <2>5. MovesOnly(c, {s}, {}) BY SMTT(30), <2>2, <2>4, NoSidAssumption DEF MovesOnly, One
  <2>6. TypedStep(c) BY <2>4, OfSocket DEF TypedStep, Stages
  <2>7. cached \in [Sids -> Marks] BY ClientTypes DEF ClientIInv
  <2>8. Placed("ticket", sidOf[c], s, [cached EXCEPT ![s] = "never_cached"])
    BY SMTT(30), <2>2, <2>7, NoSidAssumption DEF Placed, HasSid
  <2> QED BY SMTT(30), <2>1, <2>4, <2>5, <2>6, <2>8, NewStep DEF Renewed13
<1> QED BY <1>1, <1>2, <1>3

\* CacheSID
LEMMA CacheStep ==
    ASSUME ClientIInv, NEW c \in Sockets, NEW st \in {"done12", "open13"}, CacheSID(c), Goto(c, st),
           UNCHANGED <<sidOf, mine, asked>>, mine[c] = NoSid,
           sidOf[c] \in Sids, cached[sidOf[c]] # "in_client_cache",
           st \in Renewed13 => stage[c] \in Renewed13,
           \A d \in Sockets \ {c} :
               /\ Fresh(mine[d]) => mine[d] # sidOf[c]
               /\ stage[d] = "cache13" => sidOf[d] # sidOf[c]
    PROVE  ClientIInv'
<1> DEFINE s == sidOf[c]
           marked == [cached EXCEPT ![s] = "in_client_cache"]
<1>1. /\ cached \in [Sids -> Marks] /\ cache \in Seq(Sids) /\ unresumable \subseteq Sids
      /\ ClientTypeOK /\ Counted
  BY SMTT(30), ClientTypes DEF ClientIInv
<1>2. CASE s \in unresumable
  <2>1. Placed(st, sidOf[c], mine[c], cached) BY SMTT(30), NoSidAssumption DEF Placed, HasSid
  <2> QED BY <1>1, <1>2, <2>1, StageStep DEF CacheSID, sids, Stages
<1>3. CASE s \notin unresumable
  <2>1. Moves(c, s, NoSid, asked[c], st) BY OfSocket DEF Moves, Goto
  <2>2. OnlyOf(c) /\ sidOf'[c] = s /\ mine'[c] = NoSid /\ asked'[c] = asked[c] /\ stage'[c] = st
    BY SMTT(30), <2>1, MovesFacts
  <2>3. Counts({s}, {}, marked) /\ cache' = <<s>> \o cache BY <1>1, <1>3, CountCounts DEF CacheSID
  <2>4. s \notin Elements(cache) /\ NoDuplicates(cache) BY SMTT(30), <1>1 DEF Counted
  <2>5. cache' \in Seq(Sids) /\ NoDuplicates(cache') /\ Elements(cache') = Elements(cache) \cup {s}
    BY <1>1, <2>3, <2>4, ConsFacts
  <2>6. Balance(c, {s}, {}) BY SMTT(30), <2>2, <2>4, <2>5 DEF Balance, One
  <2>7. /\ marked \in [Sids -> Marks]
        /\ \A x \in Sids : marked[x] = IF x = s THEN "in_client_cache" ELSE cached[x]
    BY <1>1 DEF Marks
  <2>8. Marking({s}, marked, {s})
    <3> HIDE DEF marked
    <3> QED BY <1>1, <2>5, <2>7 DEF Marking, Counted
  <2>9. TypedStep(c) BY <2>2, OfSocket DEF TypedStep, Stages
  <2>10. Placed(st, s, NoSid, marked)
    <3> HIDE DEF marked
    <3> QED BY <2>7, NoSidAssumption DEF Placed, HasSid
  <2>11. KnownAs(c, sidOf'[c], marked) /\ KnownAs(c, mine'[c], marked) BY <2>2 DEF KnownAs
  <2>12. \A d \in Sockets \ {c} :
             (Fresh(mine[d]) => mine[d] \notin {s}) /\ (stage[d] = "cache13" => sidOf[d] \notin {s})
    OBVIOUS
  <2> HIDE DEF marked
  <2> QED BY <2>2, <2>3, <2>5, <2>6, <2>7, <2>8, <2>9, <2>10, <2>11, <2>12, StepIInv DEF TypedStep
<1> QED BY <1>2, <1>3

LEMMA CacheSteps ==
    ASSUME ClientIInv, NEW c \in Sockets, FinishHandshake(c) \/ CacheTicket(c)
    PROVE  ClientIInv'
<1>0. \A d \in Sockets \ {c} : Apart(c, d) /\ Apart(d, c) BY DEF ClientIInv
<1>1. unresumable \subseteq Sids BY ClientTypes DEF ClientIInv
<1>2. stage[c] \in {"open12", "cache13"} /\ mine[c] = NoSid /\ sidOf[c] \in Sids
  BY OfSocket DEF FinishHandshake, CacheTicket, Placed, HasSid
<1>3. ASSUME NEW st \in {"done12", "open13", "dead"}, UNCHANGED <<sids, sidOf, mine, asked>>, Goto(c, st),
             st \in Renewed13 => stage[c] \in Renewed13
      PROVE  ClientIInv'
  <2>1. Placed(st, sidOf[c], mine[c], cached) BY <1>2, NoSidAssumption DEF Placed, HasSid
  <2> QED BY SMTT(30), <1>1, <1>3, <2>1, StageStep DEF sids, Stages
<1>4. ASSUME stage[c] = "open12", cached[sidOf[c]] = "never_cached", CacheSID(c), Goto(c, "done12"),
             UNCHANGED <<sidOf, mine, asked>>
      PROVE  ClientIInv'
  <2>1. Fresh(sidOf[c]) BY <1>2, <1>4, NoSidAssumption DEF Fresh
  <2>2. \A d \in Sockets \ {c} : mine[d] # sidOf[c] /\ sidOf[d] # sidOf[c] BY SMTT(30), <1>0, <2>1 DEF Apart
  <2> QED BY SMTT(30), <1>2, <1>4, <2>2, CacheStep DEF Renewed13
<1>5. ASSUME stage[c] = "cache13", CacheSID(c), Goto(c, "open13"), UNCHANGED <<sidOf, mine, asked>>
      PROVE  ClientIInv'
  <2>1. cached[sidOf[c]] # "in_client_cache" BY <1>5, OfSocket DEF Placed
  <2>2. \A d \in Sockets \ {c} :
            /\ Fresh(mine[d]) => mine[d] # sidOf[c]
            /\ stage[d] = "cache13" => sidOf[d] # sidOf[c]
    BY <1>0, <1>5 DEF Apart, Renewed13
  <2>3. stage[c] \in Renewed13 BY <1>5 DEF Renewed13
  <2>4. "open13" \in {"done12", "open13"} OBVIOUS
  <2> QED BY SMTT(30), <1>2, <1>5, <2>1, <2>2, <2>3, <2>4, CacheStep
<1>6. CASE FinishHandshake(c) BY SMTT(30), <1>3, <1>4, <1>6 DEF FinishHandshake, Renewed13
<1>7. CASE CacheTicket(c) BY <1>3, <1>5, <1>7 DEF CacheTicket, Renewed13
<1> QED BY <1>6, <1>7

LEMMA LeastNumber ==
    ASSUME NEW T, T \subseteq Nat, IsFiniteSet(T), T # {}
    PROVE  \E m \in T : \A k \in T : m <= k
<1> DEFINE below(i) == {j \in T : j <= i}
<1>1. Cardinality(T) \in Nat /\ Cardinality(T) # 0 BY FS_CardinalityType, FS_EmptySet
<1>2. PICK m \in T : Cardinality(below(m)) = 1
  <2>1. 1 \in 1..Cardinality(T) BY SMTT(30), <1>1
  <2> QED BY <2>1, Ranks
<1>3. below(m) \subseteq {m}
  <2>1. IsFiniteSet(below(m)) /\ m \in below(m)
    <3>1. below(m) \in SUBSET T /\ m \in below(m) BY SMTT(30)
    <3> HIDE DEF below
    <3> QED BY <3>1, FS_Subset
  <2> HIDE DEF below
  <2>2. PICK x : below(m) = {x} BY <1>2, <2>1, FS_Singleton
  <2> QED BY <2>1, <2>2
<1> QED BY SMTT(30), <1>3

\* The session found is in the list and stays there.
LEMMA SendClientHelloIInv ==
    ASSUME ClientIInv, NEW c \in Sockets, SendClientHello(c)
    PROVE  ClientIInv'
<1> DEFINE hits == {i \in DOMAIN cache : cache[i] \notin expired \cup unresumable}
           seen == IF hits = {} THEN Len(cache)
                   ELSE CHOOSE i \in hits : \A j \in hits : i <= j
           out == {cache[i] : i \in 1..seen} \cap expired
           hit == IF hits = {} THEN {} ELSE {cache[seen]}
           local == IF hits = {} THEN NoSid ELSE cache[seen]
<1>1. cached \in [Sids -> Marks] /\ cache \in Seq(Sids) /\ Counted /\ ClientTypeOK
  BY ClientTypes DEF ClientIInv
<1>2. stage[c] \in {"idle", "done12"} /\ mine[c] = NoSid
  BY OfSocket DEF SendClientHello, Placed
<1>3. /\ Count(hit, out, Delist(out)) /\ cache' = Without(out)
      /\ mine' = [mine EXCEPT ![c] = local]
  BY DEF SendClientHello, ssl_LookupSID
<1>4. Moves(c, sidOf[c], local, asked[c], "looked")
  BY <1>3, OfSocket DEF SendClientHello, Moves, Goto
<1>5. Len(cache) \in Nat /\ DOMAIN cache = 1..Len(cache) BY SMTT(30), <1>1
<1>6. hits # {} => seen \in hits
  <2> SUFFICES ASSUME hits # {} PROVE seen \in hits
    OBVIOUS
  <2>1. hits \subseteq Nat /\ IsFiniteSet(hits)
    <3>1. hits \in SUBSET (1..Len(cache)) /\ hits \subseteq Nat BY SMTT(30), <1>5
    <3>2. IsFiniteSet(1..Len(cache)) BY SMTT(30), <1>5, FS_Interval
    <3> HIDE DEF hits
    <3> QED BY <3>1, <3>2, FS_Subset
  <2>2. \E i \in hits : \A j \in hits : i <= j
    <3> HIDE DEF hits
    <3> QED BY <2>1, LeastNumber
  <2> QED BY <2>2
<1>7. seen \in 0..Len(cache) /\ (hits # {} => seen \in DOMAIN cache /\ cache[seen] \notin expired)
  BY SMTT(30), <1>5, <1>6
<1> HIDE DEF seen
<1>8. /\ out \subseteq Elements(cache)
      /\ hits # {} => cache[seen] \in Elements(cache) /\ cache[seen] \notin out
  BY SMTT(30), <1>5, <1>7 DEF Elements
<1>9. /\ \A s \in Elements(cache) : s \in Sids /\ cached[s] = "in_client_cache"
  BY SMTT(30), <1>1 DEF Elements, Counted
<1>10. /\ local = NoSid \/ (local \in Elements(cache) /\ local \notin out)
       /\ hit = IF local = NoSid THEN {} ELSE {local}
  BY <1>8, <1>9, NoSidAssumption
<1> HIDE DEF hits, out, hit, local
<1>11. OnlyOf(c) /\ sidOf'[c] = sidOf[c] /\ mine'[c] = local /\ asked'[c] = asked[c] /\ stage'[c] = "looked"
  BY <1>4, MovesFacts
<1>12. Counts(hit, out, Delist(out)) BY <1>1, <1>3, CountCounts
<1>13. MovesOnly(c, hit, {}) BY SMTT(30), <1>2, <1>10, <1>11, NoSidAssumption DEF MovesOnly, One
<1>14. TypedStep(c) BY <1>9, <1>10, <1>11, OfSocket DEF TypedStep, Stages
<1>15. \A s \in Sids : Delist(out)[s] = IF s \in out THEN "invalid_cache" ELSE cached[s] BY DEF Delist
<1>16. local # NoSid => local \in Sids /\ Delist(out)[local] = "in_client_cache" BY <1>9, <1>10, <1>15
<1>17. Placed("looked", sidOf[c], local, Delist(out)) BY <1>16 DEF Placed, HasSid
<1>18. KnownAs(c, sidOf[c], Delist(out)) /\ KnownAs(c, local, Delist(out)) BY SMTT(30), <1>16 DEF KnownAs
<1>19. \A s \in hit : cached[s] # "freed" BY <1>9, <1>10
<1>20. "looked" \notin Renewed13 BY DEF Renewed13
<1> QED BY SMTT(30), <1>3, <1>8, <1>11, <1>12, <1>13, <1>14, <1>17, <1>18, <1>19, <1>20, DelistStep

\* The session of the socket gets one more reference, from the handshake or
\* from a thread that asks about the socket.
LEMMA ReferSteps ==
    ASSUME ClientIInv, NEW c \in Sockets, SendSecondHello(c) \/ ssl_ReferenceSocketSID(c)
    PROVE  ClientIInv'
<1>1. sidOf[c] \in Sids /\ sidOf[c] # NoSid /\ cached[sidOf[c]] # "freed"
  BY OfSocket DEF SendSecondHello, ssl_ReferenceSocketSID, Placed, HasSid
<1>2. Counts({sidOf[c]}, {}, cached) /\ UNCHANGED cache
  BY OfSocket, CountCounts DEF SendSecondHello, ssl_ReferenceSocketSID
<1>3. \A s \in {sidOf[c]} : cached[s] # "freed" BY SMTT(30), <1>1
<1>4. CASE SendSecondHello(c)
  <2>1. Moves(c, sidOf[c], sidOf[c], asked[c], "looked") BY <1>4, OfSocket DEF SendSecondHello, Moves, Goto
  <2>2. /\ OnlyOf(c) /\ sidOf'[c] = sidOf[c] /\ mine'[c] = sidOf[c] /\ asked'[c] = asked[c]
        /\ stage'[c] = "looked"
    BY SMTT(30), <2>1, MovesFacts
  <2>3. mine[c] = NoSid BY <1>4, OfSocket DEF SendSecondHello, Placed
  <2>4. MovesOnly(c, {sidOf[c]}, {}) BY SMTT(30), <1>1, <2>2, <2>3, NoSidAssumption DEF MovesOnly, One
  <2>5. TypedStep(c) BY <2>2, OfSocket DEF TypedStep, Stages
  <2>6. Placed("looked", sidOf[c], sidOf[c], cached) BY <1>1, <1>4 DEF SendSecondHello, Placed, HasSid
  <2>7. "looked" \notin Renewed13 BY SMTT(30) DEF Renewed13
  <2> QED BY SMTT(30), <1>2, <1>3, <2>2, <2>4, <2>5, <2>6, <2>7, PointerStep
<1>5. CASE ssl_ReferenceSocketSID(c)
  <2>1. Moves(c, sidOf[c], mine[c], sidOf[c], stage[c]) BY <1>5, OfSocket DEF ssl_ReferenceSocketSID, Moves
  <2>2. /\ OnlyOf(c) /\ sidOf'[c] = sidOf[c] /\ mine'[c] = mine[c] /\ asked'[c] = sidOf[c]
        /\ stage'[c] = stage[c]
    BY <2>1, MovesFacts
  <2>3. asked[c] = NoSid BY <1>5 DEF ssl_ReferenceSocketSID
  <2>4. MovesOnly(c, {sidOf[c]}, {}) BY SMTT(30), <1>1, <2>2, <2>3, NoSidAssumption DEF MovesOnly, One
  <2>5. TypedStep(c) BY SMTT(30), <2>2, OfSocket DEF TypedStep
  <2> QED BY SMTT(30), <1>2, <1>3, <2>2, <2>4, <2>5, OfSocket, PointerStep
<1> QED BY <1>4, <1>5

LEMMA FreeAskedIInv ==
    ASSUME ClientIInv, NEW c \in Sockets, FreeAsked(c)
    PROVE  ClientIInv'
<1>1. Counts({}, {asked[c]}, cached) /\ UNCHANGED cache /\ asked[c] # NoSid
  BY OfSocket, CountCounts DEF FreeAsked
<1>2. Moves(c, sidOf[c], mine[c], NoSid, stage[c]) BY OfSocket DEF FreeAsked, Moves
<1>3. /\ OnlyOf(c) /\ sidOf'[c] = sidOf[c] /\ mine'[c] = mine[c] /\ asked'[c] = NoSid
      /\ stage'[c] = stage[c]
  BY <1>2, MovesFacts
<1>4. MovesOnly(c, {}, {asked[c]}) BY SMTT(30), <1>1, <1>3, NoSidAssumption DEF MovesOnly, One
<1>5. TypedStep(c) BY <1>3, OfSocket DEF TypedStep
<1> QED BY SMTT(30), <1>1, <1>3, <1>4, <1>5, OfSocket, PointerStep

\* No socket moves: the stages and what is new stay as they are.
LEMMA OthersStep ==
    ASSUME ClientIInv, ClientTypeOK', Counted', UNCHANGED <<sidOf, mine, asked, stage>>,
           \A s \in Sids : /\ cached[s] = "never_cached" <=> cached'[s] = "never_cached"
                           /\ cached'[s] = "in_client_cache" => cached[s] = "in_client_cache"
    PROVE  ClientIInv'
<1>1. ASSUME NEW c \in Sockets PROVE InStage(c)'
  <2>1. Placed(stage[c], sidOf[c], mine[c], cached') BY SMTT(30), OfSocket, NoSidAssumption DEF Placed, HasSid
  <2> QED BY <2>1 DEF InStage
<1>2. ASSUME NEW c \in Sockets, NEW d \in Sockets \ {c} PROVE Apart(c, d)'
  <2>1. Apart(c, d) BY DEF ClientIInv
  <2>2. Fresh(sidOf[c])' => Fresh(sidOf[c]) BY OfSocket DEF Fresh
  <2>3. Fresh(mine[c])' => Fresh(mine[c]) BY OfSocket DEF Fresh
  <2> QED BY <2>1, <2>2, <2>3 DEF Apart
<1> QED BY <1>1, <1>2 DEF ClientIInv

LEMMA SSL_ClearSessionCacheIInv == ASSUME ClientIInv, SSL_ClearSessionCache PROVE ClientIInv'
<1>1. /\ cached \in [Sids -> Marks] /\ cache \in Seq(Sids) /\ Counted /\ ClientTypeOK
      /\ sidOf \in Pointer /\ mine \in Pointer /\ asked \in Pointer /\ stage \in [Sockets -> Stages]
  BY ClientTypes DEF ClientIInv
<1>2. /\ Count({}, Listed, Delist(Listed)) /\ cache' = <<>> /\ UNCHANGED <<sidOf, mine, asked, stage>>
      /\ Listed = Elements(cache)
  BY SMTT(30) DEF SSL_ClearSessionCache, Listed, Elements
<1>3. Counts({}, Listed, Delist(Listed)) BY <1>1, <1>2, CountCounts
<1>4. /\ Delist(Listed) \in [Sids -> Marks]
      /\ \A s \in Sids : Delist(Listed)[s] = IF s \in Elements(cache) THEN "invalid_cache" ELSE cached[s]
  BY SMTT(30), <1>1, <1>2 DEF Delist, Marks
<1>5. cache' \in Seq(Sids) /\ NoDuplicates(cache') /\ Elements(cache') = {}
  BY SMTT(30), <1>2 DEF NoDuplicates, Elements
<1>6. ASSUME NEW s \in Sids
      PROVE  /\ Pointers(s)' = Pointers(s) + One(s \in {}) - One(s \in Listed)
             /\ Delist(Listed)[s] = "in_client_cache" <=> s \in Elements(cache')
             /\ Delist(Listed)[s] = "freed" => Pointers(s)' = 0
  <2>1. Pointers(s)' = Holders(sidOf, s) + Holders(mine, s) + Holders(asked, s) + One(s \in Elements(cache'))
    BY <1>2, PointersNext
  <2>2. Holders(sidOf, s) \in Nat /\ Holders(mine, s) \in Nat /\ Holders(asked, s) \in Nat BY HoldersType
  <2>3. Pointers(s)' = Pointers(s) + One(s \in {}) - One(s \in Listed)
    BY SMTT(30), <1>2, <1>5, <2>1, <2>2 DEF Pointers, One
  <2>4. cached[s] = "freed" => Pointers(s) = 0 /\ s \notin Elements(cache)
    BY <1>1, Held DEF Counted
  <2>5. Delist(Listed)[s] = "freed" => Pointers(s)' = 0 BY SMTT(30), <1>2, <1>4, <2>3, <2>4 DEF One
  <2>6. cached[s] = "in_client_cache" <=> s \in Elements(cache) BY <1>1 DEF Counted
  <2> QED BY SMTT(30), <1>4, <1>5, <2>3, <2>5, <2>6
<1>7. /\ ClientTypeOK' /\ Counted'
      /\ \A s \in Sids : cached'[s] = IF Pointers(s)' = 0 THEN "freed" ELSE Delist(Listed)[s]
  BY SMTT(30), <1>1, <1>2, <1>3, <1>4, <1>5, <1>6, CountInv
<1>8. ASSUME NEW s \in Sids
      PROVE  /\ cached[s] = "never_cached" <=> cached'[s] = "never_cached"
             /\ cached'[s] = "in_client_cache" => cached[s] = "in_client_cache"
  <2>1. s \in Elements(cache) <=> cached[s] = "in_client_cache" BY <1>1 DEF Counted
  <2>2. cached[s] = "never_cached" => Pointers(s) # 0 BY <1>1 DEF Counted
  <2>3. Pointers(s) \in Nat BY PointersType
  <2>4. s \notin Elements(cache) => Pointers(s)' = Pointers(s) BY SMTT(30), <1>2, <1>6, <2>3 DEF One
  <2> QED BY <1>4, <1>7, <2>1, <2>2, <2>4
<1> QED BY SMTT(30), <1>2, <1>7, <1>8, OthersStep

LEMMA SameIInv ==
    ASSUME ClientIInv, UNCHANGED <<references, cached, unresumable, cache, sidOf, mine, asked, stage>>,
           expired' \subseteq Sids
    PROVE  ClientIInv'
<1>1. ClientTypeOK' BY ClientTypes, ClientTypesNext DEF ClientIInv
<1>2. Counted' BY SMTT(30) DEF ClientIInv, Counted, Pointers, Holders, One, Elements, NoDuplicates
<1> QED BY <1>1, <1>2, OthersStep

LEMMA ClientInitIInv == ClientInit => ClientIInv
<1> SUFFICES ASSUME ClientInit PROVE ClientIInv
  OBVIOUS
<1>1. ClientTypeOK BY SMTT(30), ClientTypes DEF ClientInit, Marks, Stages, Pointer
<1>2. ASSUME NEW s \in Sids PROVE Pointers(s) = 0
  BY SMTT(30), PointersType, NoSidAssumption DEF ClientInit, Elements
<1>3. Counted BY SMTT(30), <1>2 DEF ClientInit, Counted, NoDuplicates, Elements
<1>4. \A c \in Sockets : InStage(c) /\ \A d \in Sockets \ {c} : Apart(c, d)
  BY DEF ClientInit, InStage, Placed, HasSid, Apart, Renewed13, Fresh
<1> QED BY <1>1, <1>3, <1>4 DEF ClientIInv

LEMMA ClientNextIInv == ClientIInv /\ [ClientNext]_cacheVars => ClientIInv'
<1> SUFFICES ASSUME ClientIInv, [ClientNext]_cacheVars PROVE ClientIInv'
  BY SMTT(30)
<1>1. ASSUME NEW c \in Sockets, ClientStep(c) PROVE ClientIInv'
  <2>1. CASE Resumed12(c) \/ Resumed13(c) \/ KeepSid(c) \/ NotResumed12(c) BY <2>1, StageSteps
  <2>2. CASE \/ SidNotOK(c) \/ Uncache12(c) \/ NotResumed13(c) \/ UncacheOld(c)
             \/ SSL_InvalidateSession(c) \/ FatalAlert(c)
    BY <2>2, UncacheSteps
  <2>3. CASE FreeFound(c) \/ CopyCertFails(c) BY SMTT(30), <2>3, DropSteps
  <2>4. CASE OfferSid(c) \/ ReplaceOld(c) \/ CloseSocket(c) \/ NoMemory(c) BY <2>4, SetSteps
  <2>5. ASSUME NEW s \in Sids, OfferNothing(c, s) \/ RenewSid(c, s) \/ HandleNewSessionTicket(c, s)
        PROVE  ClientIInv'
    BY <2>5, NewSteps
  <2>6. CASE FinishHandshake(c) \/ CacheTicket(c) BY SMTT(30), <2>6, CacheSteps
  <2>7. CASE SendClientHello(c) BY <2>7, SendClientHelloIInv
  <2>8. CASE SendSecondHello(c) \/ ssl_ReferenceSocketSID(c) BY <2>8, ReferSteps
  <2>9. CASE FreeAsked(c) BY <2>9, FreeAskedIInv
  <2> QED BY <1>1, <2>1, <2>2, <2>3, <2>4, <2>5, <2>6, <2>7, <2>8, <2>9 DEF ClientStep
<1>2. CASE SSL_ClearSessionCache BY <1>2, SSL_ClearSessionCacheIInv
<1>3. expired \subseteq Sids BY SMTT(30), ClientTypes DEF ClientIInv
<1>4. ASSUME NEW s \in Sids, Expires(s) PROVE ClientIInv' BY <1>3, <1>4, SameIInv DEF Expires
<1>5. CASE UNCHANGED cacheVars BY SMTT(30), <1>3, <1>5, SameIInv DEF cacheVars, sids
<1> QED BY <1>1, <1>2, <1>4, <1>5 DEF ClientNext

\* The strengthened invariant of the client's session cache: the references
\* counted, where a handshake has a session and in which of its variables, and
\* that a session that was never cached is known to one handshake only.
THEOREM ClientIInvHolds == ClientSpec => []ClientIInv
BY ClientInitIInv, ClientNextIInv, PTL DEF ClientSpec

\* The variables of the client's session cache keep their types, and so the
\* handshake stays in its stages.
THEOREM ClientTypeCorrect == ClientSpec => []ClientTypeOK
<1>1. ClientIInv => ClientTypeOK BY DEF ClientIInv
<1> QED BY <1>1, ClientIInvHolds, PTL

\* However many sockets share the cache, and however their handshakes, the
\* threads that ask about them and SSL_ClearSessionCache interleave, the
\* references of a session (sslnonce.c) are exactly the pointers to it, it is in
\* the list at most once and only while it is marked so, and it is freed when,
\* and only when, nobody points to it.
THEOREM ReferencesAreExact == ClientSpec => []ReferencesExact
<1>1. ASSUME ClientIInv PROVE ReferencesExact
  <2>1. cache \in Seq(Sids) /\ Counted BY <1>1, ClientTypes DEF ClientIInv
  <2>2. ASSUME NEW s \in Sids
        PROVE  Cardinality({i \in DOMAIN cache : cache[i] = s}) = One(s \in Elements(cache))
    BY SMTT(30), <2>1, Occurrences DEF Counted, One
  <2> QED BY <2>1, <2>2 DEF ReferencesExact, Counted, Pointers, One
<1> QED BY <1>1, ClientIInvHolds, PTL
=============================================================================
