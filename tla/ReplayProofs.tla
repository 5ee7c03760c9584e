---------------------------- MODULE ReplayProofs ----------------------------
(***************************************************************************)
(* What arrives again is not accepted again.                               *)
(*                                                                         *)
(* DtlsRecordRead, for every ring size, header range and record limit.     *)
(* RingExact is not inductive by itself: that a number the window reaches  *)
(* for the first time finds its bit clear needs that nothing right of the  *)
(* window was handed up (SeenLeftOfRight) and that the window ends on a    *)
(* byte boundary and is RecvdWindow long (Aligned).                        *)
(*                                                                         *)
(* Tls13AntiReplay: early data that rests on a ticket is accepted once,    *)
(* for any window, any set of attempts, hashes and threads, and any number *)
(* of restarts.  The argument is the one in the comment of tls13_InWindow. *)
(* The age check lets copies of an attempt through for less than a window; *)
(* the invariant says where the attempt is recorded: in the current        *)
(* filter, in the other one (for at least a window from then on), or       *)
(* nowhere because a window has passed.                                    *)
(* That a first attempt is accepted needs that the filters hold the bits   *)
(* of attempts that were seen, and nothing else (FilledBySeen).            *)
(***************************************************************************)
EXTENDS DtlsRecordRead, Tls13AntiReplay, TLAPS

(* Division with remainder. *)
LEMMA DivMod ==
    ASSUME NEW a \in Nat, NEW b \in Nat \ {0}
    PROVE  /\ a \div b \in Nat
           /\ a % b \in 0..(b - 1)
           /\ a = b * (a \div b) + (a % b)
BY Z3

(* A larger quotient means at least one whole divisor more. *)
LEMMA MulStep ==
    ASSUME NEW b \in Nat \ {0}, NEW q \in Nat, NEW p \in Nat, q < p
    PROVE  b * q + b <= b * p
<1>1. p >= q + 1
  OBVIOUS
<1>2. b * p >= b * (q + 1)
  BY <1>1, Z3
<1>3. b * (q + 1) = b * q + b
  BY Z3
<1> QED
  BY <1>2, <1>3

(* A positive factor keeps the order. *)
LEMMA MulMono ==
    ASSUME NEW b \in Nat, NEW q \in Nat, NEW p \in Nat, q <= p
    PROVE  b * q <= b * p /\ b * q \in Nat /\ b * p \in Nat
BY Z3

(* Quotient and remainder are unique. *)
LEMMA DivModUnique ==
    ASSUME NEW a \in Nat, NEW b \in Nat \ {0},
           NEW q \in Nat, NEW r \in 0..(b - 1), a = b * q + r
    PROVE  a \div b = q /\ a % b = r
<1>1. /\ a \div b \in Nat /\ a % b \in 0..(b - 1)
      /\ a = b * (a \div b) + (a % b)
  BY ZenonT(60), DivMod
<1>2. ~(a \div b < q)
  <2> SUFFICES ASSUME a \div b < q PROVE FALSE
    OBVIOUS
  <2>1. b * (a \div b) + b <= b * q
    BY <1>1, MulStep
  <2> QED
    BY <2>1, <1>1
<1>3. ~(q < a \div b)
  <2> SUFFICES ASSUME q < a \div b PROVE FALSE
    OBVIOUS
  <2>1. b * q + b <= b * (a \div b)
    BY <1>1, MulStep
  <2> QED
    BY <2>1, <1>1
<1> QED
  BY <1>1, <1>2, <1>3

(* Two numbers less than b apart with the same remainder are the same. *)
LEMMA SameResidue ==
    ASSUME NEW x \in Nat, NEW y \in Nat, NEW b \in Nat \ {0},
           x % b = y % b, x - y < b, y - x < b
    PROVE  x = y
<1>1. /\ x \div b \in Nat /\ x = b * (x \div b) + (x % b)
      /\ y \div b \in Nat /\ y = b * (y \div b) + (y % b)
      /\ x % b \in 0..(b - 1)
  BY ZenonT(60), DivMod
<1>2. ~(x \div b < y \div b)
  <2> SUFFICES ASSUME x \div b < y \div b PROVE FALSE
    OBVIOUS
  <2>1. b * (x \div b) + b <= b * (y \div b)
    BY <1>1, MulStep
  <2> QED
    BY <2>1, <1>1
<1>3. ~(y \div b < x \div b)
  <2> SUFFICES ASSUME y \div b < x \div b PROVE FALSE
    OBVIOUS
  <2>1. b * (y \div b) + b <= b * (x \div b)
    BY <1>1, MulStep
  <2> QED
    BY <2>1, <1>1
<1>4. x \div b = y \div b
  BY <1>1, <1>2, <1>3
<1> QED
  BY <1>1, <1>4

(* A number whose remainder is 0 is a multiple. *)
LEMMA Multiple ==
    ASSUME NEW x \in Nat, NEW b \in Nat \ {0}, x % b = 0
    PROVE  \E i \in Nat : x = b * i
<1>1. x \div b \in Nat /\ x = b * (x \div b) + (x % b)
  BY DivMod
<1>2. b * (x \div b) \in Nat
  BY <1>1, MulMono
<1>3. x = b * (x \div b)
  BY <1>1, <1>2
<1> QED
  BY <1>1, <1>3

(* The last number of a byte. *)
ByteEnd(x) == (x + 1) % ByteBits = 0

(* Two ends of bytes less than a byte apart are the same (new_right) ... *)
LEMMA SameLast ==
    ASSUME NEW x \in Nat, NEW y \in Nat, ByteEnd(x), ByteEnd(y),
           x - y < ByteBits, y - x < ByteBits
    PROVE  x = y
<1> DEFINE u == x + 1
           v == y + 1
           b == ByteBits
<1>1. u \in Nat /\ v \in Nat /\ u - v < b /\ v - u < b /\ u % b = v % b
  BY RingAssumption DEF ByteEnd
<1>1a. b \in Nat \ {0}
  BY RingAssumption
<1> HIDE DEF u, v, b
<1>2. u = v
  BY ZenonT(60), <1>1, <1>1a, SameResidue
<1> QED
  BY <1>2 DEF u, v

(* ... and any two differ by whole bytes. *)
LEMMA WholeBytes ==
    ASSUME NEW x \in Nat, NEW y \in Nat, ByteEnd(x), ByteEnd(y), y <= x
    PROVE  (x - y) % ByteBits = 0
<1> DEFINE b == ByteBits
<1>0. b \in Nat \ {0} /\ (x + 1) % b = 0 /\ (y + 1) % b = 0
  BY RingAssumption DEF ByteEnd
<1> HIDE DEF b
<1>1. PICK i \in Nat : x + 1 = b * i
  <2> DEFINE u == x + 1
  <2>1. u \in Nat /\ u % b = 0
    BY <1>0
  <2> HIDE DEF u
  <2>2. \E i \in Nat : u = b * i
    BY Zenon, <2>1, <1>0, Multiple
  <2> QED
    BY <2>2 DEF u
<1>2. PICK j \in Nat : y + 1 = b * j
  <2> DEFINE u == y + 1
  <2>1. u \in Nat /\ u % b = 0
    BY <1>0
  <2> HIDE DEF u
  <2>2. \E jj \in Nat : u = b * jj
    BY ZenonT(60), <2>1, <1>0, Multiple
  <2> QED
    BY <2>2 DEF u
<1>3. j <= i
  <2> SUFFICES ASSUME i < j PROVE FALSE
    OBVIOUS
  <2>1. b * i + b <= b * j
    BY <1>0, MulStep
  <2> QED
    BY <2>1, <1>0, <1>1, <1>2
<1> DEFINE k == i - j
           z == x - y
<1>4. k \in Nat /\ z \in Nat /\ 0 \in 0..(b - 1)
  BY <1>0, <1>3
<1>5. z = b * k + 0
  <2>1. b * (i - j) = b * i - b * j
    BY <1>0, Z3
  <2> QED
    BY <2>1, <1>1, <1>2
<1> HIDE DEF k, z
<1>6. z % b = 0
  BY <1>0, <1>4, <1>5, DivModUnique
<1> QED
  BY <1>6 DEF z, b

-----------------------------------------------------------------------------
(* The geometry of the ring. *)

(* The ring holds at least one byte. *)
LEMMA WindowPositive == RecvdWindow \in Nat \ {0} /\ ByteBits <= RecvdWindow
<1>1. ByteBits * RingBytes >= ByteBits
  BY RingAssumption, Z3
<1> QED
  BY <1>1, RingAssumption DEF RecvdWindow

(* A number's byte and bit exist in the ring. *)
LEMMA ByteBitType ==
    ASSUME NEW n \in Nat
    PROVE  Byte(n) \in BytesOfRing /\ Bit(n) \in BitsOfByte
<1> DEFINE m == n % RecvdWindow
<1>1. m \in Nat /\ m < RecvdWindow
  BY WindowPositive, DivMod
<1> HIDE DEF m
<1>2. /\ m \div ByteBits \in Nat /\ m % ByteBits \in 0..(ByteBits - 1)
      /\ m = ByteBits * (m \div ByteBits) + (m % ByteBits)
  BY ZenonT(60), <1>1, DivMod, RingAssumption
<1>3. ~(RingBytes <= m \div ByteBits)
  <2> SUFFICES ASSUME RingBytes <= m \div ByteBits PROVE FALSE
    OBVIOUS
  <2>1. ByteBits * RingBytes <= ByteBits * (m \div ByteBits)
    BY ZenonT(60), <1>2, RingAssumption, MulMono
  <2> QED
    BY <2>1, <1>1, <1>2, RingAssumption DEF RecvdWindow
<1> QED
  BY <1>2, <1>3, RingAssumption DEF m, Byte, Bit, BytesOfRing, BitsOfByte

(* Byte and bit identify a number's place in the ring. *)
LEMMA PlaceIsResidue ==
    ASSUME NEW x \in Nat, NEW y \in Nat, Byte(x) = Byte(y), Bit(x) = Bit(y)
    PROVE  x % RecvdWindow = y % RecvdWindow
<1> DEFINE u == x % RecvdWindow
           v == y % RecvdWindow
<1>1. u \in Nat /\ v \in Nat
  BY WindowPositive, DivMod
<1>2. u \div ByteBits = v \div ByteBits /\ u % ByteBits = v % ByteBits
  BY DEF Byte, Bit
<1> HIDE DEF u, v
<1>3. /\ u = ByteBits * (u \div ByteBits) + (u % ByteBits)
      /\ v = ByteBits * (v \div ByteBits) + (v % ByteBits)
  BY <1>1, DivMod, RingAssumption
<1>4. u = v
  BY <1>2, <1>3
<1> QED
  BY <1>4 DEF u, v

(* NewRight(n), the last number of n's byte, is in n's byte, and its bit   *)
(* is the last one.                                                        *)
LEMMA LastOfByte ==
    ASSUME NEW n \in Nat
    PROVE  /\ NewRight(n) \in Nat
           /\ n <= NewRight(n) /\ NewRight(n) < n + ByteBits
           /\ Byte(NewRight(n)) = Byte(n)
           /\ Bit(NewRight(n)) = ByteBits - 1
           /\ ByteEnd(NewRight(n))
<1> DEFINE W == RecvdWindow
           B == ByteBits
           q == n \div W
           m == n % W
           c == m \div B
           d == m % B
<1>0. W \in Nat \ {0} /\ B \in Nat \ {0} /\ W = B * RingBytes
  BY WindowPositive, RingAssumption DEF RecvdWindow
<1>1. q \in Nat /\ m \in 0..(W - 1) /\ n = W * q + m
  BY ZenonT(60), <1>0, DivMod
<1>2. c \in Nat /\ d \in 0..(B - 1) /\ m = B * c + d
  <2> HIDE DEF m, B
  <2>1. m \in Nat /\ B \in Nat \ {0}
    BY <1>0, <1>1
  <2> QED
    BY ZenonT(60), <2>1, DivMod
<1>3. c \in 0..(RingBytes - 1) /\ c = Byte(n)
  BY ByteBitType DEF Byte, BytesOfRing
<1> HIDE DEF W, B, q, m, c, d
<1>4. n % B = d
  <2>1. n = B * (RingBytes * q + c) + d
    BY <1>0, <1>1, <1>2, RingAssumption, Z3
  <2>2. RingBytes * q + c \in Nat
    BY <1>1, <1>2, RingAssumption, Z3
  <2> QED
    BY <2>1, <2>2, <1>0, <1>2, DivModUnique
<1>5. NewRight(n) = (n - d) + (B - 1)
  BY <1>4 DEF NewRight, B
<1>6. B * c + (B - 1) \in 0..(W - 1)
  <2>1. B * c + B <= B * RingBytes
    BY <1>0, <1>3, RingAssumption, MulStep
  <2>2. B * c \in Nat
    BY <1>0, <1>2, Z3
  <2> QED
    BY <2>1, <2>2, <1>0
<1>7. NewRight(n) = W * q + (B * c + (B - 1))
  <2>1. B * c \in Nat /\ W * q \in Nat
    BY <1>0, <1>1, <1>2, Z3
  <2> QED
    BY <2>1, <1>0, <1>1, <1>2, <1>5
<1>8. NewRight(n) \in Nat /\ n <= NewRight(n) /\ NewRight(n) < n + B
  BY <1>0, <1>1, <1>2, <1>5
<1> DEFINE e == B * c + (B - 1)
<1>9. NewRight(n) % W = e
  <2> HIDE DEF e
  <2>1. e \in 0..(W - 1) /\ NewRight(n) = W * q + e
    BY <1>6, <1>7 DEF e
  <2> QED
    BY SMTT(60), <2>1, <1>0, <1>1, <1>8, DivModUnique
<1>10. e \div B = c /\ e % B = B - 1
  <2>1. e \in Nat /\ B - 1 \in 0..(B - 1) /\ e = B * c + (B - 1)
    BY <1>0, <1>6
  <2> HIDE DEF e
  <2> QED
    BY ZenonT(60), <2>1, <1>0, <1>2, DivModUnique
<1>11. (NewRight(n) + 1) % B = 0
  <2>1. NewRight(n) + 1 = B * ((RingBytes * q + c) + 1) + 0
    BY <1>0, <1>1, <1>2, <1>7, RingAssumption, Z3
  <2>2. (RingBytes * q + c) + 1 \in Nat
    BY <1>1, <1>2, RingAssumption, Z3
  <2>3. 0 \in 0..(B - 1) /\ NewRight(n) + 1 \in Nat
    BY <1>0, <1>8
  <2> QED
    BY <2>1, <2>2, <2>3, <1>0, DivModUnique
<1> QED
  BY <1>3, <1>8, <1>9, <1>10, <1>11 DEF Byte, Bit, ByteEnd, W, B

-----------------------------------------------------------------------------
(* The inductive invariant. *)

Aligned == left = (right - RecvdWindow) + 1 /\ ByteEnd(right)

SeenLeftOfRight == \A n \in SeqNums : handled[n] > 0 => n <= right

NextInWindow ==
    /\ nextSeqNum <= right + 1
    /\ right = RecvdWindow - 1 \/ right < (nextSeqNum + ByteBits) - 1

IInv ==
    /\ ReadTypeOK
    /\ Aligned
    /\ SeenLeftOfRight
    /\ NextInWindow
    /\ RingExact
    /\ HandledAtMostOnce

(* The bytes the loop zeroes are those of the numbers the window gains: a  *)
(* number that stays in the window keeps its byte.                         *)
LEMMA SlidBytesExact ==
    ASSUME ReadTypeOK, Aligned, NEW seq \in Nat, seq > right,
           NewRight(seq) <= right + RecvdWindow,
           NEW n \in Nat, n > NewRight(seq) - RecvdWindow, n <= NewRight(seq)
    PROVE  Byte(n) \in SlidBytes(NewRight(seq)) <=> n > right
<1> DEFINE nr == NewRight(seq)
           last == NewRight(n)
<1>0. ByteBits \in Nat \ {0} /\ RecvdWindow \in Nat \ {0} /\ ByteBits <= RecvdWindow
  BY RingAssumption, WindowPositive
<1>1. right \in Nat /\ ByteEnd(right)
  BY DEF ReadTypeOK, Aligned
<1>2. /\ nr \in Nat /\ seq <= nr /\ ByteEnd(nr)
  BY LastOfByte
<1>3. /\ last \in Nat /\ n <= last /\ last < n + ByteBits
      /\ Byte(last) = Byte(n) /\ Bit(last) = ByteBits - 1
      /\ ByteEnd(last)
  BY LastOfByte
<1> HIDE DEF nr, last
<1>4. last <= nr
  <2>1. n <= nr
    BY DEF nr
  <2> SUFFICES ASSUME last > nr PROVE FALSE
    BY <1>2, <1>3
  <2>2. last = nr
    BY <2>1, <1>0, <1>2, <1>3, SameLast
  <2> QED
    BY <2>2, <1>2, <1>3
<1>5. ASSUME n > right
      PROVE  Byte(n) \in SlidBytes(nr)
  <2>1. last >= right + ByteBits
    <3> SUFFICES ASSUME last < right + ByteBits PROVE FALSE
      BY <1>0, <1>1, <1>3
    <3>1. last = right
      BY <1>0, <1>1, <1>3, <1>5, SameLast
    <3> QED
      BY <3>1, <1>1, <1>3, <1>5
  <2>2. (last - right) % ByteBits = 0
    BY <2>1, <1>0, <1>1, <1>3, WholeBytes
  <2>3. last \in (right + ByteBits)..nr
    BY <2>1, <1>0, <1>1, <1>2, <1>3, <1>4
  <2> QED
    BY <2>2, <2>3, <1>3 DEF SlidBytes
<1>6. ASSUME n <= right
      PROVE  Byte(n) \notin SlidBytes(nr)
  <2> SUFFICES ASSUME NEW r \in (right + ByteBits)..nr,
                      (r - right) % ByteBits = 0, Byte(r) = Byte(n)
               PROVE  FALSE
    BY DEF SlidBytes
  <2>1. r \in Nat /\ r >= right + ByteBits /\ r <= nr
    BY <1>0, <1>1, <1>2
  <2>2. last <= right
    <3> SUFFICES ASSUME last > right PROVE FALSE
      BY <1>1, <1>3
    <3>1. last = right
      BY <1>0, <1>1, <1>3, <1>6, SameLast
    <3> QED
      BY <3>1, <1>1, <1>3
  <2>3. Byte(NewRight(r)) = Byte(last) /\ Bit(NewRight(r)) = Bit(last)
    BY <2>1, <1>3, LastOfByte
  <2>4. NewRight(r) \in Nat /\ r <= NewRight(r)
        /\ NewRight(r) < r + ByteBits /\ ByteEnd(NewRight(r))
    BY <2>1, LastOfByte
  <2>5. NewRight(r) <= nr
    <3> SUFFICES ASSUME NewRight(r) > nr PROVE FALSE
      BY <2>4, <1>2
    <3>1. NewRight(r) = nr
      BY <2>1, <2>4, <1>0, <1>2, SameLast
    <3> QED
      BY <3>1, <2>4, <1>2
  <2>6. NewRight(r) % RecvdWindow = last % RecvdWindow
    BY <2>3, <2>4, <1>3, PlaceIsResidue
  <2>7. n > nr - RecvdWindow
    BY DEF nr
  <2>8. NewRight(r) = last
    <3>1. NewRight(r) - last < RecvdWindow /\ last - NewRight(r) < RecvdWindow
      BY <2>1, <2>2, <2>4, <2>5, <2>7, <1>0, <1>1, <1>2, <1>3
    <3> QED
      BY <3>1, <2>4, <2>6, <1>0, <1>3, SameResidue
  <2> QED
    BY <2>1, <2>2, <2>4, <2>8, <1>0, <1>1, <1>3
<1> QED
  BY <1>1, <1>5, <1>6 DEF nr

-----------------------------------------------------------------------------
(* dtls_InitRecvdRecords leaves an empty ring. *)
LEMMA InitIInv == ReadInit => IInv
<1> SUFFICES ASSUME ReadInit PROVE IInv
  OBVIOUS
<1> USE DEF ReadInit
<1>1. ReadTypeOK
  <2>1. data \in [BytesOfRing -> SUBSET BitsOfByte]
    OBVIOUS
  <2>2. handled \in [SeqNums -> Nat]
    OBVIOUS
  <2>3. /\ left \in Nat /\ right \in Nat /\ nextSeqNum \in 0..MaxRecords
        /\ deprotectionFailures \in 0..AeadLimit /\ peerNext \in 0..MaxRecords
    BY LimitAssumption, WindowPositive
  <2> QED
    BY <2>1, <2>2, <2>3 DEF ReadTypeOK
<1>2. Aligned
  <2>1. ByteBits * RingBytes \in Nat
    BY WindowPositive DEF RecvdWindow
  <2>2. (ByteBits * RingBytes) % ByteBits = 0
    <3> DEFINE w == ByteBits * RingBytes
    <3>1. w = ByteBits * RingBytes + 0 /\ w \in Nat
      BY <2>1
    <3>2. 0 \in 0..(ByteBits - 1)
      BY RingAssumption
    <3> HIDE DEF w
    <3>3. w % ByteBits = 0
      BY <3>1, <3>2, RingAssumption, DivModUnique
    <3> QED
      BY <3>3 DEF w
  <2>3. (RecvdWindow - 1) + 1 = ByteBits * RingBytes
    BY <2>1 DEF RecvdWindow
  <2>4. left = 0 /\ right = RecvdWindow - 1
    OBVIOUS
  <2> HIDE DEF ReadInit
  <2>5. left = (right - RecvdWindow) + 1
    BY <2>4, WindowPositive
  <2>6. ByteEnd(right)
    BY Zenon, <2>2, <2>3, <2>4 DEF ByteEnd
  <2> QED
    BY Zenon, <2>5, <2>6 DEF Aligned
<1>3. SeenLeftOfRight /\ HandledAtMostOnce
  BY LimitAssumption DEF SeenLeftOfRight, HandledAtMostOnce
<1>4. NextInWindow
  BY WindowPositive DEF NextInWindow
<1>5. RingExact
  <2> SUFFICES ASSUME NEW n \in SeqNums
               PROVE  (Bit(n) \in data[Byte(n)]) <=> (handled[n] > 0)
    BY Zenon DEF RingExact
  <2>1. Byte(n) \in BytesOfRing
    BY ByteBitType, LimitAssumption DEF SeqNums
  <2>2. data[Byte(n)] = {} /\ handled[n] = 0
    BY Zenon, <2>1
  <2>3. ~(0 > 0)
    OBVIOUS
  <2> HIDE DEF ReadInit
  <2> QED
    BY Zenon, <2>2, <2>3
<1> QED
  BY <1>1, <1>2, <1>3, <1>4, <1>5 DEF IInv

(* Recording a number that was relevant: the ring stays exact. *)
LEMMA UnprotectedIInv ==
    ASSUME IInv, NEW seq \in SeqNums, Passes(seq), Unprotected(seq)
    PROVE  IInv'
<1>0. /\ ReadTypeOK /\ Aligned /\ SeenLeftOfRight /\ NextInWindow
      /\ RingExact /\ HandledAtMostOnce
  BY DEF IInv
<1>1. seq \in Nat /\ seq < MaxRecords /\ MaxRecords \in Nat
  BY LimitAssumption DEF SeqNums
<1>2. /\ Byte(seq) \in BytesOfRing /\ Bit(seq) \in BitsOfByte
  BY <1>1, ByteBitType
<1>3. /\ left \in Nat /\ right \in Nat /\ nextSeqNum \in Nat
      /\ RecvdWindow \in Nat \ {0} /\ ByteBits \in Nat \ {0}
      /\ ByteBits <= RecvdWindow
      /\ left = (right - RecvdWindow) + 1
  BY <1>0, RingAssumption, LimitAssumption, WindowPositive
     DEF ReadTypeOK, Aligned
<1>4. seq >= left /\ (seq > right \/ Bit(seq) \notin data[Byte(seq)])
  BY <1>1, <1>3 DEF Passes, dtls_IsRelevant, dtls_RecordGetRecvd
<1>5. handled[seq] = 0
  BY <1>0, <1>1, <1>3, <1>4
     DEF SeenLeftOfRight, RingExact, ReadTypeOK
<1>6. /\ handled' = [handled EXCEPT ![seq] = @ + 1]
      /\ nextSeqNum' = IF seq + 1 > nextSeqNum THEN seq + 1 ELSE nextSeqNum
      /\ UNCHANGED <<deprotectionFailures, peerNext>>
      /\ dtls_RecordSetRecvd(seq)
  BY DEF Unprotected
<1>7. \A n \in SeqNums : handled'[n] = IF n = seq THEN 1 ELSE handled[n]
  BY <1>0, <1>5, <1>6 DEF ReadTypeOK
<1>8. HandledAtMostOnce' /\ handled' \in [SeqNums -> Nat]
  BY <1>0, <1>6, <1>7 DEF HandledAtMostOnce, ReadTypeOK
<1>9. nextSeqNum' \in 0..MaxRecords
  BY <1>0, <1>1, <1>6 DEF ReadTypeOK
<1>10. CASE seq <= right
  <2>1. /\ right' = right /\ left' = left
        /\ data' = [data EXCEPT ![Byte(seq)] = @ \cup {Bit(seq)}]
    BY <1>1, <1>3, <1>4, <1>6, <1>10 DEF dtls_RecordSetRecvd
  <2>2. ReadTypeOK'
    BY <2>1, <1>0, <1>2, <1>6, <1>8, <1>9 DEF ReadTypeOK
  <2>3. Aligned'
    BY <2>1, <1>0 DEF Aligned, ByteEnd
  <2>4. SeenLeftOfRight'
    BY <2>1, <1>0, <1>7, <1>10 DEF SeenLeftOfRight
  <2>5. NextInWindow'
    BY <2>1, <1>0, <1>1, <1>3, <1>6, <1>10 DEF NextInWindow
  <2>6. RingExact'
    <3> SUFFICES ASSUME NEW n \in SeqNums, n \in left..right
                 PROVE  (Bit(n) \in data'[Byte(n)]) <=> (handled'[n] > 0)
      BY <2>1 DEF RingExact, Bit, Byte
    <3>1. n \in Nat /\ Byte(n) \in BytesOfRing
      BY <1>1, ByteBitType DEF SeqNums
    <3>2. CASE n = seq
      BY <3>1, <3>2, <2>1, <1>0, <1>7 DEF ReadTypeOK
    <3>3. CASE n # seq
      <4>1. ~(Byte(n) = Byte(seq) /\ Bit(n) = Bit(seq))
        <5> SUFFICES ASSUME Byte(n) = Byte(seq), Bit(n) = Bit(seq)
                     PROVE  FALSE
          OBVIOUS
        <5>1. n % RecvdWindow = seq % RecvdWindow
          BY <3>1, <1>1, PlaceIsResidue
        <5>2. n - seq < RecvdWindow /\ seq - n < RecvdWindow
          BY <3>1, <1>1, <1>3, <1>4, <1>10
        <5>3. n = seq
          BY ZenonT(60), <5>1, <5>2, <3>1, <1>1, <1>3, SameResidue
        <5> QED
          BY <5>3, <3>3
      <4>2. (Bit(n) \in data'[Byte(n)]) <=> (Bit(n) \in data[Byte(n)])
        BY <4>1, <3>1, <2>1, <1>0, <1>2 DEF ReadTypeOK
      <4> QED
        BY <4>2, <3>3, <1>0, <1>7 DEF RingExact
    <3> QED
      BY <3>2, <3>3
  <2> QED
    BY <2>2, <2>3, <2>4, <2>5, <2>6, <1>8 DEF IInv
<1>11. CASE seq > right
  <2> DEFINE nr == NewRight(seq)
             base == Slide(seq)
  <2>1. /\ right' = nr /\ left' = (nr - RecvdWindow) + 1
        /\ data' = [base EXCEPT ![Byte(seq)] = @ \cup {Bit(seq)}]
    BY <1>1, <1>3, <1>4, <1>6, <1>11 DEF dtls_RecordSetRecvd
  <2>2. /\ nr \in Nat /\ seq <= nr /\ nr < seq + ByteBits
        /\ ByteEnd(nr)
    BY <1>1, LastOfByte
  <2>3. base \in [BytesOfRing -> SUBSET BitsOfByte]
    BY <1>0 DEF Slide, ReadTypeOK
  <2>4. left' \in Nat /\ left' > left
    BY <2>1, <2>2, <1>1, <1>3, <1>11
  <2>5. ReadTypeOK'
    BY <2>1, <2>2, <2>3, <2>4, <1>0, <1>2, <1>6, <1>8, <1>9 DEF ReadTypeOK
  <2>6. Aligned'
    BY <2>1, <2>2 DEF Aligned, ByteEnd, RecvdWindow
  <2>7. SeenLeftOfRight'
    BY <2>1, <2>2, <1>0, <1>1, <1>3, <1>7, <1>11
       DEF SeenLeftOfRight, SeqNums
  <2>8. NextInWindow'
    BY <2>1, <2>2, <1>0, <1>1, <1>3, <1>6, <1>11 DEF NextInWindow, RecvdWindow
  <2>9. RingExact'
    <3> SUFFICES ASSUME NEW n \in SeqNums, n \in ((nr - RecvdWindow) + 1)..nr
                 PROVE  (Bit(n) \in data'[Byte(n)]) <=> (handled'[n] > 0)
      BY <2>1 DEF RingExact, Bit, Byte, RecvdWindow
    <3>1. n \in Nat /\ Byte(n) \in BytesOfRing
      BY <1>1, ByteBitType DEF SeqNums
    <3>2. CASE n = seq
      BY <3>1, <3>2, <2>1, <2>3, <1>7
    <3>3. CASE n # seq
      <4>1. ~(Byte(n) = Byte(seq) /\ Bit(n) = Bit(seq))
        <5> SUFFICES ASSUME Byte(n) = Byte(seq), Bit(n) = Bit(seq)
                     PROVE  FALSE
          OBVIOUS
        <5>1. n % RecvdWindow = seq % RecvdWindow
          BY <3>1, <1>1, PlaceIsResidue
        <5>2. n - seq < RecvdWindow /\ seq - n < RecvdWindow
          BY <3>1, <2>2, <1>1, <1>3, <1>11
        <5>3. n = seq
          BY <5>1, <5>2, <3>1, <1>1, <1>3, SameResidue
        <5> QED
          BY <5>3, <3>3
      <4>2. (Bit(n) \in data'[Byte(n)]) <=> (Bit(n) \in base[Byte(n)])
        BY <4>1, <3>1, <2>1, <2>3, <1>2
      <4>3. handled'[n] = handled[n]
        BY <3>3, <1>7
      <4>4. (Bit(n) \in base[Byte(n)]) <=> (handled[n] > 0)
        <5>1. CASE nr > right + RecvdWindow
          <6>1. base[Byte(n)] = {}
            BY <5>1, <3>1 DEF Slide
          <6>2. n > right
            BY <5>1, <3>1, <2>2, <1>3
          <6> QED
            BY <6>1, <6>2, <3>1, <1>0, <1>3 DEF SeenLeftOfRight
        <5>2. CASE ~(nr > right + RecvdWindow)
          <6>1. Byte(n) \in SlidBytes(nr) <=> n > right
            BY <5>2, <3>1, <2>2, <1>0, <1>1, <1>3, <1>11, SlidBytesExact
          <6>2. base[Byte(n)] =
                  IF Byte(n) \in SlidBytes(nr) THEN {} ELSE data[Byte(n)]
            BY <5>2, <3>1 DEF Slide
          <6>3. CASE n > right
            BY <6>1, <6>2, <6>3, <3>1, <1>0, <1>3 DEF SeenLeftOfRight
          <6>4. CASE n <= right
            <7>1. n \in left..right
              BY <6>4, <3>1, <2>1, <2>2, <2>4, <1>3
            <7> QED
              BY <7>1, <6>1, <6>2, <6>4, <3>1, <1>0, <1>3 DEF RingExact
          <6> QED
            BY <6>3, <6>4, <3>1, <1>3
        <5> QED
          BY <5>1, <5>2
      <4> QED
        BY <4>2, <4>3, <4>4
    <3> QED
      BY <3>2, <3>3
  <2> QED
    BY <2>5, <2>6, <2>7, <2>8, <2>9, <1>8 DEF IInv
<1> QED
  BY <1>1, <1>3, <1>10, <1>11

(* Every step keeps the invariant: one case per action. *)
LEMMA NextIInv == IInv /\ [ReadNext]_readVars => IInv'
<1> SUFFICES ASSUME IInv, [ReadNext]_readVars PROVE IInv'
  OBVIOUS
<1>1. ASSUME PeerSend PROVE IInv'
  BY <1>1, LimitAssumption
     DEF PeerSend, IInv, ReadTypeOK, Aligned, SeenLeftOfRight, NextInWindow,
         RingExact, HandledAtMostOnce, ring
<1>2. ASSUME UnprotectFails, ~dtls13_AeadLimitReached PROVE IInv'
  BY <1>2, LimitAssumption
     DEF UnprotectFails, dtls13_AeadLimitReached, IInv, ReadTypeOK, Aligned,
         SeenLeftOfRight, NextInWindow, RingExact, HandledAtMostOnce, ring
<1>3. ASSUME NEW num \in SeqNums, NEW hdr \in Hdrs,
             HandlePeerRecord(num, hdr)
      PROVE  IInv'
  <2> DEFINE seq == dtls_ReadSequenceNumber(num, hdr)
  <2>1. CASE seq = num
    BY <2>1, <1>3, UnprotectedIInv DEF HandlePeerRecord
  <2>2. CASE seq # num
    BY <2>2, <1>2, <1>3 DEF HandlePeerRecord, Passes
  <2> QED
    BY <2>1, <2>2
<1>4. ASSUME NEW num \in SeqNums, NEW hdr \in Hdrs,
             HandleForeignRecord(num, hdr)
      PROVE  IInv'
  BY <1>2, <1>4 DEF HandleForeignRecord, Passes
<1>5. CASE UNCHANGED readVars
  BY <1>5
     DEF readVars, ring, IInv, ReadTypeOK, Aligned, SeenLeftOfRight, NextInWindow,
         RingExact, HandledAtMostOnce
<1> QED
  BY <1>1, <1>3, <1>4, <1>5 DEF ReadNext

(* The inductive invariant holds of every reachable state of a read spec. *)
THEOREM IInvHolds == ReadSpec => []IInv
BY InitIInv, NextIInv, PTL DEF ReadSpec

(* The state of a reader stays in its types, whatever is received. *)
THEOREM TypeCorrect == ReadSpec => []ReadTypeOK
<1>1. IInv => ReadTypeOK
  BY DEF IInv
<1> QED
  BY <1>1, IInvHolds, PTL

(* For every ring and header size, dtls_RecordGetRecvd and                 *)
(* dtls_RecordSetRecvd let no record of the peer through twice.            *)
THEOREM NoReplay == ReadSpec => []HandledAtMostOnce
<1>1. IInv => HandledAtMostOnce
  BY DEF IInv
<1> QED
  BY <1>1, IInvHolds, PTL

(* For every ring size, sliding the window by whole bytes keeps the ring   *)
(* an exact record of what was handed up.                                  *)
THEOREM RingIsExact == ReadSpec => []RingExact
<1>1. IInv => RingExact
  BY DEF IInv
<1> QED
  BY <1>1, IInvHolds, PTL

-----------------------------------------------------------------------------
(* Recovering a number from its residue: dtls_ReadSequenceNumber inverts   *)
(* the shortening of every number in the half range around the next one.   *)
LEMMA RecoverExact ==
    ASSUME nextSeqNum \in Nat, NEW n \in Nat, NEW hdr \in Hdrs,
           Recoverable(n, hdr)
    PROVE  dtls_ReadSequenceNumber(n, hdr) = n
<1>1. CASE hdr = LongHeader
  BY <1>1 DEF dtls_ReadSequenceNumber
<1>2. CASE hdr # LongHeader
  <2> DEFINE half == hdr \div 2
             cap == nextSeqNum + half
             low == cap % hdr
             c == cap \div hdr
             partial == n % hdr
             a == n \div hdr
  <2>1. hdr \in Nat \ {0}
    BY <1>2, HdrAssumption DEF Hdrs
  <2>2. half \in Nat /\ 2 * half <= hdr /\ hdr <= 2 * half + 1
    BY <2>1, Z3
  <2>3. cap \in Nat
    BY <2>2
  <2>4. c \in Nat /\ low \in 0..(hdr - 1) /\ cap = hdr * c + low
    <3> HIDE DEF cap
    <3> QED
      BY ZenonT(60), <2>1, <2>3, DivMod
  <2>5. a \in Nat /\ partial \in 0..(hdr - 1) /\ n = hdr * a + partial
    BY Zenon, <2>1, DivMod
  <2>6. n <= cap /\ n > cap - hdr
    BY <1>2, <2>1, <2>2 DEF Recoverable
  <2>7. dtls_ReadSequenceNumber(n, hdr) =
           IF partial > low /\ (cap - low) + partial > hdr - 1
           THEN ((cap - low) + partial) - hdr
           ELSE (cap - low) + partial
    BY <1>2 DEF dtls_ReadSequenceNumber
  <2> HIDE DEF half, cap, low, c, partial, a
  <2>8. hdr * a \in Nat /\ hdr * c \in Nat
    BY <2>1, <2>4, <2>5, MulMono
  <2>9. CASE partial <= low
    <3>1. ~(a < c)
      <4> SUFFICES ASSUME a < c PROVE FALSE
        OBVIOUS
      <4>1. hdr * a + hdr <= hdr * c
        BY <2>1, <2>4, <2>5, MulStep
      <4> QED
        BY <4>1, <2>1, <2>4, <2>5, <2>6, <2>8, <2>9
    <3>2. ~(c < a)
      <4> SUFFICES ASSUME c < a PROVE FALSE
        OBVIOUS
      <4>1. hdr * c + hdr <= hdr * a
        BY <2>1, <2>4, <2>5, MulStep
      <4> QED
        BY <4>1, <2>1, <2>4, <2>5, <2>6, <2>8
    <3>3. a = c
      BY <3>1, <3>2, <2>4, <2>5
    <3>4. hdr * a = hdr * c
      BY <3>3
    <3> QED
      BY <3>4, <2>1, <2>3, <2>4, <2>5, <2>7, <2>8, <2>9
  <2>10. CASE partial > low
    <3>1. a < c
      <4> SUFFICES ASSUME c <= a PROVE FALSE
        BY <2>4, <2>5
      <4>1. hdr * c <= hdr * a
        BY <2>1, <2>4, <2>5, MulMono
      <4> QED
        BY <4>1, <2>1, <2>4, <2>5, <2>6, <2>8, <2>10
    <3>2. ~(a + 1 < c)
      <4> SUFFICES ASSUME a + 1 < c PROVE FALSE
        OBVIOUS
      <4> DEFINE a1 == a + 1
      <4>1. a1 \in Nat /\ a < a1 /\ a1 < c
        BY <2>5
      <4> HIDE DEF a1
      <4>2. hdr * a + hdr <= hdr * a1 /\ hdr * a1 + hdr <= hdr * c
            /\ hdr * a1 \in Nat
        BY SMTT(60), <4>1, <2>1, <2>4, <2>5, MulStep, MulMono
      <4> QED
        BY <4>2, <2>1, <2>4, <2>5, <2>6, <2>8, <2>10
    <3>3. c = a + 1
      BY <3>1, <3>2, <2>4, <2>5
    <3>4. hdr * c = hdr * a + hdr
      <4>1. hdr * (a + 1) = hdr * a + hdr
        BY <2>1, <2>5, Z3
      <4> QED
        BY <4>1, <3>3
    <3> QED
      BY <3>4, <2>1, <2>3, <2>4, <2>5, <2>7, <2>8, <2>10
  <2> QED
    BY <2>4, <2>5, <2>9, <2>10
<1> QED
  BY <1>1, <1>2

(* For every ring and header size, a record that is late by less than the  *)
(* window still passes ssl3_HandleRecord's checks under its own number.    *)
THEOREM LateRecordsPass == ReadSpec => []LateRecordAccepted
<1>1. IInv => LateRecordAccepted
  <2> SUFFICES ASSUME IInv, NEW n \in SeqNums, NEW hdr \in Hdrs,
                      ~dtls13_AeadLimitReached, handled[n] = 0,
                      n + (RecvdWindow - ByteBits) >= nextSeqNum - 1,
                      Recoverable(n, hdr)
               PROVE  /\ dtls_ReadSequenceNumber(n, hdr) = n
                      /\ Passes(n)
    BY DEF LateRecordAccepted
  <2>1. /\ n \in Nat /\ n < MaxRecords /\ left \in Nat /\ right \in Nat
        /\ nextSeqNum \in Nat /\ RecvdWindow \in Nat /\ ByteBits \in Nat
    BY LimitAssumption, RingAssumption, WindowPositive
       DEF IInv, ReadTypeOK, SeqNums
  <2>2. dtls_ReadSequenceNumber(n, hdr) = n
    BY <2>1, RecoverExact
  <2>3. n >= left
    BY <2>1 DEF IInv, NextInWindow, Aligned
  <2>4. n > right \/ Bit(n) \notin data[Byte(n)]
    BY <2>1, <2>3 DEF IInv, RingExact
  <2> QED
    BY <2>1, <2>2, <2>3, <2>4
       DEF Passes, dtls_IsRelevant, dtls_RecordGetRecvd
<1> QED
  BY <1>1, IInvHolds, PTL

-----------------------------------------------------------------------------
(* Tls13AntiReplay.                                                        *)

\* What a thread is checking passed the age check not long ago.
Checked ==
    \A th \in Threads :
        checking[th] # None =>
            /\ checkedAt[th] <= now /\ now - checkedAt[th] <= MaxDelay
            /\ checkedAt[th] >= creationTime[checking[th]]
            /\ checking[th] \in External \/ tls13_InWindow(checking[th], checkedAt[th])

\* An attempt that was accepted was in the window then.
WasInWindow(a) ==
    \E p \in Nat : /\ p >= creationTime[a] /\ p <= acceptedAt[a]
                   /\ tls13_InWindow(a, p)

\* Where it is recorded: fs are the filters, i is in use, until the time t.
Recorded(a, fs, i, t) ==
    \/ Hash[a] \subseteq fs[i]
    \/ Hash[a] \subseteq fs[Other(i)] /\ t >= acceptedAt[a] + Window
    \/ t - Window >= acceptedAt[a] + Window

Accepted(a) ==
    acceptedAt[a] # Never =>
        /\ acceptedAt[a] <= now
        /\ WasInWindow(a)
        /\ Recorded(a, filters, current, nextUpdate)

AntiReplayIInv ==
    /\ TypeOK
    /\ Checked
    /\ nextUpdate - Window <= now
    /\ \A a \in Attempts \ External : Accepted(a)
    /\ AcceptedOnce

-----------------------------------------------------------------------------
(* The age check.                                                          *)

\* Division by a positive number, as the provers need it.
LEMMA Division ==
    ASSUME NEW n \in Nat, NEW d \in Nat \ {0}
    PROVE  /\ (n \div d) \in Nat
           /\ d * (n \div d) <= n /\ n < d * ((n \div d) + 1)
OBVIOUS

\* Multiplication keeps the order.
LEMMA Monotone ==
    ASSUME NEW d \in Nat, NEW m \in Int, NEW n \in Int, m <= n
    PROVE  d * m <= d * n
OBVIOUS

\* Two moments at which the same attempt is in the window are less than a
\* window apart, even if the second is used a millisecond later.
LEMMA WindowIsShort ==
    ASSUME NEW a \in Attempts, NEW p \in Nat, NEW q \in Nat,
           p >= creationTime[a], q >= creationTime[a],
           tls13_InWindow(a, p), tls13_InWindow(a, q)
    PROVE  q - p + UsecPerMsec < Window
<1> DEFINE K == UsecPerMsec
           A == Allowance
           c == creationTime[a]
           g == ticketAge[a]
           P == (p - c) \div K
           Q == (q - c) \div K
<1>1. K \in Nat \ {0} /\ Window \in Nat \ {0} /\ c \in Nat /\ g \in Nat
  BY WindowAssumption, AttemptsAssumption
<1>2. p - c \in Nat /\ q - c \in Nat BY <1>1
<1>3. P \in Nat /\ K * P <= p - c BY Zenon, <1>1, <1>2, Division
<1>4. Q \in Nat /\ q - c < K * (Q + 1) BY ZenonT(60), <1>1, <1>2, Division
<1>5. Abs(g - P) < A /\ Abs(g - Q) < A BY DEF tls13_InWindow
<1>6. K * 2 \in Nat \ {0} BY <1>1
<1>7. A \in Nat /\ (K * 2) * A <= Window BY ZenonT(60), <1>1, <1>6, Division DEF Allowance
<1> HIDE DEF K, A, c, g, P, Q
<1>8. Q + 1 <= P + 2 * A - 1
  BY <1>1, <1>3, <1>4, <1>5, <1>7 DEF Abs
<1>9. K * (Q + 1) <= K * (P + 2 * A - 1) BY <1>1, <1>3, <1>4, <1>7, <1>8, Monotone
<1>10. K * (P + 2 * A - 1) = K * P + (K * 2) * A - K BY <1>1, <1>3, <1>7
<1>11. K * P \in Int /\ K * (Q + 1) \in Int /\ (K * 2) * A \in Int BY <1>1, <1>3, <1>4, <1>7
<1>12. q - c < (p - c) + Window - K BY <1>1, <1>2, <1>3, <1>4, <1>7, <1>9, <1>10, <1>11
<1> QED BY <1>1, <1>2, <1>12 DEF K

-----------------------------------------------------------------------------
(* The steps.                                                              *)

\* The context has just been created, and nothing was accepted.
LEMMA AntiReplayInitIInv == Init => AntiReplayIInv
<1> SUFFICES ASSUME Init PROVE AntiReplayIInv OBVIOUS
<1>1. filters \in [0..1 -> SUBSET Bits] BY DEF Init, CreatedFilters
<1>2. TypeOK BY <1>1, WindowAssumption DEF Init, TypeOK, Never
<1>3. Checked BY DEF Init, Checked
<1>4. \A a \in Attempts \ External : Accepted(a) BY DEF Init, Accepted
<1>5. nextUpdate - Window <= now BY WindowAssumption DEF Init
<1> QED BY <1>2, <1>3, <1>4, <1>5 DEF Init, AntiReplayIInv, AcceptedOnce

\* tls13_AntiReplayUpdate loses no attempt that could come again.
LEMMA UpdatedKeeps ==
    ASSUME AntiReplayIInv, NEW u, u = Updated
    PROVE  /\ u.current \in 0..1 /\ u.nextUpdate \in Nat /\ u.nextUpdate - Window <= now
           /\ u.filters \in [0..1 -> SUBSET Bits]
           /\ \A a \in Attempts \ External :
                 acceptedAt[a] # Never => Recorded(a, u.filters, u.current, u.nextUpdate)
<1>1. TypeOK /\ Window \in Nat \ {0} BY WindowAssumption DEF AntiReplayIInv
<1>2. CASE now >= nextUpdate
  <2>1. /\ u.current = Other(current) /\ u.nextUpdate = now + Window
        /\ u.filters = [filters EXCEPT ![Other(current)] = {}]
    BY <1>2 DEF Updated
  <2>2. Other(current) \in 0..1 /\ Other(Other(current)) = current /\ Other(current) # current
    BY <1>1 DEF TypeOK, Other
  <2>3. u.filters \in [0..1 -> SUBSET Bits] /\ u.filters[current] = filters[current]
    BY <1>1, <2>1, <2>2 DEF TypeOK
  <2>4. ASSUME NEW a \in Attempts \ External, acceptedAt[a] # Never
        PROVE  Recorded(a, u.filters, u.current, u.nextUpdate)
    <3>1. acceptedAt[a] \in Nat /\ acceptedAt[a] <= now
          /\ Recorded(a, filters, current, nextUpdate)
      BY <1>1, <2>4 DEF AntiReplayIInv, Accepted, TypeOK
    <3>2. now \in Nat /\ nextUpdate \in Nat BY <1>1 DEF TypeOK
    <3>3. CASE Hash[a] \subseteq filters[current]
      BY <1>1, <2>1, <2>2, <2>3, <3>1, <3>2, <3>3 DEF Recorded
    <3>4. CASE nextUpdate >= acceptedAt[a] + Window
      BY <1>1, <1>2, <2>1, <3>1, <3>2, <3>4 DEF Recorded
    <3>5. CASE nextUpdate - Window >= acceptedAt[a] + Window
      BY <1>1, <1>2, <2>1, <3>1, <3>2, <3>5 DEF Recorded
    <3> QED BY <3>1, <3>3, <3>4, <3>5 DEF Recorded
  <2>5. u.nextUpdate \in Nat /\ u.nextUpdate - Window <= now BY <1>1, <2>1 DEF TypeOK
  <2> QED BY ZenonT(60), <2>1, <2>2, <2>3, <2>4, <2>5
<1>3. CASE ~(now >= nextUpdate)
  <2>1. u.current = current /\ u.nextUpdate = nextUpdate /\ u.filters = filters
    BY <1>3 DEF Updated
  <2>2. /\ current \in 0..1 /\ nextUpdate \in Nat /\ nextUpdate - Window <= now
        /\ filters \in [0..1 -> SUBSET Bits]
    BY <1>1 DEF AntiReplayIInv, TypeOK
  <2>3. ASSUME NEW a \in Attempts \ External, acceptedAt[a] # Never
        PROVE  Recorded(a, filters, current, nextUpdate)
    BY <2>3 DEF AntiReplayIInv, Accepted
  <2> QED BY <2>1, <2>2, <2>3
<1> QED BY <1>2, <1>3

\* An attempt that is found in neither filter was never accepted.
LEMMA NotFoundNotAccepted ==
    ASSUME AntiReplayIInv, NEW u, u = Updated, NEW th \in Threads,
           NEW a \in Attempts \ External, checking[th] = a, ~Found(a, u)
    PROVE  acceptedAt[a] = Never
<1> SUFFICES ASSUME acceptedAt[a] # Never PROVE FALSE OBVIOUS
<1>1. TypeOK /\ Window \in Nat \ {0} /\ UsecPerMsec \in Nat \ {0} /\ a # None
      /\ MaxDelay \in Nat /\ MaxDelay <= UsecPerMsec
  BY WindowAssumption, AttemptsAssumption, DelayAssumption DEF AntiReplayIInv
<1>2. /\ acceptedAt[a] \in Nat
      /\ Recorded(a, u.filters, u.current, u.nextUpdate)
      /\ u.nextUpdate \in Nat /\ u.nextUpdate - Window <= now
  BY <1>1, UpdatedKeeps DEF TypeOK
<1>3. u.nextUpdate - Window >= acceptedAt[a] + Window BY <1>2 DEF Recorded, Found
<1>4. WasInWindow(a) BY DEF AntiReplayIInv, Accepted
<1>5. PICK p \in Nat : p >= creationTime[a] /\ p <= acceptedAt[a] /\ tls13_InWindow(a, p)
  BY <1>4 DEF WasInWindow
<1> DEFINE q == checkedAt[th]
<1>6. /\ q \in Nat /\ q <= now /\ now - q <= MaxDelay /\ q >= creationTime[a]
      /\ tls13_InWindow(a, q)
  BY <1>1 DEF AntiReplayIInv, Checked, TypeOK
<1> HIDE DEF q
<1>7. q - p + UsecPerMsec < Window BY <1>5, <1>6, WindowIsShort
<1>8. now \in Nat BY <1>1 DEF TypeOK
<1> QED BY <1>1, <1>2, <1>3, <1>5, <1>6, <1>7, <1>8

\* The check of the age.
LEMMA CheckAgeIInv ==
    ASSUME AntiReplayIInv, NEW th \in Threads, NEW a \in Attempts, CheckAge(th, a)
    PROVE  AntiReplayIInv'
<1>1. /\ now >= creationTime[a] /\ (a \in External \/ tls13_InWindow(a, now))
      /\ checking' = [checking EXCEPT ![th] = a] /\ checkedAt' = [checkedAt EXCEPT ![th] = now]
      /\ UNCHANGED <<now, ctx, history>>
  BY DEF CheckAge
<1>2. TypeOK BY DEF AntiReplayIInv
<1>3. TypeOK' BY <1>1, <1>2 DEF TypeOK, ctx, history
<1>4. MaxDelay \in Nat BY DelayAssumption, WindowAssumption
<1>5. ASSUME NEW t \in Threads, checking'[t] # None
      PROVE  /\ checkedAt'[t] <= now' /\ now' - checkedAt'[t] <= MaxDelay
             /\ checkedAt'[t] >= creationTime[checking'[t]]
             /\ checking'[t] \in External \/ tls13_InWindow(checking'[t], checkedAt'[t])
  <2>1. CASE t = th
    <3>1. checking'[t] = a /\ checkedAt'[t] = now /\ now' = now BY <1>1, <1>2, <2>1 DEF TypeOK
    <3>2. now \in Nat BY <1>2 DEF TypeOK
    <3> QED BY <1>1, <1>4, <3>1, <3>2
  <2>2. CASE t # th
    <3>1. checking'[t] = checking[t] /\ checkedAt'[t] = checkedAt[t] /\ now' = now
      BY <1>1, <1>2, <2>2 DEF TypeOK
    <3> QED BY <1>5, <3>1 DEF AntiReplayIInv, Checked
  <2> QED BY <2>1, <2>2
<1>6. Checked' BY Zenon, <1>5 DEF Checked, tls13_InWindow, Allowance
<1>7. \A b \in Attempts \ External : Accepted(b)'
  BY <1>1 DEF AntiReplayIInv, Accepted, WasInWindow, Recorded, ctx, history
<1> QED BY <1>1, <1>3, <1>6, <1>7 DEF AntiReplayIInv, AcceptedOnce, ctx, history

\* A thread that is done is not checking anything.
LEMMA ReturnChecked ==
    ASSUME AntiReplayIInv, NEW th \in Threads, Return(th), now' = now
    PROVE  /\ Checked'
           /\ checking' \in [Threads -> Attempts \cup {None}]
           /\ checkedAt' \in [Threads -> Nat]
<1>1. TypeOK BY DEF AntiReplayIInv
<1>2. checking' = [checking EXCEPT ![th] = None] /\ checkedAt' = [checkedAt EXCEPT ![th] = 0]
  BY DEF Return
<1>3. ASSUME NEW t \in Threads, checking'[t] # None
      PROVE  checking'[t] = checking[t] /\ checkedAt'[t] = checkedAt[t]
  BY <1>1, <1>2, <1>3 DEF TypeOK
<1>4. ASSUME NEW t \in Threads, checking'[t] # None
      PROVE  /\ checkedAt'[t] <= now' /\ now' - checkedAt'[t] <= MaxDelay
             /\ checkedAt'[t] >= creationTime[checking'[t]]
             /\ checking'[t] \in External \/ tls13_InWindow(checking'[t], checkedAt'[t])
  <2>1. checking'[t] = checking[t] /\ checkedAt'[t] = checkedAt[t] BY <1>3, <1>4
  <2> QED BY <1>4, <2>1 DEF AntiReplayIInv, Checked
<1>5. Checked' BY <1>4 DEF Checked, tls13_InWindow, Allowance
<1> QED BY <1>1, <1>2, <1>5 DEF TypeOK

\* A failed derivation leaves the context alone.
LEMMA HashFailsIInv ==
    ASSUME AntiReplayIInv, NEW th \in Threads, HashFails(th)
    PROVE  AntiReplayIInv'
<1>1. Return(th) /\ UNCHANGED <<now, ctx, history>> BY DEF HashFails
<1>2. /\ Checked' /\ checking' \in [Threads -> Attempts \cup {None}]
      /\ checkedAt' \in [Threads -> Nat]
  BY <1>1, ReturnChecked
<1>3. TypeOK' BY <1>1, <1>2 DEF AntiReplayIInv, TypeOK, ctx, history
<1>4. \A b \in Attempts \ External : Accepted(b)'
  BY <1>1 DEF AntiReplayIInv, Accepted, WasInWindow, Recorded, ctx, history
<1> QED BY <1>1, <1>2, <1>3, <1>4 DEF AntiReplayIInv, AcceptedOnce, ctx, history

\* Time passes only while no thread is held up.
LEMMA TickIInv == ASSUME AntiReplayIInv, Tick PROVE AntiReplayIInv'
<1>1. TypeOK BY DEF AntiReplayIInv
<1>2. /\ now' = now + 1 /\ UNCHANGED <<ctx, checking, checkedAt, history>>
      /\ \A th \in Threads : checking[th] # None => now + 1 - checkedAt[th] <= MaxDelay
  BY DEF Tick
<1>3. TypeOK' BY <1>1, <1>2 DEF TypeOK, ctx, history
<1>4. ASSUME NEW t \in Threads, checking'[t] # None
      PROVE  /\ checkedAt'[t] <= now' /\ now' - checkedAt'[t] <= MaxDelay
             /\ checkedAt'[t] >= creationTime[checking'[t]]
             /\ checking'[t] \in External \/ tls13_InWindow(checking'[t], checkedAt'[t])
  <2>1. checking'[t] = checking[t] /\ checkedAt'[t] = checkedAt[t] BY <1>2
  <2>2. checkedAt[t] \in Nat /\ now \in Nat BY <1>1 DEF TypeOK
  <2>3. checkedAt[t] <= now BY <1>4, <2>1 DEF AntiReplayIInv, Checked
  <2> QED BY <1>2, <1>4, <2>1, <2>2, <2>3 DEF AntiReplayIInv, Checked
<1>5. Checked' BY <1>4 DEF Checked, tls13_InWindow, Allowance
<1>6. ASSUME NEW b \in Attempts \ External PROVE Accepted(b)'
  <2>1. acceptedAt' = acceptedAt BY <1>2 DEF history
  <2>2. acceptedAt[b] # Never => acceptedAt[b] \in Nat /\ now \in Nat BY <1>1 DEF TypeOK
  <2>3. acceptedAt[b] # Never => acceptedAt[b] <= now' BY <1>2, <2>2 DEF AntiReplayIInv, Accepted
  <2> QED BY <1>2, <2>1, <2>3 DEF AntiReplayIInv, Accepted, WasInWindow, Recorded, ctx
<1>7. nextUpdate' - Window <= now' BY <1>1, <1>2, WindowAssumption DEF AntiReplayIInv, TypeOK, ctx
<1> QED BY <1>2, <1>3, <1>5, <1>6, <1>7 DEF AntiReplayIInv, AcceptedOnce, history

\* The full filter of a new context stands for all that was accepted before.
LEMMA RestartIInv == ASSUME AntiReplayIInv, Restart PROVE AntiReplayIInv'
<1>1. TypeOK /\ Window \in Nat \ {0} BY WindowAssumption DEF AntiReplayIInv
<1>2. /\ filters' = CreatedFilters /\ current' = 0 /\ nextUpdate' = now + Window
      /\ checking' = [th \in Threads |-> None] /\ checkedAt' = [th \in Threads |-> 0]
      /\ started' = now /\ seen' = {} /\ restarts' = restarts + 1
      /\ UNCHANGED <<now, acceptedAt, repeated>>
  BY DEF Restart
<1>3. filters' \in [0..1 -> SUBSET Bits] /\ filters'[1] = Bits BY <1>2 DEF CreatedFilters
<1>4. TypeOK' BY <1>1, <1>2, <1>3 DEF TypeOK
<1>5. Checked' BY <1>2 DEF Checked
<1>6. nextUpdate' - Window <= now' BY <1>1, <1>2 DEF TypeOK
<1>7. ASSUME NEW b \in Attempts \ External PROVE Accepted(b)'
  <2> SUFFICES ASSUME acceptedAt[b] # Never PROVE Accepted(b)' BY <1>2 DEF Accepted
  <2>1. /\ acceptedAt[b] \in Nat /\ acceptedAt[b] <= now /\ WasInWindow(b) /\ now \in Nat
    BY <1>1 DEF AntiReplayIInv, Accepted, TypeOK
  <2>2. Hash[b] \subseteq Bits BY AttemptsAssumption
  <2>3. Hash[b] \subseteq filters'[Other(current')] BY <1>2, <1>3, <2>2 DEF Other
  <2>4. nextUpdate' >= acceptedAt[b] + Window BY <1>1, <1>2, <2>1
  <2>5. Recorded(b, filters, current, nextUpdate)' BY <1>2, <2>3, <2>4 DEF Recorded
  <2>6. WasInWindow(b)' BY <1>2, <2>1 DEF WasInWindow
  <2> QED BY <1>2, <2>1, <2>5, <2>6 DEF Accepted
<1> QED BY <1>2, <1>4, <1>5, <1>6, <1>7 DEF AntiReplayIInv, AcceptedOnce

\* The filters in the monitor: what is accepted is recorded, once.
LEMMA IsReplayIInv ==
    ASSUME AntiReplayIInv, NEW th \in Threads, tls13_IsReplay(th)
    PROVE  AntiReplayIInv'
<1> DEFINE a == checking[th]
           u == Updated
<1>1. TypeOK /\ Window \in Nat \ {0} BY Zenon, WindowAssumption DEF AntiReplayIInv
<1>2. a \in Attempts BY Zenon, <1>1 DEF tls13_IsReplay, TypeOK
<1>3. /\ current' = u.current /\ nextUpdate' = u.nextUpdate
      /\ filters' = [u.filters EXCEPT ![u.current] = @ \cup Hash[a]]
      /\ Return(th) /\ seen' = seen \cup {a}
      /\ IF Found(a, u) THEN UNCHANGED <<acceptedAt, repeated>> ELSE Accept(a)
      /\ UNCHANGED <<now, started, restarts>>
  BY Zenon DEF tls13_IsReplay
<1>4. /\ u.current \in 0..1 /\ u.nextUpdate \in Nat /\ u.nextUpdate - Window <= now
      /\ u.filters \in [0..1 -> SUBSET Bits]
      /\ \A b \in Attempts \ External :
            acceptedAt[b] # Never => Recorded(b, u.filters, u.current, u.nextUpdate)
  BY Zenon, UpdatedKeeps
<1>5. a \notin External /\ ~Found(a, u) => acceptedAt[a] = Never
  BY Zenon, <1>2, NotFoundNotAccepted
<1>6. a \notin External =>
         /\ a # None /\ checkedAt[th] \in Nat /\ checkedAt[th] <= now
         /\ checkedAt[th] >= creationTime[a] /\ tls13_InWindow(a, checkedAt[th])
  BY Zenon, <1>1, <1>2, AttemptsAssumption DEF AntiReplayIInv, Checked, TypeOK
<1> HIDE DEF a, u
<1>7. /\ Checked' /\ checking' \in [Threads -> Attempts \cup {None}]
      /\ checkedAt' \in [Threads -> Nat]
  BY <1>3, ReturnChecked
<1>8. Hash[a] \subseteq Bits BY Zenon, <1>2, AttemptsAssumption
<1>9. /\ filters' \in [0..1 -> SUBSET Bits]
      /\ \A i \in 0..1 : u.filters[i] \subseteq filters'[i]
      /\ Hash[a] \subseteq filters'[current']
  BY <1>3, <1>4, <1>8
<1>10. repeated' = {} /\ repeated' \subseteq Attempts
  BY <1>3, <1>5 DEF AntiReplayIInv, AcceptedOnce, Accept
<1>11. acceptedAt' \in [Attempts \ External -> Nat \cup {Never}]
  BY Zenon, <1>1, <1>3 DEF TypeOK, Accept
<1>12. TypeOK' BY Zenon, <1>1, <1>2, <1>3, <1>4, <1>7, <1>9, <1>10, <1>11 DEF TypeOK
<1>13. ASSUME NEW b \in Attempts \ External PROVE Accepted(b)'
  <2>1. CASE acceptedAt'[b] = acceptedAt[b]
    <3> SUFFICES ASSUME acceptedAt[b] # Never PROVE Accepted(b)' BY <2>1 DEF Accepted
    <3>1. acceptedAt[b] <= now /\ WasInWindow(b) BY DEF AntiReplayIInv, Accepted
    <3>2. Recorded(b, u.filters, u.current, u.nextUpdate) BY <1>4
    <3>3. Other(u.current) \in 0..1 BY <1>4, SMTT(60) DEF Other
    <3>4. Recorded(b, filters, current, nextUpdate)'
      BY ZenonT(60), <1>3, <1>4, <1>9, <2>1, <3>2, <3>3 DEF Recorded
    <3>5. WasInWindow(b)' BY <2>1, <3>1 DEF WasInWindow
    <3> QED BY Zenon, <1>3, <2>1, <3>1, <3>4, <3>5 DEF Accepted
  <2>2. CASE acceptedAt'[b] # acceptedAt[b]
    <3>1. ~Found(a, u) /\ a \notin External
          /\ acceptedAt' = [acceptedAt EXCEPT ![a] = now]
      BY <1>3, <2>2 DEF Accept
    <3>2. b = a /\ acceptedAt'[b] = now BY <1>1, <2>2, <3>1 DEF TypeOK
    <3>3. Recorded(b, filters, current, nextUpdate)' BY <1>9, <3>2 DEF Recorded
    <3>4. WasInWindow(b)'
      <4> DEFINE q == checkedAt[th]
      <4>1. /\ q \in Nat /\ q <= acceptedAt'[b] /\ q >= creationTime[b]
            /\ tls13_InWindow(b, q)
        BY Zenon, <1>6, <3>1, <3>2
      <4> HIDE DEF q
      <4> QED BY <4>1 DEF WasInWindow, tls13_InWindow, Allowance
    <3>5. now' = now /\ now \in Nat BY Zenon, <1>1, <1>3 DEF TypeOK
    <3> QED BY SMTT(60), <3>2, <3>3, <3>4, <3>5 DEF Accepted
  <2> QED BY Zenon, <2>1, <2>2
<1>14. nextUpdate' - Window <= now' BY <1>3, <1>4
<1> QED BY <1>7, <1>10, <1>12, <1>13, <1>14 DEF AntiReplayIInv, AcceptedOnce

-----------------------------------------------------------------------------

\* Every step keeps the invariant.
LEMMA AntiReplayNextIInv == AntiReplayIInv /\ [Next]_vars => AntiReplayIInv'
<1> SUFFICES ASSUME AntiReplayIInv, [Next]_vars PROVE AntiReplayIInv' OBVIOUS
<1>1. CASE UNCHANGED vars
  BY <1>1 DEF vars, ctx, history, AntiReplayIInv, TypeOK, Checked, Accepted, WasInWindow,
              Recorded, AcceptedOnce
<1>2. ASSUME NEW th \in Threads, NEW a \in Attempts, CheckAge(th, a) PROVE AntiReplayIInv'
  BY <1>2, CheckAgeIInv
<1>3. ASSUME NEW th \in Threads, HashFails(th) PROVE AntiReplayIInv' BY <1>3, HashFailsIInv
<1>4. ASSUME NEW th \in Threads, tls13_IsReplay(th) PROVE AntiReplayIInv' BY <1>4, IsReplayIInv
<1>5. CASE Restart BY <1>5, RestartIInv
<1>6. CASE Tick BY <1>6, TickIInv
<1> QED BY <1>1, <1>2, <1>3, <1>4, <1>5, <1>6 DEF Next

\* The inductive invariant holds of tls13_IsReplay and its context.
THEOREM AntiReplayIInvHolds == Spec => []AntiReplayIInv
BY AntiReplayInitIInv, AntiReplayNextIInv, PTL DEF Spec

\* The context keeps its types.
THEOREM AntiReplayTypeCorrect == Spec => []TypeOK
BY AntiReplayIInvHolds, PTL DEF AntiReplayIInv

\* tls13_IsReplay lets an attempt with a ticket through once, whatever the
\* window, the hashes, the threads and the restarts, as long as no thread is
\* held up for more than a millisecond between the age check and the monitor.
THEOREM EarlyDataOnce == Spec => []AcceptedOnce
BY AntiReplayIInvHolds, PTL DEF AntiReplayIInv

\* The bits of the attempts that reached a filter.
SeenBits == UNION {Hash[b] : b \in seen}

\* The filter in use holds nothing else, and once one was zeroed neither does
\* the other.
FilledBySeen ==
    /\ started + Window <= nextUpdate
    /\ filters[current] \subseteq SeenBits
    /\ nextUpdate # started + Window => filters[Other(current)] \subseteq SeenBits

LEMMA InitFilled == Init => FilledBySeen
<1> SUFFICES ASSUME Init PROVE FilledBySeen OBVIOUS
<1>1. started + Window = nextUpdate /\ started + Window <= nextUpdate
  BY WindowAssumption DEF Init
<1>2. filters[current] = {} BY DEF Init, CreatedFilters
<1> QED BY Zenon, <1>1, <1>2 DEF FilledBySeen

\* What tls13_AntiReplayUpdate leaves in the filters.
LEMMA UpdatedFilled ==
    ASSUME TypeOK, FilledBySeen
    PROVE  /\ Updated.current \in 0..1
           /\ Updated.filters \in [0..1 -> SUBSET Bits]
           /\ started + Window <= Updated.nextUpdate
           /\ Updated.filters[Updated.current] \subseteq SeenBits
           /\ (Updated.nextUpdate # started + Window \/ now >= started + Window)
                => Updated.filters[Other(Updated.current)] \subseteq SeenBits
<1>1. /\ current \in 0..1 /\ filters \in [0..1 -> SUBSET Bits]
      /\ now \in Nat /\ nextUpdate \in Nat /\ started \in Nat /\ Window \in Nat \ {0}
  BY WindowAssumption DEF TypeOK
<1>2. /\ Other(current) \in 0..1 /\ Other(current) # current /\ Other(Other(current)) = current
  BY <1>1 DEF Other
<1>3. CASE now >= nextUpdate
  <2>1. /\ Updated.current = Other(current) /\ Updated.nextUpdate = now + Window
        /\ Updated.filters = [filters EXCEPT ![Other(current)] = {}]
    BY Zenon, <1>3 DEF Updated
  <2>2. /\ Updated.filters[Other(current)] = {} /\ Updated.filters[current] = filters[current]
        /\ Updated.filters \in [0..1 -> SUBSET Bits]
    BY <1>1, <1>2, <2>1
  <2>3. started + Window <= now + Window BY <1>1, <1>3 DEF FilledBySeen
  <2> QED BY Zenon, <1>2, <2>1, <2>2, <2>3 DEF FilledBySeen
<1>4. CASE ~(now >= nextUpdate)
  <2>1. Updated.current = current /\ Updated.nextUpdate = nextUpdate /\ Updated.filters = filters
    BY Zenon, <1>4 DEF Updated
  <2>2. now >= started + Window => nextUpdate # started + Window BY <1>1, <1>4
  <2> QED BY Zenon, <1>1, <2>1, <2>2 DEF FilledBySeen
<1> QED BY <1>3, <1>4

LEMMA IsReplayFilled ==
    ASSUME TypeOK, FilledBySeen, NEW th \in Threads, tls13_IsReplay(th)
    PROVE  FilledBySeen'
<1> DEFINE a == checking[th]
           u == Updated
<1>1. /\ current' = u.current /\ nextUpdate' = u.nextUpdate /\ started' = started
      /\ filters' = [u.filters EXCEPT ![u.current] = u.filters[u.current] \cup Hash[a]]
      /\ seen' = seen \cup {a}
  BY Zenon DEF tls13_IsReplay
<1>2. /\ u.current \in 0..1 /\ u.filters \in [0..1 -> SUBSET Bits]
      /\ started + Window <= u.nextUpdate
      /\ u.filters[u.current] \subseteq SeenBits
      /\ u.nextUpdate # started + Window => u.filters[Other(u.current)] \subseteq SeenBits
  BY Zenon, UpdatedFilled
<1> HIDE DEF u, a
<1>3. Other(u.current) \in 0..1 /\ Other(u.current) # u.current BY <1>2 DEF Other
<1>4. /\ filters'[u.current] = u.filters[u.current] \cup Hash[a]
      /\ filters'[Other(u.current)] = u.filters[Other(u.current)]
  BY Zenon, <1>1, <1>2, <1>3
<1>5. SeenBits \cup Hash[a] \subseteq SeenBits' BY Zenon, <1>1 DEF SeenBits
<1>6. Other(current)' = Other(u.current) BY Zenon, <1>1 DEF Other
<1> QED BY Zenon, <1>1, <1>2, <1>4, <1>5, <1>6 DEF FilledBySeen

LEMMA NextFilled == TypeOK /\ FilledBySeen /\ [Next]_vars => FilledBySeen'
<1> SUFFICES ASSUME TypeOK, FilledBySeen, [Next]_vars PROVE FilledBySeen' OBVIOUS
<1>1. ASSUME UNCHANGED <<ctx, started, seen>> PROVE FilledBySeen'
  BY Zenon, <1>1 DEF ctx, FilledBySeen, SeenBits, Other
<1>2. ASSUME NEW th \in Threads, NEW a \in Attempts, CheckAge(th, a) PROVE FilledBySeen'
  BY Zenon, <1>1, <1>2 DEF CheckAge, history
<1>3. ASSUME NEW th \in Threads, HashFails(th) PROVE FilledBySeen'
  BY Zenon, <1>1, <1>3 DEF HashFails, history
<1>4. ASSUME NEW th \in Threads, tls13_IsReplay(th) PROVE FilledBySeen'
  BY Zenon, <1>4, IsReplayFilled
<1>5. CASE Restart
  <2>1. /\ started' = now /\ nextUpdate' = now + Window /\ current' = 0
        /\ filters' = CreatedFilters
    BY Zenon, <1>5 DEF Restart
  <2>2. now + Window <= now + Window BY WindowAssumption DEF TypeOK
  <2>3. CreatedFilters[0] = {} BY DEF CreatedFilters
  <2> QED BY Zenon, <2>1, <2>2, <2>3 DEF FilledBySeen
<1>6. CASE Tick BY Zenon, <1>1, <1>6 DEF Tick, history
<1>7. CASE UNCHANGED vars BY Zenon, <1>1, <1>7 DEF vars, history
<1> QED BY Zenon, <1>2, <1>3, <1>4, <1>5, <1>6, <1>7 DEF Next

LEMMA FirstStep ==
    ASSUME TypeOK, FilledBySeen, NEW th \in Threads, NEW a \in Attempts \ (seen \cup External),
           tls13_IsReplay(th), checking[th] = a, Distinct(a), now >= started + Window
    PROVE  acceptedAt'[a] = now
<1> DEFINE u == Updated
<1>1. /\ u.filters[u.current] \subseteq SeenBits
      /\ u.filters[Other(u.current)] \subseteq SeenBits
  BY Zenon, UpdatedFilled
<1>2. ~(Hash[a] \subseteq SeenBits)
  <2>1. seen \subseteq Attempts \ {a} BY Zenon DEF TypeOK
  <2>2. SeenBits \subseteq UNION {Hash[b] : b \in Attempts \ {a}} BY Zenon, <2>1 DEF SeenBits
  <2> QED BY Zenon, <2>2 DEF Distinct
<1>3. ~Found(a, u) BY Zenon, <1>1, <1>2 DEF Found
<1>4. Accept(a) BY Zenon, <1>3 DEF tls13_IsReplay
<1>5. acceptedAt' = [acceptedAt EXCEPT ![a] = now] BY Zenon, <1>4 DEF Accept
<1>6. a \in DOMAIN acceptedAt BY Zenon DEF TypeOK
<1> QED BY Zenon, <1>5, <1>6

\* An attempt in time that reaches the monitor for the first time is accepted
\* once a window has passed since the context was created, if no other attempts
\* fill its bits: tls13_AntiReplayUpdate always zeroes the older filter.
THEOREM FirstAccepted == Spec => FirstIsAccepted
<1> DEFINE First == \A th \in Threads : \A a \in Attempts \ (seen \cup External) :
          (tls13_IsReplay(th) /\ checking[th] = a /\ Distinct(a)
              /\ now >= started + Window)
          => acceptedAt'[a] = now
<1>1. Init => FilledBySeen BY InitFilled
<1>2. TypeOK /\ FilledBySeen /\ [Next]_vars => FilledBySeen' BY NextFilled
<1>3. TypeOK /\ FilledBySeen /\ [Next]_vars => [First]_vars BY Zenon, FirstStep
<1> HIDE DEF First
<1>4. Spec => [][First]_vars BY <1>1, <1>2, <1>3, AntiReplayTypeCorrect, PTL DEF Spec
<1> QED BY <1>4 DEF FirstIsAccepted, First
=============================================================================
