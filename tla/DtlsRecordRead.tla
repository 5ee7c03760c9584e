--------------------------- MODULE DtlsRecordRead ---------------------------
(***************************************************************************)
(* The receive side of one DTLS cipher spec (one epoch): the sequence      *)
(* number is recovered from the header (dtls_ReadSequenceNumber), checked  *)
(* against the anti-replay ring (dtls_RecordGetRecvd), the record is       *)
(* unprotected, and the ring and the next expected number are advanced     *)
(* (dtls_RecordSetRecvd).  The peer writes records 0, 1, 2, ... and the    *)
(* network may drop, repeat and reorder them and add records of its own.   *)
(*                                                                         *)
(* Record contents are abstracted: unprotecting succeeds exactly when the  *)
(* record was written by the peer and the number recovered for it is the   *)
(* one it was written under, because that number is the AEAD nonce.        *)
(***************************************************************************)
EXTENDS Integers

CONSTANTS
    ByteBits,     \* bits in a byte of the ring (8 in the code)
    RingBytes,    \* bytes in the ring (DTLS_RECVD_RECORDS_WINDOW / 8)
    HdrRanges,    \* 2^w for each short header with w sequence number bits
    LongHeader,   \* the header with the 48-bit number (dtls_IsLongHeader)
    MaxRecords,   \* cipherDef->max_records
    AeadLimit     \* failed unprotections tolerated (2^36 in the code)

ASSUME RingAssumption == ByteBits \in Nat \ {0} /\ RingBytes \in Nat \ {0}
ASSUME HdrAssumption == HdrRanges \subseteq Nat \ {0}
ASSUME LimitAssumption == MaxRecords \in Nat /\ AeadLimit \in Nat \ {0}

VARIABLES
    left, right,            \* DTLSRecvdRecords.left and .right
    data,                   \* the ring: the bits set in each byte
    nextSeqNum,             \* spec->nextSeqNum of the reader
    deprotectionFailures,   \* spec->deprotectionFailures
    peerNext,               \* nextSeqNum of the peer's write spec
    handled                 \* how often record n was handed up (history)

ring == <<left, right, data>>
readVars == <<ring, nextSeqNum, deprotectionFailures, peerNext, handled>>

RecvdWindow == ByteBits * RingBytes
SeqNums == 0..(MaxRecords - 1)
BytesOfRing == 0..(RingBytes - 1)
BitsOfByte == 0..(ByteBits - 1)

Byte(seq) == (seq % RecvdWindow) \div ByteBits
Bit(seq) == (seq % RecvdWindow) % ByteBits

-----------------------------------------------------------------------------
(* The header.  A long header carries the whole number; a short one its    *)
(* residue modulo range, completed from the next number expected.         *)

dtls_ReadSequenceNumber(num, hdr) ==
    IF hdr = LongHeader THEN num
    ELSE LET partial == num % hdr
             cap == nextSeqNum + hdr \div 2
             low == cap % hdr
             seqNum == (cap - low) + partial
         IN  IF partial > low /\ seqNum > hdr - 1
             THEN seqNum - hdr
             ELSE seqNum

(* dtls_RecordGetRecvd: -1 too old, 0 not seen, 1 replay *)
dtls_RecordGetRecvd(seq) ==
    IF seq < left THEN -1
    ELSE IF seq > right THEN 0
    ELSE IF Bit(seq) \in data[Byte(seq)] THEN 1 ELSE 0

(* Mutant of dtls_IsRelevant: only a replay is dropped, not what is too old. *)
dtls_IsRelevant_TooOld(seq) == dtls_RecordGetRecvd(seq) # 1

dtls_IsRelevant(seq) == dtls_RecordGetRecvd(seq) = 0

-----------------------------------------------------------------------------
(* dtls_RecordSetRecvd.  new_right is seq with the low bits set, so the    *)
(* window always ends on a byte boundary; the loop zeroes, byte by byte,   *)
(* what the window now covers and did not cover before.                    *)

NewRight(seq) == (seq - (seq % ByteBits)) + (ByteBits - 1)

SlidBytes(newRight) ==
    {Byte(r) : r \in {x \in (right + ByteBits)..newRight :
                          (x - right) % ByteBits = 0}}

(* Mutant of Slide: only the byte the new right end falls in is zeroed. *)
Slide_LastByteOnly(seq) ==
    [b \in BytesOfRing |-> IF b = Byte(NewRight(seq)) THEN {} ELSE data[b]]

Slide(seq) ==
    LET newRight == NewRight(seq) IN
    IF newRight > right + RecvdWindow
    THEN [b \in BytesOfRing |-> {}]
    ELSE [b \in BytesOfRing |->
             IF b \in SlidBytes(newRight) THEN {} ELSE data[b]]

(* Mutant of dtls_RecordSetRecvd: the ring is one bit too small for W. *)
dtls_RecordSetRecvd_OffByOne(seq) ==
    IF seq < left THEN UNCHANGED ring
    ELSE LET slides == seq > right
             base == IF slides THEN Slide(seq) ELSE data
         IN  /\ right' = IF slides THEN NewRight(seq) ELSE right
             /\ left' = IF slides THEN NewRight(seq) - RecvdWindow + 2 ELSE left
             /\ data' = [base EXCEPT ![Byte(seq)] = @ \cup {Bit(seq)}]

dtls_RecordSetRecvd(seq) ==
    IF seq < left THEN UNCHANGED ring
    ELSE LET slides == seq > right
             base == IF slides THEN Slide(seq) ELSE data
         IN  /\ right' = IF slides THEN NewRight(seq) ELSE right
             /\ left' = IF slides THEN NewRight(seq) - RecvdWindow + 1 ELSE left
             /\ data' = [base EXCEPT ![Byte(seq)] = @ \cup {Bit(seq)}]

-----------------------------------------------------------------------------
ReadInit ==
    /\ left = 0
    /\ right = RecvdWindow - 1
    /\ data = [b \in BytesOfRing |-> {}]
    /\ nextSeqNum = 0
    /\ deprotectionFailures = 0
    /\ peerNext = 0
    /\ handled = [n \in SeqNums |-> 0]

(* The peer protects one more record (ssl_ProtectRecord). *)
PeerSend ==
    /\ peerNext < MaxRecords
    /\ peerNext' = peerNext + 1
    /\ UNCHANGED <<ring, nextSeqNum, deprotectionFailures, handled>>

(* A record that does not unprotect is dropped, and counted. *)
UnprotectFails ==
    /\ deprotectionFailures' = deprotectionFailures + 1
    /\ UNCHANGED <<ring, nextSeqNum, peerNext, handled>>

Unprotected(seq) ==
    /\ dtls_RecordSetRecvd(seq)
    /\ nextSeqNum' = IF seq + 1 > nextSeqNum THEN seq + 1 ELSE nextSeqNum
    /\ handled' = [handled EXCEPT ![seq] = @ + 1]
    /\ UNCHANGED <<deprotectionFailures, peerNext>>

(* At the limit ssl3_HandleRecord sends a fatal alert, after which         *)
(* ssl3_GatherCompleteHandshake reads no more records.                     *)
dtls13_AeadLimitReached == deprotectionFailures >= AeadLimit

(* ssl3_HandleRecord up to the record's content; the guards are its early  *)
(* returns, which change nothing.                                          *)
Passes(seq) ==
    /\ ~dtls13_AeadLimitReached
    /\ dtls_IsRelevant(seq)
    /\ seq < MaxRecords

HandlePeerRecord(num, hdr) ==
    LET seq == dtls_ReadSequenceNumber(num, hdr) IN
    /\ num < peerNext
    /\ Passes(seq)
    /\ IF seq = num THEN Unprotected(seq) ELSE UnprotectFails

HandleForeignRecord(num, hdr) ==
    /\ Passes(dtls_ReadSequenceNumber(num, hdr))
    /\ UnprotectFails

Hdrs == HdrRanges \cup {LongHeader}

ReadNext ==
    \/ PeerSend
    \/ \E num \in SeqNums, hdr \in Hdrs : HandlePeerRecord(num, hdr)
    \/ \E num \in SeqNums, hdr \in Hdrs : HandleForeignRecord(num, hdr)

ReadSpec == ReadInit /\ [][ReadNext]_readVars

-----------------------------------------------------------------------------
(* The ring holds bits, and the failures that are counted never pass the   *)
(* limit at which dtls13_AeadLimitReached closes the connection.           *)
ReadTypeOK ==
    /\ left \in Nat /\ right \in Nat
    /\ data \in [BytesOfRing -> SUBSET BitsOfByte]
    /\ nextSeqNum \in 0..MaxRecords
    /\ deprotectionFailures \in 0..AeadLimit
    /\ peerNext \in 0..MaxRecords
    /\ handled \in [SeqNums -> Nat]

(* However the network repeats and reorders the peer's records, none is    *)
(* handed up twice (dtls_RecordGetRecvd / dtls_RecordSetRecvd).            *)
HandledAtMostOnce == \A n \in SeqNums : handled[n] <= 1

(* Inside the window the ring is exact: a bit left over from a number that *)
(* has since been slid out never makes a new record look like a replay,    *)
(* and sliding never forgets one.                                          *)
RingExact ==
    \A n \in SeqNums :
        n \in left..right =>
            ((Bit(n) \in data[Byte(n)]) <=> (handled[n] > 0))

(* Reordering is tolerated: a record of the peer that was not handed up    *)
(* yet, lags the newest by no more than the window less a byte, and lies   *)
(* in the half range around the next number of its header form, passes     *)
(* every check with its own number.                                        *)
Recoverable(n, hdr) ==
    \/ hdr = LongHeader
    \/ /\ 2 * n > 2 * nextSeqNum - hdr
       /\ 2 * n <= 2 * nextSeqNum + hdr

LateRecordAccepted ==
    \A n \in SeqNums, hdr \in Hdrs :
        ( /\ ~dtls13_AeadLimitReached
          /\ handled[n] = 0
          /\ n + (RecvdWindow - ByteBits) >= nextSeqNum - 1
          /\ Recoverable(n, hdr) )
        => /\ dtls_ReadSequenceNumber(n, hdr) = n
           /\ Passes(n)
=============================================================================
