----------------------------- MODULE DtlsFlight -----------------------------
(***************************************************************************)
(* One flight of DTLS handshake messages, from the sender's queue over an  *)
(* unreliable datagram path to the receiver, and back as acknowledgments   *)
(* (DTLS 1.3) or as the flight that answers it.                            *)
(*                                                                         *)
(* The sender cuts messages into records and packs them into datagrams     *)
(* under its estimate of the path MTU, retransmits what is not             *)
(* acknowledged, and lowers the estimate on every third retransmission.    *)
(* The receiver is the abstract one of DtlsReceiver, and the search for    *)
(* what is not acknowledged the result DtlsUnackedRange shows for it.      *)
(*                                                                         *)
(* A record is named by the fragment it carries, not by its number: two    *)
(* records with the same fragment are acknowledged to the same effect.     *)
(* The path may lose, repeat and reorder records; it never passes a        *)
(* datagram larger than PathMtu.                                           *)
(***************************************************************************)
EXTENDS Integers, Sequences, FiniteSetsExt, DtlsMessages

CONSTANTS
    Flights,           \* stretches of them that are sent as one flight
    CommonMtuValues,   \* COMMON_MTU_VALUES
    Overhead,          \* DTLS_MAX_EXPANSION + DTLS_HS_HDR_LEN
    RecordSizeLimit,   \* less the header
    PathMtu,
    Lossy,             \* does the path lose records and ACKs?
    Holddown           \* may the holddown timer expire?

ASSUME FlightsAssumption ==
    /\ Flights \subseteq [first : Msgs, last : Msgs, kind : {"dtls12", "answered", "final"}]
    /\ \A fl \in Flights : fl.first <= fl.last
ASSUME SwitchAssumption == {Lossy, Holddown} \subseteq BOOLEAN
ASSUME MtuAssumption ==
    /\ CommonMtuValues \in Seq(Nat) /\ CommonMtuValues # <<>>
    /\ \A i \in DOMAIN CommonMtuValues : CommonMtuValues[i] > Overhead
    /\ {Overhead, RecordSizeLimit, PathMtu} \subseteq Nat \ {0}

VARIABLES
    (* the sender *)
    f,                  \* which flight it is; never changes
    flight,             \* lastMessageFlight
    sentRecords,        \* dtlsSentHandshake
    acked,              \* those of them that are acknowledged
    mtu,
    maxMessageSent,
    lastLargest,        \* largest datagram of the last transmission (history)
    rtRetries,          \* modulo 3
    rtTimer,            \* is it armed?
    (* the receiver *)
    next, got,          \* recvMessageSeq, and what is held of that message
    rcvdRecords,        \* dtlsRcvdHandshake
    ackTimer, hdTimer,
    (* the path *)
    net,                \* records
    acks                \* ACKs

sender == <<f, flight, sentRecords, acked, mtu, maxMessageSent, lastLargest,
            rtRetries, rtTimer>>
receiver == <<next, got, rcvdRecords, ackTimer, hdTimer>>
flightVars == <<sender, receiver, net, acks>>

Peer == INSTANCE DtlsReceiver WITH
                Stateless <- FALSE, input <- [seq |-> -1, bytes |-> {}]

\* In DTLS 1.3 records are acknowledged; the last flight of the client is only
\* acknowledged, any other is answered.
Tls13 == f.kind # "dtls12"
Final == f.kind = "final"
AllHandled == next = f.last + 1

Records == {r \in [seq : Msgs, off : Nat, len : Nat] : r.off + r.len <= MsgLen[r.seq]}
BytesOf(r) == r.off..(r.off + r.len - 1)

FlightInit ==
    /\ f \in Flights
    /\ flight = f.first..f.last
    /\ sentRecords = {} /\ acked = {}
    /\ mtu = CommonMtuValues[1] /\ maxMessageSent = 0 /\ lastLargest = 0
    /\ rtRetries = 0 /\ rtTimer = FALSE
    /\ next = f.first /\ got = {}
    /\ rcvdRecords = {} /\ ackTimer = FALSE /\ hdTimer = FALSE
    /\ net = {} /\ acks = {}

-----------------------------------------------------------------------------
(* Cutting and packing.                                                    *)

\* dtls_NextUnackedRange: the offsets from which on seq is to be sent again.
Unacked(A, seq, from) ==
    (from..(MsgLen[seq] - 1)) \ UNION {BytesOf(r) : r \in {a \in A : a.seq = seq}}

HasUnackedRange(A, seq, from) ==
    IF MsgLen[seq] = 0 THEN \A a \in A : a.seq # seq ELSE Unacked(A, seq, from) # {}

\* The rest of the range, as far as the record and the datagram have room.
FragmentLen(left, m, size) == Min({left, RecordSizeLimit, m - size - Overhead})

\* A transmission under way: the messages still to go, the offset in the first
\* of them, the records in pendingBuf and its length, and what was sent.
Packing == [todo : SUBSET Msgs, fragmentOffset : Nat,
            pending : SUBSET Records, size : Nat,
            sent : SUBSET [records : SUBSET Records, size : Nat]]

StartPacking == [todo |-> flight, fragmentOffset |-> 0, pending |-> {}, size |-> 0, sent |-> {}]

dtls_SendSavedWriteData(st) ==
    IF st.pending = {} THEN st
    ELSE [st EXCEPT !.pending = {}, !.size = 0,
                    !.sent = @ \cup {[records |-> st.pending, size |-> st.size]}]

\* The record joins the pending datagram.
ssl3_SendRecord(st, r) ==
    [st EXCEPT !.pending = @ \cup {r}, !.size = @ + r.len + Overhead]

\* Mutant: a datagram is sent when it is full, not when nothing more fits.
dtls_SendFragment_WhenFull(st, r, m) ==
    LET st1 == ssl3_SendRecord(st, r)
    IN  IF m <= st1.size THEN dtls_SendSavedWriteData(st1) ELSE st1

\* The pending datagram is sent if no other record fits.
dtls_SendFragment(st, r, m) ==
    LET st1 == ssl3_SendRecord(st, r)
    IN  IF m < st1.size + Overhead + 1 THEN dtls_SendSavedWriteData(st1) ELSE st1

NextMessage(st) == [st EXCEPT !.todo = @ \ {Min(@)}, !.fragmentOffset = 0]

\* One round of the loop over a message.
dtls_FragmentHandshake(A, m, st) ==
    LET seq == Min(st.todo)
        left == Unacked(A, seq, st.fragmentOffset)
        start == IF left = {} THEN 0 ELSE Min(left)
        end == IF left = {} THEN 0 ELSE Max(left) + 1
        n == FragmentLen(end - start, m, st.size)
        st1 == dtls_SendFragment(st, [seq |-> seq, off |-> start, len |-> n], m)
    IN  IF ~HasUnackedRange(A, seq, st.fragmentOffset) THEN NextMessage(st)
        ELSE IF start + n < MsgLen[seq] THEN [st1 EXCEPT !.fragmentOffset = start + n]
        ELSE NextMessage(st1)

\* The rounds: one for each byte and each empty message at most.
MaxRounds == NumMsgs * (Max({MsgLen[m] : m \in Msgs} \cup {0}) + 1)

Rounds(A, m) ==
    LET round == [st \in Packing |->
                      IF st.todo = {} THEN st ELSE dtls_FragmentHandshake(A, m, st)]
        after[k \in Nat] == IF k = 0 THEN StartPacking ELSE round[after[k - 1]]
    IN  after

\* The datagrams, the rest of pendingBuf included.
Datagrams(A, m) == dtls_SendSavedWriteData(Rounds(A, m)[MaxRounds]).sent

\* What is not acknowledged by A is sent under the MTU m; a message that is
\* acknowledged is dropped from the flight.  An ACK after which none is left
\* clears the list of records (the end of dtls13_HandleAck).
dtls_TransmitMessageFlight(A, m) ==
    \E ds \in {Datagrams(A, m)} :
    LET sizes == {d.size : d \in ds}
        written == UNION {d.records : d \in ds}
    IN  /\ UNCHANGED f
        /\ flight' = {seq \in flight : HasUnackedRange(A, seq, 0)}
        /\ mtu' = m
        /\ lastLargest' = Max(sizes \cup {0})
        /\ maxMessageSent' = Max(sizes \cup {maxMessageSent})
        /\ sentRecords' = IF flight' = {} \/ ~Tls13 THEN {} ELSE sentRecords \cup written
        /\ acked' = IF flight' = {} THEN {} ELSE A
        /\ net' = net \cup UNION {d.records : d \in {e \in ds : e.size <= PathMtu}}

-----------------------------------------------------------------------------
(* The sender.                                                             *)

dtls_FlushHandshakeMessages ==
    /\ maxMessageSent = 0
    /\ dtls_TransmitMessageFlight({}, mtu)
    /\ rtTimer' = TRUE /\ rtRetries' = 0
    /\ UNCHANGED <<receiver, acks>>

\* Mutant: the value is taken as it is.
dtls_SetMTU_AsIs(advertised) == advertised

\* dtls_SetMTU: the first value that is not above what is advertised.
dtls_SetMTU(advertised) ==
    LET fits == {i \in DOMAIN CommonMtuValues : CommonMtuValues[i] <= advertised}
    IN  IF advertised = 0 THEN CommonMtuValues[1]
        ELSE IF fits = {} THEN CommonMtuValues[Len(CommonMtuValues)]
        ELSE CommonMtuValues[Min(fits)]

\* Mutant: the estimate is never lowered.
NextMtu_Fixed == mtu

\* The estimate for the next retransmission.
NextMtu == IF rtRetries' = 0 THEN dtls_SetMTU(maxMessageSent - 1) ELSE mtu

dtls_RetransmitTimerExpiredCb ==
    /\ rtTimer
    /\ rtRetries' = (rtRetries + 1) % 3
    /\ dtls_TransmitMessageFlight(acked, NextMtu)
    /\ UNCHANGED <<rtTimer, receiver, acks>>

\* Mutant: an ACK is taken to cover all that was sent.
NewlyAcked_All(a) == sentRecords

NewlyAcked(a) == a \cap sentRecords

\* The rest of the flight is sent again at once; with nothing left the timer
\* is cancelled and the records are forgotten.
dtls13_HandleAck(a) ==
    /\ a \in acks
    /\ dtls_TransmitMessageFlight(acked \cup NewlyAcked(a), mtu)
    /\ rtTimer' = (rtTimer /\ flight' # {})
    /\ acks' = acks \ {a}
    /\ UNCHANGED <<rtRetries, receiver>>

\* The first message of the answer arrives (dtls_ReceivedFirstMessageInFlight).
\* The receiver sent it when it had the whole flight, and keeps a timer of its
\* own to send it again.
ReceiveAnswer ==
    /\ ~Final /\ AllHandled /\ rtTimer
    /\ flight' = {} /\ rtTimer' = FALSE
    /\ UNCHANGED <<f, sentRecords, acked, mtu, maxMessageSent, lastLargest, rtRetries,
                   receiver, net, acks>>

-----------------------------------------------------------------------------
(* The receiver.                                                           *)

\* dtls_ReceivedFirstMessageInFlight empties the list when the first message
\* of the flight is handled; the record that completed it is remembered next.
RcvdAfter(r) ==
    IF r.seq = f.first /\ next' = r.seq + 1 THEN {r} ELSE rcvdRecords \cup {r}

\* Mutant: a record of a later message is remembered although it is discarded.
Remembered_Later(r) == Tls13 /\ r.seq >= next

\* dtls_HandleHandshake remembers the records of the next message only.
Remembered(r) == Tls13 /\ r.seq = next

\* dtls_HandleHandshake, with dtls13_RememberFragment and dtls13_SetupAcks.
\* The last message of the flight ends it: the ACK timer is cancelled, and a
\* server that is done acknowledges at once and starts the holddown timer.
ReceiveRecord(r) ==
    LET ends == next' = f.last + 1
    IN  /\ r \in net /\ ~(Final /\ AllHandled)
        /\ Peer!Receive(r.seq, BytesOf(r))
        /\ IF Remembered(r)
           THEN /\ rcvdRecords' = RcvdAfter(r)
                /\ ackTimer' = ~ends
                /\ hdTimer' = (Final /\ ends)
                /\ acks' = IF Final /\ ends THEN acks \cup {rcvdRecords'} ELSE acks
           ELSE /\ ackTimer' = (ackTimer \/ (Tls13 /\ r.seq > next))
                /\ UNCHANGED <<rcvdRecords, hdTimer, acks>>
        /\ UNCHANGED <<sender, net>>

\* dtls13_HandleOutOfEpochRecord: the server has moved on to the application
\* keys; while it still holds the handshake keys it sends its ACK again.
ReceiveOutOfEpoch(r) ==
    /\ r \in net /\ Final /\ AllHandled
    /\ acks' = IF hdTimer THEN acks \cup {rcvdRecords} ELSE acks
    /\ UNCHANGED <<sender, receiver, net>>

dtls13_SendAckCb ==
    /\ ackTimer
    /\ ackTimer' = FALSE
    /\ acks' = acks \cup {rcvdRecords}
    /\ UNCHANGED <<sender, next, got, rcvdRecords, hdTimer, net>>

\* dtls13_HolddownTimerCb: the handshake keys and the ACK list are dropped.
dtls13_HolddownTimerCb ==
    /\ Holddown /\ hdTimer
    /\ hdTimer' = FALSE /\ rcvdRecords' = {}
    /\ UNCHANGED <<sender, next, got, ackTimer, net, acks>>

-----------------------------------------------------------------------------
(* The path.                                                               *)

LoseRecord == Lossy /\ \E r \in net : net' = net \ {r} /\ UNCHANGED <<sender, receiver, acks>>
LoseAck == Lossy /\ \E a \in acks : acks' = acks \ {a} /\ UNCHANGED <<sender, receiver, net>>

FlightNext ==
    \/ dtls_FlushHandshakeMessages
    \/ dtls_RetransmitTimerExpiredCb
    \/ \E a \in acks : dtls13_HandleAck(a)
    \/ ReceiveAnswer
    \/ \E r \in net : ReceiveRecord(r)
    \/ \E r \in net : ReceiveOutOfEpoch(r)
    \/ dtls13_SendAckCb
    \/ dtls13_HolddownTimerCb
    \/ LoseRecord
    \/ LoseAck

FlightSpec == FlightInit /\ [][FlightNext]_flightVars

\* Places in a flight, and the offsets of the messages that may stand there.
Positions == UNION {0..(fl.last - fl.first) : fl \in Flights}
OffsetsAt(i) ==
    {0} \cup UNION {0..(MsgLen[fl.first + i] - 1) :
                       fl \in {g \in Flights : g.first + i <= g.last}}

\* Timers fire; the answer arrives; a record that carries a given byte and is
\* sent again and again arrives some time, and so does the newest ACK; no older
\* ACK stays in transit for ever.
Fairness ==
    /\ WF_flightVars(dtls_FlushHandshakeMessages)
    /\ WF_flightVars(dtls_RetransmitTimerExpiredCb)
    /\ WF_flightVars(dtls13_SendAckCb)
    /\ WF_flightVars(ReceiveAnswer)
    /\ SF_flightVars(dtls13_HandleAck(rcvdRecords))
    /\ []<>(acks \subseteq {rcvdRecords})
    /\ \A i \in Positions : \A o \in OffsetsAt(i) :
           SF_flightVars(\E r \in net : r.seq = f.first + i /\ o \in BytesOf(r) \cup {r.off}
                       /\ (ReceiveRecord(r) \/ ReceiveOutOfEpoch(r)))

LiveSpec == FlightSpec /\ Fairness

-----------------------------------------------------------------------------
(* Properties.                                                             *)

\* The MTU is always one of the plateaus dtls_SetMTU may choose, records lie
\* inside their messages, and only records that were sent are acknowledged.
FlightTypeOK ==
    /\ f \in Flights
    /\ flight \subseteq f.first..f.last
    /\ sentRecords \cup net \cup rcvdRecords \subseteq Records
    /\ acked \subseteq sentRecords
    /\ \E i \in DOMAIN CommonMtuValues : mtu = CommonMtuValues[i]
    /\ maxMessageSent \in Nat /\ lastLargest \in Nat
    /\ rtRetries \in 0..2
    /\ {rtTimer, ackTimer, hdTimer} \subseteq BOOLEAN
    /\ next \in f.first..(f.last + 1)
    /\ ~AllHandled => got \subseteq 0..(MsgLen[next] - 1)

\* No datagram exceeds the MTU estimate it was packed under, and no record is
\* empty unless its message is ("PORT_Assert(fragmentLen > 0 || ...)").
DatagramsFit ==
    /\ lastLargest <= mtu
    /\ \A r \in sentRecords : r.len > 0 \/ MsgLen[r.seq] = 0

\* What the sender takes for acknowledged the receiver handed up or holds.
AckedIsHeld ==
    \A r \in acked : \/ r.seq < next
                     \/ r.seq = next /\ BytesOf(r) \subseteq got /\ r.len > 0

\* A message that is dropped from the flight was handed up by the receiver.
ForgottenIsHandled == \A m \in f.first..f.last : m \notin flight => m < next

\* The whole flight is handed up in the end (ForgottenIsHandled), and the sender
\* learns of it and stops retransmitting (dtls13_HandleAck cancels the timer).
FlightCompletes == <>(flight = {} /\ ~rtTimer)
=============================================================================
