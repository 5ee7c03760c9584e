--------------------------- MODULE Dtls13KeyUpdate ---------------------------
(***************************************************************************)
(* DTLS 1.3 after the handshake: two endpoints that write and read under   *)
(* application epochs 3, 4, ..., update their keys with KeyUpdate, send    *)
(* session tickets and application data, acknowledge, retransmit and hold  *)
(* on to old read keys, over a network that delays, reorders and (if       *)
(* Lossy) drops records.                                                   *)
(*                                                                         *)
(* A post-handshake message fits one record, so the record numbers of      *)
(* dtlsSentHandshake and dtlsRcvdHandshake are abstracted to the message   *)
(* sequence number of the message they carried.  A record of the network   *)
(* stands for all its copies under way: receiving one leaves it possible   *)
(* for a retransmission to put it back, and a repeated record number is    *)
(* dropped by the replay ring (module DtlsRecordRead).                     *)
(***************************************************************************)
EXTENDS Integers, FiniteSets

CONSTANTS
    Client, Server,
    MaxEpoch,     \* DTLS13_MAX_EPOCH_TYPE, 65535 in the code
    MaxOwn,       \* bound on the messages sent of an endpoint's own accord
    MaxMessages,  \* bound on all its messages, responses included
    Lossy,        \* may the network drop records?
    Holddown      \* is the holddown of the handshake still running at first?

TrafficKeyApplicationData == 3

ASSUME EndsAssumption == Client # Server
ASSUME BoundAssumption == /\ MaxEpoch \in Nat /\ MaxEpoch >= TrafficKeyApplicationData
                          /\ MaxOwn \in Nat /\ MaxMessages \in Nat
                          /\ MaxMessages >= 2 * MaxOwn
ASSUME SwitchAssumption == Lossy \in BOOLEAN /\ Holddown \in BOOLEAN

VARIABLES
    \* the writing half of each endpoint
    cwEpoch,                \* cwSpec->epoch
    isKeyUpdateInProgress,
    keyUpdateMessage,       \* dtlsHandhakeKeyUpdateMessage
    sendMessageSeq,
    lastMessageFlight,      \* unacknowledged messages, with their write epoch
    rtTimer,                \* is the retransmit timer armed?
    \* the reading half
    crEpoch,                \* crSpec->epoch
    allowPreviousEpoch,
    recvMessageSeq,
    dtlsRcvdHandshake,      \* what the next ACK lists
    ackTimer,
    hdTimer,                \* is the (server's) holddown timer armed?
    fatalAlertSent,
    \* records under way
    handshakes, acks, appData

writer == <<cwEpoch, isKeyUpdateInProgress, keyUpdateMessage, sendMessageSeq,
            lastMessageFlight, rtTimer>>
reader == <<crEpoch, allowPreviousEpoch, recvMessageSeq, dtlsRcvdHandshake,
            ackTimer, hdTimer, fatalAlertSent>>
net == <<handshakes, acks, appData>>
vars == <<writer, reader, net>>

Ends == {Client, Server}
Peer(p) == IF p = Client THEN Server ELSE Client
Epochs == TrafficKeyApplicationData..MaxEpoch
Seqs == 0..(MaxMessages - 1)

Messages == [seq : Seqs, type : {"key_update", "new_session_ticket"},
             update_requested : BOOLEAN, epoch : Epochs]
HandshakeRecords == [to : Ends, msg : Messages]
AckRecords == [to : Ends, epoch : Epochs, list : SUBSET Seqs]
AppRecords == [to : Ends, epoch : Epochs]

Init ==
    /\ cwEpoch = [p \in Ends |-> TrafficKeyApplicationData]
    /\ isKeyUpdateInProgress = [p \in Ends |-> FALSE]
    /\ keyUpdateMessage = [p \in Ends |-> 0]
    /\ sendMessageSeq = [p \in Ends |-> 0]
    /\ lastMessageFlight = [p \in Ends |-> {}]
    /\ rtTimer = [p \in Ends |-> FALSE]
    /\ crEpoch = [p \in Ends |-> TrafficKeyApplicationData]
    /\ allowPreviousEpoch = [p \in Ends |-> FALSE]
    /\ recvMessageSeq = [p \in Ends |-> 0]
    /\ dtlsRcvdHandshake = [p \in Ends |-> {}]
    /\ ackTimer = [p \in Ends |-> FALSE]
    /\ hdTimer = Holddown
    /\ fatalAlertSent = [p \in Ends |-> FALSE]
    /\ handshakes = {} /\ acks = {} /\ appData = {}

-----------------------------------------------------------------------------
(* Sending.                                                                *)

\* dtls_TransmitMessageFlight: every unacknowledged message goes out again,
\* each under the epoch it was first written in.
dtls_TransmitMessageFlight(p, flight) ==
    {[to |-> Peer(p), msg |-> m] : m \in flight}

\* Append a message to the flight, transmit the flight, arm the timer
\* (ssl3_AppendHandshakeHeader, ssl3_FlushHandshake with no flags); sent are
\* the handshake records already under way.
FlushHandshake(p, type, req, sent) ==
    LET m == [seq |-> sendMessageSeq[p], type |-> type,
              update_requested |-> req, epoch |-> cwEpoch[p]]
    IN  /\ sendMessageSeq[p] < MaxMessages
        /\ sendMessageSeq' = [sendMessageSeq EXCEPT ![p] = @ + 1]
        /\ lastMessageFlight' = [lastMessageFlight EXCEPT ![p] = @ \cup {m}]
        /\ rtTimer' = [rtTimer EXCEPT ![p] = TRUE]
        /\ handshakes' = sent
              \cup dtls_TransmitMessageFlight(p, lastMessageFlight[p] \cup {m})

\* dtls13_MaybeSendKeyUpdate past its early returns.
EnqueueKeyUpdate(p, req, sent) ==
    /\ FlushHandshake(p, "key_update", req /\ crEpoch[p] < MaxEpoch, sent)
    /\ keyUpdateMessage' = [keyUpdateMessage EXCEPT ![p] = sendMessageSeq[p]]
    /\ isKeyUpdateInProgress' = [isKeyUpdateInProgress EXCEPT ![p] = TRUE]
    /\ UNCHANGED cwEpoch

\* Mutant: the write keys change at once, as on the TLS path.
dtls13_MaybeSendKeyUpdate_KeysAtOnce(p, req, sent) ==
    IF cwEpoch[p] >= MaxEpoch
    THEN handshakes' = sent /\ UNCHANGED writer
    ELSE /\ FlushHandshake(p, "key_update", req /\ crEpoch[p] < MaxEpoch, sent)
         /\ keyUpdateMessage' = [keyUpdateMessage EXCEPT ![p] = sendMessageSeq[p]]
         /\ isKeyUpdateInProgress' = isKeyUpdateInProgress
         /\ cwEpoch' = [cwEpoch EXCEPT ![p] = @ + 1]

\* Mutant: a second KeyUpdate is not held back by the first.
dtls13_MaybeSendKeyUpdate_NoGate(p, req, sent) ==
    /\ cwEpoch[p] < MaxEpoch
    /\ EnqueueKeyUpdate(p, req, sent)

\* Mutant: the last epoch is not guarded.
dtls13_MaybeSendKeyUpdate_NoLimit(p, req, sent) ==
    IF isKeyUpdateInProgress[p]
    THEN handshakes' = sent /\ UNCHANGED writer
    ELSE EnqueueKeyUpdate(p, req, sent)

\* An update while one is in progress is dropped with SECSuccess.
dtls13_MaybeSendKeyUpdate(p, req, sent) ==
    /\ cwEpoch[p] < MaxEpoch
    /\ IF isKeyUpdateInProgress[p]
       THEN handshakes' = sent /\ UNCHANGED writer
       ELSE EnqueueKeyUpdate(p, req, sent)

\* SSL_KeyUpdate, or the automatic update of tls13_CheckKeyUpdate.
SSLExp_KeyUpdate(p, req) ==
    /\ ~fatalAlertSent[p] /\ sendMessageSeq[p] < MaxOwn
    /\ dtls13_MaybeSendKeyUpdate(p, req, handshakes)
    /\ UNCHANGED <<reader, acks, appData>>

\* A post-handshake ticket of the server.
SSLExp_SendSessionTicket ==
    /\ ~fatalAlertSent[Server] /\ sendMessageSeq[Server] < MaxOwn
    /\ FlushHandshake(Server, "new_session_ticket", FALSE, handshakes)
    /\ UNCHANGED <<cwEpoch, isKeyUpdateInProgress, keyUpdateMessage, reader,
                   acks, appData>>

ssl3_SendApplicationData(p) ==
    /\ ~fatalAlertSent[p]
    /\ appData' = appData \cup {[to |-> Peer(p), epoch |-> cwEpoch[p]]}
    /\ UNCHANGED <<writer, reader, handshakes, acks>>

-----------------------------------------------------------------------------
(* Timers.                                                                 *)

dtls_RetransmitTimerExpiredCb(p) ==
    /\ rtTimer[p] /\ ~fatalAlertSent[p]
    /\ handshakes' = handshakes
          \cup dtls_TransmitMessageFlight(p, lastMessageFlight[p])
    /\ UNCHANGED <<writer, reader, acks, appData>>

\* dtls13_SendAckCb: all that was received is listed, and stays listed.
dtls13_SendAckCb(p) ==
    /\ ackTimer[p] /\ ~fatalAlertSent[p]
    /\ ackTimer' = [ackTimer EXCEPT ![p] = FALSE]
    /\ acks' = acks \cup {[to |-> Peer(p), epoch |-> cwEpoch[p],
                           list |-> dtlsRcvdHandshake[p]]}
    /\ UNCHANGED <<writer, crEpoch, allowPreviousEpoch, recvMessageSeq,
                   dtlsRcvdHandshake, hdTimer, fatalAlertSent, handshakes,
                   appData>>

dtls13_HolddownTimerCb ==
    /\ hdTimer
    /\ hdTimer' = FALSE
    /\ dtlsRcvdHandshake' = [dtlsRcvdHandshake EXCEPT ![Server] = {}]
    /\ UNCHANGED <<writer, crEpoch, allowPreviousEpoch, recvMessageSeq,
                   ackTimer, fatalAlertSent, net>>

-----------------------------------------------------------------------------
(* Receiving: which cipher spec opens a record, and what it is let do.     *)

\* The two epoch bits of the header, completed from the read epoch.
dtls_ReadEpoch(specEpoch, bits) ==
    LET epoch == (specEpoch - (specEpoch % 4)) + bits
    IN  IF epoch > specEpoch /\ epoch > 4 THEN epoch - 4 ELSE epoch

\* ssl3_GetCipherSpec and the AEAD: every old application read spec is kept,
\* and a record opens exactly under the epoch it was written in.
Opens(q, epoch) ==
    /\ dtls_ReadEpoch(crEpoch[q], epoch % 4) = epoch
    /\ epoch \in TrafficKeyApplicationData..crEpoch[q]

\* ssl3_HandleRecord: in order, or let through from the previous epoch.
Current(q, epoch) ==
    /\ Opens(q, epoch)
    /\ \/ epoch = crEpoch[q]
       \/ allowPreviousEpoch[q] /\ epoch = crEpoch[q] - 1

OutOfEpoch(q, epoch) == Opens(q, epoch) /\ ~Current(q, epoch)

\* allowPreviousEpoch after a record of this epoch passed the check above.
AllowAfter(q, epoch) ==
    IF epoch = crEpoch[q] THEN FALSE ELSE allowPreviousEpoch[q]

Arrived(r) ==
    /\ r \in handshakes
    /\ ~fatalAlertSent[r.to]

-----------------------------------------------------------------------------
(* Receiving handshake records: dtls_HandleHandshake.                      *)

\* tls13_UpdateTrafficKeys takes the next epoch, or fails with an alert.
NextEpoch(epoch) == epoch + 1

\* Mutant: the previous epoch is not let through after an update.
UpdateReadKeys_ForbidsPrevious(q) ==
    /\ crEpoch[q] < MaxEpoch
    /\ crEpoch' = [crEpoch EXCEPT ![q] = NextEpoch(@)]
    /\ allowPreviousEpoch' = [allowPreviousEpoch EXCEPT ![q] = FALSE]
    /\ UNCHANGED fatalAlertSent

\* The second half of dtls13_HandleKeyUpdate: the read keys change, or there
\* is no epoch left and tls13_UpdateTrafficKeys sends internal_error.
UpdateReadKeys(q) ==
    /\ allowPreviousEpoch' = [allowPreviousEpoch EXCEPT ![q] = TRUE]
    /\ IF crEpoch[q] < MaxEpoch
       THEN /\ crEpoch' = [crEpoch EXCEPT ![q] = NextEpoch(@)]
            /\ UNCHANGED fatalAlertSent
       ELSE /\ fatalAlertSent' = [fatalAlertSent EXCEPT ![q] = TRUE]
            /\ UNCHANGED crEpoch

\* Mutant: no ACK is set up after the handshake.
dtls13_SetupAcks_Never(q) == UNCHANGED ackTimer

\* dtls13_SetupAcks: after the handshake no message ends a flight.
dtls13_SetupAcks(q) == ackTimer' = [ackTimer EXCEPT ![q] = TRUE]

\* The message expected next was handled: count it, remember it, ack it.
Processed(q, seq) ==
    /\ recvMessageSeq' = [recvMessageSeq EXCEPT ![q] = @ + 1]
    /\ dtlsRcvdHandshake' = [dtlsRcvdHandshake EXCEPT ![q] = @ \cup {seq}]
    /\ dtls13_SetupAcks(q)

ReceiveTicket(r) ==
    LET q == r.to IN
    /\ Arrived(r) /\ Current(q, r.msg.epoch)
    /\ r.msg.seq = recvMessageSeq[q]
    /\ r.msg.type = "new_session_ticket"
    /\ Processed(q, r.msg.seq)
    /\ allowPreviousEpoch' =
          [allowPreviousEpoch EXCEPT ![q] = AllowAfter(q, r.msg.epoch)]
    /\ handshakes' = handshakes \ {r}
    /\ UNCHANGED <<writer, crEpoch, hdTimer, fatalAlertSent, acks, appData>>

\* A KeyUpdate: the response (if asked for) is sent first; where that fails
\* because the write epoch is the last one, the message is left unhandled.
dtls13_HandleKeyUpdate(r) ==
    LET q == r.to
        respond == r.msg.update_requested
    IN  /\ Arrived(r) /\ Current(q, r.msg.epoch)
        /\ r.msg.seq = recvMessageSeq[q]
        /\ r.msg.type = "key_update"
        /\ IF respond THEN dtls13_MaybeSendKeyUpdate(q, FALSE, handshakes \ {r})
                      ELSE handshakes' = handshakes \ {r} /\ UNCHANGED writer
        /\ UpdateReadKeys(q)
        /\ IF crEpoch[q] < MaxEpoch
           THEN Processed(q, r.msg.seq)
           ELSE UNCHANGED <<recvMessageSeq, dtlsRcvdHandshake, ackTimer>>
        /\ UNCHANGED <<hdTimer, acks, appData>>

dtls13_HandleKeyUpdateFails(r) ==
    LET q == r.to
    IN  /\ Arrived(r) /\ Current(q, r.msg.epoch)
        /\ r.msg.seq = recvMessageSeq[q]
        /\ r.msg.type = "key_update" /\ r.msg.update_requested
        /\ cwEpoch[q] >= MaxEpoch
        /\ allowPreviousEpoch' =
              [allowPreviousEpoch EXCEPT ![q] = AllowAfter(q, r.msg.epoch)]
        /\ handshakes' = handshakes \ {r}
        /\ UNCHANGED <<writer, crEpoch, recvMessageSeq, dtlsRcvdHandshake,
                       ackTimer, hdTimer, fatalAlertSent, acks, appData>>

\* A message already handled (dtls_RetransmitDetected): no acknowledgement is
\* set up; the flight may go out early if the timer has run long enough.
ReceiveOld(r) ==
    LET q == r.to IN
    /\ Arrived(r) /\ Current(q, r.msg.epoch)
    /\ r.msg.seq < recvMessageSeq[q]
    /\ \/ handshakes' = handshakes \ {r}
       \/ /\ rtTimer[q]
          /\ handshakes' = (handshakes \ {r})
                \cup dtls_TransmitMessageFlight(q, lastMessageFlight[q])
    /\ allowPreviousEpoch' =
          [allowPreviousEpoch EXCEPT ![q] = AllowAfter(q, r.msg.epoch)]
    /\ UNCHANGED <<writer, crEpoch, recvMessageSeq, dtlsRcvdHandshake, ackTimer,
                   hdTimer, fatalAlertSent, acks, appData>>

\* Mutant: the record of a discarded message is remembered all the same.
ReceiveFuture_Remembers(r) ==
    LET q == r.to IN
    /\ Arrived(r) /\ Current(q, r.msg.epoch)
    /\ r.msg.seq > recvMessageSeq[q]
    /\ handshakes' = handshakes \ {r}
    /\ dtls13_SetupAcks(q)
    /\ dtlsRcvdHandshake' =
          [dtlsRcvdHandshake EXCEPT ![q] = @ \cup {r.msg.seq}]
    /\ allowPreviousEpoch' =
          [allowPreviousEpoch EXCEPT ![q] = AllowAfter(q, r.msg.epoch)]
    /\ UNCHANGED <<writer, crEpoch, recvMessageSeq, hdTimer, fatalAlertSent,
                   acks, appData>>

\* A message of the future is discarded, but an ACK is set up.
ReceiveFuture(r) ==
    LET q == r.to IN
    /\ Arrived(r) /\ Current(q, r.msg.epoch)
    /\ r.msg.seq > recvMessageSeq[q]
    /\ handshakes' = handshakes \ {r}
    /\ dtls13_SetupAcks(q)
    /\ allowPreviousEpoch' =
          [allowPreviousEpoch EXCEPT ![q] = AllowAfter(q, r.msg.epoch)]
    /\ UNCHANGED <<writer, crEpoch, recvMessageSeq, dtlsRcvdHandshake, hdTimer,
                   fatalAlertSent, acks, appData>>

\* dtls13_HandleOutOfEpochRecord on a handshake record of an application epoch.
ReceiveOutOfEpochHandshake(r) ==
    /\ Arrived(r) /\ OutOfEpoch(r.to, r.msg.epoch)
    /\ handshakes' = handshakes \ {r}
    /\ fatalAlertSent' = [fatalAlertSent EXCEPT ![r.to] = TRUE]
    /\ UNCHANGED <<writer, crEpoch, allowPreviousEpoch, recvMessageSeq,
                   dtlsRcvdHandshake, ackTimer, hdTimer, acks, appData>>

-----------------------------------------------------------------------------
(* Receiving ACKs and application data.                                    *)

\* dtls13_HandleAck drops the listed messages from the flight; the ACK of the
\* KeyUpdate in progress changes the write keys (dtls13_maybeProcessKeyUpdateAck).
dtls13_HandleAck(p, list) ==
    LET left == {m \in lastMessageFlight[p] : m.seq \notin list}
        completed == /\ isKeyUpdateInProgress[p]
                     /\ \E m \in lastMessageFlight[p] :
                           m.seq \in list /\ m.seq = keyUpdateMessage[p]
    IN  /\ cwEpoch' = [cwEpoch EXCEPT ![p] = IF completed THEN NextEpoch(@) ELSE @]
        /\ isKeyUpdateInProgress' =
              [isKeyUpdateInProgress EXCEPT ![p] = @ /\ ~completed]
        /\ lastMessageFlight' = [lastMessageFlight EXCEPT ![p] = left]
        /\ rtTimer' = [rtTimer EXCEPT ![p] = @ /\ left # {}]
        /\ handshakes' = handshakes \cup dtls_TransmitMessageFlight(p, left)
        /\ UNCHANGED <<keyUpdateMessage, sendMessageSeq>>

\* An ACK is handled in any epoch that opens.
ReceiveAck(a) ==
    /\ a \in acks /\ ~fatalAlertSent[a.to] /\ Opens(a.to, a.epoch)
    /\ acks' = acks \ {a}
    /\ allowPreviousEpoch' =
          [allowPreviousEpoch EXCEPT ![a.to] = AllowAfter(a.to, a.epoch)]
    /\ dtls13_HandleAck(a.to, a.list)
    /\ UNCHANGED <<crEpoch, recvMessageSeq, dtlsRcvdHandshake, ackTimer,
                   hdTimer, fatalAlertSent, appData>>

\* Application data of the current epochs goes to the application, out of
\* epoch it is discarded.
ReceiveApplicationData(d) ==
    /\ d \in appData /\ ~fatalAlertSent[d.to] /\ Opens(d.to, d.epoch)
    /\ appData' = appData \ {d}
    /\ allowPreviousEpoch' =
          [allowPreviousEpoch EXCEPT ![d.to] = AllowAfter(d.to, d.epoch)]
    /\ UNCHANGED <<writer, crEpoch, recvMessageSeq, dtlsRcvdHandshake,
                   ackTimer, hdTimer, fatalAlertSent, handshakes, acks>>

-----------------------------------------------------------------------------
(* The network drops what it likes if Lossy; a record that does not open    *)
(* is dropped by its receiver.                                              *)

LoseHandshake(r) ==
    /\ r \in handshakes /\ (Lossy \/ ~Opens(r.to, r.msg.epoch))
    /\ handshakes' = handshakes \ {r}
    /\ UNCHANGED <<writer, reader, acks, appData>>

LoseAck(a) ==
    /\ a \in acks /\ (Lossy \/ ~Opens(a.to, a.epoch))
    /\ acks' = acks \ {a}
    /\ UNCHANGED <<writer, reader, handshakes, appData>>

LoseApplicationData(d) ==
    /\ d \in appData /\ (Lossy \/ ~Opens(d.to, d.epoch))
    /\ appData' = appData \ {d}
    /\ UNCHANGED <<writer, reader, handshakes, acks>>

ReceiveHandshake(r) ==
    \/ ReceiveTicket(r)
    \/ dtls13_HandleKeyUpdate(r)
    \/ dtls13_HandleKeyUpdateFails(r)
    \/ ReceiveOld(r)
    \/ ReceiveFuture(r)
    \/ ReceiveOutOfEpochHandshake(r)

Next ==
    \/ \E p \in Ends :
          \/ \E req \in BOOLEAN : SSLExp_KeyUpdate(p, req)
          \/ ssl3_SendApplicationData(p)
          \/ dtls_RetransmitTimerExpiredCb(p)
          \/ dtls13_SendAckCb(p)
    \/ SSLExp_SendSessionTicket
    \/ dtls13_HolddownTimerCb
    \/ \E r \in handshakes : ReceiveHandshake(r) \/ LoseHandshake(r)
    \/ \E a \in acks : ReceiveAck(a) \/ LoseAck(a)
    \/ \E d \in appData : ReceiveApplicationData(d) \/ LoseApplicationData(d)

Spec == Init /\ [][Next]_vars

\* dtls_CheckTimer runs on every read of the application, so an armed timer
\* fires; a message sent, or acknowledged, again and again arrives at last.
Fairness ==
    \A p \in Ends :
        /\ WF_vars(dtls_RetransmitTimerExpiredCb(p))
        /\ WF_vars(dtls13_SendAckCb(p))
        /\ \A s \in Seqs :
              /\ SF_vars(\E r \in handshakes :
                            r.to = p /\ r.msg.seq = s /\ ReceiveHandshake(r))
              /\ SF_vars(\E a \in acks :
                            a.to = p /\ s \in a.list /\ ReceiveAck(a))

LiveSpec == Spec /\ Fairness

-----------------------------------------------------------------------------
(* Properties.                                                             *)

\* Every variable has its type: epochs never pass MaxEpoch, an ACK lists and
\* a flight holds only messages that can have been numbered.
TypeOK ==
    /\ cwEpoch \in [Ends -> Epochs] /\ crEpoch \in [Ends -> Epochs]
    /\ isKeyUpdateInProgress \in [Ends -> BOOLEAN]
    /\ keyUpdateMessage \in [Ends -> 0..MaxMessages]
    /\ sendMessageSeq \in [Ends -> 0..MaxMessages]
    /\ recvMessageSeq \in [Ends -> 0..MaxMessages]
    /\ lastMessageFlight \in [Ends -> SUBSET Messages]
    /\ dtlsRcvdHandshake \in [Ends -> SUBSET Seqs]
    /\ allowPreviousEpoch \in [Ends -> BOOLEAN]
    /\ rtTimer \in [Ends -> BOOLEAN] /\ ackTimer \in [Ends -> BOOLEAN]
    /\ hdTimer \in BOOLEAN /\ fatalAlertSent \in [Ends -> BOOLEAN]
    /\ handshakes \subseteq HandshakeRecords
    /\ acks \subseteq AckRecords /\ appData \subseteq AppRecords

\* The two ends never drift apart: what one writes under is what the other
\* reads under, or one behind it while the writer waits for the ACK of the
\* KeyUpdate the reader has already handled (dtls13_maybeProcessKeyUpdateAck
\* changes the write keys only then).
EpochsInStep ==
    \A p \in Ends :
        \/ crEpoch[Peer(p)] = cwEpoch[p]
        \/ /\ crEpoch[Peer(p)] = cwEpoch[p] + 1
           /\ isKeyUpdateInProgress[p]
           /\ keyUpdateMessage[p] < recvMessageSeq[Peer(p)]

\* Whatever was lost or reordered, a record written now is one the peer would
\* open and let through (ssl3_HandleRecord with allowPreviousEpoch): a
\* KeyUpdate never costs application data written after it.
WritesAreReadable == \A p \in Ends : Current(Peer(p), cwEpoch[p])

\* Nothing is forgotten before it has arrived: a message that left the flight
\* (dtls13_HandleAck) was handled by the peer, and while one is in the flight
\* the retransmit timer is armed.
NothingForgotten ==
    \A p \in Ends :
        /\ \A s \in 0..(sendMessageSeq[p] - 1) :
              \/ \E m \in lastMessageFlight[p] : m.seq = s
              \/ s < recvMessageSeq[Peer(p)]
        /\ lastMessageFlight[p] # {} => rtTimer[p]

\* At most one KeyUpdate is unacknowledged (RFC 9147, 5.8.4, as quoted in
\* dtls13_MaybeSendKeyUpdate), it is the one dtlsHandhakeKeyUpdateMessage
\* names, and it was written under the current write epoch.
OneKeyUpdateInFlight ==
    \A p \in Ends : \A m \in lastMessageFlight[p] :
        m.type = "key_update" =>
            /\ isKeyUpdateInProgress[p]
            /\ m.seq = keyUpdateMessage[p]
            /\ m.epoch = cwEpoch[p]

\* The guard of the sender (dtls13_MaybeSendKeyUpdate) keeps the receiver away
\* from the end of its epochs: a KeyUpdate that is yet to be handled finds an
\* epoch left, so tls13_UpdateTrafficKeys does not fail on it.
LastEpochIsSafe ==
    \A r \in handshakes :
        (r.msg.type = "key_update" /\ r.msg.seq = recvMessageSeq[r.to])
            => crEpoch[r.to] < MaxEpoch

\* A KeyUpdate that was sent completes: its ACK comes and the write keys
\* change (or an end gave up with a fatal alert).
KeyUpdateCompletes ==
    \A p \in Ends :
        isKeyUpdateInProgress[p] ~>
            \/ ~isKeyUpdateInProgress[p]
            \/ \E e \in Ends : fatalAlertSent[e]
=============================================================================
