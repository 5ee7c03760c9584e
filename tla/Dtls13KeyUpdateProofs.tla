----------------------- MODULE Dtls13KeyUpdateProofs -----------------------
(***************************************************************************)
(* Proofs about Dtls13KeyUpdate for every bound on epochs and messages,    *)
(* with or without loss.  The inductive invariant relates, for each        *)
(* direction p -> Peer(p), the writer's half of p, the reader's half of    *)
(* Peer(p) and the records under way between them.  It is preserved by     *)
(* sending, by timers and by every record that is received, and implies    *)
(* the properties of Dtls13KeyUpdate.                                      *)
(***************************************************************************)
EXTENDS Dtls13KeyUpdate, TLAPS

\* The flight of p: numbered below sendMessageSeq, no number twice, written
\* no later than now, and the retransmit timer armed.
FlightInv(p) ==
    /\ \A m \in lastMessageFlight[p] :
          m.seq < sendMessageSeq[p] /\ m.epoch <= cwEpoch[p]
    /\ \A m, n \in lastMessageFlight[p] : m.seq = n.seq => m = n
    /\ lastMessageFlight[p] # {} => rtTimer[p]

\* A KeyUpdate is in progress exactly while it is in the flight; then an
\* epoch is left, and the peer has handled it exactly when it reads one ahead.
UpdateInv(p) ==
    /\ \A m \in lastMessageFlight[p] :
          m.type = "key_update" =>
              /\ isKeyUpdateInProgress[p]
              /\ m.seq = keyUpdateMessage[p]
              /\ m.epoch = cwEpoch[p]
    /\ isKeyUpdateInProgress[p] =>
          /\ cwEpoch[p] < MaxEpoch
          /\ \E m \in lastMessageFlight[p] :
                m.type = "key_update" /\ m.seq = keyUpdateMessage[p]

\* How the read epoch of the peer follows the write epoch of p.
StepInv(p) ==
    /\ \/ crEpoch[Peer(p)] = cwEpoch[p]
       \/ /\ crEpoch[Peer(p)] = cwEpoch[p] + 1
          /\ isKeyUpdateInProgress[p]
          /\ keyUpdateMessage[p] < recvMessageSeq[Peer(p)]
          /\ allowPreviousEpoch[Peer(p)]
    /\ (isKeyUpdateInProgress[p] /\ keyUpdateMessage[p] < recvMessageSeq[Peer(p)])
          => crEpoch[Peer(p)] = cwEpoch[p] + 1

\* The messages of p are handled in order, and those not yet handled are all
\* still in the flight.
OrderInv(p) ==
    /\ recvMessageSeq[Peer(p)] <= sendMessageSeq[p]
    /\ \A s \in 0..(sendMessageSeq[p] - 1) :
          \/ \E m \in lastMessageFlight[p] : m.seq = s
          \/ s < recvMessageSeq[Peer(p)]

\* Handshake records from p were numbered and written by p, and one that was
\* not handled yet is in the flight.
HandshakesInv(p) ==
    \A r \in handshakes : r.to = Peer(p) =>
        /\ r.msg.seq < sendMessageSeq[p]
        /\ r.msg.epoch <= cwEpoch[p]
        /\ r.msg.seq >= recvMessageSeq[Peer(p)] => r.msg \in lastMessageFlight[p]

\* Other records from p were written by p.
RecordsInv(p) ==
    /\ \A a \in acks : a.to = Peer(p) => a.epoch <= cwEpoch[p]
    /\ \A d \in appData : d.to = Peer(p) => d.epoch <= cwEpoch[p]

\* Only handled messages are acknowledged to p.
AckInv(p) ==
    /\ \A s \in dtlsRcvdHandshake[Peer(p)] : s < recvMessageSeq[Peer(p)]
    /\ \A a \in acks : a.to = p =>
          \A s \in a.list : s < recvMessageSeq[Peer(p)]

DirInv(p) ==
    /\ FlightInv(p) /\ UpdateInv(p) /\ StepInv(p) /\ OrderInv(p)
    /\ HandshakesInv(p) /\ RecordsInv(p) /\ AckInv(p)

IInv == TypeOK /\ \A p \in Ends : DirInv(p)

-----------------------------------------------------------------------------
(* Facts about the ends and the header.                                    *)

\* The two ends are each other's peer.
LEMMA PeerFacts ==
    \A p \in Ends : /\ Peer(p) \in Ends /\ Peer(p) # p /\ Peer(Peer(p)) = p
                    /\ \A q \in Ends : q = p \/ q = Peer(p)
BY EndsAssumption DEF Ends, Peer

\* The two epoch bits of the header are enough for the read epoch and the one
\* before it (dtls_ReadEpoch), whatever the epoch.
LEMMA EpochRecovered ==
    ASSUME NEW cr \in Nat, NEW e \in Nat, e >= 3, e = cr \/ e = cr - 1
    PROVE  dtls_ReadEpoch(cr, e % 4) = e
BY DEF dtls_ReadEpoch

\* dtls_TransmitMessageFlight sends to the peer only ...
LEMMA SentTo ==
    ASSUME NEW p, NEW flight, NEW r \in dtls_TransmitMessageFlight(p, flight)
    PROVE  r.to = Peer(p)
BY DEF dtls_TransmitMessageFlight

\* ... and messages only.
LEMMA SentType ==
    ASSUME NEW p, Peer(p) \in Ends, NEW flight \in SUBSET Messages
    PROVE  dtls_TransmitMessageFlight(p, flight) \subseteq HandshakeRecords
BY DEF dtls_TransmitMessageFlight, HandshakeRecords

\* The handshake leaves both ends in step, with nothing unacknowledged.
LEMMA InitIInv == Init => IInv
<1> SUFFICES ASSUME Init PROVE IInv
  OBVIOUS
<1>1. TypeOK
  BY BoundAssumption, SwitchAssumption DEF Init, TypeOK, Epochs, TrafficKeyApplicationData
<1>2. ASSUME NEW p \in Ends PROVE DirInv(p)
  BY SMTT(60), PeerFacts DEF Init, DirInv, FlightInv, UpdateInv, StepInv, OrderInv,
     HandshakesInv, RecordsInv, AckInv
<1> QED BY <1>1, <1>2 DEF IInv

-----------------------------------------------------------------------------
(* Sending.                                                                *)

\* What the type invariant says of one direction.
LEMMA DirTypes ==
    ASSUME TypeOK, NEW p \in Ends
    PROVE  /\ sendMessageSeq[p] \in Nat /\ cwEpoch[p] \in Nat /\ keyUpdateMessage[p] \in Nat
           /\ recvMessageSeq[Peer(p)] \in Nat /\ crEpoch[Peer(p)] \in Nat
           /\ lastMessageFlight[p] \subseteq Messages
           /\ handshakes \subseteq HandshakeRecords
           /\ \A m \in Messages : m.seq \in Nat /\ m.epoch \in Nat
BY PeerFacts, BoundAssumption DEF TypeOK, Epochs, Messages, Seqs, TrafficKeyApplicationData

\* Appending a message (FlushHandshake) to the flight of w: a ticket, or a
\* KeyUpdate when none is in progress.
LEMMA FlushDir ==
    ASSUME TypeOK, NEW w \in Ends, DirInv(w), NEW type, NEW req, NEW sent,
           sent \subseteq handshakes,
           FlushHandshake(w, type, req, sent),
           [seq |-> sendMessageSeq[w], type |-> type,
            update_requested |-> req, epoch |-> cwEpoch[w]] \in Messages,
           cwEpoch' = cwEpoch,
           \/ /\ type # "key_update"
              /\ keyUpdateMessage' = keyUpdateMessage
              /\ isKeyUpdateInProgress' = isKeyUpdateInProgress
           \/ /\ type = "key_update" /\ ~isKeyUpdateInProgress[w]
              /\ cwEpoch[w] < MaxEpoch
              /\ keyUpdateMessage' = [keyUpdateMessage EXCEPT ![w] = sendMessageSeq[w]]
              /\ isKeyUpdateInProgress' = [isKeyUpdateInProgress EXCEPT ![w] = TRUE],
           crEpoch'[Peer(w)] = crEpoch[Peer(w)],
           allowPreviousEpoch'[Peer(w)] = allowPreviousEpoch[Peer(w)],
           recvMessageSeq'[Peer(w)] = recvMessageSeq[Peer(w)],
           dtlsRcvdHandshake'[Peer(w)] = dtlsRcvdHandshake[Peer(w)],
           acks' = acks, appData' = appData
    PROVE  DirInv(w)'
<1> DEFINE msg == [seq |-> sendMessageSeq[w], type |-> type,
                   update_requested |-> req, epoch |-> cwEpoch[w]]
<1>1. /\ msg \in Messages /\ msg.seq = sendMessageSeq[w] /\ msg.type = type
      /\ msg.epoch = cwEpoch[w]
  OBVIOUS
<1>2. /\ lastMessageFlight'[w] = lastMessageFlight[w] \cup {msg}
      /\ sendMessageSeq'[w] = sendMessageSeq[w] + 1
      /\ rtTimer'[w] = TRUE
      /\ handshakes' = sent
            \cup dtls_TransmitMessageFlight(w, lastMessageFlight[w] \cup {msg})
  BY ZenonT(60) DEF FlushHandshake, TypeOK
<1>3. /\ sendMessageSeq[w] \in Nat /\ cwEpoch[w] \in Nat
      /\ recvMessageSeq[Peer(w)] \in Nat /\ crEpoch[Peer(w)] \in Nat
      /\ lastMessageFlight[w] \subseteq Messages
      /\ handshakes \subseteq HandshakeRecords
      /\ \A m \in Messages : m.seq \in Nat /\ m.epoch \in Nat
  BY Zenon, DirTypes
<1>4. keyUpdateMessage[w] \in Nat
  BY Zenon, DirTypes
<1> HIDE DEF msg
<1>5. FlightInv(w)'
  BY SMTT(60), <1>1, <1>2, <1>3 DEF DirInv, FlightInv
<1>6. UpdateInv(w)'
  BY ZenonT(60), <1>1, <1>2, <1>3 DEF DirInv, FlightInv, UpdateInv, TypeOK
<1>7. StepInv(w)'
  BY SMTT(60), <1>1, <1>2, <1>3, <1>4 DEF DirInv, StepInv, OrderInv, TypeOK
<1>8. OrderInv(w)'
  BY SMTT(60), <1>1, <1>2, <1>3 DEF DirInv, OrderInv
<1>9. HandshakesInv(w)'
  <2> SUFFICES ASSUME NEW r \in handshakes', r.to = Peer(w)
               PROVE  /\ r.msg.seq < sendMessageSeq[w] + 1
                      /\ r.msg.epoch <= cwEpoch[w]
                      /\ r.msg.seq >= recvMessageSeq[Peer(w)]
                            => r.msg \in lastMessageFlight[w] \cup {msg}
    BY ZenonT(60), <1>2 DEF HandshakesInv
  <2>1. CASE r \in handshakes
    <3>1. r.msg \in Messages
      BY Zenon, <2>1, <1>3 DEF HandshakeRecords
    <3> QED BY SMTT(60), <2>1, <3>1, <1>3 DEF DirInv, HandshakesInv
  <2>2. CASE r \in dtls_TransmitMessageFlight(w, lastMessageFlight[w] \cup {msg})
    BY SMTT(60), <2>2, <1>1, <1>3 DEF dtls_TransmitMessageFlight, DirInv, FlightInv
  <2> QED BY Zenon, <2>1, <2>2, <1>2
<1>10. RecordsInv(w)' /\ AckInv(w)'
  BY Zenon DEF DirInv, RecordsInv, AckInv
<1> QED BY Zenon, <1>5, <1>6, <1>7, <1>8, <1>9, <1>10 DEF DirInv

\* A direction is not disturbed by a step that keeps its writer and its
\* reader, and loses or keeps its records.
LEMMA SameDir ==
    ASSUME NEW p \in Ends, DirInv(p),
           cwEpoch'[p] = cwEpoch[p],
           isKeyUpdateInProgress'[p] = isKeyUpdateInProgress[p],
           keyUpdateMessage'[p] = keyUpdateMessage[p],
           sendMessageSeq'[p] = sendMessageSeq[p],
           lastMessageFlight'[p] = lastMessageFlight[p],
           rtTimer'[p] = rtTimer[p],
           crEpoch'[Peer(p)] = crEpoch[Peer(p)],
           \/ allowPreviousEpoch'[Peer(p)] = allowPreviousEpoch[Peer(p)]
           \/ crEpoch[Peer(p)] = cwEpoch[p],
           recvMessageSeq'[Peer(p)] = recvMessageSeq[Peer(p)],
           dtlsRcvdHandshake'[Peer(p)] \subseteq dtlsRcvdHandshake[Peer(p)],
           \A r \in handshakes' : r.to = Peer(p) =>
               r \in handshakes \/ r.msg \in lastMessageFlight[p],
           \A a \in acks' : (a.to = Peer(p) \/ a.to = p) =>
               \/ a \in acks
               \/ a.to = Peer(p) /\ a.to # p /\ a.epoch = cwEpoch[p]
               \/ a.to = p /\ a.to # Peer(p) /\ a.list = dtlsRcvdHandshake[Peer(p)],
           \A d \in appData' : d.to = Peer(p) =>
               d \in appData \/ d.epoch = cwEpoch[p],
           TypeOK
    PROVE  DirInv(p)'
<1>1. /\ sendMessageSeq[p] \in Nat /\ cwEpoch[p] \in Nat
      /\ recvMessageSeq[Peer(p)] \in Nat /\ crEpoch[Peer(p)] \in Nat
      /\ lastMessageFlight[p] \subseteq Messages
      /\ \A m \in Messages : m.seq \in Nat /\ m.epoch \in Nat
  BY Zenon, DirTypes
<1>2. FlightInv(p)' /\ UpdateInv(p)'
  BY ZenonT(60) DEF DirInv, FlightInv, UpdateInv
<1>3. StepInv(p)'
  BY <1>1 DEF DirInv, StepInv
<1>4. OrderInv(p)'
  BY Zenon DEF DirInv, OrderInv
<1>5. HandshakesInv(p)'
  BY Zenon, <1>1 DEF DirInv, FlightInv, HandshakesInv
<1>6. RecordsInv(p)'
  BY SMTT(60), <1>1 DEF DirInv, RecordsInv
<1>7. AckInv(p)'
  BY Zenon DEF DirInv, AckInv
<1> QED BY ZenonT(60), <1>2, <1>3, <1>4, <1>5, <1>6, <1>7 DEF DirInv

-----------------------------------------------------------------------------
(* Handling the next message, and handling an ACK.                         *)

\* Facts of the order on the naturals.
LEMMA NatOrder ==
    /\ \A i, j \in Nat : /\ i = j => i >= j
                         /\ i >= j + 1 => i >= j
                         /\ i < j => i < j + 1 /\ i + 1 <= j
    /\ \A n \in Nat : \A s \in 0..(n - 1) : s \in Nat
OBVIOUS

\* The peer q of p handled the message of r, which was the one it expected: a
\* ticket, or a KeyUpdate that moved its read keys.
LEMMA ProcessedDir ==
    ASSUME TypeOK, NEW p \in Ends, NEW q, q = Peer(p), DirInv(p),
           NEW r \in handshakes, r.to = q,
           r.msg.seq = recvMessageSeq[q],
           cwEpoch'[p] = cwEpoch[p],
           isKeyUpdateInProgress'[p] = isKeyUpdateInProgress[p],
           keyUpdateMessage'[p] = keyUpdateMessage[p],
           sendMessageSeq'[p] = sendMessageSeq[p],
           lastMessageFlight'[p] = lastMessageFlight[p],
           rtTimer'[p] = rtTimer[p],
           recvMessageSeq'[q] = recvMessageSeq[q] + 1,
           dtlsRcvdHandshake'[q] = dtlsRcvdHandshake[q] \cup {r.msg.seq},
           \/ /\ r.msg.type # "key_update"
              /\ crEpoch'[q] = crEpoch[q]
              /\ \/ allowPreviousEpoch'[q] = allowPreviousEpoch[q]
                 \/ crEpoch[q] = cwEpoch[p]
           \/ /\ r.msg.type = "key_update"
              /\ crEpoch'[q] = crEpoch[q] + 1
              /\ allowPreviousEpoch'[q] = TRUE,
           \A r1 \in handshakes' : r1.to = q => r1 \in handshakes,
           acks' = acks, appData' = appData
    PROVE  DirInv(p)'
<1>1. /\ sendMessageSeq[p] \in Nat /\ cwEpoch[p] \in Nat /\ keyUpdateMessage[p] \in Nat
      /\ recvMessageSeq[q] \in Nat /\ crEpoch[q] \in Nat
      /\ lastMessageFlight[p] \subseteq Messages
      /\ handshakes \subseteq HandshakeRecords
      /\ \A m \in Messages : m.seq \in Nat /\ m.epoch \in Nat
  BY Zenon, DirTypes
<1>2. /\ r.msg \in lastMessageFlight[p] /\ r.msg \in Messages
      /\ r.msg.seq < sendMessageSeq[p]
  <2>1. recvMessageSeq[q] >= recvMessageSeq[q]
    BY Zenon, <1>1, NatOrder
  <2>2. r.msg \in lastMessageFlight[p] /\ r.msg.seq < sendMessageSeq[p]
    BY Zenon, <2>1 DEF DirInv, HandshakesInv
  <2> QED BY Zenon, <2>2, <1>1
<1>3. FlightInv(p)' /\ UpdateInv(p)'
  BY ZenonT(60) DEF DirInv, FlightInv, UpdateInv
<1>4. StepInv(p)'
  <2>1. CASE r.msg.type = "key_update"
    <3>1. /\ isKeyUpdateInProgress[p] /\ keyUpdateMessage[p] = recvMessageSeq[q]
          /\ crEpoch[q] = cwEpoch[p]
      BY SMTT(60), <2>1, <1>1, <1>2 DEF DirInv, UpdateInv, StepInv
    <3> QED BY SMTT(60), <2>1, <3>1, <1>1 DEF StepInv
  <2>2. CASE r.msg.type # "key_update"
    <3>1. isKeyUpdateInProgress[p] => keyUpdateMessage[p] # recvMessageSeq[q]
      BY SMTT(60), <2>2, <1>1, <1>2 DEF DirInv, UpdateInv, FlightInv
    <3> QED BY <2>2, <3>1, <1>1 DEF DirInv, StepInv
  <2> QED BY Zenon, <2>1, <2>2
<1>5. OrderInv(p)'
  <2>1. recvMessageSeq[q] + 1 <= sendMessageSeq[p]
    BY Zenon, <1>1, <1>2, NatOrder
  <2>2. \A s \in 0..(sendMessageSeq[p] - 1) : s \in Nat
    BY Zenon, <1>1, NatOrder
  <2>3. \A s \in 0..(sendMessageSeq[p] - 1) :
           s < recvMessageSeq[q] => s < recvMessageSeq[q] + 1
    BY Zenon, <2>2, <1>1, NatOrder
  <2>4. \A s \in 0..(sendMessageSeq[p] - 1) :
           \/ \E m \in lastMessageFlight[p] : m.seq = s
           \/ s < recvMessageSeq[q] + 1
    BY Zenon, <2>3 DEF DirInv, OrderInv
  <2> QED BY Zenon, <2>1, <2>4 DEF OrderInv
<1>6. HandshakesInv(p)'
  <2> SUFFICES ASSUME NEW r1 \in handshakes', r1.to = q
               PROVE  /\ r1.msg.seq < sendMessageSeq[p]
                      /\ r1.msg.epoch <= cwEpoch[p]
                      /\ r1.msg.seq >= recvMessageSeq[q] + 1
                            => r1.msg \in lastMessageFlight[p]
    BY ZenonT(60) DEF HandshakesInv
  <2>1. r1 \in handshakes /\ r1.msg \in Messages
    BY <1>1 DEF HandshakeRecords
  <2>2. r1.msg.seq >= recvMessageSeq[q] + 1 => r1.msg.seq >= recvMessageSeq[q]
    BY Zenon, <2>1, <1>1, NatOrder
  <2> QED BY Zenon, <2>1, <2>2 DEF DirInv, HandshakesInv
<1>7. RecordsInv(p)'
  BY Zenon DEF DirInv, RecordsInv
<1>8. AckInv(p)'
  <2>1. \A s \in dtlsRcvdHandshake[q] : s \in Nat
    BY SMTT(60), PeerFacts, BoundAssumption DEF TypeOK, Seqs
  <2>2. \A a \in acks : \A s \in a.list : s \in Nat
    BY SMTT(60), BoundAssumption DEF TypeOK, AckRecords, Seqs
  <2> QED BY SMTT(60), <2>1, <2>2, <1>1 DEF DirInv, AckInv
<1> QED BY Zenon, <1>3, <1>4, <1>5, <1>6, <1>7, <1>8 DEF DirInv

\* p handled an ACK that was under way to it.
LEMMA AckDir ==
    ASSUME TypeOK, NEW p \in Ends, DirInv(p), NEW a \in acks, a.to = p,
           dtls13_HandleAck(p, a.list),
           crEpoch' = crEpoch, recvMessageSeq' = recvMessageSeq,
           dtlsRcvdHandshake' = dtlsRcvdHandshake,
           allowPreviousEpoch'[Peer(p)] = allowPreviousEpoch[Peer(p)],
           acks' = acks \ {a}, appData' = appData
    PROVE  DirInv(p)' /\ cwEpoch'[p] \in Epochs
<1> DEFINE left == {m \in lastMessageFlight[p] : m.seq \notin a.list}
           completed == /\ isKeyUpdateInProgress[p]
                        /\ \E m \in lastMessageFlight[p] :
                              m.seq \in a.list /\ m.seq = keyUpdateMessage[p]
<1>1. /\ sendMessageSeq[p] \in Nat /\ cwEpoch[p] \in Nat /\ keyUpdateMessage[p] \in Nat
      /\ recvMessageSeq[Peer(p)] \in Nat /\ crEpoch[Peer(p)] \in Nat
      /\ lastMessageFlight[p] \subseteq Messages
      /\ handshakes \subseteq HandshakeRecords
      /\ \A m \in Messages : m.seq \in Nat /\ m.epoch \in Nat
  BY Zenon, DirTypes
<1>2. /\ lastMessageFlight'[p] = left
      /\ sendMessageSeq' = sendMessageSeq /\ keyUpdateMessage' = keyUpdateMessage
      /\ left # {} => rtTimer'[p] = rtTimer[p]
      /\ handshakes' = handshakes \cup dtls_TransmitMessageFlight(p, left)
      /\ completed => cwEpoch'[p] = cwEpoch[p] + 1 /\ isKeyUpdateInProgress'[p] = FALSE
      /\ ~completed => /\ cwEpoch'[p] = cwEpoch[p]
                       /\ isKeyUpdateInProgress'[p] = isKeyUpdateInProgress[p]
  BY ZenonT(60) DEF dtls13_HandleAck, TypeOK, NextEpoch
<1>3. \A m \in lastMessageFlight[p] : m.seq \in a.list => m.seq < recvMessageSeq[Peer(p)]
  BY DEF DirInv, AckInv
<1>4. completed => cwEpoch[p] < MaxEpoch /\ crEpoch[Peer(p)] = cwEpoch[p] + 1
  BY <1>3 DEF DirInv, UpdateInv, StepInv
<1>5. completed => \A m \in left : m.type # "key_update"
  BY DEF DirInv, UpdateInv
<1>6. ~completed => \A m \in lastMessageFlight[p] :
          (isKeyUpdateInProgress[p] /\ m.seq = keyUpdateMessage[p]) => m \in left
  OBVIOUS
<1>6a. \A m \in lastMessageFlight[p] :
          m \in left \/ m.seq < recvMessageSeq[Peer(p)]
  BY <1>3
<1>6b. left \subseteq lastMessageFlight[p]
  OBVIOUS
<1> HIDE DEF left, completed
<1>7. FlightInv(p)'
  BY SMTT(60), <1>1, <1>2, <1>6b DEF DirInv, FlightInv
<1>8. UpdateInv(p)'
  BY ZenonT(60), <1>1, <1>2, <1>5, <1>6, <1>6b DEF DirInv, UpdateInv, TypeOK
<1>9. StepInv(p)'
  BY <1>1, <1>2, <1>4 DEF DirInv, StepInv, TypeOK
<1>10. OrderInv(p)'
  BY ZenonT(60), <1>1, <1>2, <1>6a DEF DirInv, OrderInv
<1>11. HandshakesInv(p)'
  <2> SUFFICES ASSUME NEW r \in handshakes', r.to = Peer(p)
               PROVE  /\ r.msg.seq < sendMessageSeq'[p]
                      /\ r.msg.epoch <= cwEpoch'[p]
                      /\ r.msg.seq >= recvMessageSeq'[Peer(p)]
                            => r.msg \in lastMessageFlight'[p]
    BY Zenon DEF HandshakesInv
  <2>1. CASE r \in handshakes
    <3>1. r.msg \in Messages
      BY ZenonT(60), <2>1, <1>1 DEF HandshakeRecords
    <3> QED BY SMTT(60), <2>1, <3>1, <1>1, <1>2, <1>6a DEF DirInv, HandshakesInv
  <2>2. CASE r \in dtls_TransmitMessageFlight(p, left)
    BY SMTT(60), <2>2, <1>1, <1>2, <1>6b DEF dtls_TransmitMessageFlight, DirInv, FlightInv
  <2> QED BY Zenon, <2>1, <2>2, <1>2
<1>12. RecordsInv(p)'
  BY SMTT(60), <1>1, <1>2 DEF DirInv, RecordsInv, TypeOK, AckRecords, AppRecords, Epochs, TrafficKeyApplicationData
<1>13. AckInv(p)'
  BY ZenonT(60) DEF DirInv, AckInv
<1>14. cwEpoch'[p] \in Epochs
  BY <1>2, <1>4, BoundAssumption DEF TypeOK, Epochs, TrafficKeyApplicationData
<1> QED BY <1>7, <1>8, <1>9, <1>10, <1>11, <1>12, <1>13, <1>14 DEF DirInv

-----------------------------------------------------------------------------
(* Every action preserves the invariant.                                   *)

\* A record that was let through leaves allowPreviousEpoch as it is, or came
\* in the epoch its writer still writes in.
LEMMA AllowAfterFact ==
    ASSUME TypeOK, NEW q \in Ends, DirInv(Peer(q)), NEW e \in Epochs,
           e <= cwEpoch[Peer(q)]
    PROVE  /\ AllowAfter(q, e) \in BOOLEAN
           /\ \/ AllowAfter(q, e) = allowPreviousEpoch[q]
              \/ crEpoch[q] = cwEpoch[Peer(q)]
<1>1. crEpoch[q] \in Nat /\ cwEpoch[Peer(q)] \in Nat /\ e \in Nat /\ Peer(Peer(q)) = q
  BY PeerFacts DEF TypeOK, Epochs, TrafficKeyApplicationData
<1>2. CASE e = crEpoch[q]
  <2>1. crEpoch[q] = cwEpoch[Peer(q)]
    BY SMTT(60), <1>1, <1>2 DEF DirInv, StepInv
  <2>2. AllowAfter(q, e) = FALSE
    BY <1>2 DEF AllowAfter
  <2> QED BY ZenonT(60), <2>1, <2>2
<1>3. CASE e # crEpoch[q]
  BY <1>3 DEF AllowAfter, TypeOK
<1> QED BY <1>2, <1>3

\* The messages that can be appended have their type.
LEMMA MessageType ==
    ASSUME TypeOK, NEW w \in Ends, NEW req \in BOOLEAN,
           NEW type \in {"key_update", "new_session_ticket"},
           sendMessageSeq[w] < MaxMessages
    PROVE  [seq |-> sendMessageSeq[w], type |-> type,
            update_requested |-> req, epoch |-> cwEpoch[w]] \in Messages
BY SMTT(60), BoundAssumption DEF TypeOK, Messages, Seqs

\* What FlushHandshake writes has its type.
LEMMA FlushType ==
    ASSUME TypeOK, NEW w \in Ends, NEW type, NEW req, NEW sent,
           sent \subseteq handshakes,
           FlushHandshake(w, type, req, sent),
           [seq |-> sendMessageSeq[w], type |-> type,
            update_requested |-> req, epoch |-> cwEpoch[w]] \in Messages
    PROVE  /\ sendMessageSeq' \in [Ends -> 0..MaxMessages]
           /\ lastMessageFlight' \in [Ends -> SUBSET Messages]
           /\ rtTimer' \in [Ends -> BOOLEAN]
           /\ handshakes' \subseteq HandshakeRecords
<1>1. /\ sendMessageSeq' \in [Ends -> 0..MaxMessages]
      /\ lastMessageFlight' \in [Ends -> SUBSET Messages]
      /\ rtTimer' \in [Ends -> BOOLEAN]
  BY SMTT(60), BoundAssumption DEF FlushHandshake, TypeOK
<1>2. handshakes' \subseteq HandshakeRecords
  BY PeerFacts DEF FlushHandshake, TypeOK, HandshakeRecords, dtls_TransmitMessageFlight
<1> QED BY <1>1, <1>2

\* SSL_KeyUpdate: the gate on a second update and the limit on epochs.
LEMMA SendKeyUpdateIInv ==
    ASSUME IInv, NEW w \in Ends, NEW req \in BOOLEAN, SSLExp_KeyUpdate(w, req)
    PROVE  IInv'
<1>1. CASE isKeyUpdateInProgress[w]
  <2>1. UNCHANGED vars
    BY Zenon, <1>1 DEF SSLExp_KeyUpdate, dtls13_MaybeSendKeyUpdate, vars, net
  <2> QED BY SMTT(30), <2>1 DEF vars, writer, reader, net, IInv, TypeOK, DirInv, FlightInv,
             UpdateInv, StepInv, OrderInv, HandshakesInv, RecordsInv, AckInv
<1>2. CASE ~isKeyUpdateInProgress[w]
  <2> DEFINE ask == req /\ crEpoch[w] < MaxEpoch
  <2>1. /\ FlushHandshake(w, "key_update", ask, handshakes)
        /\ keyUpdateMessage' = [keyUpdateMessage EXCEPT ![w] = sendMessageSeq[w]]
        /\ isKeyUpdateInProgress' = [isKeyUpdateInProgress EXCEPT ![w] = TRUE]
        /\ cwEpoch' = cwEpoch /\ cwEpoch[w] < MaxEpoch
        /\ UNCHANGED <<reader, acks, appData>>
    BY <1>2 DEF SSLExp_KeyUpdate, dtls13_MaybeSendKeyUpdate, EnqueueKeyUpdate
  <2>2. ask \in BOOLEAN
    OBVIOUS
  <2> HIDE DEF ask
  <2>3. [seq |-> sendMessageSeq[w], type |-> "key_update",
         update_requested |-> ask, epoch |-> cwEpoch[w]] \in Messages
    BY ZenonT(60), <2>1, <2>2, MessageType DEF IInv, FlushHandshake
  <2>4. TypeOK'
    BY <2>1, <2>3, FlushType DEF IInv, TypeOK, reader
  <2>5. DirInv(w)'
    <3>1. TypeOK /\ DirInv(w) /\ handshakes \subseteq handshakes
      BY DEF IInv
    <3>2. /\ crEpoch'[Peer(w)] = crEpoch[Peer(w)]
          /\ allowPreviousEpoch'[Peer(w)] = allowPreviousEpoch[Peer(w)]
          /\ recvMessageSeq'[Peer(w)] = recvMessageSeq[Peer(w)]
          /\ dtlsRcvdHandshake'[Peer(w)] = dtlsRcvdHandshake[Peer(w)]
          /\ acks' = acks /\ appData' = appData
      BY <2>1 DEF reader
    <3> QED BY Zenon, <3>1, <3>2, <1>2, <2>1, <2>3, FlushDir
  <2>6. DirInv(Peer(w))'
    <3> DEFINE p == Peer(w)
    <3>1. /\ p \in Ends /\ p # w /\ Peer(p) = w
          /\ TypeOK /\ DirInv(p)
      BY Zenon, PeerFacts DEF IInv
    <3>2. /\ cwEpoch'[p] = cwEpoch[p] /\ rtTimer'[p] = rtTimer[p]
          /\ isKeyUpdateInProgress'[p] = isKeyUpdateInProgress[p]
          /\ keyUpdateMessage'[p] = keyUpdateMessage[p]
          /\ sendMessageSeq'[p] = sendMessageSeq[p]
          /\ lastMessageFlight'[p] = lastMessageFlight[p]
      BY <2>1, <3>1 DEF FlushHandshake, TypeOK
    <3>3. \A r \in handshakes' : r.to = Peer(p) => r \in handshakes
      BY Zenon, <2>1, <3>1, SentTo DEF FlushHandshake
    <3> HIDE DEF p
    <3>4. DirInv(p)'
      BY Zenon, <2>1, <3>1, <3>2, <3>3, SameDir DEF reader
    <3> QED BY <3>4 DEF p
  <2> QED BY <2>4, <2>5, <2>6, PeerFacts DEF IInv
<1> QED BY ZenonT(60), <1>1, <1>2

\* A ticket of the server.
LEMMA SendTicketIInv ==
    ASSUME IInv, SSLExp_SendSessionTicket
    PROVE  IInv'
<1> DEFINE w == Server
<1>1. /\ FlushHandshake(w, "new_session_ticket", FALSE, handshakes)
      /\ keyUpdateMessage' = keyUpdateMessage
      /\ isKeyUpdateInProgress' = isKeyUpdateInProgress
      /\ cwEpoch' = cwEpoch
      /\ UNCHANGED <<reader, acks, appData>>
  BY Zenon DEF SSLExp_SendSessionTicket
<1>2. w \in Ends /\ TypeOK /\ DirInv(w) /\ handshakes \subseteq handshakes
  BY DEF Ends, IInv
<1> HIDE DEF w
<1>3. [seq |-> sendMessageSeq[w], type |-> "new_session_ticket",
       update_requested |-> FALSE, epoch |-> cwEpoch[w]] \in Messages
  BY Zenon, <1>1, <1>2, MessageType DEF FlushHandshake
<1>4. TypeOK'
  BY Zenon, <1>1, <1>2, <1>3, FlushType DEF TypeOK, reader
<1>5. DirInv(w)'
  <2>1. /\ crEpoch'[Peer(w)] = crEpoch[Peer(w)]
        /\ allowPreviousEpoch'[Peer(w)] = allowPreviousEpoch[Peer(w)]
        /\ recvMessageSeq'[Peer(w)] = recvMessageSeq[Peer(w)]
        /\ dtlsRcvdHandshake'[Peer(w)] = dtlsRcvdHandshake[Peer(w)]
        /\ acks' = acks /\ appData' = appData
    BY <1>1 DEF reader
  <2> QED BY ZenonT(60), <2>1, <1>1, <1>2, <1>3, FlushDir
<1>6. DirInv(Peer(w))'
  <2> DEFINE p == Peer(w)
  <2>1. p \in Ends /\ p # w /\ Peer(p) = w /\ TypeOK /\ DirInv(p)
    BY Zenon, <1>2, PeerFacts DEF IInv
  <2>2. /\ cwEpoch'[p] = cwEpoch[p] /\ rtTimer'[p] = rtTimer[p]
        /\ isKeyUpdateInProgress'[p] = isKeyUpdateInProgress[p]
        /\ keyUpdateMessage'[p] = keyUpdateMessage[p]
        /\ sendMessageSeq'[p] = sendMessageSeq[p]
        /\ lastMessageFlight'[p] = lastMessageFlight[p]
    BY ZenonT(60), <1>1, <2>1 DEF FlushHandshake, TypeOK
  <2>3. \A r \in handshakes' : r.to = Peer(p) => r \in handshakes
    BY SMTT(60), <1>1, <2>1 DEF FlushHandshake, dtls_TransmitMessageFlight
  <2> HIDE DEF p
  <2>4. DirInv(p)'
    BY SMTT(60), <1>1, <2>1, <2>2, <2>3, SameDir DEF reader
  <2> QED BY <2>4 DEF p
<1> QED BY <1>2, <1>4, <1>5, <1>6, PeerFacts DEF IInv

-----------------------------------------------------------------------------
(* The steps that change no writer and no read epoch.                      *)

\* Records may go; those that come are retransmissions, ACKs of what was
\* received, and data written now.
QuietNet ==
    /\ \A r \in handshakes' :
          \/ r \in handshakes
          \/ \E p \in Ends : r.to = Peer(p) /\ r.msg \in lastMessageFlight[p]
    /\ \A a \in acks' :
          \/ a \in acks
          \/ \E p \in Ends : /\ a.to = Peer(p) /\ a.epoch = cwEpoch[p]
                             /\ a.list = dtlsRcvdHandshake[p]
    /\ \A d \in appData' :
          \/ d \in appData
          \/ \E p \in Ends : d.to = Peer(p) /\ d.epoch = cwEpoch[p]

QuietReader ==
    /\ crEpoch' = crEpoch /\ recvMessageSeq' = recvMessageSeq
    /\ \A q \in Ends :
          /\ dtlsRcvdHandshake'[q] \subseteq dtlsRcvdHandshake[q]
          /\ \/ allowPreviousEpoch'[q] = allowPreviousEpoch[q]
             \/ crEpoch[q] = cwEpoch[Peer(q)]

\* A quiet step preserves the invariant.
LEMMA QuietIInv ==
    ASSUME IInv, TypeOK', UNCHANGED writer, QuietReader, QuietNet
    PROVE  IInv'
<1> SUFFICES ASSUME NEW p \in Ends PROVE DirInv(p)'
  BY DEF IInv
<1>1. /\ Peer(p) \in Ends /\ Peer(p) # p /\ Peer(Peer(p)) = p /\ TypeOK /\ DirInv(p)
      /\ \A q \in Ends : q = p \/ q = Peer(p)
  BY Zenon, PeerFacts DEF IInv
<1>2. \A r \in handshakes' : r.to = Peer(p) =>
          r \in handshakes \/ r.msg \in lastMessageFlight[p]
  BY Zenon, <1>1, PeerFacts DEF QuietNet
<1>3. \A a \in acks' : (a.to = Peer(p) \/ a.to = p) =>
               \/ a \in acks
               \/ a.to = Peer(p) /\ a.to # p /\ a.epoch = cwEpoch[p]
               \/ a.to = p /\ a.to # Peer(p) /\ a.list = dtlsRcvdHandshake[Peer(p)]
  BY <1>1, PeerFacts DEF QuietNet
<1>4. \A d \in appData' : d.to = Peer(p) => d \in appData \/ d.epoch = cwEpoch[p]
  BY SMTT(60), <1>1, PeerFacts DEF QuietNet
<1>5. /\ crEpoch'[Peer(p)] = crEpoch[Peer(p)]
      /\ \/ allowPreviousEpoch'[Peer(p)] = allowPreviousEpoch[Peer(p)]
         \/ crEpoch[Peer(p)] = cwEpoch[p]
      /\ recvMessageSeq'[Peer(p)] = recvMessageSeq[Peer(p)]
      /\ dtlsRcvdHandshake'[Peer(p)] \subseteq dtlsRcvdHandshake[Peer(p)]
  BY Zenon, <1>1 DEF QuietReader
<1> QED BY <1>1, <1>2, <1>3, <1>4, <1>5, SameDir DEF writer

\* Retransmitted messages make well-typed handshake records.
LEMMA TransmitType ==
    ASSUME TypeOK, NEW p \in Ends
    PROVE  /\ dtls_TransmitMessageFlight(p, lastMessageFlight[p]) \subseteq HandshakeRecords
           /\ \A r \in dtls_TransmitMessageFlight(p, lastMessageFlight[p]) :
                 r.to = Peer(p) /\ r.msg \in lastMessageFlight[p]
BY SMTT(60), PeerFacts DEF TypeOK, HandshakeRecords, dtls_TransmitMessageFlight

\* A record is well typed, and was written no later than now.
LEMMA RecordFacts ==
    ASSUME IInv
    PROVE  /\ \A r \in handshakes : /\ r.to \in Ends /\ r.msg \in Messages
                                    /\ r.msg.epoch \in Epochs
                                    /\ r.msg.epoch <= cwEpoch[Peer(r.to)]
           /\ \A a \in acks : /\ a.to \in Ends /\ a.epoch \in Epochs
                              /\ a.epoch <= cwEpoch[Peer(a.to)]
           /\ \A d \in appData : /\ d.to \in Ends /\ d.epoch \in Epochs
                                 /\ d.epoch <= cwEpoch[Peer(d.to)]
<1>1. ASSUME NEW r \in handshakes
      PROVE  /\ r.to \in Ends /\ r.msg \in Messages /\ r.msg.epoch \in Epochs
             /\ r.msg.epoch <= cwEpoch[Peer(r.to)]
  <2>1. r.to \in Ends /\ r.msg \in Messages /\ r.msg.epoch \in Epochs
    BY DEF IInv, TypeOK, HandshakeRecords, Messages
  <2>2. HandshakesInv(Peer(r.to)) /\ Peer(Peer(r.to)) = r.to
    BY <2>1, PeerFacts DEF IInv, DirInv
  <2> QED BY <2>1, <2>2 DEF HandshakesInv
<1>2. ASSUME NEW a \in acks
      PROVE  a.to \in Ends /\ a.epoch \in Epochs /\ a.epoch <= cwEpoch[Peer(a.to)]
  <2>1. a.to \in Ends /\ a.epoch \in Epochs
    BY DEF IInv, TypeOK, AckRecords
  <2>2. RecordsInv(Peer(a.to)) /\ Peer(Peer(a.to)) = a.to
    BY <2>1, PeerFacts DEF IInv, DirInv
  <2> QED BY <2>1, <2>2 DEF RecordsInv
<1>3. ASSUME NEW d \in appData
      PROVE  d.to \in Ends /\ d.epoch \in Epochs /\ d.epoch <= cwEpoch[Peer(d.to)]
  <2>1. d.to \in Ends /\ d.epoch \in Epochs
    BY DEF IInv, TypeOK, AppRecords
  <2>2. RecordsInv(Peer(d.to)) /\ Peer(Peer(d.to)) = d.to
    BY <2>1, PeerFacts DEF IInv, DirInv
  <2> QED BY <2>1, <2>2 DEF RecordsInv
<1> QED BY <1>1, <1>2, <1>3

\* Letting a record through is quiet for allowPreviousEpoch.
LEMMA AllowQuiet ==
    ASSUME IInv, NEW q \in Ends, NEW e \in Epochs, e <= cwEpoch[Peer(q)],
           allowPreviousEpoch' = [allowPreviousEpoch EXCEPT ![q] = AllowAfter(q, e)]
    PROVE  /\ allowPreviousEpoch' \in [Ends -> BOOLEAN]
           /\ \A x \in Ends : \/ allowPreviousEpoch'[x] = allowPreviousEpoch[x]
                              \/ crEpoch[x] = cwEpoch[Peer(x)]
<1>1. TypeOK /\ DirInv(Peer(q))
  BY PeerFacts DEF IInv
<1>2. /\ AllowAfter(q, e) \in BOOLEAN
      /\ \/ AllowAfter(q, e) = allowPreviousEpoch[q]
         \/ crEpoch[q] = cwEpoch[Peer(q)]
  BY <1>1, AllowAfterFact
<1> QED BY <1>1, <1>2 DEF TypeOK


-----------------------------------------------------------------------------

\* Timers, and what needs no record.
LEMMA TimersIInv ==
    ASSUME IInv, NEW p \in Ends,
           \/ ssl3_SendApplicationData(p) \/ dtls_RetransmitTimerExpiredCb(p)
           \/ dtls13_SendAckCb(p) \/ dtls13_HolddownTimerCb
    PROVE  IInv'
<1>0. TypeOK /\ Peer(p) \in Ends
  BY PeerFacts DEF IInv
<1>1. CASE ssl3_SendApplicationData(p)
  <2>1. TypeOK'
    BY SMTT(60), <1>0, <1>1 DEF ssl3_SendApplicationData, TypeOK, AppRecords, writer, reader
  <2>2. UNCHANGED writer /\ QuietReader /\ QuietNet
    BY SMTT(60), <1>1 DEF ssl3_SendApplicationData, QuietReader, QuietNet, reader
  <2> QED BY Zenon, <2>1, <2>2, QuietIInv
<1>2. CASE dtls_RetransmitTimerExpiredCb(p)
  <2>1. TypeOK'
    BY Zenon, <1>0, <1>2, TransmitType DEF dtls_RetransmitTimerExpiredCb, TypeOK, writer, reader
  <2>2. UNCHANGED writer /\ QuietReader /\ QuietNet
    BY Zenon, <1>0, <1>2, TransmitType DEF dtls_RetransmitTimerExpiredCb, QuietReader, QuietNet, reader
  <2> QED BY <2>1, <2>2, QuietIInv
<1>3. CASE dtls13_SendAckCb(p)
  <2>1. TypeOK'
    BY <1>0, <1>3 DEF dtls13_SendAckCb, TypeOK, AckRecords, writer
  <2>2. UNCHANGED writer /\ QuietReader /\ QuietNet
    BY <1>3 DEF dtls13_SendAckCb, QuietReader, QuietNet
  <2> QED BY <2>1, <2>2, QuietIInv
<1>4. CASE dtls13_HolddownTimerCb
  <2>1. TypeOK'
    BY ZenonT(60), <1>0, <1>4 DEF dtls13_HolddownTimerCb, TypeOK, writer, net
  <2>2. UNCHANGED writer /\ QuietReader /\ QuietNet
    BY <1>0, <1>4 DEF dtls13_HolddownTimerCb, QuietReader, QuietNet, net, TypeOK
  <2> QED BY <2>1, <2>2, QuietIInv
<1> QED BY <1>1, <1>2, <1>3, <1>4

\* Handshake records that are lost, or not the one expected next.
LEMMA UnexpectedIInv ==
    ASSUME IInv, NEW r \in handshakes,
           \/ LoseHandshake(r) \/ ReceiveOutOfEpochHandshake(r)
           \/ ReceiveOld(r) \/ ReceiveFuture(r) \/ dtls13_HandleKeyUpdateFails(r)
    PROVE  IInv'
<1>0. /\ TypeOK /\ r.to \in Ends /\ r.msg.epoch \in Epochs
      /\ r.msg.epoch <= cwEpoch[Peer(r.to)]
  BY RecordFacts DEF IInv
<1>1. CASE LoseHandshake(r)
  <2>1. TypeOK'
    BY <1>0, <1>1 DEF LoseHandshake, TypeOK, writer, reader
  <2>2. UNCHANGED writer /\ QuietReader /\ QuietNet
    BY Zenon, <1>0, <1>1 DEF LoseHandshake, QuietReader, QuietNet, reader
  <2> QED BY Zenon, <2>1, <2>2, QuietIInv
<1>2. CASE ReceiveOutOfEpochHandshake(r)
  <2>1. TypeOK'
    BY Zenon, <1>0, <1>2 DEF ReceiveOutOfEpochHandshake, TypeOK, writer, reader
  <2>2. UNCHANGED writer /\ QuietReader /\ QuietNet
    BY <1>0, <1>2 DEF ReceiveOutOfEpochHandshake, QuietReader, QuietNet, reader
  <2> QED BY <2>1, <2>2, QuietIInv
<1>3. CASE ReceiveOld(r)
  <2>0. /\ allowPreviousEpoch' \in [Ends -> BOOLEAN]
        /\ \A x \in Ends : \/ allowPreviousEpoch'[x] = allowPreviousEpoch[x]
                           \/ crEpoch[x] = cwEpoch[Peer(x)]
    BY ZenonT(60), <1>0, <1>3, AllowQuiet DEF ReceiveOld
  <2>1. TypeOK'
    BY ZenonT(60), <1>0, <1>3, TransmitType, <2>0 DEF ReceiveOld, TypeOK, writer, reader
  <2>2. UNCHANGED writer /\ QuietReader /\ QuietNet
    BY <1>0, <1>3, TransmitType, <2>0 DEF ReceiveOld, QuietReader, QuietNet, reader
  <2> QED BY <2>1, <2>2, QuietIInv
<1>4. CASE ReceiveFuture(r)
  <2>0. /\ allowPreviousEpoch' \in [Ends -> BOOLEAN]
        /\ \A x \in Ends : \/ allowPreviousEpoch'[x] = allowPreviousEpoch[x]
                           \/ crEpoch[x] = cwEpoch[Peer(x)]
    BY ZenonT(60), <1>0, <1>4, AllowQuiet DEF ReceiveFuture
  <2>1. TypeOK'
    BY ZenonT(60), <1>0, <1>4, <2>0 DEF ReceiveFuture, dtls13_SetupAcks, TypeOK, writer, reader
  <2>2. UNCHANGED writer /\ QuietReader /\ QuietNet
    BY <1>0, <1>4, <2>0 DEF ReceiveFuture, QuietReader, QuietNet, reader
  <2> QED BY <2>1, <2>2, QuietIInv
<1>5. CASE dtls13_HandleKeyUpdateFails(r)
  <2>0. /\ allowPreviousEpoch' \in [Ends -> BOOLEAN]
        /\ \A x \in Ends : \/ allowPreviousEpoch'[x] = allowPreviousEpoch[x]
                           \/ crEpoch[x] = cwEpoch[Peer(x)]
    BY ZenonT(60), <1>0, <1>5, AllowQuiet DEF dtls13_HandleKeyUpdateFails
  <2>1. TypeOK'
    BY Zenon, <1>0, <1>5, <2>0 DEF dtls13_HandleKeyUpdateFails, TypeOK, writer, reader
  <2>2. UNCHANGED writer /\ QuietReader /\ QuietNet
    BY <1>0, <1>5, <2>0 DEF dtls13_HandleKeyUpdateFails, QuietReader, QuietNet, reader
  <2> QED BY <2>1, <2>2, QuietIInv
<1> QED BY Zenon, <1>1, <1>2, <1>3, <1>4, <1>5

\* Application data that arrives, and other records that are lost.
LEMMA OtherRecordsIInv ==
    ASSUME IInv,
           \/ \E a \in acks : LoseAck(a)
           \/ \E d \in appData : LoseApplicationData(d) \/ ReceiveApplicationData(d)
    PROVE  IInv'
<1>0. TypeOK
  BY DEF IInv
<1>1. CASE \E a \in acks : LoseAck(a)
  <2>1. TypeOK' /\ UNCHANGED writer /\ QuietReader /\ QuietNet
    BY Zenon, <1>0, <1>1 DEF LoseAck, TypeOK, writer, reader, QuietReader, QuietNet
  <2> QED BY Zenon, <2>1, QuietIInv
<1>2. CASE \E d \in appData : LoseApplicationData(d)
  <2>1. TypeOK' /\ UNCHANGED writer /\ QuietReader /\ QuietNet
    BY <1>0, <1>2 DEF LoseApplicationData, TypeOK, writer, reader, QuietReader, QuietNet
  <2> QED BY <2>1, QuietIInv
<1>3. ASSUME NEW d \in appData, ReceiveApplicationData(d) PROVE IInv'
  <2>0. d.to \in Ends /\ d.epoch \in Epochs /\ d.epoch <= cwEpoch[Peer(d.to)]
    BY RecordFacts
  <2>1. /\ allowPreviousEpoch' \in [Ends -> BOOLEAN]
        /\ \A x \in Ends : \/ allowPreviousEpoch'[x] = allowPreviousEpoch[x]
                           \/ crEpoch[x] = cwEpoch[Peer(x)]
    BY ZenonT(60), <1>3, <2>0, AllowQuiet DEF ReceiveApplicationData
  <2>2. TypeOK' /\ UNCHANGED writer /\ QuietReader /\ QuietNet
    BY Zenon, <1>0, <1>3, <2>1 DEF ReceiveApplicationData, TypeOK, writer, QuietReader, QuietNet
  <2> QED BY Zenon, <2>2, QuietIInv
<1> QED BY <1>1, <1>2, <1>3

-----------------------------------------------------------------------------
(* The message expected next, and ACKs.                                    *)

\* The record that carries the message expected next carries one that is
\* still in the flight of its sender (dtls13_HandleAck did not drop it).
LEMMA NextIsInFlight ==
    ASSUME NEW p \in Ends, DirInv(p), NEW r \in handshakes, r.to = Peer(p),
           r.msg \in Messages, r.msg.seq = recvMessageSeq[Peer(p)]
    PROVE  /\ r.msg.seq < sendMessageSeq[p] /\ r.msg.seq \in Seqs
           /\ r.msg \in lastMessageFlight[p]
<1>1. r.msg.seq \in Seqs
  BY DEF Messages
<1>2. r.msg.seq >= recvMessageSeq[Peer(p)]
  BY <1>1, BoundAssumption DEF Seqs
<1> QED BY Zenon, <1>1, <1>2 DEF DirInv, HandshakesInv

\* Counting one more message of a flight stays within their number
\* (recvMessageSeq++ in ssl3_HandleHandshakeMessage).
LEMMA CountOneMore ==
    ASSUME TypeOK, NEW q \in Ends, recvMessageSeq[q] \in Seqs,
           recvMessageSeq' = [recvMessageSeq EXCEPT ![q] = @ + 1]
    PROVE  recvMessageSeq' \in [Ends -> 0..MaxMessages]
<1>1. recvMessageSeq \in [Ends -> 0..MaxMessages]
  BY DEF TypeOK
<1>2. recvMessageSeq[q] + 1 \in 0..MaxMessages
  BY BoundAssumption DEF Seqs
<1> QED BY <1>1, <1>2

\* While a KeyUpdate is not handled its reader has not moved ahead of the
\* writer, who sent it below the last epoch (dtls13_MaybeSendKeyUpdate).
LEMMA EpochLeft ==
    ASSUME TypeOK, NEW p \in Ends, NEW q \in Ends, q = Peer(p), DirInv(p),
           keyUpdateMessage[p] = recvMessageSeq[q], cwEpoch[p] < MaxEpoch
    PROVE  crEpoch[q] < MaxEpoch
<1>1. recvMessageSeq[q] \in Nat
  BY DEF TypeOK
<1>2. ~(keyUpdateMessage[p] < recvMessageSeq[q])
  BY <1>1
<1>3. StepInv(p)
  BY DEF DirInv
<1>4. crEpoch[q] = cwEpoch[p]
  BY <1>2, <1>3 DEF StepInv
<1> QED BY <1>4

\* A ticket that is handled is counted, remembered and acknowledged.
LEMMA ReceiveTicketIInv ==
    ASSUME IInv, NEW r \in handshakes, ReceiveTicket(r)
    PROVE  IInv'
<1> DEFINE q == r.to
           p == Peer(q)
<1>1. /\ TypeOK /\ q \in Ends /\ p \in Ends /\ p # q /\ q = Peer(p)
      /\ DirInv(p) /\ DirInv(q)
      /\ r.msg \in Messages /\ r.msg.epoch \in Epochs /\ r.msg.epoch <= cwEpoch[Peer(q)]
  BY RecordFacts, PeerFacts DEF IInv
<1>2. /\ allowPreviousEpoch' \in [Ends -> BOOLEAN]
      /\ \A x \in Ends : \/ allowPreviousEpoch'[x] = allowPreviousEpoch[x]
                         \/ crEpoch[x] = cwEpoch[Peer(x)]
  BY ZenonT(60), <1>1, AllowQuiet DEF ReceiveTicket
<1>3. r.msg.seq < sendMessageSeq[p] /\ r.msg.seq \in Seqs
  BY ZenonT(60), <1>1 DEF DirInv, HandshakesInv, Messages
<1>4. TypeOK'
  <2>1. recvMessageSeq' \in [Ends -> 0..MaxMessages]
    <3>1. /\ recvMessageSeq' = [recvMessageSeq EXCEPT ![q] = @ + 1]
          /\ recvMessageSeq[q] = r.msg.seq
      BY DEF ReceiveTicket, Processed
    <3> HIDE DEF q
    <3> QED BY ZenonT(60), <1>1, <1>3, <3>1, CountOneMore
  <2> QED BY <1>1, <1>2, <1>3, <2>1
          DEF ReceiveTicket, Processed, dtls13_SetupAcks, TypeOK, writer
<1>5. DirInv(p)'
  <2>1. /\ r.to = q /\ r.msg.seq = recvMessageSeq[q] /\ r.msg.type # "key_update"
        /\ crEpoch' = crEpoch /\ UNCHANGED writer
        /\ recvMessageSeq'[q] = recvMessageSeq[q] + 1
        /\ dtlsRcvdHandshake'[q] = dtlsRcvdHandshake[q] \cup {r.msg.seq}
        /\ acks' = acks /\ appData' = appData
        /\ \A r1 \in handshakes' : r1 \in handshakes
    BY Zenon, <1>1 DEF ReceiveTicket, Processed, TypeOK
  <2>2. \/ allowPreviousEpoch'[q] = allowPreviousEpoch[q]
        \/ crEpoch[q] = cwEpoch[p]
    BY Zenon, <1>1, <1>2
  <2> HIDE DEF p, q
  <2> QED BY ZenonT(60), <1>1, <2>1, <2>2, ProcessedDir DEF writer
<1>6. DirInv(q)'
  <2>1. /\ UNCHANGED writer /\ crEpoch' = crEpoch
        /\ allowPreviousEpoch'[p] = allowPreviousEpoch[p]
        /\ recvMessageSeq'[p] = recvMessageSeq[p]
        /\ dtlsRcvdHandshake'[p] = dtlsRcvdHandshake[p]
        /\ acks' = acks /\ appData' = appData
        /\ \A r1 \in handshakes' : r1 \in handshakes
    BY <1>1 DEF ReceiveTicket, Processed, TypeOK
  <2> HIDE DEF q
  <2> QED BY Zenon, <1>1, <2>1, SameDir DEF writer
<1> QED BY SMTT(60), <1>1, <1>4, <1>5, <1>6, PeerFacts DEF IInv

\* A KeyUpdate moves the reader one epoch ahead of the writer, who is waiting
\* for its ACK, and may start an update in the other direction.
LEMMA HandleKeyUpdateIInv ==
    ASSUME IInv, NEW r \in handshakes, dtls13_HandleKeyUpdate(r)
    PROVE  IInv'
<1> DEFINE q == r.to
           p == Peer(q)
           sent == handshakes \ {r}
<1>1. /\ TypeOK /\ q \in Ends /\ p \in Ends /\ p # q /\ q = Peer(p)
      /\ DirInv(p) /\ DirInv(q)
      /\ r.msg \in Messages /\ sent \subseteq handshakes
  BY Zenon, RecordFacts, PeerFacts DEF IInv
<1>2. /\ r.msg.seq < sendMessageSeq[p] /\ r.msg.seq \in Seqs
      /\ r.msg \in lastMessageFlight[p]
  BY Zenon, <1>1, NextIsInFlight DEF dtls13_HandleKeyUpdate
<1>3. crEpoch[q] < MaxEpoch
  <2>1. /\ isKeyUpdateInProgress[p] /\ keyUpdateMessage[p] = recvMessageSeq[q]
        /\ cwEpoch[p] < MaxEpoch
    BY Zenon, <1>1, <1>2 DEF dtls13_HandleKeyUpdate, DirInv, UpdateInv
  <2> HIDE DEF p, q
  <2> QED BY Zenon, <1>1, <2>1, EpochLeft
<1>4. /\ r.msg.seq = recvMessageSeq[q] /\ r.msg.type = "key_update"
      /\ crEpoch' = [crEpoch EXCEPT ![q] = @ + 1]
      /\ allowPreviousEpoch' = [allowPreviousEpoch EXCEPT ![q] = TRUE]
      /\ recvMessageSeq' = [recvMessageSeq EXCEPT ![q] = @ + 1]
      /\ dtlsRcvdHandshake' = [dtlsRcvdHandshake EXCEPT ![q] = @ \cup {r.msg.seq}]
      /\ ackTimer' = [ackTimer EXCEPT ![q] = TRUE]
      /\ UNCHANGED <<hdTimer, fatalAlertSent, acks, appData>>
  BY <1>3 DEF dtls13_HandleKeyUpdate, UpdateReadKeys, Processed, dtls13_SetupAcks, NextEpoch
<1>5. \/ handshakes' = sent /\ UNCHANGED writer
      \/ /\ FlushHandshake(q, "key_update", FALSE, sent)
         /\ keyUpdateMessage' = [keyUpdateMessage EXCEPT ![q] = sendMessageSeq[q]]
         /\ isKeyUpdateInProgress' = [isKeyUpdateInProgress EXCEPT ![q] = TRUE]
         /\ cwEpoch' = cwEpoch /\ cwEpoch[q] < MaxEpoch /\ ~isKeyUpdateInProgress[q]
  <2>1. (FALSE /\ crEpoch[q] < MaxEpoch) = FALSE
    OBVIOUS
  <2> QED BY Zenon, <2>1 DEF dtls13_HandleKeyUpdate, dtls13_MaybeSendKeyUpdate, EnqueueKeyUpdate
<1>6. /\ crEpoch' \in [Ends -> Epochs]
      /\ recvMessageSeq' \in [Ends -> 0..MaxMessages]
      /\ dtlsRcvdHandshake' \in [Ends -> SUBSET Seqs]
      /\ ackTimer' \in [Ends -> BOOLEAN] /\ allowPreviousEpoch' \in [Ends -> BOOLEAN]
      /\ hdTimer' \in BOOLEAN /\ fatalAlertSent' \in [Ends -> BOOLEAN]
      /\ acks' \subseteq AckRecords /\ appData' \subseteq AppRecords
  <2>1. crEpoch' \in [Ends -> Epochs]
    BY <1>1, <1>3, <1>4, BoundAssumption DEF TypeOK, Epochs, TrafficKeyApplicationData
  <2>2. recvMessageSeq' \in [Ends -> 0..MaxMessages]
    <3> HIDE DEF q
    <3> QED BY ZenonT(60), <1>1, <1>2, <1>4, CountOneMore
  <2> QED BY SMTT(60), <1>1, <1>2, <1>4, <2>1, <2>2 DEF TypeOK
<1>7. CASE handshakes' = sent /\ UNCHANGED writer
  <2>1. TypeOK'
    BY <1>1, <1>6, <1>7 DEF TypeOK, writer
  <2>2. DirInv(p)'
    <3>1. /\ r.to = q /\ recvMessageSeq'[q] = recvMessageSeq[q] + 1
          /\ dtlsRcvdHandshake'[q] = dtlsRcvdHandshake[q] \cup {r.msg.seq}
          /\ crEpoch'[q] = crEpoch[q] + 1 /\ allowPreviousEpoch'[q] = TRUE
          /\ \A r1 \in handshakes' : r1 \in handshakes
      BY <1>1, <1>4, <1>7 DEF TypeOK
    <3> HIDE DEF p, q
    <3> QED BY ZenonT(60), <1>1, <1>4, <1>7, <3>1, ProcessedDir DEF writer
  <2>3. DirInv(q)'
    <3>1. /\ crEpoch'[p] = crEpoch[p] /\ allowPreviousEpoch'[p] = allowPreviousEpoch[p]
          /\ recvMessageSeq'[p] = recvMessageSeq[p]
          /\ dtlsRcvdHandshake'[p] = dtlsRcvdHandshake[p]
          /\ \A r1 \in handshakes' : r1 \in handshakes
      BY <1>1, <1>4, <1>7 DEF TypeOK
    <3> HIDE DEF q
    <3> QED BY ZenonT(60), <1>1, <1>4, <1>7, <3>1, SameDir DEF writer
  <2> QED BY Zenon, <1>1, <2>1, <2>2, <2>3, PeerFacts DEF IInv
<1>8. CASE /\ FlushHandshake(q, "key_update", FALSE, sent)
           /\ keyUpdateMessage' = [keyUpdateMessage EXCEPT ![q] = sendMessageSeq[q]]
           /\ isKeyUpdateInProgress' = [isKeyUpdateInProgress EXCEPT ![q] = TRUE]
           /\ cwEpoch' = cwEpoch /\ cwEpoch[q] < MaxEpoch /\ ~isKeyUpdateInProgress[q]
  <2> HIDE DEF sent, p, q
  <2>1. [seq |-> sendMessageSeq[q], type |-> "key_update",
         update_requested |-> FALSE, epoch |-> cwEpoch[q]] \in Messages
    BY Zenon, <1>1, <1>8, MessageType DEF FlushHandshake
  <2>2. TypeOK'
    <3>1. /\ sendMessageSeq' \in [Ends -> 0..MaxMessages]
          /\ lastMessageFlight' \in [Ends -> SUBSET Messages]
          /\ rtTimer' \in [Ends -> BOOLEAN]
          /\ handshakes' \subseteq HandshakeRecords
      BY Zenon, <1>1, <1>8, <2>1, FlushType
    <3> QED BY Zenon, <1>1, <1>6, <1>8, <3>1 DEF TypeOK
  <2>3. DirInv(q)'
    <3>1. /\ crEpoch'[Peer(q)] = crEpoch[Peer(q)]
          /\ allowPreviousEpoch'[Peer(q)] = allowPreviousEpoch[Peer(q)]
          /\ recvMessageSeq'[Peer(q)] = recvMessageSeq[Peer(q)]
          /\ dtlsRcvdHandshake'[Peer(q)] = dtlsRcvdHandshake[Peer(q)]
      BY <1>1, <1>4 DEF TypeOK, p
    <3> QED BY ZenonT(60), <1>1, <1>4, <1>8, <2>1, <3>1, FlushDir
  <2>4. DirInv(p)'
    <3>1. /\ cwEpoch'[p] = cwEpoch[p] /\ rtTimer'[p] = rtTimer[p]
          /\ isKeyUpdateInProgress'[p] = isKeyUpdateInProgress[p]
          /\ keyUpdateMessage'[p] = keyUpdateMessage[p]
          /\ sendMessageSeq'[p] = sendMessageSeq[p]
          /\ lastMessageFlight'[p] = lastMessageFlight[p]
      BY Zenon, <1>1, <1>8 DEF FlushHandshake, TypeOK
    <3>2. \A r1 \in handshakes' : r1.to = q => r1 \in handshakes
      BY ZenonT(60), <1>1, <1>8, SentTo DEF FlushHandshake, p, sent
    <3>3. /\ r.to = q /\ recvMessageSeq'[q] = recvMessageSeq[q] + 1
          /\ dtlsRcvdHandshake'[q] = dtlsRcvdHandshake[q] \cup {r.msg.seq}
          /\ crEpoch'[q] = crEpoch[q] + 1 /\ allowPreviousEpoch'[q] = TRUE
      BY Zenon, <1>1, <1>4 DEF TypeOK, q
    <3> QED BY ZenonT(60), <1>1, <1>4, <3>1, <3>2, <3>3, ProcessedDir
  <2> QED BY <1>1, <2>2, <2>3, <2>4, PeerFacts DEF IInv, p
<1> QED BY ZenonT(60), <1>5, <1>7, <1>8

\* The ACK of the KeyUpdate in progress lets the writer catch up.
LEMMA ReceiveAckIInv ==
    ASSUME IInv, NEW a \in acks, ReceiveAck(a)
    PROVE  IInv'
<1> DEFINE p == a.to
           q == Peer(p)
<1>1. /\ TypeOK /\ q \in Ends /\ p \in Ends /\ p # q /\ p = Peer(q)
      /\ DirInv(p) /\ DirInv(q)
      /\ a.epoch \in Epochs /\ a.epoch <= cwEpoch[Peer(p)]
  BY RecordFacts, PeerFacts DEF IInv
<1>2. /\ allowPreviousEpoch' \in [Ends -> BOOLEAN]
      /\ \A x \in Ends : \/ allowPreviousEpoch'[x] = allowPreviousEpoch[x]
                         \/ crEpoch[x] = cwEpoch[Peer(x)]
  BY Zenon, <1>1, AllowQuiet DEF ReceiveAck
<1>3. /\ dtls13_HandleAck(p, a.list) /\ acks' = acks \ {a} /\ appData' = appData
      /\ allowPreviousEpoch' = [allowPreviousEpoch EXCEPT ![p] = AllowAfter(p, a.epoch)]
      /\ UNCHANGED <<crEpoch, recvMessageSeq, dtlsRcvdHandshake, ackTimer,
                     hdTimer, fatalAlertSent>>
  BY DEF ReceiveAck
<1>4. allowPreviousEpoch'[q] = allowPreviousEpoch[q]
  BY Zenon, <1>1, <1>3 DEF TypeOK
<1> HIDE DEF q
<1>5. DirInv(p)' /\ cwEpoch'[p] \in Epochs
  BY <1>1, <1>3, <1>4, AckDir DEF q
<1>6. TypeOK'
  <2>1. /\ cwEpoch' \in [Ends -> Epochs]
        /\ lastMessageFlight' \in [Ends -> SUBSET Messages]
    BY <1>1, <1>3, <1>5 DEF dtls13_HandleAck, TypeOK
  <2>2. handshakes' \subseteq HandshakeRecords
    <3> DEFINE left == {m \in lastMessageFlight[p] : m.seq \notin a.list}
    <3>1. handshakes' = handshakes \cup dtls_TransmitMessageFlight(p, left)
      BY <1>3 DEF dtls13_HandleAck
    <3>2. handshakes \subseteq HandshakeRecords /\ lastMessageFlight[p] \subseteq Messages
      BY Zenon, <1>1 DEF TypeOK
    <3>3. left \subseteq Messages /\ Peer(p) \in Ends
      BY Zenon, <1>1, <3>2 DEF q
    <3> HIDE DEF left, p
    <3> QED BY Zenon, <3>1, <3>2, <3>3, SentType
  <2>3. /\ isKeyUpdateInProgress' \in [Ends -> BOOLEAN]
        /\ rtTimer' \in [Ends -> BOOLEAN]
        /\ keyUpdateMessage' = keyUpdateMessage /\ sendMessageSeq' = sendMessageSeq
    BY Zenon, <1>1, <1>3 DEF dtls13_HandleAck, TypeOK
  <2> QED BY ZenonT(60), <1>1, <1>2, <1>3, <2>1, <2>2, <2>3 DEF TypeOK
<1>7. DirInv(q)'
  <2>1. /\ cwEpoch'[q] = cwEpoch[q] /\ rtTimer'[q] = rtTimer[q]
        /\ isKeyUpdateInProgress'[q] = isKeyUpdateInProgress[q]
        /\ keyUpdateMessage'[q] = keyUpdateMessage[q]
        /\ sendMessageSeq'[q] = sendMessageSeq[q]
        /\ lastMessageFlight'[q] = lastMessageFlight[q]
    BY Zenon, <1>1, <1>3 DEF dtls13_HandleAck, TypeOK
  <2>2. \A r \in handshakes' : r.to = Peer(q) => r \in handshakes
    <3> DEFINE left == {m \in lastMessageFlight[p] : m.seq \notin a.list}
    <3>1. handshakes' = handshakes \cup dtls_TransmitMessageFlight(p, left)
      BY <1>3 DEF dtls13_HandleAck
    <3> HIDE DEF left, p
    <3> QED BY <1>1, <3>1, SentTo DEF q
  <2>3. \/ allowPreviousEpoch'[Peer(q)] = allowPreviousEpoch[Peer(q)]
        \/ crEpoch[Peer(q)] = cwEpoch[q]
    BY <1>1, <1>2 DEF q
  <2> HIDE DEF p
  <2> QED BY Zenon, <1>1, <1>3, <2>1, <2>2, <2>3, SameDir
<1> QED BY <1>1, <1>5, <1>6, <1>7, PeerFacts DEF IInv, q

\* The invariant is inductive.
LEMMA NextIInv == IInv /\ [Next]_vars => IInv'
<1> SUFFICES ASSUME IInv, [Next]_vars PROVE IInv'
  BY ZenonT(60)
<1>1. CASE UNCHANGED vars
  BY ZenonT(60), <1>1 DEF vars, writer, reader, net, IInv, TypeOK, DirInv, FlightInv,
     UpdateInv, StepInv, OrderInv, HandshakesInv, RecordsInv, AckInv
<1>2. CASE Next
  <2>1. ASSUME NEW p \in Ends, NEW req \in BOOLEAN, SSLExp_KeyUpdate(p, req) PROVE IInv'
    BY <2>1, SendKeyUpdateIInv
  <2>2. ASSUME NEW p \in Ends,
               \/ ssl3_SendApplicationData(p) \/ dtls_RetransmitTimerExpiredCb(p)
               \/ dtls13_SendAckCb(p) \/ dtls13_HolddownTimerCb
        PROVE  IInv'
    BY <2>2, TimersIInv
  <2>3. CASE SSLExp_SendSessionTicket
    BY <2>3, SendTicketIInv
  <2>4. ASSUME NEW r \in handshakes, ReceiveHandshake(r) \/ LoseHandshake(r) PROVE IInv'
    BY <2>4, UnexpectedIInv, ReceiveTicketIInv, HandleKeyUpdateIInv DEF ReceiveHandshake
  <2>5. ASSUME NEW a \in acks, ReceiveAck(a) PROVE IInv'
    BY <2>5, ReceiveAckIInv
  <2>6. ASSUME \/ \E a \in acks : LoseAck(a)
               \/ \E d \in appData : LoseApplicationData(d) \/ ReceiveApplicationData(d)
        PROVE  IInv'
    BY <2>6, OtherRecordsIInv
  <2>7. Client \in Ends
    BY DEF Ends
  <2> QED BY <1>2, <2>1, <2>2, <2>3, <2>4, <2>5, <2>6, <2>7 DEF Next
<1> QED BY <1>1, <1>2

-----------------------------------------------------------------------------
(* The theorems.                                                           *)

\* The inductive invariant holds in every reachable state.
THEOREM IInvHolds == Spec => []IInv
<1>1. IInv /\ [Next]_vars => IInv'
  BY NextIInv
<1> QED BY InitIInv, <1>1, PTL DEF Spec

\* Every reachable state is well typed: in particular no epoch passes
\* MaxEpoch, though tls13_UpdateTrafficKeys steps it without a bound of its own
\* at the writer.
THEOREM TypeCorrect == Spec => []TypeOK
<1>1. IInv => TypeOK
  BY Zenon DEF IInv
<1> QED BY IInvHolds, <1>1, PTL

\* The ends stay in step, for any number of updates in both directions, any
\* losses and any order of delivery.
THEOREM InStep == Spec => []EpochsInStep
<1>1. IInv => EpochsInStep
  BY DEF IInv, DirInv, StepInv, EpochsInStep
<1> QED BY IInvHolds, <1>1, PTL

\* What an end writes now, the other end would let through: the old read keys
\* are honoured (allowPreviousEpoch) exactly as long as they are needed.
THEOREM Readable == Spec => []WritesAreReadable
<1>1. IInv => WritesAreReadable
  <2> SUFFICES ASSUME IInv, NEW p \in Ends PROVE Current(Peer(p), cwEpoch[p])
    BY DEF WritesAreReadable
  <2> DEFINE q == Peer(p)
  <2>1. /\ cwEpoch[p] \in Nat /\ cwEpoch[p] >= 3 /\ crEpoch[q] \in Nat
        /\ TrafficKeyApplicationData = 3
    BY SMTT(60), PeerFacts, BoundAssumption DEF IInv, TypeOK, Epochs, TrafficKeyApplicationData
  <2>2. \/ crEpoch[q] = cwEpoch[p]
        \/ crEpoch[q] = cwEpoch[p] + 1 /\ allowPreviousEpoch[q]
    BY DEF IInv, DirInv, StepInv
  <2> HIDE DEF q
  <2>3. dtls_ReadEpoch(crEpoch[q], cwEpoch[p] % 4) = cwEpoch[p]
    BY <2>1, <2>2, EpochRecovered
  <2>4. Current(q, cwEpoch[p])
    BY SMTT(60), <2>1, <2>2, <2>3 DEF Current, Opens
  <2> QED BY <2>4 DEF q
<1> QED BY IInvHolds, <1>1, PTL

\* No message leaves the flight before the peer has handled it, and none is
\* left in the flight without a retransmit timer.
THEOREM Remembered == Spec => []NothingForgotten
<1>1. IInv => NothingForgotten
  BY Zenon DEF IInv, DirInv, OrderInv, FlightInv, NothingForgotten
<1> QED BY IInvHolds, <1>1, PTL

\* At most one KeyUpdate is outstanding in each direction.
THEOREM OneUpdate == Spec => []OneKeyUpdateInFlight
<1>1. IInv => OneKeyUpdateInFlight
  BY Zenon DEF IInv, DirInv, UpdateInv, OneKeyUpdateInFlight
<1> QED BY IInvHolds, <1>1, PTL

\* A KeyUpdate yet to be handled always finds an epoch left at its receiver.
THEOREM LimitRespected == Spec => []LastEpochIsSafe
<1>1. IInv => LastEpochIsSafe
  <2> SUFFICES ASSUME IInv, NEW r \in handshakes, r.msg.type = "key_update",
                      r.msg.seq = recvMessageSeq[r.to]
               PROVE  crEpoch[r.to] < MaxEpoch
    BY Zenon DEF LastEpochIsSafe
  <2> DEFINE q == r.to
             p == Peer(q)
  <2>1. q \in Ends /\ p \in Ends /\ q = Peer(p) /\ DirInv(p) /\ TypeOK
    BY RecordFacts, PeerFacts DEF IInv
  <2>2. r.msg \in Messages
    BY RecordFacts DEF IInv
  <2>3. r.msg \in lastMessageFlight[p]
    BY Zenon, <2>1, <2>2, NextIsInFlight
  <2>4. /\ isKeyUpdateInProgress[p] /\ keyUpdateMessage[p] = recvMessageSeq[q]
        /\ cwEpoch[p] < MaxEpoch
    BY Zenon, <2>1, <2>3 DEF DirInv, UpdateInv
  <2> HIDE DEF p, q
  <2>5. crEpoch[q] < MaxEpoch
    BY <2>1, <2>4, EpochLeft
  <2> QED BY <2>5 DEF q
<1> QED BY IInvHolds, <1>1, PTL

=============================================================================
