------------------------ MODULE DtlsFragmentProofs ------------------------
(***************************************************************************)
(* The reassembly of DTLS handshake messages is right for any number of    *)
(* messages of any lengths, however they are cut: the properties of        *)
(* DtlsReassembly for every end that is not a fresh server (Stateless =    *)
(* FALSE: with it, and two ClientHellos of one length, HighWaterReceived   *)
(* fails).                                                                 *)
(*                                                                         *)
(* And the search for what is not acknowledged (DtlsUnackedRange) returns  *)
(* the right range, for a message of any length and any list of records,   *)
(* in any order and overlapping in any way.                                *)
(*                                                                         *)
(* And a flight (DtlsFlight) of any messages, under any plateaus of the    *)
(* MTU and on any path: what is packed fits, and what is acknowledged or   *)
(* dropped was received.  A transmission is an iteration (Rounds); its     *)
(* invariant is Fitting, and Within shows that it comes to its end.        *)
(***************************************************************************)
EXTENDS DtlsReassembly, DtlsUnackedRange, DtlsFlight, WellFoundedInduction, TLAPS

\* The leaves are Zenon's unless they name SMT.
USE ZenonT(20)

\* A reassembly in progress: the mark lies inside the next message, on a byte
\* that is missing, and what is below it or in the map is remembered.
Progress ==
    recvdHighWater # -1 =>
        /\ recvMessageSeq \in Msgs
        /\ msg_len = MsgLen[recvMessageSeq]
        /\ recvdHighWater < MsgLen[recvMessageSeq]
        /\ recvdHighWater \notin recvdFragments
        /\ \A o \in recvdFragments : /\ o < MsgLen[recvMessageSeq]
                                     /\ msg_body[o] = recvMessageSeq

IInv ==
    /\ TypeOK
    /\ waitClientHello = FALSE
    /\ Progress
    /\ HandedUpIntact
    /\ HighWaterReceived
    /\ AcknowledgedIsHeld

-----------------------------------------------------------------------------

\* A set of numbers that is not empty has a least one.
LEMMA LeastExists ==
    ASSUME NEW T \in SUBSET Nat, T # {}
    PROVE  \E x \in T : \A y \in T : x <= y
<1> DEFINE R == OpToRel(<, Nat)
<1>1. IsWellFoundedOn(R, Nat) BY NatLessThanWellFounded
<1>2. \A x, y \in Nat : y < x => <<y, x>> \in R BY DEF OpToRel
<1> HIDE DEF R
<1>3. \E x \in T : \A y \in T : ~(<<y, x>> \in R) BY <1>1, WFMin
<1>4. PICK x \in T : \A y \in T : ~(<<y, x>> \in R) BY <1>3
<1>5. \A y \in T : ~(y < x) BY <1>2, <1>4
<1> QED BY SMTT(30), <1>5

\* The mark stops at the first byte that is missing, or at the end.
LEMMA NewHighWaterIs ==
    ASSUME NEW hw \in Nat, NEW size \in Nat, hw <= size, NEW frags
    PROVE  /\ NewHighWater(hw, frags, size) \in hw..size
           /\ \A o \in hw..(NewHighWater(hw, frags, size) - 1) : o \in frags
           /\ \/ NewHighWater(hw, frags, size) = size
              \/ NewHighWater(hw, frags, size) \notin frags
<1> DEFINE T == {h \in hw..size : h = size \/ h \notin frags}
<1> DEFINE Good(h) == /\ \A o \in hw..(h - 1) : o \in frags
                      /\ h = size \/ h \notin frags
<1>1. T \in SUBSET Nat /\ size \in T BY SMTT(30)
<1>2. PICK h \in T : \A y \in T : h <= y
  <2> HIDE DEF T
  <2> QED BY <1>1, LeastExists
<1>3. \A o \in hw..(h - 1) : o \in frags
  <2> SUFFICES ASSUME NEW o \in hw..(h - 1), o \notin frags PROVE FALSE OBVIOUS
  <2>1. o \in hw..size /\ o < h BY SMTT(30), <1>1
  <2>2. o \in T BY <2>1
  <2> QED BY SMTT(30), <1>1, <1>2, <2>1, <2>2
<1>4. h \in hw..size /\ Good(h) BY <1>2, <1>3
<1>5. NewHighWater(hw, frags, size) = CHOOSE x \in hw..size : Good(x) BY DEF NewHighWater
<1> HIDE DEF T, Good
<1>6. NewHighWater(hw, frags, size) \in hw..size /\ Good(NewHighWater(hw, frags, size))
  BY <1>4, <1>5
<1> QED BY <1>6 DEF Good

\* The lengths of the messages, and where their bytes lie.
LEMMA LenFacts ==
    ASSUME NEW seq \in Msgs
    PROVE  /\ MsgLen[seq] \in Nat /\ seq \in Nat /\ seq + 1 \in 0..NumMsgs
           /\ \A o \in 0..(MsgLen[seq] - 1) : o \in Offsets /\ o \in Nat
<1>1. MsgLen[seq] \in Nat /\ seq \in Nat /\ seq + 1 \in 0..NumMsgs
  BY SMTT(30), LenAssumption DEF Msgs
<1>2. \A o \in 0..(MsgLen[seq] - 1) : o \in Offsets /\ o \in Nat BY SMTT(30), <1>1 DEF Offsets
<1> QED BY <1>1, <1>2

\* Nothing has arrived, nothing is claimed.
LEMMA InitIInv == ~Stateless /\ Init => IInv
<1> SUFFICES ASSUME ~Stateless, Init PROVE IInv OBVIOUS
<1>1. waitClientHello = FALSE BY StatelessAssumption DEF Init
<1>2. waitClientHello \in BOOLEAN BY <1>1
<1>3. /\ recvMessageSeq = 0 /\ recvdHighWater = -1 /\ recvdFragments = {}
      /\ msg_len = 0 /\ msg_body = [o \in Offsets |-> NoByte]
      /\ remembered = {} /\ handedUp = [seq |-> -1, body |-> {}]
  BY DEF Init
<1>4. TypeOK BY SMTT(30), <1>2, <1>3, LenAssumption DEF TypeOK, NoByte, Offsets, Msgs
<1> QED BY SMTT(30), <1>1, <1>3, <1>4 DEF Init, IInv, Progress, HandedUpIntact, HighWaterReceived,
           AcknowledgedIsHeld

\* Handing up an intact message keeps the invariant: all that is remembered is
\* of messages that were handed up.
LEMMA HandleMessageIInv ==
    ASSUME IInv, NEW seq \in Msgs, seq = recvMessageSeq, NEW blocks \in BOOLEAN,
           NEW off \in Nat, NEW size \in Nat, off + size <= MsgLen[seq],
           NEW body, body \subseteq {seq},
           HandleMessage(seq, body, Bytes(seq, off, size), blocks),
           recvdFragments' \subseteq Offsets,
           msg_body' \in [Offsets -> Msgs \cup {NoByte}]
    PROVE  IInv'
<1>1. /\ recvdHighWater' = -1 /\ recvMessageSeq' = seq + 1
      /\ handedUp' = [seq |-> seq, body |-> body]
      /\ waitClientHello' = FALSE /\ msg_len' = MsgLen[seq]
  BY DEF HandleMessage
<1>2. remembered' \subseteq remembered \cup Bytes(seq, off, size) BY DEF HandleMessage
<1>3. Bytes(seq, off, size) \subseteq Msgs \X Offsets BY SMTT(30), LenFacts DEF Bytes
<1>4. \A b \in Bytes(seq, off, size) : b[1] = seq BY SMTT(30) DEF Bytes
<1>5. TypeOK' BY <1>1, <1>2, <1>3, LenFacts DEF TypeOK, IInv, NoByte
<1>6. AcknowledgedIsHeld'
  <2> SUFFICES ASSUME NEW b \in remembered' PROVE b[1] < recvMessageSeq'
    BY DEF AcknowledgedIsHeld
  <2>1. CASE b \in Bytes(seq, off, size) BY SMTT(30), <2>1, <1>1, <1>4, LenFacts
  <2>2. CASE b \in remembered
    <3>1. b[1] <= recvMessageSeq /\ b[1] \in Nat
      BY SMTT(30), <2>2 DEF IInv, AcknowledgedIsHeld, TypeOK, Msgs
    <3> QED BY SMTT(30), <3>1, <1>1, LenFacts
  <2> QED BY <2>1, <2>2, <1>2
<1>7. Progress' /\ HandedUpIntact' /\ HighWaterReceived'
  BY SMTT(30), <1>1 DEF Progress, HandedUpIntact, HighWaterReceived
<1> QED BY <1>1, <1>5, <1>6, <1>7 DEF IInv

\* A message that arrives whole is handed up from its record.
LEMMA WholeMessageIInv ==
    ASSUME IInv, NEW seq \in Msgs, NEW blocks \in BOOLEAN,
           NEW off \in Nat, NEW size \in Nat, off + size <= MsgLen[seq],
           WholeMessage(seq, off, size, blocks)
    PROVE  IInv'
<1> DEFINE body == {IF o < size THEN seq ELSE NoByte : o \in 0..(MsgLen[seq] - 1)}
<1>1. seq = recvMessageSeq BY DEF WholeMessage, Expected, IInv
<1>2. HandleMessage(seq, body, Bytes(seq, off, size), blocks) BY DEF WholeMessage
<1>3. body \subseteq {seq} BY SMTT(30) DEF WholeMessage, IsWhole
<1>4. recvdFragments' \subseteq Offsets /\ msg_body' \in [Offsets -> Msgs \cup {NoByte}]
  BY DEF WholeMessage, IInv, TypeOK
<1> HIDE DEF body
<1> QED BY <1>1, <1>2, <1>3, <1>4, HandleMessageIInv

\* A part of the next message goes into the buffer, and is held.
LEMMA PartOfMessageStep ==
    ASSUME IInv, NEW seq \in Msgs, NEW blocks \in BOOLEAN,
           NEW off \in Nat, NEW size \in Nat, off + size <= MsgLen[seq],
           PartOfMessage(seq, off, size, blocks), size > 0 \/ MsgLen[seq] = 0
    PROVE  IInv' /\ Receiver!Receive(seq, off..(off + size - 1))
<1> DEFINE hw == IF recvdHighWater = -1 THEN 0 ELSE recvdHighWater
           stop == off + size
           frags == IF off <= hw THEN StartMap ELSE StartMap \cup off..(stop - 1)
           hw1 == MarkAfter(hw, off, stop)
           mark == NewHighWater(hw1, frags, MsgLen[seq])
           body == IF stop > hw
                   THEN [o \in Offsets |-> IF o \in off..(stop - 1) THEN seq ELSE msg_body[o]]
                   ELSE msg_body
<1>1. seq = recvMessageSeq BY DEF PartOfMessage, Expected, IInv
<1>2. ~IsWhole(seq, off, size) BY DEF PartOfMessage
<1>3. MsgLen[seq] \in Nat /\ seq \in Nat BY LenFacts
<1>4. hw \in Nat /\ hw <= MsgLen[seq] /\ (recvdHighWater # -1 => hw < MsgLen[seq])
  BY SMTT(30), <1>1, <1>3, LenFacts DEF IInv, TypeOK, Progress, Offsets
<1> HIDE DEF hw
<1>5. stop \in Nat /\ stop <= MsgLen[seq] BY SMTT(30)
<1>6. hw1 \in Nat /\ hw <= hw1 /\ hw1 <= MsgLen[seq] BY SMTT(30), <1>3, <1>4, <1>5 DEF MarkAfter
<1>7. /\ mark \in hw1..MsgLen[seq]
      /\ \A o \in hw1..(mark - 1) : o \in frags
      /\ mark = MsgLen[seq] \/ mark \notin frags
  <2> HIDE DEF hw1, frags
  <2> QED BY <1>3, <1>6, NewHighWaterIs
<1>8. StartMap \subseteq Offsets
      /\ \A o \in StartMap : o \in 0..(MsgLen[seq] - 1) /\ msg_body[o] = seq
  BY SMTT(30), <1>1, <1>3 DEF StartMap, IInv, TypeOK, Progress, Offsets
<1>9. off..(stop - 1) \subseteq 0..(MsgLen[seq] - 1) BY SMTT(30), <1>3, <1>5
<1>10. \A o \in 0..(MsgLen[seq] - 1) : o \in Offsets BY LenFacts
<1>11. frags \subseteq Offsets /\ frags \subseteq 0..(MsgLen[seq] - 1)
  BY <1>8, <1>9, <1>10
<1>12. body \in [Offsets -> Msgs \cup {NoByte}] BY DEF IInv, TypeOK
<1>13. \A o \in Offsets : msg_body[o] = seq => body[o] = seq OBVIOUS
<1>14. \A o \in off..(stop - 1) : o >= hw => body[o] = seq
  BY SMTT(30), <1>4, <1>5, <1>9, <1>10
<1>15. \A o \in 0..(hw - 1) : o \in Offsets /\ msg_body[o] = seq
  BY SMTT(30), <1>1, <1>3, <1>4, <1>10 DEF IInv, HighWaterReceived, hw
<1>16. \A o \in frags : body[o] = seq
  <2> SUFFICES ASSUME NEW o \in frags PROVE body[o] = seq OBVIOUS
  <2>1. CASE o \in StartMap BY <2>1, <1>8, <1>13
  <2>2. CASE o \in off..(stop - 1) /\ ~(off <= hw) BY SMTT(30), <2>2, <1>4, <1>5, <1>14
  <2> QED BY <2>1, <2>2
<1>17. \A o \in 0..(hw1 - 1) : body[o] = seq
  <2> SUFFICES ASSUME NEW o \in 0..(hw1 - 1) PROVE body[o] = seq OBVIOUS
  <2>1. CASE o < hw BY SMTT(30), <2>1, <1>4, <1>6, <1>13, <1>15
  <2>2. CASE ~(o < hw)
    <3>1. o \in off..(stop - 1) /\ o >= hw BY SMTT(30), <2>2, <1>4, <1>5, <1>6 DEF MarkAfter
    <3> HIDE DEF body
    <3> QED BY <3>1, <1>14
  <2> QED BY <2>1, <2>2
<1>18. \A o \in 0..(mark - 1) : body[o] = seq
  <2> HIDE DEF body, mark, frags, hw1
  <2> SUFFICES ASSUME NEW o \in 0..(mark - 1) PROVE body[o] = seq OBVIOUS
  <2>1. CASE o < hw1 BY SMTT(30), <2>1, <1>6, <1>17
  <2>2. CASE ~(o < hw1) BY SMTT(30), <2>2, <1>6, <1>7, <1>16
  <2> QED BY <2>1, <2>2
<1>19. ~LengthMismatch(seq) BY <1>1 DEF LengthMismatch, IInv, Progress
<1>20. recvdFragments' = frags /\ msg_body' = body BY <1>19 DEF PartOfMessage, hw
<1>23. 0..(mark - 1) \cup frags = Held \cup off..(off + size - 1)
  <2>1. Held = 0..(hw - 1) \cup StartMap BY SMTT(30) DEF Held, StartMap, hw
  <2>2. ASSUME NEW x \in 0..(mark - 1) \cup frags
        PROVE  x \in 0..(hw - 1) \cup StartMap \cup off..(stop - 1)
    <3>1. CASE x \in frags BY <3>1
    <3>2. CASE x \in 0..(mark - 1) /\ x < hw1
      BY SMTT(30), <3>2, <1>4, <1>5, <1>6 DEF MarkAfter
    <3>3. CASE x \in 0..(mark - 1) /\ ~(x < hw1)
      <4> HIDE DEF mark, hw1
      <4>1. x \in frags
        <5> HIDE DEF frags
        <5> QED BY SMTT(30), <3>3, <1>6, <1>7
      <4> QED BY <4>1
    <3> QED BY <2>2, <3>1, <3>2, <3>3
  <2>3. ASSUME NEW x \in 0..(hw - 1) \cup StartMap \cup off..(stop - 1)
        PROVE  x \in 0..(mark - 1) \cup frags
    <3>1. CASE x \in StartMap BY <3>1
    <3>2. CASE x \in 0..(hw - 1)
      <4> HIDE DEF mark, hw1
      <4> QED BY SMTT(30), <3>2, <1>3, <1>4, <1>6, <1>7
    <3>3. CASE x \in off..(stop - 1) /\ off <= hw
      <4>1. x < hw1 /\ x \in Nat BY SMTT(30), <3>3, <1>4, <1>5 DEF MarkAfter
      <4> HIDE DEF mark, hw1
      <4> QED BY SMTT(30), <4>1, <1>3, <1>6, <1>7
    <3>4. CASE x \in off..(stop - 1) /\ ~(off <= hw) BY <3>4
    <3> QED BY <2>3, <3>1, <3>2, <3>3, <3>4
  <2> DEFINE A == 0..(mark - 1) \cup frags
             B == 0..(hw - 1) \cup StartMap \cup off..(stop - 1)
  <2>4. (\A x \in A : x \in B) /\ (\A x \in B : x \in A) BY <2>2, <2>3
  <2>5. B = Held \cup off..(off + size - 1) BY SMTT(30), <2>1
  <2>6. A = B
    <3> HIDE DEF A, B
    <3> QED BY <2>4
  <2> QED BY <2>5, <2>6
<1>21. CASE mark = MsgLen[seq]
  <2> DEFINE up == {body[o] : o \in 0..(MsgLen[seq] - 1)}
  <2>1. HandleMessage(seq, up, Bytes(seq, off, size), blocks)
    BY <1>19, <1>21 DEF PartOfMessage, hw
  <2> HIDE DEF body, mark, frags
  <2>2. up \subseteq {seq} BY <1>18, <1>21
  <2> HIDE DEF up
  <2>3. IInv' BY <1>1, <1>11, <1>12, <1>20, <2>1, <2>2, HandleMessageIInv
  <2>4. recvMessageSeq' = recvMessageSeq + 1 /\ Held' = {}
    BY <1>1, <2>1 DEF HandleMessage, Held
  <2>5. Held \cup off..(off + size - 1) = 0..(MsgLen[seq] - 1)
    BY <1>11, <1>21, <1>23
  <2> QED BY <1>1, <2>3, <2>4, <2>5 DEF Receiver!Receive
<1>22. CASE mark # MsgLen[seq]
  <2>1. /\ recvdHighWater' = mark /\ recvMessageSeq' = seq /\ msg_len' = MsgLen[seq]
        /\ remembered' = remembered \cup Bytes(seq, off, size)
        /\ waitClientHello' = waitClientHello /\ handedUp' = handedUp
    BY <1>19, <1>22 DEF PartOfMessage, hw
  <2>2. mark \in 0..(MsgLen[seq] - 1) /\ mark # -1
    <3> HIDE DEF mark, hw1
    <3> QED BY SMTT(30), <1>3, <1>6, <1>7, <1>22
  <2>3. Bytes(seq, off, size) \subseteq Msgs \X Offsets BY SMTT(30), <1>9, <1>10 DEF Bytes
  <2>4. \A o \in off..(stop - 1) : (o < mark \/ o \in frags) /\ body[o] = seq
    <3> SUFFICES ASSUME NEW o \in off..(stop - 1)
                 PROVE  (o < mark \/ o \in frags) /\ body[o] = seq
      OBVIOUS
    <3>1. CASE off <= hw
      <4>1. o < hw1 BY SMTT(30), <3>1, <1>4, <1>5 DEF MarkAfter
      <4>2. o \in 0..(mark - 1) /\ o < mark
        <5> HIDE DEF mark, hw1
        <5> QED BY SMTT(30), <4>1, <1>5, <1>6, <1>7
      <4> QED BY <4>2, <1>18
    <3>2. CASE ~(off <= hw) BY <3>2, <1>16
    <3> QED BY <3>1, <3>2
  <2>5. \A b \in remembered : b[1] = seq =>
            (b[2] < mark \/ b[2] \in frags) /\ body[b[2]] = seq
    <3> SUFFICES ASSUME NEW b \in remembered, b[1] = seq
                 PROVE  (b[2] < mark \/ b[2] \in frags) /\ body[b[2]] = seq
      OBVIOUS
    <3>1. /\ b[2] < hw \/ b[2] \in StartMap
          /\ msg_body[b[2]] = seq /\ b[2] \in Offsets
      <4>1. b[2] \in Offsets BY DEF IInv, TypeOK
      <4>2. b[1] < recvMessageSeq
            \/ /\ recvdHighWater # -1 /\ (b[2] < recvdHighWater \/ b[2] \in recvdFragments)
               /\ msg_body[b[2]] = b[1]
        BY DEF IInv, AcknowledgedIsHeld
      <4>3. ~(b[1] < recvMessageSeq) BY SMTT(30), <1>1, <1>3
      <4> QED BY <4>1, <4>2, <4>3 DEF StartMap, hw
    <3>2. b[2] \in StartMap => b[2] \in frags OBVIOUS
    <3>3. b[2] < hw => b[2] < mark
      <4>1. b[2] \in Int BY SMTT(30), <3>1, LenAssumption DEF Offsets
      <4> HIDE DEF mark, hw1
      <4> QED BY SMTT(30), <4>1, <1>3, <1>4, <1>6, <1>7
    <3> QED BY <3>1, <3>2, <3>3, <1>13
  <2> HIDE DEF body, mark, frags
  <2>6. TypeOK'
    BY <1>1, <1>3, <1>10, <1>11, <1>12, <1>20, <2>1, <2>2, <2>3 DEF IInv, TypeOK
  <2>7. Progress' BY SMTT(30), <1>3, <1>7, <1>11, <1>16, <1>20, <1>22, <2>1, <2>2 DEF Progress
  <2>8. HighWaterReceived' BY <1>18, <1>20, <2>1 DEF HighWaterReceived
  <2>9. AcknowledgedIsHeld'
    <3> SUFFICES ASSUME NEW b \in remembered'
                 PROVE  \/ b[1] < seq
                        \/ /\ b[1] = seq
                           /\ b[2] < mark \/ b[2] \in frags
                           /\ body[b[2]] = seq
      BY <1>20, <2>1, <2>2 DEF AcknowledgedIsHeld
    <3>1. CASE b \in Bytes(seq, off, size) BY SMTT(30), <3>1, <2>4 DEF Bytes
    <3>2. CASE b \in remembered
      <4>1. b[1] < seq \/ b[1] = seq BY <1>1, <3>2 DEF IInv, AcknowledgedIsHeld
      <4> QED BY <4>1, <3>2, <2>5
    <3> QED BY <3>1, <3>2, <2>1
  <2>10. Held' = Held \cup off..(off + size - 1) BY <1>20, <1>23, <2>1, <2>2 DEF Held
  <2>11. Held \cup off..(off + size - 1) # 0..(MsgLen[seq] - 1)
    BY SMTT(30), <1>7, <1>22, <1>23, <2>2
  <2>12. IInv' BY <2>1, <2>6, <2>7, <2>8, <2>9 DEF IInv, HandedUpIntact
  <2> QED BY <1>1, <2>1, <2>10, <2>11, <2>12 DEF Receiver!Receive
<1> QED BY <1>21, <1>22

\* Every call of dtls_HandleHandshake keeps the invariant.
LEMMA NextIInv == IInv /\ [Next]_vars => IInv'
<1> SUFFICES ASSUME IInv, [Next]_vars PROVE IInv' OBVIOUS
<1> DEFINE same == UNCHANGED <<recvMessageSeq, recvdHighWater, recvdFragments, msg_len,
                               msg_body, waitClientHello, remembered, handedUp>>
<1>1. CASE same
  BY <1>1 DEF IInv, TypeOK, Progress, HandedUpIntact, HighWaterReceived,
              AcknowledgedIsHeld
<1>2. ASSUME NEW seq \in Msgs, NEW blocks \in BOOLEAN, NEW frag \in Fragments(seq),
             dtls_HandleHandshake(seq, frag[1], frag[2], blocks)
      PROVE  IInv'
  <2> DEFINE off == frag[1]
             size == frag[2]
  <2>1. /\ off \in Nat /\ size \in Nat /\ off + size <= MsgLen[seq]
        /\ size > 0 \/ MsgLen[seq] = 0
    BY SMTT(30), LenFacts DEF Fragments
  <2> HIDE DEF off, size
  <2>2. CASE WholeMessage(seq, off, size, blocks) BY <2>1, <2>2, WholeMessageIInv
  <2>3. CASE OtherMessage(seq, off, size) BY <2>3, <1>1 DEF OtherMessage
  <2>4. CASE PartOfMessage(seq, off, size, blocks) BY <2>1, <2>4, PartOfMessageStep
  <2> QED BY <1>2, <2>2, <2>3, <2>4 DEF dtls_HandleHandshake, off, size
<1> QED BY <1>1, <1>2 DEF Next, vars

\* Every call is a step of the abstract receiver, or leaves it alone.
LEMMA NextReceiver ==
    IInv /\ [Next]_vars => [Receiver!Next]_<<recvMessageSeq, Held, input>>
<1> SUFFICES ASSUME IInv, [Next]_vars
             PROVE  \/ Receiver!Next
                    \/ recvMessageSeq' = recvMessageSeq /\ Held' = Held /\ input' = input
  OBVIOUS
<1>1. CASE UNCHANGED vars BY <1>1 DEF vars, Held
<1>2. ASSUME NEW seq \in Msgs, NEW blocks \in BOOLEAN, NEW frag \in Fragments(seq),
             dtls_HandleHandshake(seq, frag[1], frag[2], blocks)
      PROVE  Receiver!Next
  <2> DEFINE off == frag[1]
             size == frag[2]
             F == off..(off + size - 1)
  <2>1. /\ off \in Nat /\ size \in Nat /\ off + size <= MsgLen[seq]
        /\ size > 0 \/ MsgLen[seq] = 0
    BY SMTT(30), LenFacts DEF Fragments
  <2>2. F \in SUBSET (0..(MsgLen[seq] - 1)) BY SMTT(30), <2>1, LenFacts
  <2>3. Receiver!Receive(seq, F) => Receiver!Next
    <3>1. input' = [seq |-> seq, bytes |-> F] BY <1>2 DEF dtls_HandleHandshake
    <3> HIDE DEF F
    <3> QED BY <2>2, <3>1 DEF Receiver!Next, Msgs
  <2> HIDE DEF off, size
  <2>4. CASE WholeMessage(seq, off, size, blocks)
    <3>1. seq = recvMessageSeq /\ IsWhole(seq, off, size)
      BY <2>4 DEF WholeMessage, Expected, IInv
    <3>2. recvMessageSeq' = recvMessageSeq + 1 /\ Held' = {}
      BY <2>4, <3>1 DEF WholeMessage, HandleMessage, Held
    <3>3. F = 0..(MsgLen[seq] - 1)
      <4>1. off = 0 /\ off + size - 1 = MsgLen[seq] - 1 BY SMTT(30), <3>1, LenFacts DEF IsWhole
      <4> QED BY <4>1
    <3>4. Held \subseteq 0..(MsgLen[seq] - 1)
      BY SMTT(30), <3>1, LenFacts DEF Held, IInv, TypeOK, Progress, Offsets
    <3>5. Held \cup F = 0..(MsgLen[seq] - 1)
      <4> HIDE DEF F
      <4> QED BY <3>3, <3>4
    <3>6. Receiver!Receive(seq, F)
      <4> HIDE DEF F
      <4> QED BY <3>1, <3>2, <3>5 DEF Receiver!Receive
    <3> QED BY <3>6, <2>3
  <2>5. CASE OtherMessage(seq, off, size)
    <3>1. seq # recvMessageSeq /\ recvMessageSeq' = recvMessageSeq /\ Held' = Held
      BY <2>5 DEF OtherMessage, Expected, IInv, Held
    <3> QED BY <3>1, <2>3 DEF Receiver!Receive
  <2>6. CASE PartOfMessage(seq, off, size, blocks)
    <3>1. Receiver!Receive(seq, F) BY <2>1, <2>6, PartOfMessageStep
    <3> QED BY <3>1, <2>3
  <2> QED BY <1>2, <2>4, <2>5, <2>6 DEF dtls_HandleHandshake, off, size
<1> QED BY <1>1, <1>2 DEF Next

\* While a message is not handed up, its byte at the mark is missing.
LEMMA IInvCompletion == IInv => CompletionNotMissed
<1> SUFFICES ASSUME IInv, recvMessageSeq < NumMsgs, MsgLen[recvMessageSeq] > 0
             PROVE  \E o \in 0..(MsgLen[recvMessageSeq] - 1) :
                        <<recvMessageSeq, o>> \notin remembered
  BY DEF CompletionNotMissed
<1> DEFINE o == IF recvdHighWater = -1 THEN 0 ELSE recvdHighWater
<1>1. recvMessageSeq \in Msgs /\ MsgLen[recvMessageSeq] \in Nat
  BY SMTT(30), LenAssumption, LenFacts DEF IInv, TypeOK, Msgs
<1>2. o \in 0..(MsgLen[recvMessageSeq] - 1) BY SMTT(30), <1>1 DEF IInv, TypeOK, Progress, Offsets
<1>3. <<recvMessageSeq, o>> \notin remembered
  <2> SUFFICES ASSUME <<recvMessageSeq, o>> \in remembered PROVE FALSE OBVIOUS
  <2>1. /\ recvdHighWater # -1
        /\ o < recvdHighWater \/ o \in recvdFragments
    BY SMTT(30), <1>1, LenFacts DEF IInv, AcknowledgedIsHeld
  <2> QED BY SMTT(30), <2>1, <1>2 DEF IInv, Progress
<1> QED BY <1>2, <1>3

\* The inductive invariant of dtls_HandleHandshake.
THEOREM IInvHolds == ~Stateless /\ Spec => []IInv
<1>1. ~Stateless /\ Init => IInv BY InitIInv
<1>2. IInv /\ [Next]_vars => IInv' BY NextIInv
<1> QED BY <1>1, <1>2, PTL DEF Spec

\* The reassembly state keeps its types: the high water mark stays inside the
\* buffer and the map inside its bits.
THEOREM TypeCorrect == ~Stateless /\ Spec => []TypeOK
<1>1. IInv => TypeOK BY DEF IInv
<1> QED BY <1>1, IInvHolds, PTL

\* What dtls_HandleHandshake hands up is exactly the message the peer sent,
\* for every way of cutting, repeating and reordering its fragments.
THEOREM Intact == ~Stateless /\ Spec => []HandedUpIntact
<1>1. IInv => HandedUpIntact BY DEF IInv
<1> QED BY <1>1, IInvHolds, PTL

\* The bytes below the high water mark were received, as the comment of the
\* reassembly code says.
THEOREM MarkIsReceived == ~Stateless /\ Spec => []HighWaterReceived
<1>1. IInv => HighWaterReceived BY DEF IInv
<1> QED BY <1>1, IInvHolds, PTL

\* A byte that dtls13_SendAck may acknowledge is held or was handed up.
THEOREM AcknowledgedHeld == ~Stateless /\ Spec => []AcknowledgedIsHeld
<1>1. IInv => AcknowledgedIsHeld BY DEF IInv
<1> QED BY <1>1, IInvHolds, PTL

\* The reassembly implements the abstract receiver, for any number of messages
\* of any lengths: it hands up a message exactly when all of it was received.
THEOREM Refinement == ~Stateless /\ Spec => ImplementsReceiver
<1>1. Init => Receiver!Init BY DEF Init, Receiver!Init, Receiver!NoInput, Held
<1>2. IInv /\ [Next]_vars => [Receiver!Next]_<<recvMessageSeq, Held, input>> BY NextReceiver
<1> QED BY <1>1, <1>2, IInvHolds, PTL DEF Spec, ImplementsReceiver, Receiver!Spec

\* A message with every byte received is never left in the buffer.
THEOREM NeverStuck == ~Stateless /\ Spec => []CompletionNotMissed
<1>1. IInv => CompletionNotMissed BY IInvCompletion
<1> QED BY <1>1, IInvHolds, PTL

-----------------------------------------------------------------------------
(***************************************************************************)
(* The search for what is not acknowledged.                                *)
(***************************************************************************)

\* What was cut off on either side is acknowledged, and the loop goes on only
\* while something is left between the two.
Narrowed ==
    /\ \A b \in offset..(len - 1) : (b < start \/ b >= end) => Acked(b)
    /\ (result = "loop" /\ len > 0) => start < end
    /\ (result = "none" /\ len > 0) => start >= end

RangeIInv == RangeTypeOK /\ Narrowed /\ RangeIsTight

\* The search starts with all that is from offset on.
LEMMA RangeInitIInv == RangeInit => RangeIInv
<1> SUFFICES ASSUME RangeInit PROVE RangeIInv OBVIOUS
<1>1. PICK n \in 0..MaxEntries : entries \in [1..n -> Entries(len)] BY DEF RangeInit
<1>2. entries \in Seq(Entries(len)) BY SMTT(30), <1>1, BoundsAssumption
<1>3. RangeTypeOK BY SMTT(30), <1>2, BoundsAssumption DEF RangeInit, RangeTypeOK
<1>4. Narrowed BY SMTT(30), BoundsAssumption DEF RangeInit, Narrowed
<1> QED BY <1>3, <1>4 DEF RangeInit, RangeIInv, RangeIsTight

\* An entry of the list lies inside the message.
LEMMA EntryFacts ==
    ASSUME RangeTypeOK, NEW i \in DOMAIN entries
    PROVE  /\ entries[i].offset \in 0..len /\ entries[i].length \in 0..len
           /\ entries[i].offset + entries[i].length \in 0..len
           /\ len \in Nat /\ start \in Nat /\ end \in Nat /\ offset \in Nat
<1>1. len \in Nat /\ start \in Nat /\ end \in Nat /\ offset \in Nat
  BY SMTT(30), BoundsAssumption DEF RangeTypeOK
<1>2. entries[i] \in Entries(len) BY SMTT(30) DEF RangeTypeOK
<1> QED BY SMTT(30), <1>1, <1>2 DEF Entries

\* No step of the loop cuts off a byte that is not acknowledged.
LEMMA RangeNextIInv == RangeIInv /\ [RangeNext]_rangeVars => RangeIInv'
<1> SUFFICES ASSUME RangeIInv, [RangeNext]_rangeVars PROVE RangeIInv' OBVIOUS
<1>1. CASE UNCHANGED rangeVars
  BY <1>1 DEF rangeVars, RangeIInv, RangeTypeOK, Narrowed, RangeIsTight, Acked
<1>2. ASSUME NEW i \in DOMAIN entries, dtls_MoveUnackedStartForward(i) PROVE RangeIInv'
  <2> DEFINE from == entries[i].offset
             to == entries[i].offset + entries[i].length
  <2>1. from \in Nat /\ to \in 0..len /\ len \in Nat /\ start \in Nat /\ offset \in Nat
        /\ end \in Nat
    BY SMTT(30), EntryFacts DEF RangeIInv
  <2>2. /\ entries' = entries /\ len' = len /\ offset' = offset /\ end' = end
        /\ start' = to /\ result = "loop" /\ len > 0
        /\ result' = IF to >= end THEN "none" ELSE "loop"
        /\ entries[i].acked /\ from <= start /\ start < to
    BY <1>2 DEF dtls_MoveUnackedStartForward, FirstMove, Moves, MovesStart, inputs, Crossed
  <2>3. \A b \in offset..(len - 1) : from <= b /\ b < to => Acked(b)
    BY <2>2 DEF Acked
  <2>4. \A b : Acked(b)' = Acked(b) BY <2>2 DEF Acked
  <2> HIDE DEF from, to
  <2>5. RangeTypeOK' BY SMTT(30), <2>1, <2>2 DEF RangeIInv, RangeTypeOK
  <2>6. ASSUME NEW b \in offset..(len - 1), b < to \/ b >= end PROVE Acked(b)
    <3>1. CASE b < start BY <3>1, <2>1 DEF RangeIInv, Narrowed
    <3>2. CASE b >= start /\ b < to BY SMTT(30), <3>2, <2>1, <2>2, <2>3
    <3>3. CASE b >= end BY <3>3, <2>1 DEF RangeIInv, Narrowed
    <3> QED BY SMTT(30), <2>1, <2>6, <3>1, <3>2, <3>3
  <2>7. Narrowed' BY SMTT(30), <2>1, <2>2, <2>4, <2>6 DEF Narrowed
  <2> QED BY <2>2, <2>5, <2>7 DEF RangeIInv, RangeIsTight
<1>3. ASSUME NEW i \in DOMAIN entries, dtls_MoveUnackedEndBackward(i) PROVE RangeIInv'
  <2> DEFINE from == entries[i].offset
             to == entries[i].offset + entries[i].length
  <2>1. from \in 0..len /\ to \in Nat /\ len \in Nat /\ start \in Nat /\ offset \in Nat
        /\ end \in Nat
    BY SMTT(30), EntryFacts DEF RangeIInv
  <2>2. /\ entries' = entries /\ len' = len /\ offset' = offset /\ start' = start
        /\ end' = from /\ result = "loop" /\ len > 0
        /\ result' = IF start >= from THEN "none" ELSE "loop"
        /\ entries[i].acked /\ from < end /\ end <= to
    BY <1>3 DEF dtls_MoveUnackedEndBackward, FirstMove, Moves, MovesEnd, inputs, Crossed
  <2>3. \A b \in offset..(len - 1) : from <= b /\ b < to => Acked(b)
    BY <2>2 DEF Acked
  <2>4. \A b : Acked(b)' = Acked(b) BY <2>2 DEF Acked
  <2> HIDE DEF from, to
  <2>5. RangeTypeOK' BY <2>1, <2>2 DEF RangeIInv, RangeTypeOK
  <2>6. ASSUME NEW b \in offset..(len - 1), b < start \/ b >= from PROVE Acked(b)
    <3>1. CASE b < start BY <3>1, <2>1 DEF RangeIInv, Narrowed
    <3>2. CASE b >= from /\ b < to BY <3>2, <2>1, <2>2, <2>3
    <3>3. CASE b >= end BY <3>3, <2>1 DEF RangeIInv, Narrowed
    <3> QED BY SMTT(30), <2>1, <2>2, <2>6, <3>1, <3>2, <3>3
  <2>7. Narrowed' BY SMTT(30), <2>1, <2>2, <2>4, <2>6 DEF Narrowed
  <2> QED BY <2>2, <2>5, <2>7 DEF RangeIInv, RangeIsTight
<1>4. CASE Return
  <2>1. /\ entries' = entries /\ len' = len /\ offset' = offset /\ start' = start
        /\ end' = end /\ result = "loop" /\ len > 0 /\ result' = "range"
        /\ \A i \in DOMAIN entries : ~Moves(entries[i])
    BY <1>4 DEF Return, inputs
  <2>2. \A b : Acked(b)' = Acked(b) BY <2>1 DEF Acked
  <2>3. start < end /\ start \in Nat /\ end \in Nat
    BY SMTT(30), <2>1, BoundsAssumption DEF RangeIInv, Narrowed, RangeTypeOK
  <2>4. ~Acked(start) BY <2>1 DEF Acked, Moves, MovesStart
  <2>5. ~Acked(end - 1)
    <3> SUFFICES ASSUME NEW i \in DOMAIN entries, entries[i].acked,
                        entries[i].offset <= end - 1,
                        end - 1 < entries[i].offset + entries[i].length
                 PROVE  FALSE
      BY DEF Acked
    <3>1. MovesEnd(entries[i]) BY SMTT(30), <2>3, EntryFacts DEF MovesEnd, RangeIInv
    <3> QED BY <3>1, <2>1 DEF Moves
  <2>6. RangeTypeOK' BY <2>1 DEF RangeIInv, RangeTypeOK
  <2>7. Narrowed' BY <2>1, <2>2 DEF RangeIInv, Narrowed
  <2>8. RangeIsTight' BY <2>1, <2>2, <2>3, <2>4, <2>5 DEF RangeIInv, Narrowed, RangeIsTight
  <2> QED BY <2>6, <2>7, <2>8 DEF RangeIInv
<1>5. CASE dtls_IsEmptyMessageAcknowledged
  BY SMTT(30), <1>5, BoundsAssumption
     DEF dtls_IsEmptyMessageAcknowledged, inputs, RangeIInv, RangeTypeOK, Narrowed, RangeIsTight
<1> QED BY <1>1, <1>2, <1>3, <1>4, <1>5 DEF RangeNext

\* The inductive invariant of the loop.
THEOREM RangeIInvHolds == RangeSpec => []RangeIInv
<1> QED BY RangeInitIInv, RangeNextIInv, PTL DEF RangeSpec

\* start and end stay inside the message; neither wraps below zero.
THEOREM RangeTypeCorrect == RangeSpec => []RangeTypeOK
<1>1. RangeIInv => RangeTypeOK BY DEF RangeIInv
<1> QED BY <1>1, RangeIInvHolds, PTL

\* The range that dtls_NextUnackedRange returns holds all that is missing and
\* begins and ends with a byte that is.
THEOREM RangeTight == RangeSpec => []RangeIsTight
<1>1. RangeIInv => RangeIsTight BY DEF RangeIInv
<1> QED BY <1>1, RangeIInvHolds, PTL

\* When dtls_NextUnackedRange returns PR_FALSE, so that a message may be
\* removed from the flight, every byte from offset on was acknowledged.
THEOREM NoneAcknowledged == RangeSpec => []NoneMeansAcknowledged
<1>1. RangeIInv => NoneMeansAcknowledged
  <2> SUFFICES ASSUME RangeIInv, result = "none", len > 0, NEW b \in offset..(len - 1)
               PROVE  Acked(b)
    BY DEF NoneMeansAcknowledged
  <2>1. b \in Int /\ start \in Int /\ end \in Int /\ start >= end
    BY SMTT(30), BoundsAssumption DEF RangeIInv, RangeTypeOK, Narrowed
  <2> QED BY SMTT(30), <2>1 DEF RangeIInv, Narrowed
<1> QED BY <1>1, RangeIInvHolds, PTL

-----------------------------------------------------------------------------
(* DtlsFlight.  The loops of dtls_TransmitMessageFlight are an iteration,  *)
(* which exists and stays inside any set that one round does not leave.    *)

\* The first n steps of an iteration in S.
Stretch(S, step, s0, n) ==
    {h \in [0..n -> S] : h[0] = s0 /\ \A k \in 1..n : h[k] = step[h[k - 1]]}

\* A step that stays in S can be taken n times.
LEMMA StretchExists ==
    ASSUME NEW S, NEW step, NEW s0 \in S, \A s \in S : step[s] \in S, NEW n \in Nat
    PROVE  Stretch(S, step, s0, n) # {}
<1> DEFINE T == {k \in Nat : Stretch(S, step, s0, k) = {}}
<1> SUFFICES ASSUME T # {} PROVE FALSE OBVIOUS
<1>0. \E k \in T : \A y \in T : k <= y
  <2>1. T \in SUBSET Nat OBVIOUS
  <2> HIDE DEF T
  <2> QED BY <2>1, LeastExists
<1>1. PICK k \in T : \A y \in T : k <= y BY <1>0
<1>2. CASE k = 0
  <2>1. [i \in 0..0 |-> s0] \in Stretch(S, step, s0, 0) BY SMTT(30) DEF Stretch
  <2> QED BY <1>1, <1>2, <2>1
<1>3. CASE k # 0
  <2>1. k - 1 \in Nat /\ k - 1 \notin T BY SMTT(30), <1>1, <1>3
  <2>2. PICK h : h \in Stretch(S, step, s0, k - 1) BY <2>1
  <2>3. /\ h \in [0..(k - 1) -> S] /\ h[0] = s0
        /\ \A i \in 1..(k - 1) : h[i] = step[h[i - 1]]
    BY <2>2 DEF Stretch
  <2> DEFINE g == [i \in 0..k |-> IF i = k THEN step[h[k - 1]] ELSE h[i]]
  <2>4. h[k - 1] \in S BY SMTT(30), <2>1, <2>3
  <2>5. \A i \in 0..k : g[i] \in S BY SMTT(30), <1>1, <2>3, <2>4
  <2>6. g \in [0..k -> S] BY <2>5
  <2>7. g[0] = s0 BY SMTT(30), <1>1, <1>3, <2>3
  <2>8. \A i \in 1..k : g[i] = step[g[i - 1]]
    <3> TAKE i \in 1..k
    <3>1. g[i - 1] = h[i - 1] BY SMTT(30), <1>1
    <3>2. CASE i = k BY SMTT(30), <1>1, <3>1, <3>2
    <3>3. CASE i # k BY SMTT(30), <1>1, <2>3, <3>1, <3>3
    <3> QED BY <3>2, <3>3
  <2> HIDE DEF g
  <2>9. g \in Stretch(S, step, s0, k) BY <2>6, <2>7, <2>8 DEF Stretch
  <2> QED BY <1>1, <2>9
<1> QED BY <1>2, <1>3

\* Two stretches agree as far as both go.
LEMMA StretchUnique ==
    ASSUME NEW S, NEW step, NEW s0, NEW m \in Nat, NEW n \in Nat, m <= n,
           NEW g \in Stretch(S, step, s0, m), NEW h \in Stretch(S, step, s0, n)
    PROVE  \A k \in 0..m : g[k] = h[k]
<1> DEFINE T == {k \in 0..m : g[k] # h[k]}
<1> SUFFICES ASSUME T # {} PROVE FALSE OBVIOUS
<1>0. \E k \in T : \A y \in T : k <= y
  <2>1. T \in SUBSET Nat BY SMTT(30)
  <2> HIDE DEF T
  <2> QED BY <2>1, LeastExists
<1>1. PICK k \in T : \A y \in T : k <= y BY <1>0
<1>2. k # 0 BY <1>1 DEF Stretch
<1>3. k - 1 \in 0..m /\ k - 1 \notin T /\ k \in 1..m /\ k \in 1..n BY SMTT(30), <1>1, <1>2
<1>4. g[k - 1] = h[k - 1] BY <1>3
<1>5. g[k] = step[g[k - 1]] /\ h[k] = step[h[k - 1]] BY <1>3 DEF Stretch
<1> QED BY <1>1, <1>4, <1>5

\* g iterates step from s0 on.
Iterates(g, step, s0) == g = [k \in Nat |-> IF k = 0 THEN s0 ELSE step[g[k - 1]]]

\* A step that stays in S can be iterated for ever.
LEMMA IterationExists ==
    ASSUME NEW S, NEW step, NEW s0 \in S, \A s \in S : step[s] \in S
    PROVE  \E g : Iterates(g, step, s0)
<1> DEFINE H == [n \in Nat |-> CHOOSE h : h \in Stretch(S, step, s0, n)]
<1>1. \A n \in Nat : H[n] \in Stretch(S, step, s0, n) BY StretchExists
<1> HIDE DEF H
<1> DEFINE g == [n \in Nat |-> H[n][n]]
<1>2. \A n \in Nat : g[n] = IF n = 0 THEN s0 ELSE step[g[n - 1]]
  <2> TAKE n \in Nat
  <2>1. CASE n = 0 BY <1>1, <2>1 DEF Stretch
  <2>2. CASE n # 0
    <3>1. n - 1 \in Nat /\ n \in 1..n /\ n - 1 \in 0..(n - 1) /\ n - 1 <= n BY SMTT(30), <2>2
    <3>2. H[n][n] = step[H[n][n - 1]] BY <1>1, <3>1 DEF Stretch
    <3>3. H[n - 1][n - 1] = H[n][n - 1] BY SMTT(30), <1>1, <3>1, StretchUnique
    <3> QED BY <2>2, <3>1, <3>2, <3>3
  <2> QED BY <2>1, <2>2
<1>3. g = [k \in Nat |-> g[k]] OBVIOUS
<1> HIDE DEF g
<1>4. Iterates(g, step, s0) BY <1>2, <1>3 DEF Iterates
<1> QED BY <1>4

\* An iteration that starts in S stays there.
LEMMA IterationStays ==
    ASSUME NEW S, NEW step, NEW s0 \in S, \A s \in S : step[s] \in S,
           NEW g, Iterates(g, step, s0)
    PROVE  \A k \in Nat : g[k] \in S
<1> DEFINE T == {k \in Nat : g[k] \notin S}
<1> SUFFICES ASSUME T # {} PROVE FALSE OBVIOUS
<1>0. \E k \in T : \A y \in T : k <= y
  <2>1. T \in SUBSET Nat OBVIOUS
  <2> HIDE DEF T
  <2> QED BY <2>1, LeastExists
<1>1. PICK k \in T : \A y \in T : k <= y BY <1>0
<1>2. \A i \in Nat : g[i] = IF i = 0 THEN s0 ELSE step[g[i - 1]] BY DEF Iterates
<1> HIDE DEF T
<1>3. CASE k = 0 BY <1>1, <1>2, <1>3 DEF T
<1>4. CASE k # 0
  <2>1. k \in Nat /\ k - 1 \in Nat /\ k - 1 \notin T BY SMTT(30), <1>1, <1>4 DEF T
  <2>2. g[k - 1] \in S /\ g[k] = step[g[k - 1]] BY <1>2, <1>4, <2>1 DEF T
  <2> QED BY <1>1, <2>2 DEF T
<1> QED BY <1>3, <1>4

\* Each state of the transmission it comes from the last by one round.
Consecutive(it, A, m) ==
    /\ it[0] = StartPacking
    /\ \A k \in Nat : it[k + 1] = IF it[k].todo = {} THEN it[k]
                                  ELSE dtls_FragmentHandshake(A, m, it[k])

\* The rounds of a transmission follow each other, and stay where each stays.
LEMMA RoundsStay ==
    ASSUME NEW A, NEW m, NEW S \in SUBSET Packing, StartPacking \in S,
           \A st \in S : st.todo # {} => dtls_FragmentHandshake(A, m, st) \in S
    PROVE  /\ \A k \in Nat : Rounds(A, m)[k] \in S
           /\ Consecutive(Rounds(A, m), A, m)
<1> DEFINE round == [st \in Packing |->
                      IF st.todo = {} THEN st ELSE dtls_FragmentHandshake(A, m, st)]
<1>1. \A st \in S : round[st] \in S OBVIOUS
<1>2. Rounds(A, m) = CHOOSE g : Iterates(g, round, StartPacking) BY DEF Rounds, Iterates
<1> HIDE DEF round
<1>3. \E g : Iterates(g, round, StartPacking) BY <1>1, IterationExists
<1>4. Iterates(Rounds(A, m), round, StartPacking) BY <1>2, <1>3
<1>5. \A k \in Nat : Rounds(A, m)[k] \in S BY <1>1, <1>4, IterationStays
<1>6. Rounds(A, m)[0] = StartPacking /\ \A k \in Nat : Rounds(A, m)[k + 1] = round[Rounds(A, m)[k]]
  <2> DEFINE it == Rounds(A, m)
  <2>1. \A k \in Nat : it[k] = IF k = 0 THEN StartPacking ELSE round[it[k - 1]]
    BY <1>4 DEF Iterates
  <2> HIDE DEF it
  <2>2. it[0] = StartPacking BY <2>1
  <2>3. ASSUME NEW k \in Nat PROVE it[k + 1] = round[it[k]]
    <3>1. k + 1 \in Nat /\ k + 1 # 0 /\ (k + 1) - 1 = k BY SMTT(30)
    <3> QED BY <2>1, <3>1
  <2> QED BY <2>2, <2>3 DEF it
<1>7. \A st \in S : round[st] = IF st.todo = {} THEN st ELSE dtls_FragmentHandshake(A, m, st)
  BY DEF round
<1> QED BY <1>5, <1>6, <1>7 DEF Consecutive

\* What the sender may put on the path: parts of the messages of the flight,
\* none of them empty unless its message is.
Cut == {r \in Records : r.seq \in f.first..f.last /\ (r.len > 0 \/ MsgLen[r.seq] = 0)}

\* A transmission under the MTU m that has room for one more record.
Fitting(m) ==
    {st \in Packing : /\ st.todo \subseteq f.first..f.last
                      /\ st.pending \subseteq Cut
                      /\ st.size + Overhead + 1 <= m
                      /\ \A d \in st.sent : d.records \subseteq Cut /\ d.size <= m}

\* The least and the greatest member of a set of numbers.
LEMMA MinIs ==
    ASSUME NEW T \in SUBSET Nat, T # {}
    PROVE  Min(T) \in T /\ \A y \in T : Min(T) <= y
<1>1. \E x \in T : \A y \in T : x <= y BY LeastExists
<1> QED BY <1>1 DEF Min

LEMMA MaxIs ==
    ASSUME NEW b \in Nat, NEW T \in SUBSET (0..b), T # {}
    PROVE  Max(T) \in T /\ \A y \in T : Max(T) >= y
<1> DEFINE above == {x \in 0..b : \A y \in T : x >= y}
<1>1. above \in SUBSET Nat /\ b \in above BY SMTT(30)
<1>2. \E x \in above : \A y \in above : x <= y
  <2> HIDE DEF above
  <2> QED BY <1>1, LeastExists
<1>3. PICK x \in above : \A y \in above : x <= y BY <1>2
<1>4. x \in T
  <2> SUFFICES ASSUME x \notin T PROVE FALSE OBVIOUS
  <2>1. PICK t \in T : TRUE OBVIOUS
  <2>2. x - 1 \in 0..b /\ \A y \in T : x - 1 >= y BY SMTT(30), <1>3, <2>1
  <2> QED BY SMTT(30), <1>3, <2>2
<1>5. x \in T /\ \A y \in T : x >= y BY <1>3, <1>4
<1> HIDE DEF above
<1> QED BY <1>5 DEF Max

LEMMA FragmentLenIs ==
    ASSUME NEW left \in Nat, NEW m \in Nat, NEW size \in Nat, size + Overhead + 1 <= m
    PROVE  /\ FragmentLen(left, m, size) \in 0..left
           /\ FragmentLen(left, m, size) + size + Overhead <= m
           /\ left > 0 => FragmentLen(left, m, size) > 0
<1>1. Overhead \in Nat /\ RecordSizeLimit \in Nat \ {0} BY MtuAssumption
<1> DEFINE T == {left, RecordSizeLimit, m - size - Overhead}
<1>2. T \in SUBSET Nat /\ T # {} BY SMTT(30), <1>1
<1>3. Min(T) \in T /\ \A y \in T : Min(T) <= y
  <2> HIDE DEF T
  <2> QED BY <1>2, MinIs
<1>4. FragmentLen(left, m, size) = Min(T) BY DEF FragmentLen
<1> QED BY SMTT(30), <1>1, <1>3, <1>4

\* The messages of a flight.
LEMMA FlightFacts ==
    ASSUME f \in Flights
    PROVE  /\ f.first \in Nat /\ f.last \in Nat /\ f.first <= f.last
           /\ \A seq \in f.first..f.last : seq \in Msgs /\ seq \in Nat /\ MsgLen[seq] \in Nat
<1>1. f.first \in Msgs /\ f.last \in Msgs /\ f.first <= f.last BY FlightsAssumption
<1> QED BY SMTT(30), <1>1, LenAssumption DEF Msgs

\* The part of a message that is cut next lies inside it.
LEMMA RangeIs ==
    ASSUME NEW A, NEW seq, MsgLen[seq] \in Nat, NEW from \in Nat, HasUnackedRange(A, seq, from),
           NEW left, left = Unacked(A, seq, from),
           NEW s, s = IF left = {} THEN 0 ELSE Min(left),
           NEW e, e = IF left = {} THEN 0 ELSE Max(left) + 1
    PROVE  /\ s \in Nat /\ e \in Nat /\ s <= e /\ e <= MsgLen[seq]
           /\ MsgLen[seq] > 0 => s < e /\ from <= s
<1>1. left \subseteq from..(MsgLen[seq] - 1) BY DEF Unacked
<1>2. CASE left = {}
  <2>1. MsgLen[seq] = 0 BY <1>2 DEF HasUnackedRange
  <2> QED BY SMTT(30), <1>2, <2>1
<1>3. CASE left # {}
  <2>1. left \in SUBSET Nat /\ left \in SUBSET (0..MsgLen[seq]) BY SMTT(30), <1>1
  <2>2. Min(left) \in left /\ \A y \in left : Min(left) <= y BY <1>3, <2>1, MinIs
  <2>3. Max(left) \in left BY <1>3, <2>1, MaxIs
  <2> QED BY SMTT(30), <1>1, <1>3, <2>2, <2>3
<1> QED BY <1>2, <1>3

\* A record that fits leaves a transmission that has room for one more.
LEMMA SendFragmentFits ==
    ASSUME f \in Flights, NEW m \in Nat, m > Overhead, NEW st \in Fitting(m), NEW r \in Cut,
           st.size + r.len + Overhead <= m
    PROVE  dtls_SendFragment(st, r, m) \in Fitting(m) /\ dtls_SendFragment(st, r, m).todo = st.todo
<1>1. /\ st \in Packing /\ st.todo \subseteq f.first..f.last /\ st.pending \subseteq Cut
      /\ \A d \in st.sent : d.records \subseteq Cut /\ d.size <= m
  BY DEF Fitting
<1>2. r \in Records /\ r.len \in Nat /\ Overhead \in Nat BY MtuAssumption DEF Cut, Records
<1> DEFINE st1 == ssl3_SendRecord(st, r)
<1>3. /\ st1 \in Packing /\ st1.todo = st.todo /\ st1.pending = st.pending \cup {r}
      /\ st1.size = st.size + r.len + Overhead /\ st1.sent = st.sent
      /\ st1.size \in Nat
  <2>1. st.size \in Nat BY <1>1 DEF Packing
  <2>2. st.size + r.len + Overhead \in Nat BY SMTT(30), <1>2, <2>1
  <2>3. r \in Records BY <1>2
  <2> QED BY <1>1, <2>2, <2>3 DEF ssl3_SendRecord, Packing
<1> HIDE DEF st1
<1>4. CASE m < st1.size + Overhead + 1
  <2> DEFINE st2 == dtls_SendSavedWriteData(st1)
             d == [records |-> st1.pending, size |-> st1.size]
  <2>1. dtls_SendFragment(st, r, m) = st2 BY <1>4 DEF dtls_SendFragment, st1
  <2>2. d \in [records : SUBSET Records, size : Nat] BY <1>3 DEF Packing
  <2>3. /\ st2.todo = st.todo /\ st2.pending = {} /\ st2.size = 0
        /\ st2.sent = st.sent \cup {d} /\ st2 \in Packing
    BY <1>3, <2>2 DEF dtls_SendSavedWriteData, Packing
  <2>4. d.records \subseteq Cut /\ d.size <= m BY <1>1, <1>3
  <2>5. \A x \in st2.sent : x.records \subseteq Cut /\ x.size <= m
    <3> HIDE DEF d, st2
    <3> QED BY <1>1, <2>3, <2>4
  <2>6. st2.size + Overhead + 1 <= m BY SMTT(30), <1>2, <2>3
  <2> HIDE DEF st2, d
  <2>7. st2 \in Fitting(m) BY <1>1, <2>3, <2>5, <2>6 DEF Fitting
  <2> QED BY <2>1, <2>3, <2>7
<1>5. CASE ~(m < st1.size + Overhead + 1)
  <2>1. dtls_SendFragment(st, r, m) = st1 BY <1>5 DEF dtls_SendFragment, st1
  <2>2. st1 \in Fitting(m) BY SMTT(30), <1>1, <1>2, <1>3, <1>5 DEF Fitting
  <2> QED BY <1>3, <2>1, <2>2
<1> QED BY <1>4, <1>5

LEMMA NextMessageFits ==
    ASSUME NEW m, NEW st \in Fitting(m)
    PROVE  /\ NextMessage(st) \in Fitting(m)
           /\ NextMessage(st).todo = st.todo \ {Min(st.todo)} /\ NextMessage(st).fragmentOffset = 0
BY DEF NextMessage, Fitting, Packing

\* A round moves on in a message, or to the next one.
MovesOn(st, st2) ==
    \/ st2.todo = st.todo \ {Min(st.todo)} /\ st2.fragmentOffset = 0
    \/ /\ st2.todo = st.todo
       /\ st.fragmentOffset < st2.fragmentOffset
       /\ st2.fragmentOffset < MsgLen[Min(st.todo)]

LEMMA FragmentHandshakeFits ==
    ASSUME f \in Flights, NEW A, NEW m \in Nat, m > Overhead,
           NEW st \in Fitting(m), st.todo # {}
    PROVE  /\ dtls_FragmentHandshake(A, m, st) \in Fitting(m)
           /\ MovesOn(st, dtls_FragmentHandshake(A, m, st))
<1> DEFINE seq == Min(st.todo)
           left == Unacked(A, seq, st.fragmentOffset)
           s == IF left = {} THEN 0 ELSE Min(left)
           e == IF left = {} THEN 0 ELSE Max(left) + 1
           n == FragmentLen(e - s, m, st.size)
           r == [seq |-> seq, off |-> s, len |-> n]
           st1 == dtls_SendFragment(st, r, m)
           has == HasUnackedRange(A, seq, st.fragmentOffset)
<1>1. dtls_FragmentHandshake(A, m, st) =
        IF ~has THEN NextMessage(st)
        ELSE IF s + n < MsgLen[seq] THEN [st1 EXCEPT !.fragmentOffset = s + n]
        ELSE NextMessage(st1)
  BY DEF dtls_FragmentHandshake
<1>2. /\ st.todo \subseteq f.first..f.last /\ st.size \in Nat /\ st.size + Overhead + 1 <= m
      /\ st.fragmentOffset \in Nat
  BY DEF Fitting, Packing
<1>3. st.todo \in SUBSET Nat BY <1>2, FlightFacts
<1>4. seq \in st.todo BY <1>3, MinIs
<1>5. seq \in f.first..f.last /\ seq \in Msgs /\ MsgLen[seq] \in Nat BY <1>2, <1>4, FlightFacts
<1> HIDE DEF seq, has
<1>6. CASE ~has BY <1>1, <1>6, NextMessageFits DEF MovesOn
<1>7. CASE has
  <2>1. /\ s \in Nat /\ e \in Nat /\ s <= e /\ e <= MsgLen[seq]
        /\ (MsgLen[seq] > 0 => s < e /\ st.fragmentOffset <= s)
    BY <1>2, <1>5, <1>7, RangeIs DEF has
  <2> HIDE DEF s, e
  <2>2. e - s \in Nat BY SMTT(30), <2>1
  <2>3. n \in 0..(e - s) /\ n + st.size + Overhead <= m /\ (e - s > 0 => n > 0)
    BY <1>2, <2>2, FragmentLenIs
  <2> HIDE DEF n
  <2>4. r.seq = seq /\ r.off = s /\ r.len = n OBVIOUS
  <2>5. n \in Nat /\ s + n <= MsgLen[seq] /\ (n > 0 \/ MsgLen[seq] = 0)
    BY SMTT(30), <1>5, <2>1, <2>2, <2>3
  <2>6. r \in [seq : Msgs, off : Nat, len : Nat] BY <1>5, <2>1, <2>5
  <2> HIDE DEF r
  <2>7. r \in Cut BY <1>5, <2>4, <2>5, <2>6 DEF Cut, Records
  <2>8. st.size + r.len + Overhead <= m BY SMTT(30), <1>2, <2>3, <2>4, <2>5, MtuAssumption
  <2>9. st1 \in Fitting(m) /\ st1.todo = st.todo BY <2>7, <2>8, SendFragmentFits
  <2> HIDE DEF st1
  <2>10. s + n \in Nat BY SMTT(30), <2>1, <2>5
  <2>11. [st1 EXCEPT !.fragmentOffset = s + n] \in Fitting(m)
    BY <2>9, <2>10 DEF Fitting, Packing
  <2>12. CASE s + n < MsgLen[seq]
    <3>1. st.fragmentOffset < s + n BY SMTT(30), <1>2, <1>5, <2>1, <2>5, <2>12
    <3>2. /\ [st1 EXCEPT !.fragmentOffset = s + n].todo = st.todo
          /\ [st1 EXCEPT !.fragmentOffset = s + n].fragmentOffset = s + n
      BY <2>9 DEF Fitting, Packing
    <3>3. MovesOn(st, [st1 EXCEPT !.fragmentOffset = s + n])
      BY <2>12, <3>1, <3>2 DEF MovesOn, seq
    <3> QED BY <1>1, <1>7, <2>11, <2>12, <3>3
  <2>13. CASE ~(s + n < MsgLen[seq])
    <3>1. NextMessage(st1) \in Fitting(m) /\ MovesOn(st, NextMessage(st1))
      BY <2>9, NextMessageFits DEF MovesOn
    <3> QED BY <1>1, <1>7, <2>13, <3>1
  <2> QED BY <2>12, <2>13
<1> QED BY <1>6, <1>7

\* The first n messages have a longest one.
Bounded(n) == \E b \in Nat : \A seq \in 0..(n - 1) : MsgLen[seq] <= b

LEMMA BoundedNext ==
    ASSUME NEW n \in Nat, MsgLen[n] \in Nat, \A seq \in 0..(n - 1) : MsgLen[seq] \in Nat, Bounded(n)
    PROVE  Bounded(n + 1)
<1>1. PICK b \in Nat : \A seq \in 0..(n - 1) : MsgLen[seq] <= b BY DEF Bounded
<1>2. PICK l \in Nat : l = MsgLen[n] OBVIOUS
<1>3. b + l \in Nat BY SMTT(30)
<1>4. \A seq \in 0..((n + 1) - 1) : MsgLen[seq] <= b + l
  <2> TAKE seq \in 0..((n + 1) - 1)
  <2>1. CASE seq = n BY SMTT(30), <1>2, <2>1
  <2>2. CASE seq # n
    <3>1. seq \in 0..(n - 1) BY SMTT(30), <2>2
    <3>2. MsgLen[seq] \in Nat /\ MsgLen[seq] <= b BY <1>1, <3>1
    <3> QED BY SMTT(30), <3>2
  <2> QED BY <2>1, <2>2
<1> QED BY <1>3, <1>4 DEF Bounded

LEMMA LongestExists == \E b \in Nat : \A seq \in Msgs : MsgLen[seq] <= b
<1> DEFINE T == {n \in 0..NumMsgs : ~Bounded(n)}
<1>1. NumMsgs \in Nat /\ \A seq \in 0..(NumMsgs - 1) : MsgLen[seq] \in Nat
  BY LenAssumption DEF Msgs
<1>2. T = {}
  <2> SUFFICES ASSUME T # {} PROVE FALSE OBVIOUS
  <2>1. T \in SUBSET Nat BY SMTT(30), <1>1
  <2>2. \E n \in T : \A y \in T : n <= y
    <3> HIDE DEF T
    <3> QED BY <2>1, LeastExists
  <2>3. PICK n \in T : \A y \in T : n <= y BY <2>2
  <2>4. n \in 0..NumMsgs /\ ~Bounded(n) BY <2>3
  <2>5. n # 0 BY SMTT(30), <2>4 DEF Bounded
  <2>6. n - 1 \in 0..NumMsgs /\ ~(n <= n - 1) /\ n - 1 \in Nat /\ (n - 1) + 1 = n
    BY SMTT(30), <1>1, <2>4, <2>5
  <2>7. Bounded(n - 1) BY <2>3, <2>6
  <2>8. MsgLen[n - 1] \in Nat /\ \A seq \in 0..((n - 1) - 1) : MsgLen[seq] \in Nat
    BY SMTT(30), <1>1, <2>4, <2>5
  <2>9. Bounded((n - 1) + 1) BY <2>6, <2>7, <2>8, BoundedNext
  <2> QED BY <2>4, <2>6, <2>9
<1>3. NumMsgs \in 0..NumMsgs BY SMTT(30), <1>1
<1>4. Bounded(NumMsgs) BY <1>2, <1>3
<1> QED BY <1>4 DEF Bounded, Msgs

\* A message has fewer bytes than MaxRounds allows for each.
LEMMA MaxRoundsIs ==
    /\ MaxRounds \in Nat
    /\ \E b \in Nat : MaxRounds = NumMsgs * b /\ \A seq \in Msgs : MsgLen[seq] < b
<1>1. PICK b \in Nat : \A seq \in Msgs : MsgLen[seq] <= b BY LongestExists
<1> DEFINE T == {MsgLen[m] : m \in Msgs} \cup {0}
<1>2. T \in SUBSET (0..b) /\ T # {} BY SMTT(30), <1>1, LenAssumption
<1>3. Max(T) \in T /\ \A y \in T : Max(T) >= y
  <2> HIDE DEF T
  <2> QED BY <1>2, MaxIs
<1>4. Max(T) \in Nat BY SMTT(30), <1>2, <1>3
<1>5. \A seq \in Msgs : MsgLen[seq] < Max(T) + 1
  <2> TAKE seq \in Msgs
  <2>1. MsgLen[seq] \in T /\ MsgLen[seq] \in Nat BY LenAssumption
  <2> HIDE DEF T
  <2> QED BY SMTT(30), <1>3, <1>4, <2>1
<1> DEFINE longest == Max(T)
<1>6. MaxRounds = NumMsgs * (longest + 1) BY DEF MaxRounds
<1> HIDE DEF longest
<1>7. longest \in Nat /\ longest + 1 \in Nat BY SMTT(30), <1>4 DEF longest
<1>8. NumMsgs * (longest + 1) \in Nat BY SMTT(30), <1>7, LenAssumption
<1>9. \A seq \in Msgs : MsgLen[seq] < longest + 1 BY <1>5 DEF longest
<1> QED BY <1>6, <1>7, <1>8, <1>9

LEMMA RoundsAre ==
    ASSUME f \in Flights, flight \subseteq f.first..f.last, NEW A, NEW m \in Nat, m > Overhead
    PROVE  /\ \A k \in Nat : Rounds(A, m)[k] \in Fitting(m)
           /\ Consecutive(Rounds(A, m), A, m)
<1>1. Overhead \in Nat BY MtuAssumption
<1>2. flight \subseteq Msgs BY FlightFacts
<1>3. StartPacking \in Fitting(m)
  <2>1. 0 + Overhead + 1 <= m /\ 0 \in Nat BY SMTT(30), <1>1
  <2> QED BY <1>2, <2>1 DEF StartPacking, Fitting, Packing
<1>4. Fitting(m) \in SUBSET Packing BY DEF Fitting
<1>5. \A st \in Fitting(m) : st.todo # {} => dtls_FragmentHandshake(A, m, st) \in Fitting(m)
  BY FragmentHandshakeFits
<1> QED BY <1>3, <1>4, <1>5, RoundsStay

\* k rounds led to st, where each message took b rounds at most.
Within(st, k, b) ==
    st.todo # {} => k <= Min(st.todo) * b + st.fragmentOffset /\ st.fragmentOffset < b

LEMMA TimesNext ==
    ASSUME NEW x \in Nat, NEW y \in Nat, NEW b \in Nat, x < y
    PROVE  x * b + b <= y * b
<1>1. PICK c \in Nat : y = x + 1 + c
  <2>1. y - x - 1 \in Nat /\ y = x + 1 + (y - x - 1) BY SMTT(30)
  <2> QED BY <2>1
<1>2. y * b = x * b + b + c * b BY SMTT(30), <1>1
<1>3. c * b \in Nat /\ x * b \in Nat BY SMTT(30)
<1> QED BY SMTT(30), <1>2, <1>3

LEMMA RoundWithin ==
    ASSUME f \in Flights, NEW m, NEW b \in Nat, \A seq \in Msgs : MsgLen[seq] < b,
           NEW st \in Fitting(m), st.todo # {}, NEW st2 \in Fitting(m), MovesOn(st, st2),
           NEW k \in Nat, Within(st, k, b)
    PROVE  Within(st2, k + 1, b)
<1> SUFFICES ASSUME st2.todo # {}
             PROVE  k + 1 <= Min(st2.todo) * b + st2.fragmentOffset /\ st2.fragmentOffset < b
  BY DEF Within
<1>1. /\ st.fragmentOffset \in Nat /\ st2.fragmentOffset \in Nat
      /\ st.todo \subseteq f.first..f.last /\ st2.todo \subseteq f.first..f.last
  BY DEF Fitting, Packing
<1>2. st.todo \in SUBSET Nat /\ st2.todo \in SUBSET Nat BY <1>1, FlightFacts
<1>3. Min(st.todo) \in st.todo /\ \A y \in st.todo : Min(st.todo) <= y BY <1>2, MinIs
<1>4. Min(st2.todo) \in st2.todo BY <1>2, MinIs
<1>5. PICK x \in Nat : x = Min(st.todo) BY <1>2, <1>3
<1>6. PICK y \in Nat : y = Min(st2.todo) BY <1>2, <1>4
<1>7. MsgLen[x] < b /\ MsgLen[x] \in Nat
  <2>1. x \in f.first..f.last BY <1>1, <1>3, <1>5
  <2>2. x \in Msgs /\ MsgLen[x] \in Nat BY <2>1, FlightFacts
  <2> QED BY <2>2
<1>8. k <= x * b + st.fragmentOffset /\ st.fragmentOffset < b BY <1>5 DEF Within
<1>9. CASE st2.todo = st.todo \ {Min(st.todo)} /\ st2.fragmentOffset = 0
  <2>1. y \in st.todo /\ y # x BY <1>4, <1>5, <1>6, <1>9
  <2>2. x <= y BY <1>3, <1>5, <2>1
  <2>3. x < y BY SMTT(30), <2>1, <2>2
  <2>4. x * b + b <= y * b BY <2>3, TimesNext
  <2>5. x * b \in Nat /\ y * b \in Nat BY SMTT(30)
  <2>6. k + 1 <= y * b + 0 /\ 0 < b BY SMTT(30), <1>1, <1>7, <1>8, <2>4, <2>5
  <2> QED BY <1>6, <1>9, <2>6
<1>10. CASE /\ st2.todo = st.todo /\ st.fragmentOffset < st2.fragmentOffset
            /\ st2.fragmentOffset < MsgLen[Min(st.todo)]
  <2>1. st2.fragmentOffset < MsgLen[x] BY <1>5, <1>10
  <2>2. x * b \in Nat BY SMTT(30)
  <2>3. k + 1 <= x * b + st2.fragmentOffset /\ st2.fragmentOffset < b
    BY SMTT(30), <1>1, <1>7, <1>8, <1>10, <2>1, <2>2
  <2> QED BY <1>5, <1>10, <2>3
<1> QED BY <1>9, <1>10 DEF MovesOn

\* MaxRounds rounds are enough: no message is left, so the bound cuts nothing
\* off the loops of dtls_TransmitMessageFlight and dtls_FragmentHandshake.
THEOREM RoundsSuffice ==
    ASSUME f \in Flights, flight \subseteq f.first..f.last, NEW A, NEW m \in Nat, m > Overhead
    PROVE  Rounds(A, m)[MaxRounds].todo = {}
<1> DEFINE it == Rounds(A, m)
           T(b) == {k \in Nat : ~Within(it[k], k, b)}
<1>1. /\ \A k \in Nat : it[k] \in Fitting(m)
      /\ it[0] = StartPacking
      /\ \A k \in Nat : it[k + 1] = IF it[k].todo = {} THEN it[k]
                                    ELSE dtls_FragmentHandshake(A, m, it[k])
  BY RoundsAre DEF Consecutive
<1>2. PICK b \in Nat : MaxRounds = NumMsgs * b /\ \A seq \in Msgs : MsgLen[seq] < b
  BY MaxRoundsIs
<1> HIDE DEF it
<1>3. T(b) = {}
  <2> SUFFICES ASSUME T(b) # {} PROVE FALSE OBVIOUS
  <2>1. T(b) \in SUBSET Nat OBVIOUS
  <2>2. \E k \in T(b) : \A y \in T(b) : k <= y
    <3> HIDE DEF T
    <3> QED BY <2>1, LeastExists
  <2>3. PICK k \in T(b) : \A y \in T(b) : k <= y BY <2>2
  <2>4. k \in Nat /\ ~Within(it[k], k, b) BY <2>3
  <2>5. CASE k = 0
    <3>1. StartPacking.todo = flight /\ StartPacking.fragmentOffset = 0 BY DEF StartPacking
    <3>2. ASSUME flight # {} PROVE 0 <= Min(flight) * b + 0 /\ 0 < b
      <4>1. flight \in SUBSET Nat BY FlightFacts
      <4>2. Min(flight) \in flight BY <3>2, <4>1, MinIs
      <4>3. PICK x \in Nat : x = Min(flight) BY <4>1, <4>2
      <4>4. x \in Msgs /\ MsgLen[x] \in Nat BY <4>2, <4>3, FlightFacts
      <4>5. MsgLen[x] < b BY <1>2, <4>4
      <4>6. x * b \in Nat BY SMTT(30)
      <4>7. 0 <= x * b + 0 /\ 0 < b BY SMTT(30), <4>4, <4>5, <4>6
      <4> QED BY <4>3, <4>7
    <3>3. Within(StartPacking, 0, b) BY <3>1, <3>2 DEF Within
    <3> QED BY <1>1, <2>4, <2>5, <3>3
  <2>6. CASE k # 0
    <3>1. PICK j \in Nat : j = k - 1
      <4>1. k - 1 \in Nat BY SMTT(30), <2>4, <2>6
      <4> QED BY <4>1
    <3>2. j + 1 = k /\ ~(k <= j) BY SMTT(30), <2>4, <3>1
    <3>3. Within(it[j], j, b) BY <2>3, <3>2
    <3>4. CASE it[j].todo = {}
      <4>1. it[k] = it[j] BY <1>1, <3>2, <3>4
      <4> QED BY <2>4, <3>4, <4>1 DEF Within
    <3>5. CASE it[j].todo # {}
      <4>1. it[k] = dtls_FragmentHandshake(A, m, it[j]) BY <1>1, <3>2, <3>5
      <4>2. it[j] \in Fitting(m) /\ it[k] \in Fitting(m) BY <1>1, <2>4
      <4>3. MovesOn(it[j], it[k]) BY <3>5, <4>1, <4>2, FragmentHandshakeFits
      <4>4. Within(it[k], j + 1, b) BY <1>2, <3>3, <3>5, <4>2, <4>3, RoundWithin
      <4> QED BY <2>4, <3>2, <4>4
    <3> QED BY <3>4, <3>5
  <2> QED BY <2>5, <2>6
<1>4. MaxRounds \in Nat BY MaxRoundsIs
<1>5. Within(it[MaxRounds], MaxRounds, b) BY <1>3, <1>4
<1>6. PICK st \in Fitting(m) : st = it[MaxRounds] BY <1>1, <1>4
<1>7. ASSUME st.todo # {} PROVE FALSE
  <2>1. st.todo \subseteq f.first..f.last /\ st.fragmentOffset \in Nat BY DEF Fitting, Packing
  <2>2. st.todo \in SUBSET Nat BY <2>1, FlightFacts
  <2>3. Min(st.todo) \in st.todo BY <1>7, <2>2, MinIs
  <2>4. PICK x \in Nat : x = Min(st.todo) BY <2>2, <2>3
  <2>5. x \in Msgs BY <2>1, <2>3, <2>4, FlightFacts
  <2>6. x < NumMsgs /\ NumMsgs \in Nat BY SMTT(30), <2>5, LenAssumption DEF Msgs
  <2>7. x * b + b <= NumMsgs * b BY <2>6, TimesNext
  <2>8. NumMsgs * b <= x * b + st.fragmentOffset /\ st.fragmentOffset < b
    BY <1>2, <1>5, <1>6, <1>7, <2>4 DEF Within
  <2>9. x * b \in Nat BY SMTT(30)
  <2>10. NumMsgs * b \in Nat BY SMTT(30), <2>6
  <2> QED BY SMTT(30), <2>1, <2>7, <2>8, <2>9, <2>10
<1> QED BY <1>6, <1>7 DEF it

\* Everything that is sent under the MTU m fits into it.
LEMMA DatagramsFitting ==
    ASSUME f \in Flights, flight \subseteq f.first..f.last, NEW A, NEW m \in Nat, m > Overhead
    PROVE  \A d \in Datagrams(A, m) : d.records \subseteq Cut /\ d.size \in 0..m
<1>1. Overhead \in Nat BY MtuAssumption
<1>6. \A k \in Nat : Rounds(A, m)[k] \in Fitting(m) BY RoundsAre
<1>7. MaxRounds \in Nat BY MaxRoundsIs
<1>8. PICK st \in Fitting(m) : st = Rounds(A, m)[MaxRounds] BY <1>6, <1>7
<1>9. Datagrams(A, m) = dtls_SendSavedWriteData(st).sent BY <1>8 DEF Datagrams
<1>10. \A d \in st.sent : d.records \subseteq Cut /\ d.size \in 0..m
  BY SMTT(30) DEF Fitting, Packing
<1>11. st.pending \subseteq Cut /\ st.size \in 0..m BY SMTT(30), <1>1 DEF Fitting, Packing
<1> QED BY SMTT(30), <1>9, <1>10, <1>11 DEF dtls_SendSavedWriteData, Fitting, Packing


\* What the receiver has of the message it waits for is not all of it.
Waiting == AllHandled \/ MsgLen[next] = 0 \/ got # 0..(MsgLen[next] - 1)

PeerHolds(r) == r.seq < next \/ (r.seq = next /\ BytesOf(r) \subseteq got /\ r.len > 0)

FlightIInv ==
    /\ FlightTypeOK
    /\ DatagramsFit
    /\ sentRecords \cup net \cup rcvdRecords \cup UNION acks \subseteq Cut
    /\ ~Tls13 => sentRecords = {}
    /\ \A r \in acked \cup rcvdRecords \cup UNION acks : PeerHolds(r)
    /\ Waiting
    /\ ForgottenIsHandled


LEMMA MtuFacts ==
    ASSUME NEW i \in DOMAIN CommonMtuValues
    PROVE  CommonMtuValues[i] \in Nat /\ CommonMtuValues[i] > Overhead
BY SMTT(30), MtuAssumption

\* dtls_SetMTU returns one of the plateaus.
LEMMA SetMTUIs ==
    ASSUME NEW advertised
    PROVE  \E i \in DOMAIN CommonMtuValues : dtls_SetMTU(advertised) = CommonMtuValues[i]
<1> DEFINE fits == {i \in DOMAIN CommonMtuValues : CommonMtuValues[i] <= advertised}
<1>1. /\ CommonMtuValues \in Seq(Nat) /\ CommonMtuValues # <<>>
      /\ DOMAIN CommonMtuValues = 1..Len(CommonMtuValues) /\ Len(CommonMtuValues) \in Nat
  BY SMTT(30), MtuAssumption
<1>2. 1 \in DOMAIN CommonMtuValues /\ Len(CommonMtuValues) \in DOMAIN CommonMtuValues
  BY SMTT(30), <1>1
<1>3. fits \in SUBSET Nat BY SMTT(30), <1>1
<1>4. fits # {} => Min(fits) \in fits
  <2> HIDE DEF fits
  <2> QED BY <1>3, MinIs
<1>5. fits # {} => Min(fits) \in DOMAIN CommonMtuValues BY <1>4
<1> QED BY <1>2, <1>5 DEF dtls_SetMTU

\* A message all of whose bytes the receiver has acknowledged is handed up.
LEMMA AcknowledgedIsHandled ==
    ASSUME FlightIInv, NEW A \in SUBSET Cut, \A r \in A : PeerHolds(r),
           NEW seq \in f.first..f.last, ~HasUnackedRange(A, seq, 0)
    PROVE  seq < next
<1>1. seq \in Nat /\ MsgLen[seq] \in Nat /\ f.first \in Nat /\ f.last \in Nat
  BY FlightFacts DEF FlightIInv, FlightTypeOK
<1>2. next \in Nat /\ next \in f.first..(f.last + 1) BY SMTT(30), <1>1 DEF FlightIInv, FlightTypeOK
<1>3. \A r \in A : r.off \in Nat /\ r.len \in Nat /\ r.off + r.len <= MsgLen[r.seq]
  BY DEF Cut, Records
<1>4. CASE MsgLen[seq] = 0
  <2>1. PICK r \in A : r.seq = seq BY <1>4 DEF HasUnackedRange
  <2>2. ~(r.len > 0) BY SMTT(30), <1>3, <1>4, <2>1
  <2> QED BY <2>1, <2>2 DEF PeerHolds
<1>5. CASE MsgLen[seq] # 0
  <2>1. Unacked(A, seq, 0) = {} BY <1>5 DEF HasUnackedRange
  <2>2. \A o \in 0..(MsgLen[seq] - 1) : \E r \in A : r.seq = seq /\ o \in BytesOf(r)
    BY SMTT(30), <2>1 DEF Unacked
  <2>3. 0 \in 0..(MsgLen[seq] - 1) BY SMTT(30), <1>1, <1>5
  <2>4. PICK r \in A : r.seq = seq BY <2>2, <2>3
  <2>5. seq <= next BY SMTT(30), <1>1, <1>2, <2>4 DEF PeerHolds
  <2>6. ASSUME seq = next PROVE FALSE
    <3>1. 0..(MsgLen[seq] - 1) \subseteq got
      <4> SUFFICES ASSUME NEW o \in 0..(MsgLen[seq] - 1) PROVE o \in got OBVIOUS
      <4>1. PICK x \in A : x.seq = seq /\ o \in BytesOf(x) BY <2>2
      <4>2. ~(x.seq < next) BY SMTT(30), <1>2, <2>6, <4>1
      <4> QED BY <4>1, <4>2 DEF PeerHolds
    <3>2. ~AllHandled BY SMTT(30), <1>1, <2>6 DEF AllHandled
    <3>3. got \subseteq 0..(MsgLen[next] - 1) BY <3>2 DEF FlightIInv, FlightTypeOK
    <3> QED BY <1>5, <2>6, <3>1, <3>2, <3>3 DEF FlightIInv, Waiting
  <2> QED BY SMTT(30), <1>1, <1>2, <2>5, <2>6
<1> QED BY <1>4, <1>5

\* The largest of the sizes of what is sent.
LEMMA LargestIs ==
    ASSUME NEW ds, NEW m \in Nat, NEW x \in Nat, \A d \in ds : d.size \in 0..m
    PROVE  /\ Max({d.size : d \in ds} \cup {x}) \in Nat
           /\ x = 0 => Max({d.size : d \in ds} \cup {x}) <= m
<1> DEFINE T == {d.size : d \in ds} \cup {x}
<1>1. T \in SUBSET (0..(m + x)) /\ T # {} /\ m + x \in Nat BY SMTT(30)
<1>2. Max(T) \in T
  <2> HIDE DEF T
  <2> QED BY <1>1, MaxIs
<1>3. Max(T) \in 0..(m + x) BY <1>1, <1>2
<1> HIDE DEF T
<1>4. Max(T) \in Nat /\ (x = 0 => Max(T) <= m) BY SMTT(30), <1>3
<1> QED BY <1>4 DEF T

\* What a transmission does to the sender and the path.
LEMMA TransmitIs ==
    ASSUME FlightIInv, NEW A \in SUBSET sentRecords, \A r \in A : PeerHolds(r),
           NEW i \in DOMAIN CommonMtuValues, NEW m, m = CommonMtuValues[i],
           dtls_TransmitMessageFlight(A, m), next' = next
    PROVE  /\ f' = f /\ flight' \subseteq flight /\ mtu' = m
           /\ lastLargest' \in Nat /\ lastLargest' <= m /\ maxMessageSent' \in Nat
           /\ sentRecords' \subseteq Cut /\ net' \subseteq Cut
           /\ acked' \subseteq sentRecords' /\ acked' \subseteq A
           /\ ~Tls13 => sentRecords' = {}
           /\ ForgottenIsHandled'
<1> DEFINE ds == Datagrams(A, m)
           written == UNION {d.records : d \in ds}
<1>1. /\ f' = f /\ mtu' = m
      /\ flight' = {seq \in flight : HasUnackedRange(A, seq, 0)}
      /\ lastLargest' = Max({d.size : d \in ds} \cup {0})
      /\ maxMessageSent' = Max({d.size : d \in ds} \cup {maxMessageSent})
      /\ sentRecords' = IF flight' = {} \/ ~Tls13 THEN {} ELSE sentRecords \cup written
      /\ acked' = IF flight' = {} THEN {} ELSE A
      /\ net' = net \cup UNION {d.records : d \in {e \in ds : e.size <= PathMtu}}
  BY DEF dtls_TransmitMessageFlight
<1>2. f \in Flights /\ flight \subseteq f.first..f.last /\ maxMessageSent \in Nat
  BY DEF FlightIInv, FlightTypeOK
<1>3. m \in Nat /\ m > Overhead BY MtuFacts
<1>4. \A d \in ds : d.records \subseteq Cut /\ d.size \in 0..m
  BY <1>2, <1>3, DatagramsFitting
<1> HIDE DEF ds
<1>5. lastLargest' \in Nat /\ lastLargest' <= m
  <2>1. 0 \in Nat OBVIOUS
  <2> QED BY <1>1, <1>3, <1>4, <2>1, LargestIs
<1>6. maxMessageSent' \in Nat BY <1>1, <1>2, <1>3, <1>4, LargestIs
<1>7. /\ written \subseteq Cut
      /\ UNION {d.records : d \in {e \in ds : e.size <= PathMtu}} \subseteq Cut
  BY <1>4
<1> HIDE DEF written
<1>8. sentRecords \subseteq Cut /\ net \subseteq Cut BY DEF FlightIInv
<1>9. sentRecords' \subseteq Cut /\ net' \subseteq Cut BY <1>1, <1>7, <1>8
<1>10. ~Tls13 => sentRecords = {} /\ A = {} BY DEF FlightIInv
<1>11. acked' \subseteq sentRecords' /\ acked' \subseteq A BY <1>1, <1>10
<1>12. ForgottenIsHandled'
  <2> SUFFICES ASSUME NEW seq \in f.first..f.last, seq \notin flight' PROVE seq < next
    BY <1>1 DEF ForgottenIsHandled
  <2>1. CASE seq \notin flight BY <2>1 DEF FlightIInv, ForgottenIsHandled
  <2>2. CASE seq \in flight
    <3>1. ~HasUnackedRange(A, seq, 0) BY <1>1, <2>2
    <3>2. A \in SUBSET Cut BY <1>8
    <3> QED BY <3>1, <3>2, AcknowledgedIsHandled
  <2> QED BY <2>1, <2>2
<1> QED BY <1>1, <1>5, <1>6, <1>9, <1>10, <1>11, <1>12


LEMMA FlightInitIInv == FlightInit => FlightIInv
<1> SUFFICES ASSUME FlightInit PROVE FlightIInv OBVIOUS
<1>1. f \in Flights BY DEF FlightInit
<1>2. /\ f.first \in Nat /\ f.last \in Nat /\ f.first <= f.last
      /\ f.first \in Msgs /\ MsgLen[f.first] \in Nat
  BY SMTT(30), <1>1, FlightFacts
<1>3. 1 \in DOMAIN CommonMtuValues BY SMTT(30), MtuAssumption
<1>4. CommonMtuValues[1] \in Nat BY <1>3, MtuFacts
<1>5. FlightTypeOK
  <2>1. f.first \in f.first..(f.last + 1) /\ 0 \in Nat /\ 0 \in 0..2 BY SMTT(30), <1>2
  <2> QED BY <1>1, <1>3, <2>1 DEF FlightInit, FlightTypeOK
<1>6. DatagramsFit BY SMTT(30), <1>4 DEF FlightInit, DatagramsFit
<1>7. Waiting
  <2>1. MsgLen[f.first] # 0 => 0 \in 0..(MsgLen[f.first] - 1) BY SMTT(30), <1>2
  <2> QED BY <2>1 DEF FlightInit, Waiting
<1>8. ForgottenIsHandled BY DEF FlightInit, ForgottenIsHandled
<1> QED BY <1>5, <1>6, <1>7, <1>8 DEF FlightInit, FlightIInv

\* A step of the sender that transmits.
LEMMA TransmitIInv ==
    ASSUME FlightIInv, NEW A \in SUBSET sentRecords, \A r \in A : PeerHolds(r),
           NEW m, \E i \in DOMAIN CommonMtuValues : m = CommonMtuValues[i],
           dtls_TransmitMessageFlight(A, m), UNCHANGED receiver, acks' \subseteq acks,
           rtRetries' \in 0..2, rtTimer' \in BOOLEAN
    PROVE  FlightIInv'
<1>1. /\ next' = next /\ got' = got /\ rcvdRecords' = rcvdRecords
      /\ ackTimer' = ackTimer /\ hdTimer' = hdTimer
  BY DEF receiver
<1>2. PICK i \in DOMAIN CommonMtuValues : m = CommonMtuValues[i] OBVIOUS
<1>3. /\ f' = f /\ flight' \subseteq flight /\ mtu' = m
      /\ lastLargest' \in Nat /\ lastLargest' <= m /\ maxMessageSent' \in Nat
      /\ sentRecords' \subseteq Cut /\ net' \subseteq Cut
      /\ acked' \subseteq sentRecords' /\ acked' \subseteq A
      /\ ~Tls13 => sentRecords' = {}
      /\ ForgottenIsHandled'
  BY <1>1, <1>2, TransmitIs
<1>4. Cut' = Cut BY <1>3 DEF Cut, Records, Msgs
<1>5. Cut \subseteq Records BY DEF Cut
<1>6. /\ rcvdRecords \subseteq Cut /\ UNION acks \subseteq Cut
      /\ \A r \in rcvdRecords \cup UNION acks : PeerHolds(r)
  BY DEF FlightIInv
<1>7. AllHandled' = AllHandled /\ Tls13' = Tls13 /\ \A r : PeerHolds(r)' <=> PeerHolds(r)
  BY <1>1, <1>3 DEF AllHandled, Tls13, PeerHolds, BytesOf
<1>8. FlightTypeOK'
  <2>1. sentRecords' \subseteq Records /\ net' \subseteq Records /\ rcvdRecords' \subseteq Records
    BY <1>1, <1>3, <1>5, <1>6
  <2> QED BY <1>1, <1>2, <1>3, <1>7, <2>1 DEF FlightIInv, FlightTypeOK, Records, Msgs
<1>9. DatagramsFit'
  <2>1. \A r \in Cut : r.len > 0 \/ MsgLen[r.seq] = 0 BY DEF Cut
  <2> QED BY <1>3, <2>1 DEF DatagramsFit
<1>10. Waiting' BY <1>1, <1>7 DEF FlightIInv, Waiting
<1>11. (sentRecords \cup net \cup rcvdRecords \cup UNION acks)' \subseteq Cut'
  BY <1>1, <1>3, <1>4, <1>6
<1>12. \A r \in (acked \cup rcvdRecords \cup UNION acks)' : PeerHolds(r)'
  BY <1>1, <1>3, <1>6, <1>7
<1> QED BY <1>3, <1>7, <1>8, <1>9, <1>10, <1>11, <1>12 DEF FlightIInv

\* A step that leaves the sender's records, the position of the receiver and
\* the flight as they are.
LEMMA QuietIInv ==
    ASSUME FlightIInv, UNCHANGED <<sender, next, got>>,
           net' \subseteq net, rcvdRecords' \subseteq rcvdRecords,
           \A a \in acks' : a \in acks \/ a = rcvdRecords,
           ackTimer' \in BOOLEAN, hdTimer' \in BOOLEAN
    PROVE  FlightIInv'
<1>1. /\ f' = f /\ flight' = flight /\ sentRecords' = sentRecords /\ acked' = acked
      /\ mtu' = mtu /\ maxMessageSent' = maxMessageSent /\ lastLargest' = lastLargest
      /\ rtRetries' = rtRetries /\ rtTimer' = rtTimer /\ next' = next /\ got' = got
  BY DEF sender
<1>2. Cut' = Cut BY <1>1 DEF Cut, Records, Msgs
<1>3. AllHandled' = AllHandled /\ Tls13' = Tls13 /\ \A r : PeerHolds(r)' <=> PeerHolds(r)
  BY <1>1 DEF AllHandled, Tls13, PeerHolds, BytesOf
<1>4. FlightTypeOK' BY <1>1, <1>3 DEF FlightIInv, FlightTypeOK, Records, Msgs
<1>5. DatagramsFit' BY <1>1 DEF FlightIInv, DatagramsFit
<1>6. Waiting' BY <1>1, <1>3 DEF FlightIInv, Waiting
<1>7. ForgottenIsHandled' BY <1>1 DEF FlightIInv, ForgottenIsHandled
<1>8. (sentRecords \cup net \cup rcvdRecords \cup UNION acks)' \subseteq Cut'
  BY <1>1, <1>2 DEF FlightIInv
<1>9. \A r \in (acked \cup rcvdRecords \cup UNION acks)' : PeerHolds(r)'
  BY <1>1, <1>3 DEF FlightIInv
<1> QED BY <1>1, <1>3, <1>4, <1>5, <1>6, <1>7, <1>8, <1>9 DEF FlightIInv


\* What the receiver does with a record: it keeps what it holds, remembers
\* only what it then holds, and never waits with a whole message.
LEMMA ReceiveIs ==
    ASSUME FlightIInv, NEW r \in Cut, Peer!Receive(r.seq, BytesOf(r)), f' = f
    PROVE  /\ next' \in f.first..(f.last + 1) /\ next <= next'
           /\ ~AllHandled' => got' \subseteq 0..(MsgLen[next'] - 1)
           /\ Waiting'
           /\ \A x \in Cut : PeerHolds(x) => PeerHolds(x)'
           /\ r.seq = next => PeerHolds(r)'
<1>1. /\ f.first \in Nat /\ f.last \in Nat
      /\ \A seq \in f.first..f.last : seq \in Nat /\ MsgLen[seq] \in Nat
  BY FlightFacts DEF FlightIInv, FlightTypeOK
<1>2. next \in f.first..(f.last + 1) /\ next \in Nat
  BY SMTT(30), <1>1 DEF FlightIInv, FlightTypeOK
<1>3. \A x \in Cut : x.seq \in f.first..f.last /\ x.seq \in Nat BY <1>1 DEF Cut
<1>4. r.seq \in f.first..f.last /\ r.off \in Nat /\ r.len \in Nat /\ r.off + r.len <= MsgLen[r.seq]
  BY DEF Cut, Records
<1>5. r.len > 0 \/ MsgLen[r.seq] = 0 BY DEF Cut
<1>6. MsgLen[r.seq] \in Nat BY <1>1, <1>4
<1>7. BytesOf(r) \subseteq 0..(MsgLen[r.seq] - 1) BY SMTT(30), <1>4, <1>6 DEF BytesOf
<1>8. CASE r.seq # next
  <2>1. next' = next /\ got' = got BY <1>8 DEF Peer!Receive
  <2>2. next <= next BY SMTT(30), <1>2
  <2> QED BY <1>2, <1>8, <2>1, <2>2
       DEF FlightIInv, FlightTypeOK, AllHandled, Waiting, PeerHolds, BytesOf
<1>9. CASE r.seq = next /\ got \cup BytesOf(r) = 0..(MsgLen[r.seq] - 1)
  <2>1. next' = next + 1 /\ got' = {} BY <1>9 DEF Peer!Receive
  <2>2. next + 1 \in f.first..(f.last + 1) /\ next <= next + 1 BY SMTT(30), <1>1, <1>2, <1>4, <1>9
  <2>3. Waiting'
    <3>1. CASE next + 1 = f.last + 1 BY <2>1, <3>1 DEF Waiting, AllHandled
    <3>2. CASE next + 1 # f.last + 1
      <4>1. next + 1 \in f.first..f.last BY SMTT(30), <1>1, <2>2, <3>2
      <4>2. MsgLen[next + 1] \in Nat BY <1>1, <4>1
      <4>3. MsgLen[next + 1] # 0 => 0 \in 0..(MsgLen[next + 1] - 1) BY SMTT(30), <4>2
      <4> QED BY <2>1, <4>3 DEF Waiting
    <3> QED BY <3>1, <3>2
  <2>4. \A x \in Cut : PeerHolds(x) => x.seq < next + 1 BY SMTT(30), <1>2, <1>3 DEF PeerHolds
  <2>5. \A x \in Cut : PeerHolds(x) => PeerHolds(x)' BY <2>1, <2>4 DEF PeerHolds
  <2>6. r.seq < next + 1 BY SMTT(30), <1>2, <1>9
  <2>7. PeerHolds(r)' BY <2>1, <2>6 DEF PeerHolds
  <2> QED BY <2>1, <2>2, <2>3, <2>5, <2>7
<1>10. CASE r.seq = next /\ got \cup BytesOf(r) # 0..(MsgLen[r.seq] - 1)
  <2>1. next' = next /\ got' = got \cup BytesOf(r) BY <1>10 DEF Peer!Receive
  <2>2. ~AllHandled BY SMTT(30), <1>1, <1>4, <1>10 DEF AllHandled
  <2>3. got \subseteq 0..(MsgLen[next] - 1) BY <2>2 DEF FlightIInv, FlightTypeOK
  <2>4. got' \subseteq 0..(MsgLen[next] - 1) BY <1>7, <1>10, <2>1, <2>3
  <2>5. Waiting' BY <1>10, <2>1 DEF Waiting
  <2>6. \A x \in Cut : PeerHolds(x) => PeerHolds(x)' BY <2>1 DEF PeerHolds, BytesOf
  <2>7. r.len > 0
    <3> SUFFICES ASSUME MsgLen[r.seq] = 0 PROVE FALSE BY <1>5
    <3>1. 0..(MsgLen[r.seq] - 1) = {} BY SMTT(30)
    <3> QED BY <1>7, <1>10, <2>3, <3>1
  <2>8. PeerHolds(r)' BY <1>10, <2>1, <2>7 DEF PeerHolds, BytesOf
  <2>9. next <= next BY SMTT(30), <1>2
  <2> QED BY <1>2, <2>1, <2>4, <2>5, <2>6, <2>8, <2>9
<1> QED BY <1>8, <1>9, <1>10

LEMMA ReceiveRecordIInv ==
    ASSUME FlightIInv, NEW r \in net, ReceiveRecord(r)
    PROVE  FlightIInv'
<1>1. /\ f' = f /\ flight' = flight /\ sentRecords' = sentRecords /\ acked' = acked
      /\ mtu' = mtu /\ maxMessageSent' = maxMessageSent /\ lastLargest' = lastLargest
      /\ rtRetries' = rtRetries /\ rtTimer' = rtTimer /\ net' = net
      /\ Peer!Receive(r.seq, BytesOf(r))
  BY DEF ReceiveRecord, sender
<1>2. /\ sentRecords \subseteq Cut /\ net \subseteq Cut /\ rcvdRecords \subseteq Cut
      /\ UNION acks \subseteq Cut /\ acked \subseteq Cut /\ r \in Cut /\ Cut \subseteq Records
  BY DEF FlightIInv, FlightTypeOK, Cut
<1>3. Cut' = Cut /\ Tls13' = Tls13 BY <1>1 DEF Cut, Records, Msgs, Tls13
<1>4. /\ next' \in f.first..(f.last + 1) /\ next <= next'
      /\ ~AllHandled' => got' \subseteq 0..(MsgLen[next'] - 1)
      /\ Waiting'
      /\ \A x \in Cut : PeerHolds(x) => PeerHolds(x)'
      /\ r.seq = next => PeerHolds(r)'
  BY <1>1, <1>2, ReceiveIs
<1>5. /\ rcvdRecords' \subseteq rcvdRecords \cup {r}
      /\ ~Remembered(r) => rcvdRecords' = rcvdRecords
      /\ \A a \in acks' : a \in acks \/ a = rcvdRecords'
      /\ ackTimer' \in BOOLEAN /\ hdTimer' \in BOOLEAN
  <2>1. CASE Remembered(r)
    <3>1. /\ rcvdRecords' = RcvdAfter(r)
          /\ ackTimer' = ~(next' = f.last + 1) /\ hdTimer' = (Final /\ next' = f.last + 1)
          /\ acks' = IF Final /\ next' = f.last + 1 THEN acks \cup {rcvdRecords'} ELSE acks
      BY <2>1 DEF ReceiveRecord
    <3>2. RcvdAfter(r) \subseteq rcvdRecords \cup {r} BY DEF RcvdAfter
    <3>3. \A a \in acks' : a \in acks \/ a = rcvdRecords' BY <3>1
    <3> QED BY <2>1, <3>1, <3>2, <3>3 DEF Final
  <2>2. CASE ~Remembered(r)
    <3>1. /\ ackTimer' = (ackTimer \/ (Tls13 /\ r.seq > next))
          /\ rcvdRecords' = rcvdRecords /\ hdTimer' = hdTimer /\ acks' = acks
      BY <2>2 DEF ReceiveRecord
    <3> QED BY <3>1 DEF FlightIInv, FlightTypeOK
  <2> QED BY <2>1, <2>2
<1>6. \A x \in rcvdRecords' : PeerHolds(x)'
  <2>1. \A x \in rcvdRecords : PeerHolds(x)' BY <1>2, <1>4 DEF FlightIInv
  <2>2. Remembered(r) => PeerHolds(r)' BY <1>4 DEF Remembered
  <2> QED BY <1>5, <2>1, <2>2
<1>7. \A x \in (acked \cup rcvdRecords \cup UNION acks)' : PeerHolds(x)'
  BY <1>1, <1>2, <1>4, <1>5, <1>6 DEF FlightIInv
<1>8. (sentRecords \cup net \cup rcvdRecords \cup UNION acks)' \subseteq Cut'
  BY <1>1, <1>2, <1>3, <1>5
<1>9. FlightTypeOK'
  <2>1. rcvdRecords' \subseteq Records /\ sentRecords \subseteq Records /\ net \subseteq Records
    BY <1>2, <1>5
  <2> QED BY <1>1, <1>4, <1>5, <2>1 DEF FlightIInv, FlightTypeOK, Records, Msgs
<1>10. DatagramsFit' BY <1>1 DEF FlightIInv, DatagramsFit
<1>11. ForgottenIsHandled'
  <2> SUFFICES ASSUME NEW m \in f.first..f.last, m \notin flight PROVE m < next'
    BY <1>1 DEF ForgottenIsHandled
  <2>1. m < next BY DEF FlightIInv, ForgottenIsHandled
  <2>2. /\ f.first \in Int /\ f.last \in Int /\ next \in f.first..(f.last + 1)
    BY SMTT(30), FlightFacts DEF FlightIInv, FlightTypeOK
  <2> QED BY SMTT(30), <1>4, <2>1, <2>2
<1> QED BY <1>1, <1>3, <1>4, <1>7, <1>8, <1>9, <1>10, <1>11 DEF FlightIInv

LEMMA ReceiveAnswerIInv ==
    ASSUME FlightIInv, ReceiveAnswer
    PROVE  FlightIInv'
<1>1. /\ f' = f /\ flight' = {} /\ sentRecords' = sentRecords /\ acked' = acked
      /\ mtu' = mtu /\ maxMessageSent' = maxMessageSent /\ lastLargest' = lastLargest
      /\ rtRetries' = rtRetries /\ rtTimer' = FALSE /\ next' = next /\ got' = got
      /\ rcvdRecords' = rcvdRecords /\ ackTimer' = ackTimer /\ hdTimer' = hdTimer
      /\ net' = net /\ acks' = acks /\ AllHandled
  BY DEF ReceiveAnswer, receiver
<1>2. Cut' = Cut BY <1>1 DEF Cut, Records, Msgs
<1>3. AllHandled' = AllHandled /\ Tls13' = Tls13 /\ \A r : PeerHolds(r)' <=> PeerHolds(r)
  BY <1>1 DEF AllHandled, Tls13, PeerHolds, BytesOf
<1>4. FlightTypeOK' BY <1>1, <1>3 DEF FlightIInv, FlightTypeOK, Records, Msgs
<1>5. DatagramsFit' BY <1>1 DEF FlightIInv, DatagramsFit
<1>6. Waiting' BY <1>1, <1>3 DEF FlightIInv, Waiting
<1>7. ForgottenIsHandled'
  <2>1. f.first \in Nat /\ f.last \in Nat BY FlightFacts DEF FlightIInv, FlightTypeOK
  <2>2. \A m \in f.first..f.last : m < f.last + 1 BY SMTT(30), <2>1
  <2> QED BY <1>1, <2>2 DEF ForgottenIsHandled, AllHandled
<1>8. (sentRecords \cup net \cup rcvdRecords \cup UNION acks)' \subseteq Cut'
  BY <1>1, <1>2 DEF FlightIInv
<1>9. \A r \in (acked \cup rcvdRecords \cup UNION acks)' : PeerHolds(r)'
  BY <1>1, <1>3 DEF FlightIInv
<1> QED BY <1>1, <1>3, <1>4, <1>5, <1>6, <1>7, <1>8, <1>9 DEF FlightIInv


LEMMA FlightNextIInv == FlightIInv /\ [FlightNext]_flightVars => FlightIInv'
<1> SUFFICES ASSUME FlightIInv, [FlightNext]_flightVars PROVE FlightIInv' OBVIOUS
<1>1. /\ acked \subseteq sentRecords /\ \A r \in acked : PeerHolds(r)
      /\ \E i \in DOMAIN CommonMtuValues : mtu = CommonMtuValues[i]
      /\ rtRetries \in 0..2 /\ rtTimer \in BOOLEAN
      /\ ackTimer \in BOOLEAN /\ hdTimer \in BOOLEAN
  BY DEF FlightIInv, FlightTypeOK
<1>2. CASE dtls_FlushHandshakeMessages
  <2>1. {} \in SUBSET sentRecords /\ \A r \in {} : PeerHolds(r) OBVIOUS
  <2>2. 0 \in 0..2 BY SMTT(30)
  <2>3. /\ dtls_TransmitMessageFlight({}, mtu) /\ UNCHANGED receiver /\ acks' \subseteq acks
        /\ rtRetries' \in 0..2 /\ rtTimer' \in BOOLEAN
    BY <1>2, <2>2 DEF dtls_FlushHandshakeMessages
  <2> QED BY <1>1, <2>1, <2>3, TransmitIInv
<1>3. CASE dtls_RetransmitTimerExpiredCb
  <2>1. \E i \in DOMAIN CommonMtuValues : NextMtu = CommonMtuValues[i]
    BY <1>1, SetMTUIs DEF NextMtu
  <2>2. (rtRetries + 1) % 3 \in 0..2 BY SMTT(30), <1>1
  <2>3. /\ dtls_TransmitMessageFlight(acked, NextMtu) /\ UNCHANGED receiver /\ acks' \subseteq acks
        /\ rtRetries' \in 0..2 /\ rtTimer' \in BOOLEAN
    BY <1>1, <1>3, <2>2 DEF dtls_RetransmitTimerExpiredCb
  <2>4. acked \in SUBSET sentRecords BY <1>1
  <2> QED BY <1>1, <2>1, <2>3, <2>4, TransmitIInv
<1>4. ASSUME NEW a \in acks, dtls13_HandleAck(a) PROVE FlightIInv'
  <2> DEFINE A == acked \cup NewlyAcked(a)
  <2>1. A \in SUBSET sentRecords BY <1>1 DEF NewlyAcked
  <2>2. \A r \in A : PeerHolds(r) BY <1>1 DEF NewlyAcked, FlightIInv
  <2>3. /\ dtls_TransmitMessageFlight(A, mtu) /\ UNCHANGED receiver /\ acks' \subseteq acks
        /\ rtRetries' \in 0..2 /\ rtTimer' \in BOOLEAN
    BY <1>1, <1>4 DEF dtls13_HandleAck
  <2> HIDE DEF A
  <2> QED BY <1>1, <2>1, <2>2, <2>3, TransmitIInv
<1>5. CASE ReceiveAnswer BY <1>5, ReceiveAnswerIInv
<1>6. ASSUME NEW r \in net, ReceiveRecord(r) PROVE FlightIInv' BY <1>6, ReceiveRecordIInv
<1>7. ASSUME NEW r \in net, ReceiveOutOfEpoch(r) PROVE FlightIInv'
  <2>1. /\ UNCHANGED <<sender, next, got>> /\ net' = net /\ rcvdRecords' = rcvdRecords
        /\ ackTimer' = ackTimer /\ hdTimer' = hdTimer
        /\ \A a \in acks' : a \in acks \/ a = rcvdRecords
    BY <1>7 DEF ReceiveOutOfEpoch, receiver
  <2> QED BY <1>1, <2>1, QuietIInv
<1>8. CASE dtls13_SendAckCb
  <2>1. /\ UNCHANGED <<sender, next, got>> /\ net' = net /\ rcvdRecords' = rcvdRecords
        /\ ackTimer' = FALSE /\ hdTimer' = hdTimer
        /\ \A a \in acks' : a \in acks \/ a = rcvdRecords
    BY <1>8 DEF dtls13_SendAckCb
  <2> QED BY <1>1, <2>1, QuietIInv
<1>9. CASE dtls13_HolddownTimerCb
  <2>1. /\ UNCHANGED <<sender, next, got>> /\ net' = net /\ rcvdRecords' = {}
        /\ ackTimer' = ackTimer /\ hdTimer' = FALSE /\ acks' = acks
    BY <1>9 DEF dtls13_HolddownTimerCb
  <2> QED BY <1>1, <2>1, QuietIInv
<1>10. CASE LoseRecord
  <2>1. /\ UNCHANGED <<sender, next, got>> /\ net' \subseteq net /\ rcvdRecords' = rcvdRecords
        /\ ackTimer' = ackTimer /\ hdTimer' = hdTimer /\ acks' = acks
    BY <1>10 DEF LoseRecord, receiver
  <2> QED BY <1>1, <2>1, QuietIInv
<1>11. CASE LoseAck
  <2>1. /\ UNCHANGED <<sender, next, got>> /\ net' = net /\ rcvdRecords' = rcvdRecords
        /\ ackTimer' = ackTimer /\ hdTimer' = hdTimer /\ acks' \subseteq acks
    BY <1>11 DEF LoseAck, receiver
  <2> QED BY <1>1, <2>1, QuietIInv
<1>12. CASE UNCHANGED flightVars
  <2>1. /\ UNCHANGED <<sender, next, got>> /\ net' = net /\ rcvdRecords' = rcvdRecords
        /\ ackTimer' = ackTimer /\ hdTimer' = hdTimer /\ acks' = acks
    BY <1>12 DEF flightVars, receiver
  <2> QED BY <1>1, <2>1, QuietIInv
<1> QED BY <1>2, <1>3, <1>4, <1>5, <1>6, <1>7, <1>8, <1>9, <1>10, <1>11, <1>12
     DEF FlightNext

\* Sending, acknowledging and receiving a flight keep the invariant, whatever the
\* path does: what is listed as received anywhere is with the receiver.
THEOREM FlightIInvHolds == FlightSpec => []FlightIInv
<1>1. FlightInit => FlightIInv BY FlightInitIInv
<1>2. FlightIInv /\ [FlightNext]_flightVars => FlightIInv' BY FlightNextIInv
<1> QED BY <1>1, <1>2, PTL DEF FlightSpec

\* The MTU is a plateau, records lie inside their messages, the receiver's
\* position inside the flight (FlightTypeOK), for every flight, message length,
\* table of MTUs and path.
THEOREM FlightTypeCorrect == FlightSpec => []FlightTypeOK
<1>1. FlightIInv => FlightTypeOK BY DEF FlightIInv
<1> QED BY FlightIInvHolds, <1>1, PTL

\* dtls_FragmentHandshake and dtls_SendFragment never build a datagram above the
\* MTU they pack under, nor an empty record of a message that has bytes.
THEOREM DatagramsAlwaysFit == FlightSpec => []DatagramsFit
<1>1. FlightIInv => DatagramsFit BY DEF FlightIInv
<1> QED BY FlightIInvHolds, <1>1, PTL

\* Whatever the path loses, repeats or reorders, what dtls13_HandleAck marks as
\* acknowledged was handed up or is held by the receiver.
THEOREM AcksAreHonest == FlightSpec => []AckedIsHeld
<1>1. FlightIInv => AckedIsHeld BY DEF FlightIInv, AckedIsHeld, PeerHolds
<1> QED BY FlightIInvHolds, <1>1, PTL

\* dtls_FragmentHandshake discards a message only when the receiver handed it up.
THEOREM DroppedMeansHandled == FlightSpec => []ForgottenIsHandled
<1>1. FlightIInv => ForgottenIsHandled BY DEF FlightIInv
<1> QED BY FlightIInvHolds, <1>1, PTL
=============================================================================
