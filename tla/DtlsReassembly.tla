--------------------------- MODULE DtlsReassembly ---------------------------
(***************************************************************************)
(* The receive side of DTLS handshake messages (dtls_HandleHandshake):     *)
(* fragments of numbered messages arrive in any order, any number of times *)
(* and cut in any way; the next message is put together under a high water *)
(* mark and a bitmap of what lies above it, and handed up when complete.   *)
(*                                                                         *)
(* A byte is abstracted to the number of the message it belongs to, so a   *)
(* body that was handed up shows where each of its bytes came from.  A     *)
(* record carries one fragment, as dtls_FragmentHandshake writes them.     *)
(***************************************************************************)
EXTENDS Integers, DtlsMessages

CONSTANT
    Stateless    \* may it be a fresh server, the first two being ClientHellos?

ASSUME StatelessAssumption == Stateless \in BOOLEAN

VARIABLES
    recvMessageSeq,
    recvdHighWater,   \* -1: no reassembly in progress
    recvdFragments,   \* the bits set in the reassembly map
    msg_len,          \* length of the message being reassembled
    msg_body,         \* msg_body[o]: the message the byte at o came from
    waitClientHello,  \* ws = wait_client_hello
    remembered,       \* bytes of the records in dtlsRcvdHandshake (history)
    handedUp,         \* the last message handled, and its body (history)
    input             \* the fragment that arrived last (history)

vars == <<recvMessageSeq, recvdHighWater, recvdFragments, msg_len, msg_body,
          waitClientHello, remembered, handedUp, input>>

NoByte == -1
Offsets == UNION {0..(MsgLen[m] - 1) : m \in Msgs}
Bytes(seq, off, len) == {<<seq, o>> : o \in off..(off + len - 1)}

Init ==
    /\ recvMessageSeq = 0
    /\ recvdHighWater = -1 /\ recvdFragments = {} /\ msg_len = 0
    /\ msg_body = [o \in Offsets |-> NoByte]
    /\ waitClientHello \in {FALSE, Stateless}
    /\ remembered = {}
    /\ handedUp = [seq |-> -1, body |-> {}]
    /\ input = [seq |-> -1, bytes |-> {}]

-----------------------------------------------------------------------------

\* Mutant: a server that waits for a ClientHello moves on to any later message.
Expected_AnyNext(seq, off) ==
    IF /\ waitClientHello /\ seq > recvMessageSeq /\ off = 0
    THEN seq ELSE recvMessageSeq

\* The message expected once this fragment was looked at: a retried
\* ClientHello moves a server that still waits for one forward.
Expected(seq, off) ==
    IF /\ waitClientHello /\ seq = 1 /\ seq > recvMessageSeq /\ off = 0
    THEN 1 ELSE recvMessageSeq

\* dtls_HandleHandshakeMessage and ssl3_HandleHandshakeMessage.  A handler
\* that blocks (PR_WOULD_BLOCK_ERROR) still counts the message, but the record
\* is not remembered for an ACK.
HandleMessage(seq, body, bytes, blocks) ==
    /\ recvdHighWater' = -1
    /\ recvMessageSeq' = seq + 1
    /\ handedUp' = [seq |-> seq, body |-> body]
    /\ waitClientHello' = FALSE
    /\ remembered' = IF blocks THEN remembered ELSE remembered \cup bytes
    /\ msg_len' = MsgLen[seq]

\* Mutant: the length of the fragment is not looked at.
IsWhole_AnyFirst(seq, off, len) == off = 0

IsWhole(seq, off, len) == off = 0 /\ len = MsgLen[seq]

\* The complete next message is processed from the record itself.
WholeMessage(seq, off, len, blocks) ==
    /\ seq = Expected(seq, off) /\ IsWhole(seq, off, len)
    /\ HandleMessage(seq, {IF o < len THEN seq ELSE NoByte : o \in 0..(MsgLen[seq] - 1)},
                     Bytes(seq, off, len), blocks)
    /\ UNCHANGED <<recvdFragments, msg_body>>

\* Mutant: a discarded message is remembered like the others.
OtherMessage_Remembers(seq, off, len) ==
    /\ seq # Expected(seq, off)
    /\ remembered' = remembered \cup Bytes(seq, off, len)
    /\ UNCHANGED <<recvMessageSeq, recvdHighWater, recvdFragments, msg_len, msg_body,
                   waitClientHello, handedUp>>

\* Case 3, a message seen before (dtls_RetransmitDetected), and case 2, one
\* beyond the next (discarded): neither leaves a trace here.
OtherMessage(seq, off, len) ==
    /\ seq # Expected(seq, off)
    /\ UNCHANGED <<recvMessageSeq, recvdHighWater, recvdFragments, msg_len, msg_body,
                   waitClientHello, remembered, handedUp>>

\* Mutant: the bitmap above the mark is not consulted again.
NewHighWater_NoRun(hw, frags, len) == hw

\* The high water mark runs up over the bits that are set.
NewHighWater(hw, frags, len) ==
    CHOOSE h \in hw..len : /\ \A o \in hw..(h - 1) : o \in frags
                           /\ h = len \/ h \notin frags

\* Mutant: a fragment that leaves a gap moves the mark as well.
MarkAfter_IgnoresGap(hw, off, end) == IF end > hw THEN end ELSE hw

\* A fragment at or below the mark raises it.
MarkAfter(hw, off, end) == IF off <= hw /\ end > hw THEN end ELSE hw

\* The map is cleared when a reassembly starts.
StartMap == IF recvdHighWater = -1 THEN {} ELSE recvdFragments

LengthMismatch(seq) == recvdHighWater # -1 /\ msg_len # MsgLen[seq]

\* Case 1: part of the next message is buffered; with the last byte it is
\* handed up.  A length that disagrees abandons the reassembly.
PartOfMessage(seq, off, len, blocks) ==
    LET hw == IF recvdHighWater = -1 THEN 0 ELSE recvdHighWater
        end == off + len
        frags == IF off <= hw THEN StartMap ELSE StartMap \cup off..(end - 1)
        mark == NewHighWater(MarkAfter(hw, off, end), frags, MsgLen[seq])
        body == IF end > hw
                THEN [o \in Offsets |-> IF o \in off..(end - 1) THEN seq ELSE msg_body[o]]
                ELSE msg_body
    IN  /\ seq = Expected(seq, off) /\ ~IsWhole(seq, off, len)
        /\ IF LengthMismatch(seq)
           THEN /\ recvdHighWater' = -1
                /\ recvMessageSeq' = seq
                /\ UNCHANGED <<recvdFragments, msg_len, msg_body,
                               waitClientHello, remembered, handedUp>>
           ELSE /\ recvdFragments' = frags
                /\ msg_body' = body
                /\ IF mark = MsgLen[seq]
                   THEN HandleMessage(seq, {body[o] : o \in 0..(MsgLen[seq] - 1)},
                                      Bytes(seq, off, len), blocks)
                   ELSE /\ recvdHighWater' = mark
                        /\ recvMessageSeq' = seq
                        /\ msg_len' = MsgLen[seq]
                        /\ remembered' = remembered \cup Bytes(seq, off, len)
                        /\ UNCHANGED <<waitClientHello, handedUp>>

dtls_HandleHandshake(seq, off, len, blocks) ==
    /\ \/ WholeMessage(seq, off, len, blocks)
       \/ OtherMessage(seq, off, len)
       \/ PartOfMessage(seq, off, len, blocks)
    /\ input' = [seq |-> seq, bytes |-> off..(off + len - 1)]

\* The fragments of a message: none is empty unless the message is.
Fragments(seq) ==
    {f \in (0..MsgLen[seq]) \X (0..MsgLen[seq]) :
        f[1] + f[2] <= MsgLen[seq] /\ (f[2] > 0 \/ MsgLen[seq] = 0)}

Next == \E seq \in Msgs, blocks \in BOOLEAN : \E f \in Fragments(seq) :
            dtls_HandleHandshake(seq, f[1], f[2], blocks)

Spec == Init /\ [][Next]_vars

-----------------------------------------------------------------------------
(* Properties.                                                             *)

\* The high water mark lies inside the message and every bit set in the map is
\* one of its offsets; the length is unsigned, and no message is counted that
\* the peer did not send.
TypeOK ==
    /\ recvMessageSeq \in 0..NumMsgs
    /\ recvdHighWater \in Offsets \cup {-1}
    /\ recvdFragments \subseteq Offsets
    /\ msg_len \in Nat
    /\ msg_body \in [Offsets -> Msgs \cup {NoByte}]
    /\ waitClientHello \in BOOLEAN
    /\ remembered \subseteq Msgs \X Offsets
    /\ handedUp \in [seq : Msgs \cup {-1}, body : SUBSET (Msgs \cup {NoByte})]

\* What is handed up is the message and nothing else: no byte of it is
\* missing, left over from another message, or overwritten.
HandedUpIntact == handedUp.body \subseteq {handedUp.seq}

\* "recvdHighWater contains the highest contiguous number of bytes received":
\* every byte below it is a byte of the message being reassembled.
HighWaterReceived ==
    \A o \in 0..(recvdHighWater - 1) : msg_body[o] = recvMessageSeq

\* A byte whose record is acknowledged (dtlsRcvdHandshake) is never needed
\* again: its message was handed up, or the byte is held in the buffer and
\* marked, so that the sender may forget it.
AcknowledgedIsHeld ==
    \A b \in remembered :
        \/ b[1] < recvMessageSeq
        \/ /\ b[1] = recvMessageSeq
           /\ recvdHighWater # -1
           /\ b[2] < recvdHighWater \/ b[2] \in recvdFragments
           /\ msg_body[b[2]] = b[1]

\* No message is stuck: while it is not handed up a byte of it is missing, so
\* the peer, who retransmits what is not acknowledged, can complete it.
CompletionNotMissed ==
    (recvMessageSeq < NumMsgs /\ MsgLen[recvMessageSeq] > 0) =>
        \E o \in 0..(MsgLen[recvMessageSeq] - 1) : <<recvMessageSeq, o>> \notin remembered

-----------------------------------------------------------------------------

\* The offsets of the next message that are held.
Held == IF recvdHighWater = -1 THEN {} ELSE 0..(recvdHighWater - 1) \cup recvdFragments

Receiver == INSTANCE DtlsReceiver WITH next <- recvMessageSeq, got <- Held

\* The high water mark and the bitmap are one way to hold a set of bytes: the
\* reassembly hands up a message exactly when all of it has been received.
ImplementsReceiver == Receiver!Spec

=============================================================================
