---------------------------- MODULE DtlsReceiver ----------------------------
(***************************************************************************)
(* What the reassembly of DTLS handshake messages promises: messages are   *)
(* handed up in order, each when all its bytes have been received, and     *)
(* what arrives of any other message is ignored.  DtlsReassembly, with its *)
(* high water mark and bitmap, implements this specification.              *)
(***************************************************************************)
EXTENDS Integers

CONSTANTS NumMsgs, MsgLen, Stateless

VARIABLES
    next,   \* the message that is handed up next
    got,    \* the offsets of it that are held
    input   \* the fragment that arrived last: its message and its offsets

NoInput == [seq |-> -1, bytes |-> {}]

Init == next = 0 /\ got = {} /\ input = NoInput

\* A fragment with the bytes at the offsets F arrives.
Receive(seq, F) ==
    \/ seq # next /\ UNCHANGED <<next, got>>
    \/ /\ seq = next
       /\ IF got \cup F = 0..(MsgLen[seq] - 1)
          THEN next' = next + 1 /\ got' = {}
          ELSE next' = next /\ got' = got \cup F

\* The start of message 1 moves a fresh server past message 0; the fragment
\* itself counts, or is dropped with what was held of message 0.
Skip(seq, F) ==
    /\ Stateless /\ seq = 1 /\ next = 0
    /\ \/ next' = 1 /\ got' = {}
       \/ F # 0..(MsgLen[1] - 1) /\ next' = 1 /\ got' = F
       \/ F = 0..(MsgLen[1] - 1) /\ next' = 2 /\ got' = {}

Next == \E seq \in 0..(NumMsgs - 1) : \E F \in SUBSET (0..(MsgLen[seq] - 1)) :
            /\ Receive(seq, F) \/ Skip(seq, F)
            /\ input' = [seq |-> seq, bytes |-> F]

Spec == Init /\ [][Next]_<<next, got, input>>
=============================================================================
