-------------------------- MODULE DtlsUnackedRange --------------------------
(***************************************************************************)
(* dtls_NextUnackedRange: which part of a handshake message is still to be *)
(* retransmitted.  The loop goes over the records that carried the message *)
(* and narrows [start, end) from both sides, starting over after each      *)
(* move, until a whole pass moves nothing or the two meet.                 *)
(*                                                                         *)
(* An entry stands for a record of dtlsSentHandshake; entries of other     *)
(* messages are skipped just like those that are not acknowledged.         *)
(***************************************************************************)
EXTENDS Integers, Sequences

CONSTANTS
    MaxLen,      \* longest message
    MaxEntries   \* most entries in dtlsSentHandshake

ASSUME BoundsAssumption == MaxLen \in Nat /\ MaxEntries \in Nat

VARIABLES
    entries,     \* dtlsSentHandshake
    len,         \* length of the message
    offset,      \* where the search starts
    start, end,
    result       \* "loop" while searching, then what is returned

inputs == <<entries, len, offset>>
rangeVars == <<entries, len, offset, start, end, result>>

\* The records of a message of length n: none is empty unless the message is.
Entries(n) ==
    {e \in [offset : 0..n, length : 0..n, acked : BOOLEAN] :
        e.offset + e.length <= n /\ (e.length > 0 \/ n = 0)}

\* dtls_FragmentHandshake searches an empty message once, and any other from
\* an offset inside it.
RangeInit ==
    /\ len \in 0..MaxLen
    /\ entries \in UNION {[1..n -> Entries(len)] : n \in 0..MaxEntries}
    /\ offset \in 0..len /\ (offset < len \/ len = 0)
    /\ start = offset /\ end = len
    /\ result = "loop"

\* Mutant: an entry that starts at start is taken to start too late.
MovesStart_Strict(e) == e.offset < start /\ start < e.offset + e.length

MovesStart(e) == e.offset <= start /\ start < e.offset + e.length

\* Mutant: an entry that starts at end is not skipped.
MovesEnd_NotLate(e) == e.offset <= end /\ end <= e.offset + e.length

MovesEnd(e) == e.offset < end /\ end <= e.offset + e.length

Moves(e) == e.acked /\ (MovesStart(e) \/ MovesEnd(e))

\* The first entry that moves start or end; the loop then starts over.
FirstMove(i) ==
    /\ result = "loop" /\ len > 0
    /\ Moves(entries[i]) /\ \A j \in 1..(i - 1) : ~Moves(entries[j])

\* Mutant: the last byte left is taken for acknowledged.
Crossed_OneLeft(s, e) == s + 1 >= e

Crossed(s, e) == s >= e

\* dtls_MoveUnackedStartForward
dtls_MoveUnackedStartForward(i) ==
    /\ FirstMove(i) /\ MovesStart(entries[i])
    /\ start' = entries[i].offset + entries[i].length
    /\ result' = IF Crossed(start', end) THEN "none" ELSE "loop"
    /\ UNCHANGED <<end, inputs>>

\* dtls_MoveUnackedEndBackward, tried when start does not move
dtls_MoveUnackedEndBackward(i) ==
    /\ FirstMove(i) /\ ~MovesStart(entries[i])
    /\ end' = entries[i].offset
    /\ result' = IF Crossed(start, end') THEN "none" ELSE "loop"
    /\ UNCHANGED <<start, inputs>>

\* A whole pass moves nothing.
Return ==
    /\ result = "loop" /\ len > 0
    /\ \A i \in DOMAIN entries : ~Moves(entries[i])
    /\ result' = "range"
    /\ UNCHANGED <<start, end, inputs>>

\* The message is empty: a simple search.
dtls_IsEmptyMessageAcknowledged ==
    /\ result = "loop" /\ len = 0
    /\ result' = IF \E i \in DOMAIN entries : entries[i].acked THEN "none" ELSE "range"
    /\ UNCHANGED <<start, end, inputs>>

RangeNext ==
    \/ \E i \in DOMAIN entries : dtls_MoveUnackedStartForward(i)
    \/ \E i \in DOMAIN entries : dtls_MoveUnackedEndBackward(i)
    \/ Return
    \/ dtls_IsEmptyMessageAcknowledged

RangeSpec == RangeInit /\ [][RangeNext]_rangeVars /\ WF_rangeVars(RangeNext)

-----------------------------------------------------------------------------
(* Properties.                                                             *)

\* The range stays inside the message: dtls_MoveUnackedStartForward never
\* moves start back below offset or past the end.
RangeTypeOK ==
    /\ len \in 0..MaxLen
    /\ entries \in Seq(Entries(len))
    /\ offset \in 0..len /\ (offset < len \/ len = 0)
    /\ start \in offset..len /\ end \in 0..len
    /\ result \in {"loop", "range", "none"}

Acked(b) == \E i \in DOMAIN entries :
                /\ entries[i].acked
                /\ entries[i].offset <= b /\ b < entries[i].offset + entries[i].length

\* A range runs from the first byte at or after offset that is not
\* acknowledged to the last one: retransmitting it sends all that is missing,
\* and starts and ends with something that is ("PORT_Assert(start < end)").
RangeIsTight ==
    (result = "range" /\ len > 0) =>
        /\ start < end
        /\ ~Acked(start) /\ ~Acked(end - 1)
        /\ \A b \in offset..(len - 1) : (b < start \/ b >= end) => Acked(b)

\* "Returns PR_FALSE if the message is entirely acknowledged from |offset|
\* onwards": nothing that the peer lacks is given up.
NoneMeansAcknowledged ==
    (result = "none" /\ len > 0) => \A b \in offset..(len - 1) : Acked(b)

\* The loop ends, whatever the order and overlap of the entries.
Terminates == <>(result # "loop")
=============================================================================
