---------------------------- MODULE MCDtlsPieces ----------------------------
(* What DTLS does with single records and fragments, three algorithms side *)
(* by side: which records are accepted, how fragments are put together,    *)
(* and which part of a message is sent again.  A behaviour is one of the   *)
(* algorithm named by part, while the others rest.                         *)
(*                                                                         *)
(* Records: a ring of 2 bytes of 2 bits, short headers of 2 and 3 bits,    *)
(* and more records than the largest header range can tell apart.          *)
(* Fragments: messages of 3, 4 and 0 bytes, the first two ClientHellos of  *)
(* different lengths if the receiver is a fresh server.                    *)
(* Ranges: every list of up to three records of every message of up to 4   *)
(* bytes.                                                                  *)
EXTENDS DtlsRecordRead, DtlsReassembly, DtlsUnackedRange

VARIABLE part

MCHdrRanges == {4, 8}
MCLen == [m \in 0..2 |-> <<3, 4, 0>>[m + 1]]

MCInit ==
    /\ part \in {"records", "fragments", "ranges"}
    /\ ReadInit /\ Init /\ RangeInit
    /\ part # "ranges" => entries = <<>> /\ len = 0
    /\ part # "fragments" => ~waitClientHello

RecordsNext == part = "records" /\ ReadNext /\ UNCHANGED <<part, vars, rangeVars>>
FragmentsNext == part = "fragments" /\ Next /\ UNCHANGED <<part, readVars, rangeVars>>
RangesNext == part = "ranges" /\ RangeNext /\ UNCHANGED <<part, readVars, vars>>

MCSpec ==
    /\ MCInit /\ [][RecordsNext \/ FragmentsNext \/ RangesNext]_<<part, readVars, vars, rangeVars>>
    /\ WF_rangeVars(part = "ranges" /\ RangeNext)

\* The search for a range ends (Terminates of DtlsUnackedRange).
SearchTerminates == part = "ranges" => Terminates
=============================================================================
