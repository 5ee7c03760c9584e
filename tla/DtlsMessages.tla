---------------------------- MODULE DtlsMessages ----------------------------
(***************************************************************************)
(* The handshake messages one end sends: how many, and how long they are.  *)
(***************************************************************************)
EXTENDS Integers

CONSTANTS
    NumMsgs,     \* messages the peer sends, numbered from 0
    MsgLen       \* the length of each

Msgs == 0..(NumMsgs - 1)

ASSUME LenAssumption == NumMsgs \in Nat /\ MsgLen \in [Msgs -> Nat]
=============================================================================
