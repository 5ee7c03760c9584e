------------------------- MODULE MCDtls13KeyUpdate -------------------------
(* Instances of Dtls13KeyUpdate for TLC. *)
EXTENDS Dtls13KeyUpdate
=============================================================================
