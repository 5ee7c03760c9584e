------------------------- MODULE MCServerSessionCache -------------------------
(* A session without a certificate or a name, looked up while time passes. *)
EXTENDS ServerSessionCache

MCNameOf == [s \in Sessions |-> Nobody]
MCIndexOf == [n \in {} |-> 0]
=============================================================================
