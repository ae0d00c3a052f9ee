----------------------------- MODULE MCHistory -----------------------------
(* History with the bounds its configurations give.                        *)
EXTENDS History
=============================================================================
