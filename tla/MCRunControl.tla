---------------------------- MODULE MCRunControl ----------------------------
(* The instances of RunControl that TLC checks. *)
EXTENDS RunControl
=============================================================================
