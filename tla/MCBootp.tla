------------------------------ MODULE MCBootp -------------------------------
(* Instances of Bootp for TLC. *)
EXTENDS Bootp

=============================================================================
