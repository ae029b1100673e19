----------------------------- MODULE MCNetLoop -----------------------------
(* Instances of NetLoop for TLC. *)
EXTENDS NetLoop

AllGood == {Devices}
AnyGood == SUBSET Devices

=============================================================================
