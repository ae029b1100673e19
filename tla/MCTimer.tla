------------------------------ MODULE MCTimer -------------------------------
(* Instances of Timer for TLC. *)
EXTENDS Timer

(* The timer was just started, or the timestamp is about to wrap. *)
StartOrWrap == {0, 57}

=============================================================================
