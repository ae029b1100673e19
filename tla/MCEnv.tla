------------------------------- MODULE MCEnv -------------------------------
(* Instances of EnvNand for TLC. *)
EXTENDS EnvNand

(* One variable, two values: the flash is what matters. *)
OneName       == {"ipaddr"}
OneKind       == [n \in OneName |-> "late"]
OneDefault    == [n \in OneName |-> "0"]
TwoVals       == {"a", "b"}
TwoLen        == [v \in TwoVals |-> 1]

(* Two variables, one of which has a long value that fills the environment. *)
TwoNames      == {"ipaddr", "bootargs"}
TwoKind       == [n \in TwoNames |-> IF n = "ipaddr" THEN "late" ELSE "plain"]
TwoDefault    == [n \in TwoNames |-> IF n = "ipaddr" THEN "a" ELSE "0"]
LongLen       == [v \in TwoVals |-> IF v = "b" THEN 2 ELSE 1]

(* Blocks that may be bad: enough for an area too short for an environment. *)
SomeBad       == {<<1, 1>>, <<1, 3>>, <<2, 2>>}
OneBad        == {<<1, 2>>}

=============================================================================
