----------------------------- MODULE MCEnvNet ------------------------------
(* Instances of EnvNet for TLC. *)
EXTENDS EnvNet

(* All kinds of variable. *)
AllNames      == {"ipaddr", "loadaddr", "bootfile", "serverip", "stdout", "baudrate"}
AllKind       == [n \in AllNames |-> CASE n \in {"ipaddr", "loadaddr", "bootfile"} -> "late"
                                       [] n = "stdout"   -> "console"
                                       [] n = "baudrate" -> "baudrate"
                                       [] OTHER          -> "plain"]
AllDefault    == [n \in AllNames |-> IF n = "baudrate" THEN "a" ELSE "0"]

TwoVals       == {"a", "b"}
LongLen       == [v \in TwoVals |-> IF v = "b" THEN 2 ELSE 1]

Learned       == <<"ipaddr", "serverip">>

=============================================================================
