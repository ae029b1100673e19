------------------------------- MODULE MCTftp -------------------------------
(* Instances of Tftp for TLC: ports are small numbers. *)
EXTENDS Tftp

Clients2 == {11, 12}
Clients1 == {11}
Servers2 == {21, 22}
Servers1 == {21}

(* A network that does not reorder: one packet at a time in each direction. *)
OneInFlight ==
    /\ Cardinality({m \in net : m.dst \in OurPorts}) <= 1
    /\ Cardinality({m \in net : m.src \in OurPorts}) <= 1

=============================================================================
