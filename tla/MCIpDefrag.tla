----------------------------- MODULE MCIpDefrag -----------------------------
(* Instances of IpDefrag for TLC. *)
EXTENDS IpDefrag

Frag(p, off, len, more) == [pkt |-> p, off |-> off, len |-> len, more |-> more]

(* A packet of six fragments and one more that overlaps two of them, one of two and
   one that is too long, with a fragment that ends where the buffer does. *)
ThreeId       == [A |-> "x", B |-> "y", C |-> "z"]
ThreeLength   == [A |-> 15, B |-> 4, C |-> 40]
LongPacket    == {Frag("A", 0, 2, TRUE), Frag("A", 1, 4, TRUE), Frag("A", 3, 2, TRUE),
                  Frag("A", 2, 4, TRUE), Frag("A", 4, 2, TRUE), Frag("A", 5, 2, TRUE),
                  Frag("A", 6, 3, FALSE)}
ShortPacket   == {Frag("B", 0, 2, TRUE), Frag("B", 1, 2, FALSE)}
OversizePacket == {Frag("C", 0, 4, TRUE), Frag("C", 2, 12, TRUE),
                   Frag("C", 2, 36, FALSE)}
AllFragments  == LongPacket \cup ShortPacket \cup OversizePacket

(* A packet whose last fragment is shorter than a unit. *)
ShortLast     == {Frag("A", 0, 8, TRUE), Frag("A", 4, 6, TRUE), Frag("A", 7, 1, FALSE)}

(* Two packets of different senders that carry the same number. *)
SameId        == [A |-> "x", B |-> "x", C |-> "z"]

=============================================================================
