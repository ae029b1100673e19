---------------------------- MODULE MCNandSkipBad ----------------------------
(* Instances of NandSkipBad for TLC. *)
EXTENDS NandSkipBad

Piece(o, n) == [off |-> o, len |-> n]

(* Images that end in the middle of a block, at its end and past the chip's. *)
SomeRanges   == {Piece(0, 0), Piece(0, 2), Piece(1, 3), Piece(2, 4), Piece(6, 1)}
SomeErasures == {Piece(0, 1), Piece(2, 4)}

=============================================================================
