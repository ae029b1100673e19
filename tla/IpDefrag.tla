------------------------------ MODULE IpDefrag ------------------------------
(***************************************************************************)
(* The reassembly of IP packets (__NetDefragment, net/net.c, RFC 815): the *)
(* list of the holes that are still to be filled is kept in the packet     *)
(* buffer itself, a descriptor in the first unit of each hole.             *)
(*                                                                         *)
(* A unit is 8 bytes in the code, Unit bytes here. The buffer is seen as   *)
(* descriptors, desc, and as bytes; writing the one destroys the other.    *)
(***************************************************************************)
EXTENDS Integers

CONSTANTS
    Unit,           \* bytes of a unit, sizeof(struct hole)
    MaxUdp,         \* IP_MAXUDP, in bytes
    Infinity,       \* 0xffff, ~0: longer than any packet
    Packets,        \* the packets that are sent
    Id,             \* Id[p]: the ip_id of packet p
    Length,         \* Length[p]: its bytes
    Fragments,      \* the fragments that arrive
    NoPacket,       \* neither a packet nor an ip_id
    FirstFirst,     \* the fragment that begins a reassembly is the packet's first
    LateCopies      \* copies of fragments arrive after the packet is complete

Units == 0..(MaxUdp \div Unit)
Bytes == 0..(MaxUdp - 1)

(* Fragments as a sender cuts them: at units, the last one at the packet's end. What is
   neither followed nor preceded by another is "not a fragment" (NetDefragment). *)
ASSUME SizeAssumption ==
    /\ Unit \in Nat \ {0} /\ MaxUdp \in Nat \ {0} /\ Infinity \in Nat
    /\ Length \in [Packets -> 1..(Infinity - 1)] /\ Infinity > MaxUdp
    /\ NoPacket \notin Packets /\ \A p \in Packets : Id[p] # NoPacket
    /\ FirstFirst \in BOOLEAN /\ LateCopies \in BOOLEAN
ASSUME FragmentAssumption ==
    \A f \in Fragments :
        /\ f.pkt \in Packets /\ f.off \in Nat /\ f.len \in Nat \ {0} /\ f.more \in BOOLEAN
        /\ f.more \/ f.off # 0
        /\ f.more => f.len % Unit = 0 /\ f.off * Unit + f.len < Length[f.pkt]
        /\ ~f.more => f.off * Unit + f.len = Length[f.pkt]

VARIABLES
    ip_id,          \* localip->ip_id
    total_len,
    first_hole,
    desc,           \* desc[u]: the descriptor in unit u
    bytes,          \* bytes[i]: the packet whose byte i is there, or NoPacket
    out,            \* the packet that this call returned, or none
    confused,       \* data has been taken for a descriptor, or one was written too far
    got,            \* history: the bytes that have come for ip_id
    complete        \* history: the packet ip_id has been returned

vars == <<ip_id, total_len, first_hole, desc, bytes, out, confused, got, complete>>

NoHole == [hole |-> FALSE, last |-> 0, next |-> 0, prev |-> 0]
NoOut  == [len |-> 0, bytes |-> {}]

Start(f)  == f.off * Unit
Finish(f) == Start(f) + f.len
UnitOf(u) == {i \in Bytes : i \div Unit = u}
Span(f)   == Start(f)..(Finish(f) - 1)

-----------------------------------------------------------------------------
(* The buffer and the list in it, as a record b.                             *)

Buffer == [first |-> first_hole, total |-> total_len, desc |-> desc, bytes |-> bytes]

(* Write a descriptor into unit u; 0 stands for "none" in a link. *)
Put(b, u, d) == [b EXCEPT !.desc[u] = d,
                          !.bytes = [i \in Bytes |-> IF i \in UnitOf(u) THEN NoPacket ELSE @[i]]]

SetNext(b, u, v) == Put(b, u, [b.desc[u] EXCEPT !.next = v])
SetPrev(b, u, v) == Put(b, u, [b.desc[u] EXCEPT !.prev = v])
SetLast(b, u, v) == Put(b, u, [b.desc[u] EXCEPT !.last = v])

SetPrevIfAny(b, u, v) == IF u = 0 THEN b ELSE SetPrev(b, u, v)

CopyUnits(b, f) ==
    [b EXCEPT !.desc = [u \in Units |-> IF UnitOf(u) \cap Span(f) # {} THEN NoHole ELSE @[u]],
              !.bytes = [i \in Bytes |-> IF i >= Start(f) /\ i < Start(f) + (f.len \div Unit) * Unit
                                         THEN f.pkt ELSE @[i]]]

(* memcpy of the fragment's data over whatever is there. *)
Copy(b, f) ==
    [b EXCEPT !.desc = [u \in Units |-> IF UnitOf(u) \cap Span(f) # {} THEN NoHole ELSE @[u]],
              !.bytes = [i \in Bytes |-> IF i \in Span(f) THEN f.pkt ELSE @[i]]]

(* "new (or different) packet": total_len is 0 before the first packet only. *)
Fresh(f) == total_len = 0 \/ ip_id # Id[f.pkt]

Whole == [hole |-> TRUE, last |-> Infinity, next |-> 0, prev |-> 0]

Begun(f) == IF Fresh(f)
            THEN [Put(Buffer, 0, Whole) EXCEPT !.first = 0, !.total = Infinity]
            ELSE Buffer

(* The hole at which the walk along the list stops for a fragment at start. *)
FindHole(b, start) ==
    LET at[k \in Units] ==
          IF k = 0 THEN b.first
          ELSE LET u == at[k - 1]  h == b.desc[u]
               IN IF h.hole /\ h.last < start /\ h.next # 0 THEN h.next ELSE u
    IN at[MaxUdp \div Unit]

(* "no more fragments: truncate this (last) hole" *)
Truncated(b, h, f) == IF f.more THEN b ELSE [SetLast(b, h, Finish(f)) EXCEPT !.total = Finish(f)]

(* "complete overlap with hole: remove hole", one case per place in the list. *)
Removed(b, h) ==
    LET d == b.desc[h]
    IN CASE d.prev = 0 /\ d.next = 0 -> b
         [] d.prev = 0 /\ d.next # 0 -> [SetPrev(b, d.next, 0) EXCEPT !.first = d.next]
         [] d.prev # 0 /\ d.next = 0 -> SetNext(b, d.prev, 0)
         [] OTHER -> SetNext(SetPrev(b, d.next, d.prev), d.prev, d.next)

(* "overlaps with final part of the hole: shorten this hole" *)
Shortened(b, h, f) == SetLast(b, h, Start(f))

(* "overlaps with initial part of the hole: move this hole" *)
Moved(b, h, f) ==
    LET n == f.off + f.len \div Unit
        d == b.desc[h]
        c == SetPrevIfAny(Put(b, n, d), d.next, n)
    IN IF d.prev # 0 THEN SetNext(c, d.prev, n) ELSE [c EXCEPT !.first = n]

SplitUnlinked(b, h, f) ==
    LET n == f.off + f.len \div Unit
        d == b.desc[h]
    IN Put(Put(b, n, [d EXCEPT !.prev = h]), h, [d EXCEPT !.last = Start(f), !.next = n])

(* "fragment sits in the middle: split the hole" *)
Split(b, h, f) ==
    LET n == f.off + f.len \div Unit
        d == b.desc[h]
        c == Put(Put(b, n, [d EXCEPT !.prev = h]), h, [d EXCEPT !.last = Start(f), !.next = n])
    IN SetPrevIfAny(c, d.next, n)

-----------------------------------------------------------------------------
(* __NetDefragment, one action per way out.                                  *)

(* The order of arrival that an instance allows. *)
Arrives(f) ==
    /\ ~confused
    /\ FirstFirst /\ Fresh(f) => f.off = 0
    /\ LateCopies \/ Fresh(f) \/ ~complete

Becomes(b, f) ==
    /\ ip_id' = IF Fresh(f) THEN Id[f.pkt] ELSE ip_id
    /\ first_hole' = b.first /\ total_len' = b.total
    /\ desc' = b.desc /\ bytes' = b.bytes

Known(f) == IF Fresh(f) THEN {} ELSE got
Comes(f) == got' = Known(f) \cup Span(f)
Keeps(f) == out' = NoOut /\ Comes(f) /\ complete' = (complete /\ ~Fresh(f))

FitsAlways(f) == TRUE

(* The fragment does not extend too far. *)
Fits(f) == Finish(f) <= MaxUdp

(* "fragment extends too far" *)
TooFar(f) ==
    /\ ~Fits(f)
    /\ out' = NoOut
    /\ UNCHANGED <<ip_id, total_len, first_hole, desc, bytes, confused, got, complete>>

(* "no hole that far away", or "no overlap with holes (dup fragment?)" *)
NothingToFill(f) ==
    LET b == Begun(f)  h == FindHole(b, Start(f))
    IN /\ Arrives(f) /\ Fits(f)
       /\ b.desc[h].hole
       /\ b.desc[h].last < Start(f) \/ f.off + f.len \div Unit <= h
       /\ Becomes(b, f) /\ Keeps(f)
       /\ UNCHANGED confused

(* What the walk reads is the data of a packet: the result is arbitrary. *)
ReadsData(f) ==
    LET b == Begun(f)
    IN /\ Arrives(f) /\ Fits(f)
       /\ ~b.desc[FindHole(b, Start(f))].hole
       /\ confused' = TRUE
       /\ Becomes(b, f) /\ Keeps(f)

(* The fragment overlaps hole h of b, which is truncated if it is the last. *)
Fills(f, b, h) ==
    /\ Arrives(f) /\ Fits(f)
    /\ b.desc[h].hole /\ b.desc[h].last >= Start(f)
    /\ f.off + f.len \div Unit > h

(* How the fragment overlaps with the hole. *)
FromItsStart(f, h) == h >= f.off
ToItsEnd(f, b, h)  == Truncated(b, h, f).desc[h].last <= Finish(f)

(* The unit behind the fragment, where a hole is moved or split to, is in the buffer. *)
RoomBehind(f) == (f.off + f.len \div Unit + 1) * Unit <= MaxUdp

(* Return the packet: its length and the bytes that are in the buffer. *)
Returned(b) == [len |-> b.total, bytes |-> {<<i, b.bytes[i]>> : i \in {j \in Bytes : j < b.total}}]

DoneAtTheEnd(b, h) == b.desc[h].next = 0

(* "last remaining hole" *)
Done(b, h) == b.desc[h].prev = 0 /\ b.desc[h].next = 0

FillHole(f) ==
    LET b == Begun(f)
        h == FindHole(b, Start(f))
        t == Truncated(b, h, f)
        c == Copy(Removed(t, h), f)
    IN /\ Fills(f, b, h) /\ FromItsStart(f, h) /\ ToItsEnd(f, b, h)
       /\ Becomes(c, f)
       /\ out' = IF Done(t, h) THEN Returned(c) ELSE NoOut
       /\ complete' = (Done(t, h) \/ (complete /\ ~Fresh(f)))
       /\ Comes(f)
       /\ UNCHANGED confused

(* The other three keep a hole; b is the buffer after the list is changed. *)
Partly(f, b) ==
    /\ Becomes(Copy(b, f), f)
    /\ Keeps(f)
    /\ UNCHANGED confused

ShortenHole(f) ==
    LET b == Begun(f)  h == FindHole(b, Start(f))
    IN /\ Fills(f, b, h) /\ ~FromItsStart(f, h) /\ ToItsEnd(f, b, h)
       /\ Partly(f, Shortened(Truncated(b, h, f), h, f))

MoveHole(f) ==
    LET b == Begun(f)  h == FindHole(b, Start(f))
    IN /\ Fills(f, b, h) /\ FromItsStart(f, h) /\ ~ToItsEnd(f, b, h) /\ RoomBehind(f)
       /\ Partly(f, Moved(b, h, f))

SplitHole(f) ==
    LET b == Begun(f)  h == FindHole(b, Start(f))
    IN /\ Fills(f, b, h) /\ ~FromItsStart(f, h) /\ ~ToItsEnd(f, b, h) /\ RoomBehind(f)
       /\ Partly(f, Split(b, h, f))

(* The descriptor of the hole that is moved or split goes to what lies behind the
   buffer: nothing is known of the reassembly afterwards.                    *)
PastBuffer(f) ==
    LET b == Begun(f)  h == FindHole(b, Start(f))
    IN /\ Fills(f, b, h) /\ ~ToItsEnd(f, b, h) /\ ~RoomBehind(f)
       /\ confused' = TRUE
       /\ out' = NoOut
       /\ UNCHANGED <<ip_id, total_len, first_hole, desc, bytes, got, complete>>

Init ==
    /\ ip_id = NoPacket
    /\ total_len = 0
    /\ first_hole = 0
    /\ desc = [u \in Units |-> NoHole]
    /\ bytes = [i \in Bytes |-> NoPacket]
    /\ out = NoOut
    /\ confused = FALSE
    /\ got = {}
    /\ complete = FALSE

Next ==
    \E f \in Fragments :
        \/ TooFar(f) \/ NothingToFill(f) \/ ReadsData(f)
        \/ FillHole(f) \/ ShortenHole(f) \/ MoveHole(f) \/ SplitHole(f) \/ PastBuffer(f)

Spec == Init /\ [][Next]_vars

-----------------------------------------------------------------------------

TypeOK ==
    /\ ip_id \in {Id[p] : p \in Packets} \cup {NoPacket}
    /\ total_len \in 0..Infinity
    /\ first_hole \in Units
    /\ desc \in [Units -> [hole : BOOLEAN, last : 0..Infinity, next : Units, prev : Units]]
    /\ bytes \in [Bytes -> Packets \cup {NoPacket}]
    /\ out \in [len : 0..Infinity, bytes : SUBSET (Bytes \X (Packets \cup {NoPacket}))]
    /\ confused \in BOOLEAN /\ complete \in BOOLEAN
    /\ got \subseteq Bytes

(* net.c, "It returns NULL or the pointer to a complete packet": what is returned
   is one packet, whole, with its length, and nothing of another one in it.  *)
ReturnsWhole ==
    out # NoOut => \E p \in Packets : out = [len |-> Length[p], bytes |-> (0..(Length[p] - 1)) \X {p}]

(* The holes that the list leads to from first_hole. *)
Holes ==
    LET at[k \in Units] == IF k = 0 THEN first_hole
                           ELSE LET u == at[k - 1]
                                IN IF desc[u].next = 0 THEN u ELSE desc[u].next
    IN {at[k] : k \in Units}

(* net.c, "We use the payload array as a linked list of hole descriptors": until the
   packet is complete, the list is linked both ways, consists of descriptors that
   no data has overwritten, and its holes are exactly the bytes not yet received. *)
HolesExact ==
    (total_len # 0 /\ ~complete) =>
        LET end == IF total_len = Infinity THEN MaxUdp ELSE total_len
        IN /\ \A h \in Holes : desc[h].hole
           /\ \A h \in Holes : desc[h].next # 0 => desc[desc[h].next].prev = h
           /\ desc[first_hole].prev = 0
           /\ (0..(end - 1)) \ got =
                UNION {{i \in Bytes : h * Unit <= i /\ i < desc[h].last} : h \in Holes}

(* A packet whose fragments have all come, in whatever order and however often, has
   been returned; and nothing is returned before that.                       *)
ReturnedWhenAllCame ==
    complete <=> \E p \in Packets : Id[p] = ip_id /\ got = 0..(Length[p] - 1)

(* net.c, "either data or frag control": no data of a packet is ever taken for a
   descriptor, of a copy that comes after the packet was returned neither, and
   no descriptor is written where there is no buffer.                        *)
NeverConfused == ~confused

=============================================================================
