--------------------------- MODULE IpDefragProofs ----------------------------
(***************************************************************************)
(* Proofs about the reassembly of IP packets: its types, for all fragments *)
(* that FragmentAssumption allows, and, for senders that cut a packet in   *)
(* such a way that the code can deal with it (Sent), that the list of the  *)
(* holes is right and a packet is returned whole, when all of it has come. *)
(***************************************************************************)
EXTENDS IpDefrag, WellFoundedInduction, TLAPS

-----------------------------------------------------------------------------
(* Units and bytes.                                                           *)

At(u) == u * Unit

LEMMA Sizes ==
    /\ Unit \in Nat \ {0} /\ MaxUdp \in Nat \ {0} /\ Infinity \in Nat /\ MaxUdp < Infinity
    /\ \A p \in Packets : Length[p] \in 1..(Infinity - 1)
    /\ MaxUdp \div Unit \in Nat /\ 0 \in Units /\ Units \subseteq Nat
  <1>1. /\ Unit \in Nat \ {0} /\ MaxUdp \in Nat \ {0} /\ Infinity \in Nat /\ MaxUdp < Infinity
        /\ \A p \in Packets : Length[p] \in 1..(Infinity - 1)
    BY SizeAssumption
  <1>2. MaxUdp \div Unit \in Nat
    BY <1>1
  <1> QED BY <1>1, <1>2 DEF Units

LEMMA DivMod ==
    ASSUME NEW a \in Int, NEW w \in Nat \ {0}
    PROVE  a = w * (a \div w) + (a % w) /\ a % w \in 0..(w - 1) /\ a \div w \in Int
  OBVIOUS

LEMMA AtStep ==
    ASSUME NEW u \in Nat
    PROVE  At(u) \in Nat /\ At(u + 1) = At(u) + Unit /\ At(0) = 0
  <1>1. Unit \in Nat
    BY Sizes
  <1> QED BY <1>1 DEF At

LEMMA AtMono ==
    ASSUME NEW u \in Nat, NEW v \in Nat
    PROVE  /\ u < v <=> At(u) < At(v)
           /\ u < v => At(u) + Unit <= At(v)
           /\ u <= v <=> At(u) <= At(v)
  <1>1. Unit \in Nat \ {0}
    BY Sizes
  <1>2. ASSUME NEW a \in Nat, NEW c \in Nat, a < c PROVE a * Unit + Unit <= c * Unit
    <2>1. PICK k \in Nat : c = a + 1 + k
      <3>1. c - a - 1 \in Nat /\ c = a + 1 + (c - a - 1)
        BY <1>2
      <3> QED BY <3>1
    <2>2. c * Unit = a * Unit + Unit + k * Unit
      BY <1>1, <2>1
    <2>3. k * Unit >= 0 /\ a * Unit \in Nat
      BY <1>1
    <2> QED BY <1>1, <2>2, <2>3
  <1>3. u * Unit \in Nat /\ v * Unit \in Nat
    BY <1>1
  <1>4. u < v => u * Unit + Unit <= v * Unit
    BY <1>2
  <1>5. v < u => v * Unit + Unit <= u * Unit
    BY <1>2
  <1> QED BY <1>1, <1>3, <1>4, <1>5 DEF At

(* The bytes of a unit. *)
LEMMA InUnit ==
    ASSUME NEW u \in Nat, NEW i \in Bytes
    PROVE  i \in UnitOf(u) <=> At(u) <= i /\ i < At(u) + Unit
  <1>1. Unit \in Nat \ {0} /\ i \in Nat
    BY Sizes DEF Bytes
  <1>2. PICK q, r : q = i \div Unit /\ r = i % Unit
    OBVIOUS
  <1>3. i = Unit * q + r /\ r \in 0..(Unit - 1) /\ q \in Int
    BY <1>1, <1>2, DivMod
  <1>4. q \in Nat
    BY <1>1, <1>2
  <1>5. Unit * q = At(q)
    BY <1>1, <1>4 DEF At
  <1>6. At(q) \in Nat /\ At(u) \in Nat
    BY <1>4, AtStep
  <1>7. At(q) <= i /\ i < At(q) + Unit
    BY <1>1, <1>3, <1>5, <1>6
  <1>8. q < u => At(q) + Unit <= At(u)
    BY <1>4, AtMono
  <1>9. u < q => At(u) + Unit <= At(q)
    BY <1>4, AtMono
  <1>10. At(u) <= i /\ i < At(u) + Unit => q = u
    BY <1>1, <1>4, <1>6, <1>7, <1>8, <1>9
  <1>11. q = u => At(u) <= i /\ i < At(u) + Unit
    BY <1>7
  <1> QED BY <1>2, <1>10, <1>11 DEF UnitOf

(* A unit that begins in the buffer, or at its end, is one of Units. *)
LEMMA UnitInBuffer ==
    ASSUME NEW n \in Nat, At(n) <= MaxUdp
    PROVE  n \in Units
  <1>1. Unit \in Nat \ {0} /\ MaxUdp \in Nat
    BY Sizes
  <1>2. PICK q, r : q = MaxUdp \div Unit /\ r = MaxUdp % Unit
    OBVIOUS
  <1>3. MaxUdp = Unit * q + r /\ r \in 0..(Unit - 1) /\ q \in Nat
    <2>1. q \in Nat
      BY <1>1, <1>2
    <2> QED BY <1>1, <1>2, <2>1, DivMod
  <1>4. Unit * q = At(q) /\ At(q) \in Nat /\ At(n) \in Nat
    BY <1>1, <1>3, AtStep DEF At
  <1>5. q < n => At(q) + Unit <= At(n)
    BY <1>3, AtMono
  <1>6. n <= q
    BY <1>1, <1>3, <1>4, <1>5
  <1> QED BY <1>2, <1>3, <1>6 DEF Units

(* Where a fragment begins and ends, and the unit after its last whole one. *)
End(f) == f.off + f.len \div Unit

LEMMA FragmentIs ==
    ASSUME NEW f \in Fragments
    PROVE  /\ f.pkt \in Packets /\ f.off \in Nat /\ f.len \in Nat \ {0} /\ f.more \in BOOLEAN
           /\ f.more \/ f.off # 0
           /\ Start(f) = At(f.off) /\ Start(f) \in Nat /\ Finish(f) \in Nat
           /\ Start(f) < Finish(f) /\ Finish(f) <= Length[f.pkt]
           /\ f.more => Finish(f) < Length[f.pkt]
           /\ ~f.more => Finish(f) = Length[f.pkt]
           /\ \A i : i \in Span(f) <=> i \in Nat /\ Start(f) <= i /\ i < Finish(f)
           /\ End(f) \in Nat
           /\ At(End(f)) <= Finish(f) /\ Finish(f) < At(End(f)) + Unit
           /\ f.more => At(End(f)) = Finish(f)
           /\ RoomBehind(f) => At(End(f)) + Unit <= MaxUdp
  <1>1. /\ f.pkt \in Packets /\ f.off \in Nat /\ f.len \in Nat \ {0} /\ f.more \in BOOLEAN
        /\ f.more \/ f.off # 0
        /\ f.more => f.len % Unit = 0 /\ f.off * Unit + f.len < Length[f.pkt]
        /\ ~f.more => f.off * Unit + f.len = Length[f.pkt]
    BY FragmentAssumption
  <1>2. Unit \in Nat \ {0} /\ Length[f.pkt] \in Nat
    BY <1>1, Sizes
  <1>3. PICK k, r : k = f.len \div Unit /\ r = f.len % Unit
    OBVIOUS
  <1>4. f.len = Unit * k + r /\ r \in 0..(Unit - 1) /\ k \in Nat
    <2>1. k \in Nat
      BY <1>1, <1>2, <1>3
    <2>2. PICK n \in Int : n = f.len
      BY <1>1
    <2>3. n = Unit * (n \div Unit) + (n % Unit) /\ n % Unit \in 0..(Unit - 1)
      BY <1>2, DivMod
    <2> QED BY <1>3, <2>1, <2>2, <2>3
  <1>5. End(f) = f.off + k /\ End(f) \in Nat
    BY <1>1, <1>3, <1>4 DEF End
  <1>6. Start(f) = At(f.off) /\ Start(f) \in Nat /\ Finish(f) = Start(f) + f.len
    BY <1>1, AtStep DEF Start, Finish, At
  <1>7. At(End(f)) = Start(f) + Unit * k /\ Unit * k \in Nat
    BY <1>1, <1>2, <1>4, <1>5 DEF At, Start
  <1>8. /\ At(End(f)) <= Finish(f) /\ Finish(f) < At(End(f)) + Unit
        /\ f.more => At(End(f)) = Finish(f)
    <2>1. f.len = Unit * k + r /\ r \in Nat /\ r < Unit
      BY <1>2, <1>4
    <2>3. ASSUME f.more PROVE r = 0
      BY <1>1, <1>3, <2>3
    <2>2. PICK m \in Nat : m = Unit * k
      BY <1>7
    <2> QED BY <1>2, <1>6, <1>7, <2>1, <2>2, <2>3
  <1>9. /\ f.more => Finish(f) < Length[f.pkt]
        /\ ~f.more => Finish(f) = Length[f.pkt]
    BY <1>1, <1>6 DEF Start
  <1>10. /\ Finish(f) \in Nat /\ Start(f) < Finish(f) /\ Finish(f) <= Length[f.pkt]
    BY <1>1, <1>2, <1>6, <1>9
  <1>11. \A i : i \in Span(f) <=> i \in Nat /\ Start(f) <= i /\ i < Finish(f)
    BY <1>6, <1>10 DEF Span
  <1>12. RoomBehind(f) => At(End(f)) + Unit <= MaxUdp
    <2>1. RoomBehind(f) <=> At(End(f) + 1) <= MaxUdp
      BY DEF RoomBehind, End, At
    <2> QED BY <1>5, <2>1, AtStep
  <1> QED BY <1>1, <1>5, <1>6, <1>8, <1>9, <1>10, <1>11, <1>12

-----------------------------------------------------------------------------
(* The buffer.                                                                *)

Descs   == [hole : BOOLEAN, last : 0..Infinity, next : Units, prev : Units]
Owners  == Packets \cup {NoPacket}
Buffers == [first : Units, total : 0..Infinity, desc : [Units -> Descs], bytes : [Bytes -> Owners]]

LEMMA PutIs ==
    ASSUME NEW b \in Buffers, NEW u \in Units, NEW d \in Descs
    PROVE  /\ Put(b, u, d) \in Buffers
           /\ Put(b, u, d).first = b.first /\ Put(b, u, d).total = b.total
           /\ Put(b, u, d).desc = [b.desc EXCEPT ![u] = d]
           /\ \A i \in Bytes : Put(b, u, d).bytes[i] = IF i \in UnitOf(u) THEN NoPacket ELSE b.bytes[i]
  BY DEF Put, Buffers, Owners

LEMMA SetFirstIs ==
    ASSUME NEW b \in Buffers, NEW u \in Units
    PROVE  /\ [b EXCEPT !.first = u] \in Buffers
           /\ [b EXCEPT !.first = u].first = u
           /\ [b EXCEPT !.first = u].total = b.total
           /\ [b EXCEPT !.first = u].desc = b.desc
           /\ [b EXCEPT !.first = u].bytes = b.bytes
  BY DEF Buffers

LEMMA SetTotalIs ==
    ASSUME NEW b \in Buffers, NEW t \in 0..Infinity
    PROVE  /\ [b EXCEPT !.total = t] \in Buffers
           /\ [b EXCEPT !.total = t].first = b.first
           /\ [b EXCEPT !.total = t].total = t
           /\ [b EXCEPT !.total = t].desc = b.desc
           /\ [b EXCEPT !.total = t].bytes = b.bytes
  BY DEF Buffers

(* Of the bytes, c has those of b but in the units U. *)
Touches(b, c, U) ==
    /\ \A i \in Bytes : (\A u \in U : i \notin UnitOf(u)) => c.bytes[i] = b.bytes[i]

LEMMA TouchesMore ==
    ASSUME NEW b, NEW c, NEW e, NEW U, NEW V, Touches(b, c, U), Touches(c, e, V)
    PROVE  Touches(b, e, U \cup V)
  BY DEF Touches

(* Of the links, a descriptor's next, prev and last are set one at a time. *)
LEMMA SetNextIs ==
    ASSUME NEW b \in Buffers, NEW u \in Units, NEW v \in Units
    PROVE  /\ SetNext(b, u, v) \in Buffers
           /\ SetNext(b, u, v).first = b.first /\ SetNext(b, u, v).total = b.total
           /\ SetNext(b, u, v).desc = [b.desc EXCEPT ![u] = [@ EXCEPT !.next = v]]
           /\ Touches(b, SetNext(b, u, v), {u})
  <1>1. PICK d : d = [b.desc[u] EXCEPT !.next = v]
    OBVIOUS
  <1>2. b.desc \in [Units -> Descs]
    BY DEF Buffers
  <1>3. d \in Descs
    BY <1>1, <1>2 DEF Descs
  <1>4. SetNext(b, u, v) = Put(b, u, d)
    BY <1>1 DEF SetNext
  <1>5. [b.desc EXCEPT ![u] = d] = [b.desc EXCEPT ![u] = [@ EXCEPT !.next = v]]
    BY <1>1
  <1> QED BY <1>3, <1>4, <1>5, PutIs DEF Touches

LEMMA SetPrevIs ==
    ASSUME NEW b \in Buffers, NEW u \in Units, NEW v \in Units
    PROVE  /\ SetPrev(b, u, v) \in Buffers
           /\ SetPrev(b, u, v).first = b.first /\ SetPrev(b, u, v).total = b.total
           /\ SetPrev(b, u, v).desc = [b.desc EXCEPT ![u] = [@ EXCEPT !.prev = v]]
           /\ Touches(b, SetPrev(b, u, v), {u})
  <1>1. PICK d : d = [b.desc[u] EXCEPT !.prev = v]
    OBVIOUS
  <1>2. b.desc \in [Units -> Descs]
    BY DEF Buffers
  <1>3. d \in Descs
    BY <1>1, <1>2 DEF Descs
  <1>4. SetPrev(b, u, v) = Put(b, u, d)
    BY <1>1 DEF SetPrev
  <1>5. [b.desc EXCEPT ![u] = d] = [b.desc EXCEPT ![u] = [@ EXCEPT !.prev = v]]
    BY <1>1
  <1> QED BY <1>3, <1>4, <1>5, PutIs DEF Touches

LEMMA SetLastIs ==
    ASSUME NEW b \in Buffers, NEW u \in Units, NEW v \in 0..Infinity
    PROVE  /\ SetLast(b, u, v) \in Buffers
           /\ SetLast(b, u, v).first = b.first /\ SetLast(b, u, v).total = b.total
           /\ SetLast(b, u, v).desc = [b.desc EXCEPT ![u] = [@ EXCEPT !.last = v]]
           /\ Touches(b, SetLast(b, u, v), {u})
  <1>1. PICK d : d = [b.desc[u] EXCEPT !.last = v]
    OBVIOUS
  <1>2. b.desc \in [Units -> Descs]
    BY DEF Buffers
  <1>3. d \in Descs
    BY <1>1, <1>2 DEF Descs
  <1>4. SetLast(b, u, v) = Put(b, u, d)
    BY <1>1 DEF SetLast
  <1>5. [b.desc EXCEPT ![u] = d] = [b.desc EXCEPT ![u] = [@ EXCEPT !.last = v]]
    BY <1>1
  <1> QED BY <1>3, <1>4, <1>5, PutIs DEF Touches

LEMMA CopyIs ==
    ASSUME NEW b \in Buffers, NEW f \in Fragments, Fits(f)
    PROVE  /\ Copy(b, f) \in Buffers
           /\ Copy(b, f).first = b.first /\ Copy(b, f).total = b.total
           /\ \A u \in Units : Copy(b, f).desc[u] =
                                 IF UnitOf(u) \cap Span(f) # {} THEN NoHole ELSE b.desc[u]
           /\ \A i \in Bytes : Copy(b, f).bytes[i] = IF i \in Span(f) THEN f.pkt ELSE b.bytes[i]
  <1>1. f.pkt \in Owners
    BY FragmentIs DEF Owners
  <1>2. NoHole \in Descs
    BY Sizes DEF NoHole, Descs
  <1> QED BY <1>1, <1>2 DEF Copy, Buffers

LEMMA TruncatedIs ==
    ASSUME NEW b \in Buffers, NEW h \in Units, NEW f \in Fragments, Fits(f)
    PROVE  /\ Truncated(b, h, f) \in Buffers
           /\ Truncated(b, h, f).first = b.first
           /\ Truncated(b, h, f).total = IF f.more THEN b.total ELSE Finish(f)
           /\ Truncated(b, h, f).desc = IF f.more THEN b.desc
                                        ELSE [b.desc EXCEPT ![h] = [@ EXCEPT !.last = Finish(f)]]
           /\ Touches(b, Truncated(b, h, f), {h})
  <1>1. CASE f.more
    <2>1. Truncated(b, h, f) = b
      BY <1>1 DEF Truncated
    <2> QED BY <1>1, <2>1 DEF Touches
  <1>2. CASE ~f.more
    <2>1. PICK c, e : c = SetLast(b, h, Finish(f)) /\ e = Finish(f)
      OBVIOUS
    <2>2. Truncated(b, h, f) = [c EXCEPT !.total = e]
      BY <1>2, <2>1 DEF Truncated
    <2>3. e \in 0..Infinity
      BY <2>1, FragmentIs, Sizes DEF Fits
    <2>4. /\ c \in Buffers /\ c.first = b.first /\ Touches(b, c, {h})
          /\ c.desc = [b.desc EXCEPT ![h] = [@ EXCEPT !.last = e]]
      BY <2>1, <2>3, SetLastIs
    <2>5. [c EXCEPT !.total = e] \in Buffers
      BY <2>3, <2>4, SetTotalIs
    <2>6. /\ [c EXCEPT !.total = e].first = c.first /\ [c EXCEPT !.total = e].total = e
          /\ [c EXCEPT !.total = e].desc = c.desc /\ [c EXCEPT !.total = e].bytes = c.bytes
      BY <2>3, <2>4, SetTotalIs
    <2> QED BY <1>2, <2>1, <2>2, <2>4, <2>5, <2>6 DEF Touches
  <1> QED BY <1>1, <1>2

(* Descriptors D and E have the same hole in unit v. *)
SameHole(D, E, v) == D[v].hole = E[v].hole /\ D[v].last = E[v].last

(* Buffer c is b with hole h taken out of the list. *)
HoleRemoved(b, h, c) ==
    LET d == b.desc[h] IN
    /\ c \in Buffers /\ c.total = b.total
    /\ c.first = IF d.prev = 0 /\ d.next # 0 THEN d.next ELSE b.first
    /\ Touches(b, c, {d.prev, d.next} \ {0})
    /\ \A v \in Units :
          /\ SameHole(c.desc, b.desc, v)
          /\ c.desc[v].next = IF v = d.prev /\ v # 0 THEN d.next ELSE b.desc[v].next
          /\ c.desc[v].prev = IF v = d.next /\ v # 0 THEN d.prev ELSE b.desc[v].prev

LEMMA RemovedIs ==
    ASSUME NEW b \in Buffers, NEW h \in Units
    PROVE  HoleRemoved(b, h, Removed(b, h))
  <1> PICK d, c : d = b.desc[h] /\ c = Removed(b, h)
    OBVIOUS
  <1> SUFFICES
           /\ c \in Buffers /\ c.total = b.total
           /\ c.first = IF d.prev = 0 /\ d.next # 0 THEN d.next ELSE b.first
           /\ Touches(b, c, {d.prev, d.next} \ {0})
           /\ \A v \in Units :
                 /\ SameHole(c.desc, b.desc, v)
                 /\ c.desc[v].next = IF v = d.prev /\ v # 0 THEN d.next ELSE b.desc[v].next
                 /\ c.desc[v].prev = IF v = d.next /\ v # 0 THEN d.prev ELSE b.desc[v].prev
    BY DEF HoleRemoved
  <1>n. PICK x, y : x = d.next /\ y = d.prev
    OBVIOUS
  <1>0. /\ d \in Descs /\ b.desc \in [Units -> Descs]
        /\ x \in Units /\ y \in Units /\ 0 \in Units
    BY <1>n, Sizes DEF Buffers, Descs
  <1>1. CASE y = 0 /\ x = 0
    <2>1. c = b
      BY <1>1, <1>n DEF Removed
    <2> QED BY <1>n, <1>1, <2>1 DEF Touches, SameHole
  <1>2. CASE y = 0 /\ x # 0
    <2>1. PICK e : e = SetPrev(b, x, 0)
      OBVIOUS
    <2>2. /\ e \in Buffers /\ e.first = b.first /\ e.total = b.total /\ Touches(b, e, {x})
          /\ e.desc = [b.desc EXCEPT ![x] = [@ EXCEPT !.prev = 0]]
      BY <1>0, <2>1, SetPrevIs
    <2>3. c = [e EXCEPT !.first = x]
      BY <1>2, <1>n, <2>1 DEF Removed
    <2>4. c \in Buffers /\ c.first = x /\ c.total = e.total /\ c.desc = e.desc /\ c.bytes = e.bytes
      BY <1>0, <2>2, <2>3, SetFirstIs
    <2>5. Touches(b, c, {y, x} \ {0})
      BY <1>2, <2>2, <2>4 DEF Touches
    <2>6. ASSUME NEW v \in Units
          PROVE  /\ SameHole(c.desc, b.desc, v)
                 /\ c.desc[v].next = IF v = y /\ v # 0 THEN x ELSE b.desc[v].next
                 /\ c.desc[v].prev = IF v = x /\ v # 0 THEN y ELSE b.desc[v].prev
      BY <1>0, <1>2, <2>2, <2>4 DEF SameHole, Descs
    <2> QED BY <1>n, <1>2, <2>2, <2>4, <2>5, <2>6
  <1>3. CASE y # 0 /\ x = 0
    <2>1. c = SetNext(b, y, 0)
      BY <1>3, <1>n DEF Removed
    <2>2. /\ c \in Buffers /\ c.first = b.first /\ c.total = b.total /\ Touches(b, c, {y})
          /\ c.desc = [b.desc EXCEPT ![y] = [@ EXCEPT !.next = 0]]
      <3>1. /\ SetNext(b, y, 0) \in Buffers
            /\ SetNext(b, y, 0).first = b.first /\ SetNext(b, y, 0).total = b.total
            /\ SetNext(b, y, 0).desc = [b.desc EXCEPT ![y] = [@ EXCEPT !.next = 0]]
            /\ Touches(b, SetNext(b, y, 0), {y})
        BY <1>0, SetNextIs
      <3> QED BY <2>1, <3>1
    <2>5. Touches(b, c, {y, x} \ {0})
      BY <1>3, <2>2 DEF Touches
    <2>6. ASSUME NEW v \in Units
          PROVE  /\ SameHole(c.desc, b.desc, v)
                 /\ c.desc[v].next = IF v = y /\ v # 0 THEN x ELSE b.desc[v].next
                 /\ c.desc[v].prev = IF v = x /\ v # 0 THEN y ELSE b.desc[v].prev
      BY <1>0, <1>3, <2>2 DEF SameHole, Descs
    <2> QED BY <1>n, <1>3, <2>2, <2>5, <2>6
  <1>4. CASE y # 0 /\ x # 0
    <2>1. PICK e : e = SetPrev(b, x, y)
      OBVIOUS
    <2>2. /\ e \in Buffers /\ e.first = b.first /\ e.total = b.total /\ Touches(b, e, {x})
          /\ e.desc = [b.desc EXCEPT ![x] = [@ EXCEPT !.prev = y]]
      BY <1>0, <2>1, SetPrevIs
    <2>3. c = SetNext(e, y, x)
      BY <1>4, <1>n, <2>1 DEF Removed
    <2>4. /\ c \in Buffers /\ c.first = e.first /\ c.total = e.total /\ Touches(e, c, {y})
          /\ c.desc = [e.desc EXCEPT ![y] = [@ EXCEPT !.next = x]]
      <3>1. e \in Buffers
        BY <2>2
      <3>2. /\ SetNext(e, y, x) \in Buffers
            /\ SetNext(e, y, x).first = e.first /\ SetNext(e, y, x).total = e.total
            /\ SetNext(e, y, x).desc = [e.desc EXCEPT ![y] = [@ EXCEPT !.next = x]]
            /\ Touches(e, SetNext(e, y, x), {y})
        BY <1>0, <3>1, SetNextIs
      <3> QED BY <2>3, <3>2
    <2>5. Touches(b, c, {y, x} \ {0})
      BY <1>4, <2>2, <2>4 DEF Touches
    <2>6. ASSUME NEW v \in Units
          PROVE  /\ SameHole(c.desc, b.desc, v)
                 /\ c.desc[v].next = IF v = y /\ v # 0 THEN x ELSE b.desc[v].next
                 /\ c.desc[v].prev = IF v = x /\ v # 0 THEN y ELSE b.desc[v].prev
      <3>1. e.desc \in [Units -> Descs]
        BY <2>2 DEF Buffers
      <3> QED BY <1>0, <1>4, <2>2, <2>4, <3>1 DEF SameHole, Descs
    <2> QED BY <1>n, <1>4, <2>2, <2>4, <2>5, <2>6
  <1> QED BY <1>1, <1>2, <1>3, <1>4

(* Buffer c is b with the link from u back to w, if u is a hole at all. *)
LinkedBack(b, u, w, c) ==
    /\ c \in Buffers /\ c.total = b.total /\ c.first = b.first
    /\ Touches(b, c, {u} \ {0})
    /\ \A v \in Units :
          /\ SameHole(c.desc, b.desc, v) /\ c.desc[v].next = b.desc[v].next
          /\ c.desc[v].prev = IF v = u /\ v # 0 THEN w ELSE b.desc[v].prev

LEMMA SetPrevIfAnyIs ==
    ASSUME NEW b \in Buffers, NEW u \in Units, NEW w \in Units
    PROVE  LinkedBack(b, u, w, SetPrevIfAny(b, u, w))
  <1> DEFINE c == SetPrevIfAny(b, u, w)
  <1>1. CASE u = 0
    <2>1. c = b
      BY <1>1 DEF SetPrevIfAny
    <2> QED BY <1>1, <2>1 DEF LinkedBack, Touches, SameHole
  <1>2. CASE u # 0
    <2>1. c = SetPrev(b, u, w)
      BY <1>2 DEF SetPrevIfAny
    <2> HIDE DEF c
    <2>s. /\ SetPrev(b, u, w) \in Buffers
          /\ SetPrev(b, u, w).first = b.first /\ SetPrev(b, u, w).total = b.total
          /\ SetPrev(b, u, w).desc = [b.desc EXCEPT ![u] = [@ EXCEPT !.prev = w]]
          /\ Touches(b, SetPrev(b, u, w), {u})
      BY SetPrevIs
    <2>2. /\ c \in Buffers /\ c.first = b.first /\ c.total = b.total /\ Touches(b, c, {u})
          /\ c.desc = [b.desc EXCEPT ![u] = [@ EXCEPT !.prev = w]]
      BY <2>1, <2>s
    <2>3. b.desc \in [Units -> Descs]
      BY DEF Buffers
    <2>4. ASSUME NEW v \in Units
          PROVE  /\ SameHole(c.desc, b.desc, v) /\ c.desc[v].next = b.desc[v].next
                 /\ c.desc[v].prev = IF v = u /\ v # 0 THEN w ELSE b.desc[v].prev
      BY <1>2, <2>2, <2>3 DEF SameHole, Descs
    <2>5. Touches(b, c, {u} \ {0})
      BY <1>2, <2>2 DEF Touches
    <2>6. LinkedBack(b, u, w, c)
      BY <2>2, <2>4, <2>5 DEF LinkedBack
    <2> QED BY <2>6 DEF c
  <1> QED BY <1>1, <1>2

(* Buffer c is b with hole h moved to unit n. *)
HoleMoved(b, h, n, c) ==
    LET d == b.desc[h] IN
    /\ c \in Buffers /\ c.total = b.total
    /\ c.first = IF d.prev # 0 THEN b.first ELSE n
    /\ Touches(b, c, {n} \cup ({d.prev, d.next} \ {0}))
    /\ \A v \in Units : LET e == IF v = n THEN d ELSE b.desc[v] IN
          /\ c.desc[v].hole = e.hole /\ c.desc[v].last = e.last
          /\ c.desc[v].next = IF v = d.prev /\ v # 0 THEN n ELSE e.next
          /\ c.desc[v].prev = IF v = d.next /\ v # 0 THEN n ELSE e.prev

LEMMA MovedIs ==
    ASSUME NEW b \in Buffers, NEW h \in Units, NEW f \in Fragments, NEW n \in Units, n = End(f)
    PROVE  HoleMoved(b, h, n, Moved(b, h, f))
  <1> PICK d, c : d = b.desc[h] /\ c = Moved(b, h, f)
    OBVIOUS
  <1> SUFFICES
           /\ c \in Buffers /\ c.total = b.total
           /\ c.first = IF d.prev # 0 THEN b.first ELSE n
           /\ Touches(b, c, {n} \cup ({d.prev, d.next} \ {0}))
           /\ \A v \in Units : LET e == IF v = n THEN d ELSE b.desc[v] IN
                 /\ c.desc[v].hole = e.hole /\ c.desc[v].last = e.last
                 /\ c.desc[v].next = IF v = d.prev /\ v # 0 THEN n ELSE e.next
                 /\ c.desc[v].prev = IF v = d.next /\ v # 0 THEN n ELSE e.prev
    BY DEF HoleMoved
  <1>n. PICK x, y : x = d.next /\ y = d.prev
    OBVIOUS
  <1>0. /\ d \in Descs /\ b.desc \in [Units -> Descs]
        /\ x \in Units /\ y \in Units /\ 0 \in Units
    BY <1>n, Sizes DEF Buffers, Descs
  <1>1. PICK a : a = Put(b, n, d)
    OBVIOUS
  <1>2. /\ a \in Buffers /\ a.first = b.first /\ a.total = b.total /\ Touches(b, a, {n})
        /\ a.desc = [b.desc EXCEPT ![n] = d]
    BY <1>0, <1>1, PutIs DEF Touches
  <1>3. PICK e : e = SetPrevIfAny(a, x, n)
    OBVIOUS
  <1>4. /\ e \in Buffers /\ e.total = a.total /\ e.first = a.first /\ Touches(a, e, {x} \ {0})
        /\ \A v \in Units :
              /\ SameHole(e.desc, a.desc, v) /\ e.desc[v].next = a.desc[v].next
              /\ e.desc[v].prev = IF v = x /\ v # 0 THEN n ELSE a.desc[v].prev
    <2>1. a \in Buffers
      BY <1>2
    <2>2. x \in Units
      BY <1>0
    <2>3. LinkedBack(a, x, n, e)
      BY <1>3, <2>1, <2>2, SetPrevIfAnyIs
    <2> QED BY <2>3 DEF LinkedBack
  <1>5. c = IF y # 0 THEN SetNext(e, y, n) ELSE [e EXCEPT !.first = n]
    BY <1>n, <1>1, <1>3 DEF Moved, End
  <1>6. e \in Buffers /\ e.desc \in [Units -> Descs]
    BY <1>4 DEF Buffers
  <1>7. /\ c \in Buffers /\ c.total = e.total /\ Touches(e, c, {y} \ {0})
        /\ c.first = IF y # 0 THEN e.first ELSE n
        /\ \A v \in Units :
              /\ SameHole(c.desc, e.desc, v) /\ c.desc[v].prev = e.desc[v].prev
              /\ c.desc[v].next = IF v = y /\ v # 0 THEN n ELSE e.desc[v].next
    <2>1. CASE y = 0
      <3>1. c = [e EXCEPT !.first = n]
        BY <1>5, <2>1
      <3>2. c \in Buffers /\ c.first = n /\ c.total = e.total /\ c.desc = e.desc /\ c.bytes = e.bytes
        BY <1>6, <3>1, SetFirstIs
      <3> QED BY <2>1, <3>2 DEF Touches, SameHole
    <2>2. CASE y # 0
      <3>1. /\ SetNext(e, y, n) \in Buffers
            /\ SetNext(e, y, n).first = e.first /\ SetNext(e, y, n).total = e.total
            /\ SetNext(e, y, n).desc = [e.desc EXCEPT ![y] = [@ EXCEPT !.next = n]]
            /\ Touches(e, SetNext(e, y, n), {y})
        <4>1. e \in Buffers /\ y \in Units
          BY <1>0, <1>6
        <4> QED BY <4>1, SetNextIs
      <3>2. /\ c \in Buffers /\ c.first = e.first /\ c.total = e.total /\ Touches(e, c, {y})
            /\ c.desc = [e.desc EXCEPT ![y] = [@ EXCEPT !.next = n]]
        BY <1>5, <2>2, <3>1
      <3>3. Touches(e, c, {y} \ {0})
        BY <2>2, <3>2 DEF Touches
      <3>4. ASSUME NEW v \in Units
            PROVE  /\ SameHole(c.desc, e.desc, v) /\ c.desc[v].prev = e.desc[v].prev
                   /\ c.desc[v].next = IF v = y /\ v # 0 THEN n ELSE e.desc[v].next
        BY <1>6, <2>2, <3>2 DEF SameHole, Descs
      <3> QED BY <2>2, <3>2, <3>3, <3>4
    <2> QED BY <2>1, <2>2
  <1>8. Touches(b, c, {n} \cup ({y, x} \ {0}))
    BY <1>2, <1>4, <1>7 DEF Touches
  <1>9. \A v \in Units : a.desc[v] = IF v = n THEN d ELSE b.desc[v]
    BY <1>0, <1>2
  <1>10. ASSUME NEW v \in Units, NEW k, k = IF v = n THEN d ELSE b.desc[v]
         PROVE  /\ c.desc[v].hole = k.hole /\ c.desc[v].last = k.last
                /\ c.desc[v].next = IF v = y /\ v # 0 THEN n ELSE k.next
                /\ c.desc[v].prev = IF v = x /\ v # 0 THEN n ELSE k.prev
    BY <1>4, <1>7, <1>9, <1>10 DEF SameHole
  <1>11. c \in Buffers /\ c.total = b.total /\ c.first = IF y # 0 THEN b.first ELSE n
    BY <1>2, <1>4, <1>7
  <1> QED BY <1>n, <1>8, <1>10, <1>11

(* Buffer c is b with hole h ended at byte s and a hole at unit n after it. *)
HoleSplit(b, h, n, s, c) ==
    LET d == b.desc[h] IN
    /\ c \in Buffers /\ c.total = b.total /\ c.first = b.first
    /\ Touches(b, c, {n, h} \cup ({d.next} \ {0}))
    /\ \A v \in Units : LET e == IF v = n THEN d ELSE b.desc[v] IN
          /\ c.desc[v].hole = e.hole
          /\ c.desc[v].last = IF v = h THEN s ELSE e.last
          /\ c.desc[v].next = IF v = h THEN n ELSE e.next
          /\ c.desc[v].prev = IF v = d.next /\ v # 0 THEN n
                             ELSE IF v = n THEN h ELSE e.prev

LEMMA SplitIs ==
    ASSUME NEW b \in Buffers, NEW h \in Units, NEW f \in Fragments, NEW n \in Units, n = End(f),
           Fits(f), NEW s, s = Start(f), h # n
    PROVE  HoleSplit(b, h, n, s, Split(b, h, f))
  <1> PICK d, c : d = b.desc[h] /\ c = Split(b, h, f)
    OBVIOUS
  <1> SUFFICES
           /\ c \in Buffers /\ c.total = b.total /\ c.first = b.first
           /\ Touches(b, c, {n, h} \cup ({d.next} \ {0}))
           /\ \A v \in Units : LET e == IF v = n THEN d ELSE b.desc[v] IN
                 /\ c.desc[v].hole = e.hole
                 /\ c.desc[v].last = IF v = h THEN s ELSE e.last
                 /\ c.desc[v].next = IF v = h THEN n ELSE e.next
                 /\ c.desc[v].prev = IF v = d.next /\ v # 0 THEN n
                                    ELSE IF v = n THEN h ELSE e.prev
    BY DEF HoleSplit
  <1>n. PICK x : x = d.next
    OBVIOUS
  <1>0. /\ d \in Descs /\ b.desc \in [Units -> Descs]
        /\ x \in Units /\ 0 \in Units
    BY <1>n, Sizes DEF Buffers, Descs
  <1>s. s \in 0..Infinity
    BY <1>n, FragmentIs, Sizes DEF Fits
  <1>p. PICK p, q : p = [d EXCEPT !.prev = h] /\ q = [d EXCEPT !.last = s, !.next = n]
    OBVIOUS
  <1>q. /\ p \in Descs /\ q \in Descs
        /\ p.hole = d.hole /\ p.last = d.last /\ p.next = d.next /\ p.prev = h
        /\ q.hole = d.hole /\ q.last = s /\ q.next = n /\ q.prev = d.prev
    BY <1>0, <1>p, <1>s DEF Descs
  <1>1. PICK a : a = Put(b, n, p)
    OBVIOUS
  <1>2. /\ a \in Buffers /\ a.first = b.first /\ a.total = b.total /\ Touches(b, a, {n})
        /\ a.desc = [b.desc EXCEPT ![n] = p]
    BY <1>q, <1>1, PutIs DEF Touches
  <1>3. PICK e : e = Put(a, h, q)
    OBVIOUS
  <1>4. /\ e \in Buffers /\ e.first = a.first /\ e.total = a.total /\ Touches(a, e, {h})
        /\ e.desc = [a.desc EXCEPT ![h] = q]
    <2>1. a \in Buffers
      BY <1>2
    <2> QED BY <1>q, <1>3, <2>1, PutIs DEF Touches
  <1>5. c = SetPrevIfAny(e, x, n)
    BY <1>n, <1>p, <1>1, <1>3 DEF Split, End
  <1>6. /\ c \in Buffers /\ c.total = e.total /\ c.first = e.first /\ Touches(e, c, {x} \ {0})
        /\ \A v \in Units :
              /\ SameHole(c.desc, e.desc, v) /\ c.desc[v].next = e.desc[v].next
              /\ c.desc[v].prev = IF v = x /\ v # 0 THEN n ELSE e.desc[v].prev
    <2>1. e \in Buffers
      BY <1>4
    <2>2. x \in Units
      BY <1>0
    <2>3. LinkedBack(e, x, n, c)
      BY <1>5, <2>1, <2>2, SetPrevIfAnyIs
    <2> QED BY <2>3 DEF LinkedBack
  <1>8. Touches(b, c, {n, h} \cup ({x} \ {0}))
    BY <1>2, <1>4, <1>6 DEF Touches
  <1>9. \A v \in Units : e.desc[v] = IF v = h THEN q ELSE IF v = n THEN p ELSE b.desc[v]
    BY <1>0, <1>2, <1>4
  <1>10. ASSUME NEW v \in Units, NEW k, k = IF v = n THEN d ELSE b.desc[v]
         PROVE  /\ c.desc[v].hole = k.hole
                /\ c.desc[v].last = IF v = h THEN s ELSE k.last
                /\ c.desc[v].next = IF v = h THEN n ELSE k.next
                /\ c.desc[v].prev = IF v = x /\ v # 0 THEN n
                                             ELSE IF v = n THEN h ELSE k.prev
    <2>1. CASE v = h
      BY <1>q, <1>6, <1>9, <1>10, <2>1 DEF SameHole
    <2>2. CASE v # h
      BY <1>q, <1>6, <1>9, <1>10, <2>2 DEF SameHole
    <2> QED BY <2>1, <2>2
  <1>11. c \in Buffers /\ c.total = b.total /\ c.first = b.first
    BY <1>2, <1>4, <1>6
  <1> QED BY <1>n, <1>8, <1>10, <1>11

-----------------------------------------------------------------------------
(* Walks along the list, which are recursive functions.                       *)

(* A set of naturals that is not empty has a least element. *)
LEMMA LeastElement ==
    ASSUME NEW T, T \subseteq Nat, T # {}
    PROVE  \E x \in T : \A y \in T : x <= y
  <1> DEFINE R == {ss \in Nat \X Nat : ss[1] < ss[2]}
  <1>1. IsWellFoundedOn(R, Nat)
    BY NatLessThanWellFounded DEF OpToRel
  <1> HIDE DEF R
  <1>2. PICK x \in T : \A y \in T : ~(<<y, x>> \in R)
    BY <1>1, WFMin
  <1>3. ASSUME NEW y \in T PROVE x <= y
    <2>1. SUFFICES ASSUME y < x PROVE <<y, x>> \in R
      BY <1>2
    <2> QED BY <2>1 DEF R
  <1> QED BY <1>3

(* What holds of 0 and goes over from k to k + 1 holds as far as it does so. *)
LEMMA IntervalInduction ==
    ASSUME NEW S, NEW n \in Nat, 0 \in S, \A k \in 0..(n - 1) : k \in S => k + 1 \in S
    PROVE  \A k \in 0..n : k \in S
  <1> SUFFICES ASSUME NEW k \in 0..n, k \notin S PROVE FALSE
    OBVIOUS
  <1> DEFINE T == {i \in 0..n : i \notin S}
  <1>1. T \subseteq Nat /\ T # {}
    OBVIOUS
  <1>2. PICK m \in T : \A y \in T : m <= y
    <2> HIDE DEF T
    <2> QED BY <1>1, LeastElement
  <1>3. m # 0 /\ m - 1 \in 0..(n - 1) /\ m - 1 \notin T
    BY <1>2
  <1> QED BY <1>3

(* The walk from unit v that goes on as N says, for m steps. *)
Walk(at, m, v, N) == at \in [0..m -> Units] /\ at[0] = v /\ \A k \in 1..m : at[k] = N[at[k - 1]]

LEMMA WalkExists ==
    ASSUME NEW m \in Nat, NEW v \in Units, NEW N \in [Units -> Units]
    PROVE  \E at : Walk(at, m, v, N)
  <1> DEFINE S == {k \in Nat : \E at : Walk(at, k, v, N)}
  <1>1. 0 \in S
    <2>1. Walk([k \in 0..0 |-> v], 0, v, N)
      BY DEF Walk
    <2> QED BY <2>1
  <1>2. ASSUME NEW k \in Nat, k \in S PROVE k + 1 \in S
    <2>1. PICK f : Walk(f, k, v, N)
      BY <1>2
    <2> DEFINE g == [i \in 0..(k + 1) |-> IF i = k + 1 THEN N[f[k]] ELSE f[i]]
    <2>2. f \in [0..k -> Units] /\ f[k] \in Units /\ N[f[k]] \in Units
      BY <2>1 DEF Walk
    <2>3. g \in [0..(k + 1) -> Units] /\ g[0] = v
      BY <2>1, <2>2 DEF Walk
    <2>4. ASSUME NEW i \in 1..(k + 1) PROVE g[i] = N[g[i - 1]]
      <3>1. CASE i = k + 1
        BY <3>1
      <3>2. CASE i # k + 1
        <4>1. i \in 1..k /\ i - 1 \in 0..k
          BY <3>2
        <4>2. f[i] = N[f[i - 1]]
          BY <2>1, <4>1 DEF Walk
        <4>3. g[i] = f[i] /\ g[i - 1] = f[i - 1]
          BY <4>1
        <4> QED BY <4>2, <4>3
      <3> QED BY <3>1, <3>2
    <2>5. Walk(g, k + 1, v, N)
      <3> HIDE DEF g
      <3> QED BY <2>3, <2>4 DEF Walk
    <2> QED BY <2>5
  <1>3. \A k \in 0..m : k \in S
    <2> HIDE DEF S
    <2> QED BY <1>1, <1>2, IntervalInduction
  <1>4. m \in S
    BY <1>3
  <1> QED BY <1>4

LastUnit == MaxUdp \div Unit

(* The step of FindHole, and the one of Holes, as functions. *)
Passing(b, start) ==
    [u \in Units |-> LET h == b.desc[u]
                     IN IF h.hole /\ h.last < start /\ h.next # 0 THEN h.next ELSE u]
Following(D) == [u \in Units |-> IF D[u].next = 0 THEN u ELSE D[u].next]

LEMMA FindHoleWalks ==
    ASSUME NEW b \in Buffers, NEW start
    PROVE  \E at : Walk(at, LastUnit, b.first, Passing(b, start)) /\ FindHole(b, start) = at[LastUnit]
  <1> DEFINE at == CHOOSE f : f = [k \in Units |->
                     IF k = 0 THEN b.first
                     ELSE LET u == f[k - 1]  h == b.desc[u]
                          IN IF h.hole /\ h.last < start /\ h.next # 0 THEN h.next ELSE u]
             N == Passing(b, start)
  <1>1. /\ LastUnit \in Nat /\ Units = 0..LastUnit /\ b.first \in Units
        /\ b.desc \in [Units -> Descs]
    BY Sizes DEF LastUnit, Units, Buffers
  <1>2. N \in [Units -> Units]
    BY <1>1 DEF Passing, Descs
  <1>3. PICK g : Walk(g, LastUnit, b.first, N)
    <2> HIDE DEF N
    <2> QED BY <1>1, <1>2, WalkExists
  <1>4. \A f, k : f \in [Units -> Units] /\ k \in Units /\ k # 0 =>
            N[f[k - 1]] = LET u == f[k - 1]  h == b.desc[u]
                          IN IF h.hole /\ h.last < start /\ h.next # 0 THEN h.next ELSE u
    <2>1. SUFFICES ASSUME NEW f \in [Units -> Units], NEW k \in Units, k # 0
                   PROVE  N[f[k - 1]] = LET u == f[k - 1]  h == b.desc[u]
                                        IN IF h.hole /\ h.last < start /\ h.next # 0 THEN h.next ELSE u
      OBVIOUS
    <2>2. k - 1 \in Units
      BY <1>1, <2>1
    <2>3. f[k - 1] \in Units
      BY <2>2
    <2> QED BY <2>3 DEF Passing
  <1>5. g = [k \in Units |->
               IF k = 0 THEN b.first
               ELSE LET u == g[k - 1]  h == b.desc[u]
                    IN IF h.hole /\ h.last < start /\ h.next # 0 THEN h.next ELSE u]
    <2>1. g \in [Units -> Units] /\ g[0] = b.first
      BY <1>1, <1>3 DEF Walk
    <2>2. ASSUME NEW k \in Units, k # 0
          PROVE  g[k] = LET u == g[k - 1]  h == b.desc[u]
                        IN IF h.hole /\ h.last < start /\ h.next # 0 THEN h.next ELSE u
      <3>1. k \in 1..LastUnit
        BY <1>1, <2>2
      <3>2. g[k] = N[g[k - 1]]
        BY <1>3, <3>1 DEF Walk
      <3> QED BY <1>4, <2>1, <2>2, <3>2
    <2> QED BY <2>1, <2>2
  <1>6. at = [k \in Units |->
                IF k = 0 THEN b.first
                ELSE LET u == at[k - 1]  h == b.desc[u]
                     IN IF h.hole /\ h.last < start /\ h.next # 0 THEN h.next ELSE u]
    BY <1>5
  <1>7. FindHole(b, start) = at[LastUnit]
    BY DEF FindHole, LastUnit
  <1> HIDE DEF at
  <1>8. Walk(at, LastUnit, b.first, N)
    <2> DEFINE S == {k \in Units : at[k] \in Units}
    <2>1. at[0] = b.first
      BY <1>1, <1>6
    <2>2. ASSUME NEW k \in 0..(LastUnit - 1), at[k] \in Units
          PROVE  at[k + 1] = N[at[k]] /\ at[k + 1] \in Units
      <3>1. k + 1 \in Units /\ k + 1 # 0 /\ (k + 1) - 1 = k
        BY <1>1
      <3>2. at[k + 1] = LET u == at[k]  h == b.desc[u]
                        IN IF h.hole /\ h.last < start /\ h.next # 0 THEN h.next ELSE u
        <4>1. ASSUME NEW j \in Units, j # 0
              PROVE  at[j] = LET u == at[j - 1]  h == b.desc[u]
                             IN IF h.hole /\ h.last < start /\ h.next # 0 THEN h.next ELSE u
          BY <1>6, <4>1, Zenon
        <4>2. PICK j : j = k + 1
          OBVIOUS
        <4>3. j \in Units /\ j # 0 /\ j - 1 = k
          BY <3>1, <4>2
        <4> QED BY <4>1, <4>2, <4>3, Zenon
      <3>3. at[k + 1] = N[at[k]]
        BY <2>2, <3>2 DEF Passing
      <3> QED BY <1>2, <2>2, <3>3
    <2>3. 0 \in S /\ \A k \in 0..(LastUnit - 1) : k \in S => k + 1 \in S
      BY <1>1, <2>1, <2>2
    <2>4. \A k \in 0..LastUnit : k \in S
      <3> HIDE DEF S
      <3> QED BY <1>1, <2>3, IntervalInduction
    <2>5. at \in [0..LastUnit -> Units]
      <3>1. \A k \in Units : at[k] \in Units
        BY <1>1, <2>4
      <3>2. at = [k \in Units |-> at[k]]
        BY <1>6
      <3> QED BY <1>1, <3>1, <3>2
    <2>6. ASSUME NEW k \in 1..LastUnit PROVE at[k] = N[at[k - 1]]
      <3>1. k - 1 \in 0..(LastUnit - 1) /\ (k - 1) + 1 = k /\ at[k - 1] \in Units
        BY <1>1, <2>4
      <3> QED BY <2>2, <3>1
    <2> HIDE DEF N
    <2> QED BY <2>1, <2>5, <2>6 DEF Walk
  <1> QED BY <1>7, <1>8

LEMMA FindHoleType ==
    ASSUME NEW b \in Buffers, NEW start
    PROVE  FindHole(b, start) \in Units
  <1>1. PICK at : Walk(at, LastUnit, b.first, Passing(b, start)) /\ FindHole(b, start) = at[LastUnit]
    BY FindHoleWalks
  <1> QED BY <1>1, Sizes DEF Walk, LastUnit

-----------------------------------------------------------------------------
(* Types.                                                                     *)

LEMMA BufferTypes ==
    TypeOK => Buffer \in Buffers
  BY DEF TypeOK, Buffer, Buffers, Descs, Owners

(* The buffer after "new (or different) packet, reset structs", if it is one. *)
LEMMA BegunIs ==
    ASSUME TypeOK, NEW f \in Fragments
    PROVE  /\ Begun(f) \in Buffers
           /\ ~Fresh(f) => Begun(f) = Buffer
           /\ Fresh(f) => /\ Begun(f).first = 0 /\ Begun(f).total = Infinity
                          /\ Begun(f).desc[0] = Whole
  <1>1. CASE ~Fresh(f)
    BY <1>1, BufferTypes DEF Begun
  <1>2. CASE Fresh(f)
    <2>1. Whole \in Descs /\ 0 \in Units /\ Infinity \in 0..Infinity
      BY Sizes DEF Whole, Descs
    <2>2. PICK b : b = Put(Buffer, 0, Whole)
      OBVIOUS
    <2>3. b \in Buffers /\ b.desc[0] = Whole
      <3>1. PICK a : a = Buffer
        OBVIOUS
      <3>2. a \in Buffers /\ a.desc \in [Units -> Descs]
        BY <3>1, BufferTypes DEF Buffers
      <3>3. /\ Put(a, 0, Whole) \in Buffers
            /\ Put(a, 0, Whole).desc = [a.desc EXCEPT ![0] = Whole]
        BY <2>1, <3>2, PutIs
      <3> QED BY <2>1, <2>2, <3>1, <3>2, <3>3
    <2>4. Begun(f) = [b EXCEPT !.first = 0, !.total = Infinity]
      BY <1>2, <2>2 DEF Begun
    <2>5. /\ Begun(f) \in Buffers /\ Begun(f).first = 0 /\ Begun(f).total = Infinity
          /\ Begun(f).desc = b.desc
      BY <2>1, <2>3, <2>4 DEF Buffers
    <2> QED BY <1>2, <2>3, <2>5
  <1> QED BY <1>1, <1>2

(* What a fragment changes, whatever becomes of the list. *)
LEMMA BecomesType ==
    ASSUME TypeOK, NEW f \in Fragments, Fits(f), NEW c \in Buffers, Becomes(c, f), Comes(f),
           complete' \in BOOLEAN, confused' \in BOOLEAN,
           out' \in [len : 0..Infinity, bytes : SUBSET (Bytes \X Owners)]
    PROVE  TypeOK'
  <1>1. /\ first_hole' \in Units /\ total_len' \in 0..Infinity
        /\ desc' \in [Units -> Descs] /\ bytes' \in [Bytes -> Owners]
    BY DEF Becomes, Buffers
  <1>2. ip_id' \in {Id[p] : p \in Packets} \cup {NoPacket}
    BY FragmentIs DEF Becomes, TypeOK
  <1>3. got' \subseteq Bytes
    <2>1. Span(f) \subseteq Bytes
      <3>1. SUFFICES ASSUME NEW i \in Span(f) PROVE i \in Bytes
        OBVIOUS
      <3>2. i \in Nat /\ i < Finish(f) /\ Finish(f) \in Nat /\ Finish(f) <= MaxUdp
        BY FragmentIs DEF Fits
      <3> QED BY <3>2, Sizes DEF Bytes
    <2> QED BY <2>1 DEF Comes, Known, TypeOK
  <1> QED BY <1>1, <1>2, <1>3 DEF TypeOK, Descs, Owners

LEMMA NoOutType ==
    NoOut \in [len : 0..Infinity, bytes : SUBSET (Bytes \X Owners)]
  BY Sizes DEF NoOut

LEMMA ReturnedType ==
    ASSUME NEW c \in Buffers
    PROVE  Returned(c) \in [len : 0..Infinity, bytes : SUBSET (Bytes \X Owners)]
  BY DEF Returned, Buffers

(* A hole that is kept beyond the fragment has its place behind it: in the buffer, if
   there is room. *)
LEMMA BeyondFragment ==
    ASSUME NEW b \in Buffers, NEW h \in Units, NEW f \in Fragments, Fits(f), ~ToItsEnd(f, b, h)
    PROVE  f.more /\ (RoomBehind(f) => End(f) \in Units)
  <1>1. f.more
    <2>1. SUFFICES ASSUME ~f.more PROVE FALSE
      OBVIOUS
    <2>2. b.desc \in [Units -> Descs]
      BY DEF Buffers
    <2>3. Truncated(b, h, f).desc = [b.desc EXCEPT ![h] = [@ EXCEPT !.last = Finish(f)]]
      BY <2>1, TruncatedIs
    <2>4. Truncated(b, h, f).desc[h].last = Finish(f)
      BY <2>2, <2>3 DEF Descs
    <2> QED BY <2>4, FragmentIs DEF ToItsEnd
  <1>2. ASSUME RoomBehind(f) PROVE End(f) \in Units
    <2>1. At(End(f)) + Unit <= MaxUdp /\ End(f) \in Nat /\ At(End(f)) \in Nat
      BY <1>2, FragmentIs, AtStep
    <2>2. At(End(f)) <= MaxUdp
      BY <2>1, Sizes
    <2> QED BY <2>1, <2>2, UnitInBuffer
  <1> QED BY <1>1, <1>2

(* Where the buffer is in each of the cases. *)
LEMMA CasesType ==
    ASSUME NEW b \in Buffers, NEW h \in Units, NEW f \in Fragments, Fits(f)
    PROVE  /\ Copy(Removed(Truncated(b, h, f), h), f) \in Buffers
           /\ Copy(Shortened(Truncated(b, h, f), h, f), f) \in Buffers
           /\ ~ToItsEnd(f, b, h) /\ RoomBehind(f) => Copy(Moved(b, h, f), f) \in Buffers
           /\ ~ToItsEnd(f, b, h) /\ RoomBehind(f) /\ ~FromItsStart(f, h)
                => Copy(Split(b, h, f), f) \in Buffers
  <1>1. PICK t : t = Truncated(b, h, f)
    OBVIOUS
  <1>2. t \in Buffers
    BY <1>1, TruncatedIs
  <1>3. Removed(t, h) \in Buffers
    BY <1>2, RemovedIs DEF HoleRemoved
  <1>4. Shortened(t, h, f) \in Buffers
    <2>1. Start(f) \in 0..Infinity
      BY FragmentIs, Sizes DEF Fits
    <2> QED BY <1>2, <2>1, SetLastIs DEF Shortened
  <1>5. ASSUME ~ToItsEnd(f, b, h), RoomBehind(f) PROVE Moved(b, h, f) \in Buffers
    <2>1. End(f) \in Units
      BY <1>5, BeyondFragment
    <2> QED BY <2>1, MovedIs DEF HoleMoved
  <1>6. ASSUME ~ToItsEnd(f, b, h), RoomBehind(f), ~FromItsStart(f, h) PROVE Split(b, h, f) \in Buffers
    <2>1. End(f) \in Units
      BY <1>6, BeyondFragment
    <2>2. h # End(f)
      <3>1. h < f.off /\ f.off \in Nat /\ h \in Nat
        BY <1>6, FragmentIs, Sizes DEF FromItsStart
      <3>2. f.len \div Unit \in Nat
        <4>1. PICK n \in Nat : n = f.len
          BY FragmentIs
        <4> QED BY <4>1, Sizes
      <3> QED BY <3>1, <3>2 DEF End
    <2>3. PICK n, s : n = End(f) /\ s = Start(f)
      OBVIOUS
    <2>4. HoleSplit(b, h, n, s, Split(b, h, f))
      BY <2>1, <2>2, <2>3, SplitIs
    <2> QED BY <2>4 DEF HoleSplit
  <1> QED BY <1>1, <1>3, <1>4, <1>5, <1>6, CopyIs

LEMMA TypeStep ==
    ASSUME TypeOK, [Next]_vars
    PROVE  TypeOK'
  <1>0. complete \in BOOLEAN /\ confused \in BOOLEAN /\ \A f : Fresh(f) \in BOOLEAN
    BY DEF TypeOK, Fresh
  <1>1. CASE UNCHANGED vars
    BY <1>1 DEF TypeOK, vars
  <1>2. ASSUME NEW f \in Fragments, TooFar(f) PROVE TypeOK'
    BY <1>2, NoOutType DEF TypeOK, TooFar, Owners
  <1>3. ASSUME NEW f \in Fragments, NothingToFill(f) \/ ReadsData(f) PROVE TypeOK'
    <2>1. PICK b : b = Begun(f)
      OBVIOUS
    <2>2. b \in Buffers
      BY <2>1, BegunIs
    <2>3. Fits(f) /\ Becomes(b, f) /\ Keeps(f) /\ confused' \in BOOLEAN
      BY <1>0, <1>3, <2>1 DEF NothingToFill, ReadsData
    <2> QED BY <1>0, <2>2, <2>3, BecomesType, NoOutType DEF Keeps
  <1>4. ASSUME NEW f \in Fragments,
               FillHole(f) \/ ShortenHole(f) \/ MoveHole(f) \/ SplitHole(f)
        PROVE  TypeOK'
    <2>1. PICK b : b = Begun(f)
      OBVIOUS
    <2>2. b \in Buffers
      BY <2>1, BegunIs
    <2>3. PICK h : h = FindHole(b, Start(f))
      OBVIOUS
    <2>4. h \in Units
      BY <2>2, <2>3, FindHoleType
    <2>5. CASE FillHole(f)
      <3>1. PICK c : c = Copy(Removed(Truncated(b, h, f), h), f)
        OBVIOUS
      <3>2. /\ Fits(f) /\ Becomes(c, f) /\ Comes(f) /\ confused' = confused
            /\ out' \in {Returned(c), NoOut} /\ complete' \in BOOLEAN
        BY <1>0, <2>1, <2>3, <2>5, <3>1 DEF FillHole, Fills, Done
      <3>3. c \in Buffers
        BY <2>2, <2>4, <3>1, <3>2, CasesType
      <3> QED BY <1>0, <3>2, <3>3, BecomesType, NoOutType, ReturnedType
    <2>6. CASE ShortenHole(f)
      <3>1. PICK c : c = Copy(Shortened(Truncated(b, h, f), h, f), f)
        OBVIOUS
      <3>2. Fits(f) /\ Becomes(c, f) /\ Keeps(f) /\ confused' = confused
        BY <2>1, <2>3, <2>6, <3>1 DEF ShortenHole, Fills, Partly
      <3>3. c \in Buffers
        BY <2>2, <2>4, <3>1, <3>2, CasesType
      <3> QED BY <1>0, <3>2, <3>3, BecomesType, NoOutType DEF Keeps
    <2>7. CASE MoveHole(f)
      <3>1. PICK c : c = Copy(Moved(b, h, f), f)
        OBVIOUS
      <3>2. Fits(f) /\ ~ToItsEnd(f, b, h) /\ RoomBehind(f) /\ Becomes(c, f) /\ Keeps(f) /\ confused' = confused
        BY <2>1, <2>3, <2>7, <3>1 DEF MoveHole, Fills, Partly
      <3>3. c \in Buffers
        BY <2>2, <2>4, <3>1, <3>2, CasesType
      <3> QED BY <1>0, <3>2, <3>3, BecomesType, NoOutType DEF Keeps
    <2>8. CASE SplitHole(f)
      <3>1. PICK c : c = Copy(Split(b, h, f), f)
        OBVIOUS
      <3>2. /\ Fits(f) /\ ~ToItsEnd(f, b, h) /\ RoomBehind(f) /\ ~FromItsStart(f, h)
            /\ Becomes(c, f) /\ Keeps(f) /\ confused' = confused
        BY <2>1, <2>3, <2>8, <3>1 DEF SplitHole, Fills, Partly
      <3>3. c \in Buffers
        BY <2>2, <2>4, <3>1, <3>2, CasesType
      <3> QED BY <1>0, <3>2, <3>3, BecomesType, NoOutType DEF Keeps
    <2> QED BY <1>4, <2>5, <2>6, <2>7, <2>8
  <1>5. ASSUME NEW f \in Fragments, PastBuffer(f) PROVE TypeOK'
    <2>1. /\ confused' = TRUE /\ out' = NoOut
          /\ UNCHANGED <<ip_id, total_len, first_hole, desc, bytes, got, complete>>
      BY <1>5 DEF PastBuffer
    <2> QED BY <2>1, NoOutType DEF TypeOK, Owners
  <1> QED BY <1>1, <1>2, <1>3, <1>4, <1>5 DEF Next

(* The types of __NetDefragment's state, for fragments of all sizes, in any order and as
   often as they like: the walk along the list ends in the buffer. Where a descriptor
   would be written behind the buffer, the model ends (PastBuffer). *)
THEOREM TypeCorrect == Spec => []TypeOK
  <1>1. Init => TypeOK
    <2>1. SUFFICES ASSUME Init PROVE TypeOK
      OBVIOUS
    <2>2. NoHole \in Descs /\ 0 \in 0..Infinity
      BY Sizes DEF NoHole, Descs
    <2>3. desc \in [Units -> Descs] /\ bytes \in [Bytes -> Owners]
      BY <2>1, <2>2 DEF Init, Owners
    <2> QED BY <2>1, <2>2, <2>3, Sizes, NoOutType DEF Init, TypeOK, Descs, Owners
  <1>2. TypeOK /\ [Next]_vars => TypeOK'
    BY TypeStep
  <1> QED BY <1>1, <1>2, PTL DEF Spec

-----------------------------------------------------------------------------
(* The inductive invariant.                                                   *)

(* How the packets are sent. The first fragment comes first, as the code needs it for
   0 to mean "none"; the packets are told apart by their identifiers; of two fragments
   of a packet, the one that does not begin earlier does not end earlier, or it
   could overlap with two holes; and no fragment leaves less than a unit to the
   end, which would be taken for a copy. *)
Sent ==
    /\ FirstFirst
    /\ \A p, q \in Packets : Id[p] = Id[q] => p = q
    /\ \A f, g \in Fragments : f.pkt = g.pkt /\ Start(f) <= Start(g) => Finish(f) <= Finish(g)
    /\ \A f \in Fragments : f.more => Finish(f) + Unit <= Length[f.pkt]

(* In the set L, x comes after u, or before it; 0 if none does. *)
IsNext(L, u, x) == \/ x \in L /\ u < x /\ \A v \in L : v <= u \/ x <= v
                   \/ x = 0 /\ \A v \in L : v <= u
IsPrev(L, u, x) == \/ x \in L /\ x < u /\ \A v \in L : u <= v \/ v <= x
                   \/ x = 0 /\ \A v \in L : u <= v

(* The list leads through the units L, in order and both ways. *)
Linked(first, D, L) ==
    /\ L \subseteq Units /\ (0 \in L => L = {0})
    /\ first \in L /\ \A v \in L : first <= v
    /\ \A u \in L : D[u].hole /\ IsNext(L, u, D[u].next) /\ IsPrev(L, u, D[u].prev)

(* The holes at the units L, which end at l[u], are the bytes before the total T that
   are not in G; between two of them there is a byte of G. *)
Exact(l, L, G, T) ==
    /\ \A u \in L :
          /\ l[u] \in Nat /\ At(u) + Unit <= l[u] /\ l[u] <= T
          /\ l[u] = T \/ (l[u] \in G /\ \E k \in Nat : l[u] = At(k))
          /\ \A v \in L : u < v => l[u] < At(v)
          /\ \A i \in G : ~(At(u) <= i /\ i < l[u])
    /\ \A i \in Nat : i < T /\ i \notin G => \E u \in L : At(u) <= i /\ i < l[u]

(* The bytes G of packet p have come, as whole fragments; T is total_len. *)
Came(p, G, T) ==
    /\ \A i \in G : i \in Bytes /\ i < Length[p]
    /\ T = IF Length[p] - 1 \in G THEN Length[p] ELSE Infinity
    /\ \A i \in G : \E g \in Fragments : g.pkt = p /\ i \in Span(g) /\ Span(g) \subseteq G

Lasts(D) == [u \in Units |-> D[u].last]

(* The buffer of a packet p of which the bytes G have come, with its holes L. *)
Open(b, L, p, G) ==
    /\ b \in Buffers /\ Linked(b.first, b.desc, L) /\ Exact(Lasts(b.desc), L, G, b.total)
    /\ Came(p, G, b.total)
    /\ \A u \in L : u # 0 => At(u) + Unit <= Length[p]
    /\ \A i \in G : b.bytes[i] = p

(* The packet p has been returned, and its data is where the last hole was. *)
Closed(p) == ~desc[first_hole].hole /\ got = 0..(Length[p] - 1)

DefragInv ==
    /\ TypeOK /\ ReturnsWhole
    /\ total_len = 0 => ip_id = NoPacket /\ ~complete
    /\ total_len # 0 => \E p \in Packets :
           /\ ip_id = Id[p]
           /\ complete => Closed(p)
           /\ ~complete => \E L \in SUBSET Units : 0 \notin L /\ Open(Buffer, L, p, got)

-----------------------------------------------------------------------------
(* Where the walk stops.                                                      *)

LEMMA FindHoleIs ==
    ASSUME NEW b \in Buffers, NEW L, Linked(b.first, b.desc, L), NEW start \in Nat
    PROVE  \E h \in L : /\ FindHole(b, start) = h
                        /\ \A u \in L : u < h => b.desc[u].last < start
                        /\ b.desc[h].last >= start \/ \A u \in L : u <= h
  <1>1. PICK at : Walk(at, LastUnit, b.first, Passing(b, start)) /\ FindHole(b, start) = at[LastUnit]
    BY FindHoleWalks
  <1>2. PICK D, N : D = b.desc /\ N = Passing(b, start)
    OBVIOUS
  <1>3. /\ LastUnit \in Nat /\ Units = 0..LastUnit /\ L \subseteq Units
        /\ b.first \in L /\ \A v \in L : b.first <= v
    BY Sizes DEF LastUnit, Units, Linked
  <1>4. /\ at[0] = b.first /\ \A k \in 1..LastUnit : at[k] = N[at[k - 1]]
    BY <1>1, <1>2 DEF Walk
  <1>5. \A u \in L : /\ D[u].hole /\ D[u].last \in Nat /\ D[u].next \in Nat
                     /\ IsNext(L, u, D[u].next)
    <2>1. D \in [Units -> Descs]
      BY <1>2 DEF Buffers
    <2>2. \A u \in L : D[u] \in Descs
      BY <1>3, <2>1
    <2> QED BY <1>2, <1>3, <2>2, Sizes DEF Linked, Descs
  <1>6. \A u \in L : N[u] = IF D[u].last < start /\ D[u].next # 0 THEN D[u].next ELSE u
    BY <1>2, <1>3, <1>5 DEF Passing
  <1> DEFINE Before(h) == \A u \in L : u < h => D[u].last < start
             Ends(h)   == D[h].last >= start \/ \A u \in L : u <= h
             S         == {k \in 0..LastUnit : at[k] \in L /\ Before(at[k]) /\ (Ends(at[k]) \/ at[k] >= k)}
  <1>7. 0 \in S
    <2>1. PICK u : u = at[0]
      OBVIOUS
    <2>2. u \in L /\ u \in Nat /\ \A v \in L : v \in Nat /\ u <= v
      <3>1. u = b.first
        BY <1>4, <2>1
      <3>2. \A v \in L : v \in Nat
        BY <1>3
      <3> QED BY <1>3, <3>1, <3>2
    <2>3. Before(u) /\ u >= 0 /\ 0 \in 0..LastUnit
      BY <1>3, <2>2
    <2> HIDE DEF Before, Ends
    <2> QED BY <2>1, <2>2, <2>3
  <1>8. ASSUME NEW k \in 0..(LastUnit - 1), k \in S PROVE k + 1 \in S
    <2>1. PICK u, x : u = at[k] /\ x = D[u].next
      OBVIOUS
    <2>2. u \in L /\ Before(u) /\ (Ends(u) \/ u >= k) /\ u \in Nat /\ x \in Nat
      <3>1. u \in L /\ Before(u) /\ (Ends(u) \/ u >= k)
        <4> HIDE DEF Before, Ends
        <4> QED BY <1>8, <2>1
      <3>2. u \in Nat /\ x \in Nat
        BY <1>3, <1>5, <2>1, <3>1
      <3> HIDE DEF Before, Ends
      <3> QED BY <3>1, <3>2
    <2>3. k + 1 \in 1..LastUnit /\ (k + 1) - 1 = k /\ k + 1 \in 0..LastUnit
      BY <1>3
    <2>4. at[k + 1] = N[u]
      BY <1>4, <2>1, <2>3
    <2>5. IsNext(L, u, x) /\ D[u].last \in Nat
      BY <1>5, <2>1, <2>2
    <2>6. CASE D[u].last < start /\ x # 0
      <3>1. at[k + 1] = x
        BY <1>6, <2>1, <2>2, <2>4, <2>6
      <3>2. x \in L /\ u < x /\ \A v \in L : v <= u \/ x <= v
        BY <2>5, <2>6 DEF IsNext
      <3>3. ~Ends(u)
        BY <2>2, <2>5, <2>6, <3>2
      <3>4. Before(x)
        <4>1. SUFFICES ASSUME NEW v \in L, v < x PROVE D[v].last < start
          OBVIOUS
        <4>2. v \in Nat
          BY <1>3
        <4>3. v < u \/ v = u
          BY <2>2, <3>2, <4>1, <4>2
        <4> QED BY <2>2, <2>6, <4>3
      <3>5. x >= k + 1
        BY <2>2, <3>2, <3>3
      <3> QED BY <2>3, <3>1, <3>2, <3>4, <3>5
    <2>7. CASE ~(D[u].last < start /\ x # 0)
      <3>1. at[k + 1] = u
        BY <1>6, <2>1, <2>2, <2>4, <2>7
      <3>2. Ends(u)
        <4>1. CASE x = 0
          <5>1. ~(u < x)
            BY <2>2, <4>1
          <5> QED BY <2>5, <5>1 DEF IsNext
        <4>2. CASE x # 0
          BY <2>5, <2>7, <4>2
        <4> QED BY <4>1, <4>2
      <3> HIDE DEF Before, Ends
      <3> QED BY <2>2, <2>3, <3>1, <3>2
    <2> QED BY <2>6, <2>7
  <1>9. LastUnit \in S
    <2> HIDE DEF S
    <2>1. \A k \in 0..LastUnit : k \in S
      BY <1>3, <1>7, <1>8, IntervalInduction
    <2> QED BY <1>3, <2>1
  <1>10. PICK h : h = at[LastUnit]
    OBVIOUS
  <1>11. h \in L /\ Before(h) /\ (Ends(h) \/ h >= LastUnit)
    BY <1>9, <1>10
  <1>12. Ends(h)
    BY <1>3, <1>11
  <1> QED BY <1>1, <1>2, <1>10, <1>11, <1>12

-----------------------------------------------------------------------------
(* What has come, and the holes.                                              *)

(* What is missing of a fragment is not interrupted. *)
LEMMA Convex ==
    ASSUME Sent, NEW p, NEW G, NEW T, Came(p, G, T), NEW f \in Fragments, f.pkt = p,
           NEW i \in Span(f), NEW j \in G, NEW k \in Span(f), i < j, j < k
    PROVE  i \in G \/ k \in G
  <1>1. PICK g \in Fragments : g.pkt = p /\ j \in Span(g) /\ Span(g) \subseteq G
    BY DEF Came
  <1>2. /\ i \in Nat /\ k \in Nat /\ j \in Nat /\ Start(f) <= i /\ k < Finish(f)
        /\ Start(g) <= j /\ j < Finish(g)
        /\ Start(f) \in Nat /\ Start(g) \in Nat /\ Finish(f) \in Nat /\ Finish(g) \in Nat
    BY <1>1, FragmentIs
  <1>3. CASE Start(g) <= Start(f)
    <2>1. i \in Span(g)
      BY <1>2, <1>3, FragmentIs
    <2> QED BY <1>1, <2>1
  <1>4. CASE Start(f) <= Start(g)
    <2>1. Finish(f) <= Finish(g)
      BY <1>1, <1>4 DEF Sent
    <2>2. k \in Span(g)
      BY <1>2, <2>1, FragmentIs
    <2> QED BY <1>1, <2>2
  <1> QED BY <1>2, <1>3, <1>4

(* A fragment whose first byte has come, but not the one before, has come. *)
LEMMA Adjacent ==
    ASSUME Sent, NEW p, NEW G, NEW T, Came(p, G, T), NEW f \in Fragments, f.pkt = p,
           NEW s, s = Start(f), s \in G, s - 1 \notin G
    PROVE  Span(f) \subseteq G
  <1>1. PICK g \in Fragments : g.pkt = p /\ s \in Span(g) /\ Span(g) \subseteq G
    BY DEF Came
  <1>2. /\ s \in Nat /\ Start(g) <= s /\ s < Finish(g)
        /\ Start(g) \in Nat /\ Finish(f) \in Nat /\ Finish(g) \in Nat
    BY <1>1, FragmentIs
  <1>3. Start(g) = s
    <2>1. SUFFICES ASSUME Start(g) < s PROVE FALSE
      BY <1>2
    <2>2. s - 1 \in Nat /\ Start(g) <= s - 1 /\ s - 1 < Finish(g)
      BY <1>2, <2>1
    <2>3. s - 1 \in Span(g)
      BY <2>2, FragmentIs
    <2> QED BY <1>1, <2>3
  <1>4. Finish(f) <= Finish(g)
    BY <1>1, <1>2, <1>3 DEF Sent
  <1>5. ASSUME NEW i \in Span(f) PROVE i \in Span(g)
    <2>1. i \in Nat /\ s <= i /\ i < Finish(f)
      BY FragmentIs
    <2>2. Start(g) <= i /\ i < Finish(g)
      BY <1>2, <1>3, <1>4, <2>1
    <2> QED BY <2>1, <2>2, FragmentIs
  <1> QED BY <1>1, <1>5

(* total_len after a fragment. *)
TotalAfter(T, f) == IF f.more THEN T ELSE Finish(f)

LEMMA CameMore ==
    ASSUME NEW p, NEW G, NEW T, Came(p, G, T), NEW f \in Fragments, f.pkt = p, Fits(f)
    PROVE  Came(p, G \cup Span(f), TotalAfter(T, f))
  <1>1. /\ p \in Packets /\ Length[p] \in Nat /\ Finish(f) \in Nat /\ Finish(f) <= Length[p]
        /\ MaxUdp \in Nat /\ Finish(f) <= MaxUdp /\ Length[p] >= 1
    BY FragmentIs, Sizes DEF Fits
  <1>2. \A i \in Span(f) : i \in Nat /\ i < Finish(f)
    BY FragmentIs
  <1>3. \A i \in G \cup Span(f) : i \in Bytes /\ i < Length[p]
    BY <1>1, <1>2 DEF Came, Bytes
  <1>4. \A i \in G \cup Span(f) : \E g \in Fragments :
            g.pkt = p /\ i \in Span(g) /\ Span(g) \subseteq G \cup Span(f)
    BY DEF Came
  <1>5. TotalAfter(T, f) = IF Length[p] - 1 \in G \cup Span(f) THEN Length[p] ELSE Infinity
    <2>1. CASE f.more
      <3>1. Finish(f) < Length[p]
        BY <2>1, FragmentIs
      <3>2. Length[p] - 1 \notin Span(f)
        BY <1>1, <1>2, <3>1
      <3> QED BY <2>1, <3>2 DEF TotalAfter, Came
    <2>2. CASE ~f.more
      <3>1. Finish(f) = Length[p] /\ Start(f) \in Nat /\ Start(f) < Finish(f)
        BY <2>2, FragmentIs
      <3>2. PICK j : j = Length[p] - 1
        OBVIOUS
      <3>3. j \in Nat /\ Start(f) <= j /\ j < Finish(f)
        BY <1>1, <3>1, <3>2
      <3>4. j \in Span(f)
        BY <3>3, FragmentIs
      <3> QED BY <2>2, <3>1, <3>2, <3>4 DEF TotalAfter
    <2> QED BY <2>1, <2>2
  <1> QED BY <1>3, <1>4, <1>5 DEF Came

(* The walk for fragment f of packet p has stopped at hole h. *)
Stopped(l, L, G, T, p, f, h) ==
    /\ L \subseteq Nat /\ Exact(l, L, G, T) /\ Came(p, G, T)
    /\ f \in Fragments /\ f.pkt = p
    /\ h \in L /\ \A u \in L : u < h => l[u] < Start(f)

LEMMA TotalIs ==
    ASSUME NEW p \in Packets, NEW G, NEW T, Came(p, G, T)
    PROVE  /\ T \in Nat /\ Length[p] \in Nat /\ Infinity \in Nat /\ Length[p] < Infinity
           /\ Length[p] <= T /\ (T = Length[p] \/ T = Infinity)
           /\ T = Length[p] <=> Length[p] - 1 \in G
           /\ \A i \in G : i \in Nat /\ i < Length[p]
  <1>1. Length[p] \in Nat /\ Infinity \in Nat /\ Length[p] < Infinity /\ MaxUdp \in Nat
    BY Sizes
  <1>2. T = IF Length[p] - 1 \in G THEN Length[p] ELSE Infinity
    BY DEF Came
  <1>3. \A i \in G : i \in Nat /\ i < Length[p]
    BY <1>1 DEF Came, Bytes
  <1> QED BY <1>1, <1>2, <1>3

(* A byte of the fragment that has not come is in a hole, and not in one before h. *)
LEMMA MissingByte ==
    ASSUME NEW l, NEW L, NEW G, NEW T, NEW p, NEW f, NEW h, Stopped(l, L, G, T, p, f, h),
           NEW i \in Span(f), i \notin G
    PROVE  \E u \in L : u >= h /\ At(u) <= i /\ i < l[u]
  <1>1. f \in Fragments /\ f.pkt = p /\ p \in Packets /\ L \subseteq Nat /\ h \in Nat
    BY FragmentIs DEF Stopped
  <1>2. i \in Nat /\ i < Finish(f) /\ Start(f) <= i /\ Finish(f) \in Nat /\ Start(f) \in Nat
        /\ Finish(f) <= Length[p]
    BY <1>1, FragmentIs
  <1>3. T \in Nat /\ Length[p] \in Nat /\ Length[p] <= T
    BY <1>1, TotalIs DEF Stopped
  <1>4. i < T
    BY <1>2, <1>3
  <1>5. PICK u \in L : At(u) <= i /\ i < l[u] /\ l[u] \in Nat
    BY <1>2, <1>4 DEF Stopped, Exact
  <1>6. ~(u < h)
    BY <1>2, <1>5 DEF Stopped
  <1> QED BY <1>1, <1>5, <1>6

(* "no hole that far away", or "no overlap with holes": all of it has come. *)
LEMMA NothingMissing ==
    ASSUME Sent, NEW l, NEW L, NEW G, NEW T, NEW p, NEW f, NEW h, Stopped(l, L, G, T, p, f, h),
           (l[h] < Start(f) /\ \A u \in L : u <= h) \/ End(f) <= h,
           At(h) + Unit <= Length[p]
    PROVE  Span(f) \subseteq G
  <1>1. SUFFICES ASSUME NEW i \in Span(f), i \notin G PROVE FALSE
    OBVIOUS
  <1>2. f \in Fragments /\ f.pkt = p /\ p \in Packets /\ L \subseteq Nat /\ h \in Nat
    BY FragmentIs DEF Stopped
  <1>3. /\ i \in Nat /\ i < Finish(f) /\ Start(f) <= i /\ Finish(f) \in Nat /\ Start(f) \in Nat
        /\ Finish(f) <= Length[p] /\ End(f) \in Nat /\ At(End(f)) <= Finish(f)
        /\ Finish(f) < At(End(f)) + Unit
        /\ f.more => At(End(f)) = Finish(f)
        /\ ~f.more => Finish(f) = Length[p]
    BY <1>2, FragmentIs
  <1>4. PICK u \in L : u >= h /\ At(u) <= i /\ i < l[u]
    BY <1>1, MissingByte
  <1>5. u \in Nat /\ l[u] \in Nat
    BY <1>2 DEF Stopped, Exact
  <1>6. CASE l[h] < Start(f) /\ \A v \in L : v <= h
    <2>1. u = h
      BY <1>2, <1>4, <1>5, <1>6
    <2> QED BY <1>3, <1>4, <1>5, <1>6, <2>1
  <1>7. CASE End(f) <= h
    <2>1. At(End(f)) <= At(h) /\ At(h) <= At(u) /\ At(h) \in Nat /\ At(u) \in Nat /\ At(End(f)) \in Nat
      BY <1>2, <1>3, <1>4, <1>5, <1>7, AtMono, AtStep
    <2>2. At(h) < Finish(f)
      BY <1>3, <1>4, <2>1
    <2>3. CASE f.more
      BY <1>3, <2>1, <2>2, <2>3
    <2>4. CASE ~f.more
      BY <1>3, <2>1, <2>4, Sizes
    <2> QED BY <2>3, <2>4
  <1> QED BY <1>6, <1>7

(* What is missing of a fragment that meets hole h is in this hole. *)
LEMMA OneHole ==
    ASSUME Sent, NEW l, NEW L, NEW G, NEW T, NEW p, NEW f, NEW h, Stopped(l, L, G, T, p, f, h),
           Start(f) < l[h], h < End(f), NEW i \in Span(f)
    PROVE  i \notin G <=> At(h) <= i /\ i < l[h]
  <1>1. f \in Fragments /\ f.pkt = p /\ p \in Packets /\ L \subseteq Nat /\ h \in Nat /\ h \in L
    BY FragmentIs DEF Stopped
  <1>2. /\ i \in Nat /\ i < Finish(f) /\ Start(f) <= i /\ Finish(f) \in Nat /\ Start(f) \in Nat
        /\ End(f) \in Nat /\ At(End(f)) <= Finish(f) /\ Start(f) < Finish(f)
    BY <1>1, FragmentIs
  <1>3. l[h] \in Nat /\ At(h) \in Nat /\ At(h) + Unit <= l[h] /\ Unit \in Nat \ {0}
    BY <1>1, AtStep, Sizes DEF Stopped, Exact
  <1>4. At(h) < At(End(f)) /\ At(End(f)) \in Nat
    BY <1>1, <1>2, AtMono, AtStep
  <1>5. At(h) <= i /\ i < l[h] => i \notin G
    BY <1>1 DEF Stopped, Exact
  <1>6. ASSUME i \notin G PROVE At(h) <= i /\ i < l[h]
    <2>1. PICK u \in L : u >= h /\ At(u) <= i /\ i < l[u]
      BY <1>6, MissingByte
    <2>2. SUFFICES ASSUME u # h PROVE FALSE
      BY <2>1
    <2>3. u \in Nat /\ h < u /\ At(u) \in Nat /\ l[u] \in Nat
      BY <1>1, <2>1, <2>2, AtStep DEF Stopped, Exact
    <2>4. l[h] < At(u) /\ l[u] <= T /\ (l[h] = T \/ l[h] \in G) /\ T \in Nat
      BY <1>1, <2>3, TotalIs DEF Stopped, Exact
    <2>5. l[h] \in G
      BY <1>2, <1>3, <2>1, <2>3, <2>4
    <2>6. PICK m \in Nat : (m = Start(f) \/ m = At(h)) /\ Start(f) <= m /\ At(h) <= m
      BY <1>2, <1>3
    <2>7. m < l[h] /\ m < Finish(f)
      BY <1>2, <1>3, <1>4, <2>6
    <2>8. m \in Span(f)
      BY <1>1, <2>6, <2>7, FragmentIs
    <2>9. m \notin G
      BY <1>1, <2>6, <2>7 DEF Stopped, Exact
    <2>10. l[h] < i
      BY <1>2, <1>3, <2>1, <2>3, <2>4
    <2>11. PICK j : j = l[h]
      OBVIOUS
    <2>12. m \in G \/ i \in G
      BY <1>1, <2>5, <2>7, <2>8, <2>10, <2>11, Convex DEF Stopped
    <2> QED BY <1>6, <2>9, <2>12
  <1> QED BY <1>5, <1>6

(* A fragment without more ends the packet: hole h is the last one, or the total was known. *)
LEMMA LastHole ==
    ASSUME Sent, NEW l, NEW L, NEW G, NEW T, NEW p, NEW f, NEW h, Stopped(l, L, G, T, p, f, h),
           Start(f) < l[h], h < End(f)
    PROVE  /\ TotalAfter(T, f) \in Nat /\ TotalAfter(T, f) <= T /\ Finish(f) <= TotalAfter(T, f)
           /\ \/ TotalAfter(T, f) = T
              \/ ~f.more /\ l[h] = T /\ At(h) < TotalAfter(T, f) /\ \A u \in L : u <= h
  <1>1. f \in Fragments /\ f.pkt = p /\ p \in Packets /\ L \subseteq Nat /\ h \in Nat /\ h \in L
    BY FragmentIs DEF Stopped
  <1>2. /\ Finish(f) \in Nat /\ Start(f) \in Nat /\ Start(f) < Finish(f) /\ Finish(f) <= Length[p]
        /\ ~f.more => Finish(f) = Length[p]
    BY <1>1, FragmentIs
  <1>3. /\ T \in Nat /\ Length[p] \in Nat /\ Length[p] <= T /\ (T = Length[p] \/ T = Infinity)
        /\ T = Length[p] <=> Length[p] - 1 \in G
        /\ \A i \in G : i \in Nat /\ i < Length[p]
    BY <1>1, TotalIs DEF Stopped
  <1>4. CASE f.more
    BY <1>2, <1>3, <1>4 DEF TotalAfter
  <1>5. CASE ~f.more /\ T = Length[p]
    BY <1>2, <1>3, <1>5 DEF TotalAfter
  <1>6. CASE ~f.more /\ T # Length[p]
    <2>1. PICK j : j = Length[p] - 1
      OBVIOUS
    <2>2. j \notin G /\ j \in Nat /\ Start(f) <= j /\ j < Finish(f)
      BY <1>2, <1>3, <1>6, <2>1
    <2>3. j \in Span(f)
      BY <1>1, <2>2, FragmentIs
    <2>8. At(h) <= j /\ j < l[h]
      BY <2>2, <2>3, OneHole
    <2>9. l[h] \in Nat /\ At(h) \in Nat
      BY <1>1, AtStep DEF Stopped, Exact
    <2>4. At(h) <= j /\ j < l[h] /\ l[h] \in Nat /\ At(h) \in Nat
      BY <2>8, <2>9
    <2>5. l[h] = T
      <3>1. l[h] = T \/ l[h] \in G
        BY <1>1 DEF Stopped, Exact
      <3>2. l[h] \notin G
        BY <1>3, <2>1, <2>4
      <3> QED BY <3>1, <3>2
    <2>6. ASSUME NEW u \in L PROVE u <= h
      <3>1. SUFFICES ASSUME h < u PROVE FALSE
        BY <1>1
      <3>2. l[h] < At(u) /\ At(u) + Unit <= l[u] /\ l[u] <= T /\ l[u] \in Nat /\ At(u) \in Nat
        BY <1>1, <3>1, AtStep DEF Stopped, Exact
      <3> QED BY <1>3, <2>5, <3>2, Sizes
    <2>7. TotalAfter(T, f) = Length[p]
      BY <1>2, <1>6 DEF TotalAfter
    <2> QED BY <1>2, <1>3, <1>6, <2>1, <2>4, <2>5, <2>6, <2>7
  <1> QED BY <1>4, <1>5, <1>6

(* What fragment f leaves of hole h: the part before it, and the one behind it. *)
Tail(l, f, h) == f.more /\ Finish(f) < l[h]
Filled(l, L, f, h, k, K) ==
    /\ \A u \in L : u # h => u \in K /\ k[u] = l[u]
    /\ h \in K <=> h < f.off
    /\ h \in K => k[h] = Start(f)
    /\ Tail(l, f, h) => End(f) \in K /\ k[End(f)] = l[h]
    /\ \A u \in K : u \in L \/ (Tail(l, f, h) /\ u = End(f))

LEMMA FilledExact ==
    ASSUME Sent, NEW l, NEW L, NEW G, NEW T, NEW p, NEW f, NEW h, Stopped(l, L, G, T, p, f, h),
           Start(f) < l[h], h < End(f), NEW k, NEW K, Filled(l, L, f, h, k, K)
    PROVE  Exact(k, K, G \cup Span(f), TotalAfter(T, f))
  <1> DEFINE H == G \cup Span(f)
             W == TotalAfter(T, f)
  <1>1. f \in Fragments /\ f.pkt = p /\ p \in Packets /\ L \subseteq Nat /\ h \in Nat /\ h \in L
    BY FragmentIs DEF Stopped
  <1>2. PICK s, e, n, x : s = Start(f) /\ e = Finish(f) /\ n = End(f) /\ x = l[h]
    OBVIOUS
  <1>3. /\ e \in Nat /\ s \in Nat /\ n \in Nat /\ At(n) \in Nat /\ s < e /\ f.off \in Nat
        /\ s = At(f.off) /\ At(n) <= e /\ e <= Length[p]
        /\ f.more => At(n) = e
        /\ \A i : i \in Span(f) <=> i \in Nat /\ s <= i /\ i < e
    BY <1>1, <1>2, FragmentIs, AtStep
  <1>4. /\ T \in Nat /\ Length[p] \in Nat /\ Length[p] <= T /\ Length[p] < Infinity
        /\ T = Length[p] \/ T = Infinity
        /\ \A i \in G : i \in Nat
    BY <1>1, TotalIs DEF Stopped
  <1>5. /\ x \in Nat /\ At(h) \in Nat /\ At(h) + Unit <= x /\ x <= T /\ Unit \in Nat \ {0}
        /\ s < x /\ h < n /\ At(h) < At(n)
        /\ x = T \/ (x \in G /\ \E j \in Nat : x = At(j))
        /\ \A i \in G : ~(At(h) <= i /\ i < x)
    BY <1>1, <1>2, <1>3, AtStep, AtMono, Sizes DEF Stopped, Exact
  <1>6. /\ W \in Nat /\ W <= T /\ e <= W
        /\ W = T \/ (~f.more /\ x = T /\ At(h) < W /\ \A u \in L : u <= h)
    BY <1>2, LastHole
  <1>7. \A i \in Span(f) : i \notin G <=> At(h) <= i /\ i < x
    BY <1>2, OneHole
  <1>8. ASSUME NEW u \in L
        PROVE  /\ u \in Nat /\ l[u] \in Nat /\ At(u) \in Nat
               /\ At(u) + Unit <= l[u] /\ l[u] <= T
               /\ l[u] = T \/ (l[u] \in G /\ \E j \in Nat : l[u] = At(j))
               /\ \A v \in L : u < v => l[u] < At(v)
               /\ \A i \in G : ~(At(u) <= i /\ i < l[u])
    BY <1>1, AtStep DEF Stopped, Exact
  (* A hole other than h. *)
  <1>9. ASSUME NEW u \in L, u # h
        PROVE  /\ l[u] <= W
               /\ l[u] = W \/ (l[u] \in H /\ \E j \in Nat : l[u] = At(j))
               /\ \A i \in H : ~(At(u) <= i /\ i < l[u])
               /\ u < h => l[u] < At(h)
               /\ h < u => x < At(u)
    <2>1. (u < h => l[u] < At(h)) /\ (h < u => x < At(u)) /\ (u < h \/ h < u)
      BY <1>1, <1>2, <1>8, <1>9
    <2>2. l[u] <= W /\ (l[u] = W \/ (l[u] \in G /\ \E j \in Nat : l[u] = At(j)))
      <3>1. CASE W = T
        BY <1>8, <3>1
      <3>2. CASE W # T
        <4>1. x = T /\ At(h) < W /\ u <= h
          BY <1>6, <3>2
        <4>2. l[u] < At(h)
          BY <1>1, <1>8, <1>9, <2>1, <4>1
        <4>3. l[u] < T /\ l[u] <= W
          BY <1>4, <1>5, <1>6, <1>8, <4>1, <4>2
        <4>4. l[u] # T
          BY <1>4, <1>8, <4>3
        <4> QED BY <1>8, <4>3, <4>4
      <3> QED BY <3>1, <3>2
    <2>3. ASSUME NEW i \in H, At(u) <= i, i < l[u] PROVE FALSE
      <3>1. i \notin G
        BY <1>8, <2>3
      <3>2. i \in Span(f) /\ i \in Nat
        BY <1>3, <2>3, <3>1
      <3>3. At(h) <= i /\ i < x
        BY <1>7, <3>1, <3>2
      <3> QED BY <1>5, <1>8, <2>1, <2>3, <3>2, <3>3
    <2> QED BY <2>1, <2>2, <2>3
  (* The part of hole h before the fragment. *)
  <1>10. ASSUME h < f.off
         PROVE  /\ At(h) + Unit <= s /\ s <= W /\ s \in H
                /\ \A i \in H : ~(At(h) <= i /\ i < s)
    <2>1. At(h) + Unit <= s
      BY <1>1, <1>3, <1>10, AtMono
    <2>2. s <= W /\ s \in H
      BY <1>3, <1>6
    <2>3. ASSUME NEW i \in H, At(h) <= i, i < s PROVE FALSE
      BY <1>3, <1>4, <1>5, <2>3
    <2> QED BY <2>1, <2>2, <2>3
  (* The part behind it. *)
  <1>11. ASSUME Tail(l, f, h)
         PROVE  /\ At(n) = e /\ At(n) + Unit <= x /\ W = T
                /\ \A i \in H : ~(At(n) <= i /\ i < x)
                /\ \A u \in L : /\ u # n
                                /\ u < n => u = h \/ l[u] < At(n)
                                /\ n < u => x < At(u)
    <2>1. f.more /\ e < x /\ At(n) = e
      BY <1>2, <1>3, <1>11 DEF Tail
    <2>2. W = T
      BY <2>1 DEF TotalAfter
    <2>3. At(n) + Unit <= x
      <3>1. e + Unit <= Length[p]
        BY <1>1, <1>2, <2>1 DEF Sent
      <3>2. CASE x = T
        BY <1>3, <1>4, <1>5, <2>1, <3>1, <3>2
      <3>3. CASE \E j \in Nat : x = At(j)
        <4>1. PICK j \in Nat : x = At(j)
          BY <3>3
        <4> QED BY <1>3, <2>1, <4>1, AtMono
      <3> QED BY <1>5, <3>2, <3>3
    <2>4. ASSUME NEW i \in H, At(n) <= i, i < x PROVE FALSE
      <3>1. i \in Nat
        BY <1>3, <1>4
      <3>2. i \notin Span(f)
        BY <1>3, <2>1, <2>4, <3>1
      <3>3. i \in G /\ At(h) <= i
        BY <1>3, <1>5, <2>4, <3>1, <3>2
      <3> QED BY <1>5, <2>4, <3>3
    <2>5. ASSUME NEW u \in L
          PROVE  u # n /\ (u < n => u = h \/ l[u] < At(n)) /\ (n < u => x < At(u))
      <3>1. CASE u = h
        BY <1>1, <1>3, <1>5, <3>1
      <3>2. CASE u # h /\ u < h
        <4>1. l[u] < At(h)
          BY <1>9, <3>2
        <4> QED BY <1>1, <1>3, <1>5, <1>8, <3>2, <4>1
      <3>3. CASE u # h /\ h < u
        <4>1. x < At(u)
          BY <1>9, <3>3
        <4>2. At(n) < At(u)
          BY <1>3, <1>5, <1>8, <2>1, <4>1
        <4>3. n < u
          BY <1>3, <1>8, <4>2, AtMono
        <4> QED BY <1>3, <1>8, <4>1, <4>3
      <3> QED BY <1>1, <1>8, <3>1, <3>2, <3>3
    <2> QED BY <2>1, <2>2, <2>3, <2>4, <2>5
  <1>12. ASSUME NEW u \in K
         PROVE  \/ u \in L /\ u # h /\ k[u] = l[u]
                \/ u = h /\ h < f.off /\ k[u] = s
                \/ u = n /\ u # h /\ Tail(l, f, h) /\ k[u] = x
    BY <1>1, <1>2, <1>3, <1>5, <1>12 DEF Filled
  <1>13. ASSUME NEW u \in K
         PROVE  /\ k[u] \in Nat /\ At(u) + Unit <= k[u] /\ k[u] <= W
                /\ k[u] = W \/ (k[u] \in H /\ \E j \in Nat : k[u] = At(j))
                /\ \A i \in H : ~(At(u) <= i /\ i < k[u])
    <2>1. CASE u \in L /\ u # h /\ k[u] = l[u]
      BY <1>8, <1>9, <2>1
    <2>2. CASE u = h /\ h < f.off /\ k[u] = s
      BY <1>3, <1>10, <2>2
    <2>3. CASE u = n /\ Tail(l, f, h) /\ k[u] = x
      <3>1. x \in Nat /\ x <= W /\ (x = W \/ (x \in H /\ \E j \in Nat : x = At(j)))
        BY <1>5, <1>11, <2>3
      <3> QED BY <1>11, <2>3, <3>1
    <2> QED BY <1>12, <2>1, <2>2, <2>3
  <1>14. ASSUME NEW u \in K, NEW v \in K, u < v PROVE k[u] < At(v)
    <2>1. CASE u \in L /\ u # h /\ k[u] = l[u]
      <3>1. CASE v \in L
        BY <1>8, <1>14, <2>1, <3>1
      <3>2. CASE v = n /\ Tail(l, f, h)
        BY <1>11, <1>14, <2>1, <3>2
      <3> QED BY <1>12, <1>1, <3>1, <3>2
    <2>2. CASE u = h /\ h < f.off /\ k[u] = s
      <3>1. CASE v \in L /\ v # h
        <4>1. x < At(v) /\ At(v) \in Nat
          BY <1>8, <1>9, <1>14, <2>2, <3>1
        <4> QED BY <1>3, <1>5, <2>2, <4>1
      <3>2. CASE v = n /\ Tail(l, f, h)
        BY <1>3, <1>11, <2>2, <3>2
      <3> QED BY <1>1, <1>12, <1>14, <2>2, <3>1, <3>2
    <2>3. CASE u = n /\ Tail(l, f, h) /\ k[u] = x
      <3>1. CASE v \in L
        BY <1>11, <1>14, <2>3, <3>1
      <3>2. CASE v = n
        BY <1>3, <1>14, <2>3, <3>2
      <3> QED BY <1>1, <1>12, <3>1, <3>2
    <2> QED BY <1>12, <2>1, <2>2, <2>3
  <1>15. ASSUME NEW i \in Nat, i < W, i \notin H PROVE \E u \in K : At(u) <= i /\ i < k[u]
    <2>1. i < T /\ i \notin G
      BY <1>4, <1>6, <1>15
    <2>2. PICK u \in L : At(u) <= i /\ i < l[u]
      BY <2>1 DEF Stopped, Exact
    <2>3. CASE u # h
      BY <2>2, <2>3 DEF Filled
    <2>4. CASE u = h
      <3>1. i < s \/ e <= i
        BY <1>3, <1>15
      <3>2. CASE i < s
        <4>1. At(h) < At(f.off)
          BY <1>3, <1>5, <2>2, <2>4, <3>2
        <4>2. h < f.off
          BY <1>1, <1>3, <4>1, AtMono
        <4> QED BY <1>2, <2>2, <2>4, <3>2, <4>2 DEF Filled
      <3>3. CASE e <= i
        <4>1. f.more
          <5>1. ~f.more => W = e
            BY <1>2 DEF TotalAfter
          <5> QED BY <1>3, <1>6, <1>15, <3>3, <5>1
        <4>2. Tail(l, f, h)
          BY <1>2, <1>3, <1>5, <2>2, <2>4, <3>3, <4>1 DEF Tail
        <4>3. n \in K /\ k[n] = x
          BY <1>2, <4>2 DEF Filled
        <4>4. At(n) <= i
          BY <1>3, <3>3
        <4> QED BY <1>2, <2>2, <2>4, <4>3, <4>4
      <3> QED BY <3>1, <3>2, <3>3
    <2> QED BY <2>3, <2>4
  <1> HIDE DEF H, W
  <1>16. Exact(k, K, H, W)
    BY <1>13, <1>14, <1>15 DEF Exact
  <1> QED BY <1>16 DEF H, W

-----------------------------------------------------------------------------
(* The buffer after a fragment.                                               *)

(* No byte that has come lies in the unit of a hole. *)
LEMMA UnitFree ==
    ASSUME NEW l, NEW L \in SUBSET Nat, NEW G, NEW T, Exact(l, L, G, T), NEW u \in L, NEW i \in Bytes,
           i \in UnitOf(u)
    PROVE  i \notin G
  <1>1. /\ u \in Nat /\ i \in Nat /\ l[u] \in Nat /\ At(u) + Unit <= l[u]
        /\ \A j \in G : ~(At(u) <= j /\ j < l[u])
    BY Sizes DEF Exact, Bytes
  <1>2. At(u) <= i /\ i < At(u) + Unit /\ At(u) \in Nat /\ Unit \in Nat
    BY <1>1, InUnit, AtStep, Sizes
  <1> QED BY <1>1, <1>2

LEMMA ExactSame ==
    ASSUME NEW l, NEW k, NEW L, NEW G, NEW T, Exact(l, L, G, T), \A u \in L : k[u] = l[u]
    PROVE  Exact(k, L, G, T)
  BY DEF Exact

LEMMA LinkedSame ==
    ASSUME NEW first, NEW D, NEW E, NEW L, Linked(first, D, L),
           \A u \in L : E[u].hole = D[u].hole /\ E[u].next = D[u].next /\ E[u].prev = D[u].prev
    PROVE  Linked(first, E, L)
  BY DEF Linked

(* Copying the data destroys no descriptor of a hole that is left ... *)
LEMMA HolesKept ==
    ASSUME NEW a \in Buffers, NEW f \in Fragments, Fits(f), NEW G, NEW T,
           NEW K \in SUBSET Units, Exact(Lasts(a.desc), K, G \cup Span(f), T)
    PROVE  \A u \in K : Copy(a, f).desc[u] = a.desc[u]
  <1>1. SUFFICES ASSUME NEW u \in K PROVE Copy(a, f).desc[u] = a.desc[u]
    OBVIOUS
  <1>2. K \in SUBSET Nat /\ u \in Units
    BY Sizes
  <1>3. ASSUME NEW i \in UnitOf(u) PROVE i \notin Span(f)
    <2>1. i \in Bytes
      BY DEF UnitOf
    <2>2. PICK H : H = G \cup Span(f)
      OBVIOUS
    <2>3. i \notin H
      <3>1. Exact(Lasts(a.desc), K, H, T)
        BY <2>2
      <3>2. PICK l : l = Lasts(a.desc)
        OBVIOUS
      <3> QED BY <1>1, <1>2, <1>3, <2>1, <3>1, <3>2, UnitFree
    <2> QED BY <2>2, <2>3
  <1>4. UnitOf(u) \cap Span(f) = {}
    BY <1>3
  <1> QED BY <1>2, <1>4, CopyIs

(* Buffer a is b, where the bytes G have come and L are the holes, after the list was
   changed in the units U for fragment f: the holes are K now. *)
Changed(b, L, T, a, K, W, U, G, f) ==
    /\ b \in Buffers /\ L \subseteq Units /\ Exact(Lasts(b.desc), L, G, T)
    /\ a \in Buffers /\ K \subseteq Units /\ Exact(Lasts(a.desc), K, G \cup Span(f), W)
    /\ U \subseteq L \cup K /\ Touches(b, a, U)
    /\ f \in Fragments /\ Fits(f)
    /\ G \subseteq Bytes /\ \A i \in G : b.bytes[i] = f.pkt

(* ... and no descriptor that was written has destroyed data. *)
LEMMA DataKept ==
    ASSUME NEW b, NEW L, NEW T, NEW a, NEW K, NEW W, NEW U, NEW G, NEW f,
           Changed(b, L, T, a, K, W, U, G, f)
    PROVE  \A i \in G \cup Span(f) : Copy(a, f).bytes[i] = f.pkt
  <1> USE DEF Changed
  <1>1. SUFFICES ASSUME NEW i \in G \cup Span(f) PROVE Copy(a, f).bytes[i] = f.pkt
    OBVIOUS
  <1>2. K \in SUBSET Nat /\ L \in SUBSET Nat
    BY Sizes
  <1>3. i \in Bytes
    <2>1. ASSUME i \in Span(f) PROVE i \in Bytes
      BY <2>1, FragmentIs, Sizes DEF Fits, Bytes
    <2> QED BY <2>1
  <1>4. CASE i \in Span(f)
    BY <1>3, <1>4, CopyIs
  <1>5. CASE i \notin Span(f)
    <2>1. i \in G /\ b.bytes[i] = f.pkt
      BY <1>1, <1>5
    <2>2. PICK l, k, H : l = Lasts(b.desc) /\ k = Lasts(a.desc) /\ H = G \cup Span(f)
      OBVIOUS
    <2>3. ASSUME NEW u \in U PROVE i \notin UnitOf(u)
      <3>1. CASE u \in L
        BY <1>2, <1>3, <2>1, <2>2, <3>1, UnitFree
      <3>2. CASE u \in K
        <4>1. i \in H /\ Exact(k, K, H, W)
          BY <2>1, <2>2
        <4> QED BY <1>2, <1>3, <4>1, <3>2, UnitFree
      <3> QED BY <3>1, <3>2
    <2>4. a.bytes[i] = b.bytes[i]
      BY <1>3, <2>3 DEF Touches
    <2> QED BY <1>3, <1>5, <2>1, <2>4, CopyIs
  <1> QED BY <1>4, <1>5

(* The buffer is again that of a packet on its way, now with the fragment. *)
LEMMA OpenAfter ==
    ASSUME Sent, NEW b, NEW L \in SUBSET Units, NEW p, NEW G, Open(b, L, p, G),
           NEW f \in Fragments, f.pkt = p, Fits(f), NEW a \in Buffers, NEW K \in SUBSET Units,
           Linked(a.first, a.desc, K), a.total = TotalAfter(b.total, f),
           Exact(Lasts(a.desc), K, G \cup Span(f), TotalAfter(b.total, f)),
           \A u \in K : u \in L \/ (f.more /\ u = End(f)),
           NEW U \in SUBSET (L \cup K), Touches(b, a, U)
    PROVE  Open(Copy(a, f), K, p, G \cup Span(f))
  <1>1. PICK H, T, W : H = G \cup Span(f) /\ T = b.total /\ W = TotalAfter(b.total, f)
    OBVIOUS
  <1>2. PICK c : c = Copy(a, f)
    OBVIOUS
  <1>3. c \in Buffers /\ c.first = a.first /\ c.total = a.total
    BY <1>2, CopyIs
  <1>4. /\ b \in Buffers /\ Exact(Lasts(b.desc), L, G, T) /\ Came(p, G, T)
        /\ \A u \in L : u # 0 => At(u) + Unit <= Length[p]
        /\ \A i \in G : b.bytes[i] = p
    BY <1>1 DEF Open
  <1>5. \A u \in K : c.desc[u] = a.desc[u]
    BY <1>2, HolesKept
  <1>6. Linked(c.first, c.desc, K)
    BY <1>3, <1>5, LinkedSame
  <1>7. Exact(Lasts(c.desc), K, H, W)
    <2>1. \A u \in K : Lasts(c.desc)[u] = Lasts(a.desc)[u]
      BY <1>5 DEF Lasts
    <2>2. Exact(Lasts(a.desc), K, H, W)
      BY <1>1
    <2> QED BY <2>1, <2>2, ExactSame
  <1>8. Came(p, H, W)
    BY <1>1, <1>4, CameMore
  <1>9. ASSUME NEW u \in K, u # 0 PROVE At(u) + Unit <= Length[p]
    <2>1. CASE u \in L
      BY <1>4, <1>9, <2>1
    <2>2. CASE f.more /\ u = End(f)
      BY <2>2, FragmentIs DEF Sent
    <2> QED BY <2>1, <2>2
  <1>10. \A i \in H : c.bytes[i] = p
    <2>1. G \subseteq Bytes
      BY <1>4 DEF Came
    <2>2. Changed(b, L, T, a, K, W, U, G, f)
      BY <1>1, <1>4, <2>1 DEF Changed
    <2>4. \A i \in G \cup Span(f) : Copy(a, f).bytes[i] = f.pkt
      BY <2>2, DataKept
    <2> QED BY <1>1, <1>2, <2>4
  <1>11. c.total = W
    BY <1>1, <1>3
  <1>12. Open(c, K, p, H)
    BY <1>3, <1>6, <1>7, <1>8, <1>9, <1>10, <1>11 DEF Open
  <1> QED BY <1>1, <1>2, <1>12

-----------------------------------------------------------------------------
(* The list after a change.                                                   *)

(* Its neighbours skip an element that is taken out ... *)
LEMMA SkipNext ==
    ASSUME NEW L \in SUBSET (Nat \ {0}), NEW h \in L, NEW u \in L, u # h,
           NEW x, NEW y, NEW w, IsNext(L, u, x), IsNext(L, h, y), IsPrev(L, h, w)
    PROVE  IsNext(L \ {h}, u, IF u = w THEN y ELSE x)
  <1>a. \A v \in L : v \in Nat /\ v # 0
    OBVIOUS
  <1>b. (x \in L \/ x = 0) /\ (y \in L \/ y = 0) /\ (w \in L \/ w = 0)
    BY DEF IsNext, IsPrev
  <1>0. (\A v \in L : v \in Nat /\ v # 0) /\ x \in Nat /\ y \in Nat /\ w \in Nat
    <2>1. 0 \in Nat
      OBVIOUS
    <2> QED BY <1>a, <1>b, <2>1, Zenon
  <1>1. CASE u = w
    BY <1>0, <1>1 DEF IsNext, IsPrev
  <1>2. CASE u # w
    <2>1. x # h
      BY <1>0, <1>2 DEF IsNext, IsPrev
    <2> QED BY <1>0, <1>2, <2>1 DEF IsNext
  <1> QED BY <1>1, <1>2

LEMMA SkipPrev ==
    ASSUME NEW L \in SUBSET (Nat \ {0}), NEW h \in L, NEW u \in L, u # h,
           NEW x, NEW y, NEW w, IsPrev(L, u, x), IsNext(L, h, y), IsPrev(L, h, w)
    PROVE  IsPrev(L \ {h}, u, IF u = y THEN w ELSE x)
  <1>a. \A v \in L : v \in Nat /\ v # 0
    OBVIOUS
  <1>b. (x \in L \/ x = 0) /\ (y \in L \/ y = 0) /\ (w \in L \/ w = 0)
    BY DEF IsNext, IsPrev
  <1>0. (\A v \in L : v \in Nat /\ v # 0) /\ x \in Nat /\ y \in Nat /\ w \in Nat
    <2>1. 0 \in Nat
      OBVIOUS
    <2> QED BY <1>a, <1>b, <2>1, Zenon
  <1>1. CASE u = y
    BY <1>0, <1>1 DEF IsNext, IsPrev
  <1>2. CASE u # y
    <2>1. x # h
      BY <1>0, <1>2 DEF IsNext, IsPrev
    <2> QED BY <1>0, <1>2, <2>1 DEF IsPrev
  <1> QED BY <1>1, <1>2

(* ... and meet one that is put in behind h. *)
LEMMA MeetNext ==
    ASSUME NEW L \in SUBSET Nat, NEW h \in L, NEW n \in Nat, h < n, \A v \in L : v <= h \/ n < v,
           NEW u \in L, NEW x, IsNext(L, u, x)
    PROVE  IsNext(L \cup {n}, u, IF u = h THEN n ELSE x) /\ (u = h => IsNext(L \cup {n}, n, x))
  <1>a. \A v \in L : v \in Nat
    OBVIOUS
  <1>b. (x \in L \/ x = 0)
    BY DEF IsNext, IsPrev
  <1>0. (\A v \in L : v \in Nat) /\ x \in Nat
    <2>1. 0 \in Nat
      OBVIOUS
    <2> QED BY <1>a, <1>b, <2>1, Zenon
  <1>1. CASE u = h
    BY <1>0, <1>1 DEF IsNext
  <1>2. CASE u # h
    BY <1>0, <1>2 DEF IsNext
  <1> QED BY <1>1, <1>2

LEMMA MeetPrev ==
    ASSUME NEW L \in SUBSET Nat, NEW h \in L, NEW n \in Nat, h < n, \A v \in L : v <= h \/ n < v,
           NEW u \in L, NEW x, NEW y, IsPrev(L, u, x), IsNext(L, h, y)
    PROVE  IsPrev(L \cup {n}, u, IF u = y /\ u # 0 THEN n ELSE x) /\ IsPrev(L \cup {n}, n, h)
  <1>a. \A v \in L : v \in Nat
    OBVIOUS
  <1>b. (x \in L \/ x = 0) /\ (y \in L \/ y = 0)
    BY DEF IsNext, IsPrev
  <1>0. (\A v \in L : v \in Nat) /\ x \in Nat /\ y \in Nat
    <2>1. 0 \in Nat
      OBVIOUS
    <2> QED BY <1>a, <1>b, <2>1, Zenon
  <1>1. CASE u = y /\ u # 0
    BY <1>0, <1>1 DEF IsNext, IsPrev
  <1>2. CASE u # y
    <2>1. u <= h \/ y < u
      BY <1>0, <1>2 DEF IsNext
    <2> QED BY <1>0, <1>2, <2>1 DEF IsPrev, IsNext
  <1>3. CASE u = 0
    BY <1>0, <1>3 DEF IsPrev
  <1> QED BY <1>1, <1>2, <1>3

(* The neighbours of hole h in the list. *)
LEMMA Neighbours ==
    ASSUME NEW b \in Buffers, NEW L, Linked(b.first, b.desc, L), NEW u \in L, NEW d, d = b.desc[u]
    PROVE  /\ L \subseteq Units /\ L \subseteq Nat /\ u \in Units /\ u \in Nat
           /\ d \in Descs /\ d.hole /\ d.last \in Nat
           /\ IsNext(L, u, d.next) /\ IsPrev(L, u, d.prev)
           /\ d.next = 0 \/ (d.next \in L /\ u < d.next)
           /\ d.prev = 0 \/ (d.prev \in L /\ d.prev < u)
  <1>1. L \subseteq Units /\ b.desc \in [Units -> Descs] /\ u \in Units
    BY DEF Linked, Buffers
  <1>2. d \in Descs
    BY <1>1
  <1>3. d.last \in Nat
    BY <1>2, Sizes DEF Descs
  <1>4. d.hole /\ IsNext(L, u, d.next) /\ IsPrev(L, u, d.prev)
    BY DEF Linked
  <1>5. /\ d.next = 0 \/ (d.next \in L /\ u < d.next)
        /\ d.prev = 0 \/ (d.prev \in L /\ d.prev < u)
    BY <1>4 DEF IsNext, IsPrev
  <1> QED BY <1>1, <1>2, <1>3, <1>4, <1>5, Sizes

(* "remove hole" *)
LEMMA LinkedRemoved ==
    ASSUME NEW b \in Buffers, NEW L, Linked(b.first, b.desc, L), NEW h \in L, L # {h},
           NEW c, HoleRemoved(b, h, c)
    PROVE  Linked(c.first, c.desc, L \ {h})
  <1>1. PICK d, x, w : d = b.desc[h] /\ x = d.next /\ w = d.prev
    OBVIOUS
  <1>2. /\ L \in SUBSET Units /\ IsNext(L, h, x) /\ IsPrev(L, h, w) /\ h \in Nat
        /\ x = 0 \/ (x \in L /\ h < x)
        /\ w = 0 \/ (w \in L /\ w < h)
    BY <1>1, Neighbours
  <1>3. 0 \notin L
    BY DEF Linked
  <1>4. L \in SUBSET (Nat \ {0})
    BY <1>2, <1>3, Sizes
  <1>5. /\ c.first = IF w = 0 /\ x # 0 THEN x ELSE b.first
        /\ \A v \in Units :
              /\ c.desc[v].hole = b.desc[v].hole
              /\ c.desc[v].next = IF v = w /\ v # 0 THEN x ELSE b.desc[v].next
              /\ c.desc[v].prev = IF v = x /\ v # 0 THEN w ELSE b.desc[v].prev
    BY <1>1 DEF HoleRemoved, SameHole
  <1>6. ASSUME NEW u \in L \ {h}
        PROVE  c.desc[u].hole /\ IsNext(L \ {h}, u, c.desc[u].next) /\ IsPrev(L \ {h}, u, c.desc[u].prev)
    <2>1. PICK e, y, z : e = b.desc[u] /\ y = e.next /\ z = e.prev
      OBVIOUS
    <2>2. e.hole /\ IsNext(L, u, y) /\ IsPrev(L, u, z) /\ u \in Units /\ u # h /\ u # 0 /\ u \in L
      BY <1>3, <2>1, Neighbours
    <2>3. /\ c.desc[u].hole = e.hole
          /\ c.desc[u].next = IF u = w THEN x ELSE y
          /\ c.desc[u].prev = IF u = x THEN w ELSE z
      BY <1>5, <2>1, <2>2
    <2>4. IsNext(L \ {h}, u, IF u = w THEN x ELSE y)
      BY <1>2, <1>4, <2>2, SkipNext
    <2>5. IsPrev(L \ {h}, u, IF u = x THEN w ELSE z)
      BY <1>2, <1>4, <2>2, SkipPrev
    <2> QED BY <2>2, <2>3, <2>4, <2>5
  <1>7. c.first \in L \ {h} /\ \A v \in L \ {h} : c.first <= v
    <2>1. b.first \in L /\ \A v \in L : b.first <= v
      BY DEF Linked
    <2>2. \A v \in L : v \in Nat /\ v # 0
      BY <1>4
    <2>3. CASE w = 0
      <3>1. \A v \in L : h <= v
        BY <1>2, <1>3, <2>3 DEF IsPrev
      <3>2. x \in L /\ h < x /\ \A v \in L : v <= h \/ x <= v
        <4>1. PICK v \in L : v # h
          OBVIOUS
        <4>2. ~(v <= h)
          BY <1>2, <2>2, <3>1, <4>1
        <4> QED BY <1>2, <1>3, <4>2 DEF IsNext
      <3>3. c.first = x
        BY <1>3, <1>5, <2>3, <3>2
      <3>4. x \in Nat
        BY <2>2, <3>2
      <3>5. ASSUME NEW v \in L, v # h PROVE x <= v
        BY <1>2, <2>2, <3>1, <3>2, <3>4, <3>5
      <3> QED BY <1>2, <3>2, <3>3, <3>4, <3>5
    <2>4. CASE w # 0
      <3>1. w \in L /\ w < h /\ c.first = b.first
        BY <1>2, <1>5, <2>4
      <3>2. b.first # h
        BY <1>2, <2>1, <2>2, <3>1
      <3> QED BY <2>1, <3>1, <3>2
    <2> QED BY <2>3, <2>4
  <1>8. L \ {h} \subseteq Units /\ 0 \notin L \ {h}
    BY <1>2, <1>3
  <1> QED BY <1>6, <1>7, <1>8 DEF Linked

(* "move this hole" *)
LEMMA LinkedMoved ==
    ASSUME NEW b \in Buffers, NEW L, Linked(b.first, b.desc, L), NEW h \in L,
           NEW n \in Units, h < n, \A v \in L : v <= h \/ n < v, NEW c, HoleMoved(b, h, n, c)
    PROVE  Linked(c.first, c.desc, (L \ {h}) \cup {n})
  <1> DEFINE M == L \cup {n}
             K == (L \ {h}) \cup {n}
  <1>1. PICK d, x, w : d = b.desc[h] /\ x = d.next /\ w = d.prev
    OBVIOUS
  <1>2. /\ L \in SUBSET Units /\ L \in SUBSET Nat
        /\ IsNext(L, h, x) /\ IsPrev(L, h, w) /\ h \in Nat /\ h \in Units /\ d.hole
        /\ x = 0 \/ (x \in L /\ h < x)
        /\ w = 0 \/ (w \in L /\ w < h)
    BY <1>1, Neighbours
  <1>3. n \in Nat /\ n # 0 /\ n \notin L /\ n # x /\ n # w /\ n # h
    <2>1. n \in Nat /\ n # 0 /\ n \notin L
      BY <1>2, Sizes
    <2> QED BY <1>2, <2>1
  <1>4. /\ c.first = IF w # 0 THEN b.first ELSE n
        /\ c.desc[n].hole /\ c.desc[n].next = x /\ c.desc[n].prev = w
    BY <1>1, <1>2, <1>3 DEF HoleMoved
  <1>5. \A v \in L : /\ c.desc[v].hole = b.desc[v].hole
                     /\ c.desc[v].next = IF v = w /\ v # 0 THEN n ELSE b.desc[v].next
                     /\ c.desc[v].prev = IF v = x /\ v # 0 THEN n ELSE b.desc[v].prev
    <2>1. SUFFICES ASSUME NEW v \in L
                   PROVE  /\ c.desc[v].hole = b.desc[v].hole
                          /\ c.desc[v].next = IF v = w /\ v # 0 THEN n ELSE b.desc[v].next
                          /\ c.desc[v].prev = IF v = x /\ v # 0 THEN n ELSE b.desc[v].prev
      OBVIOUS
    <2>2. v \in Units /\ v # n
      BY <1>2, <1>3
    <2> QED BY <1>1, <2>2 DEF HoleMoved
  <1>6. CASE 0 \in L
    <2>1. L = {0} /\ h = 0
      BY <1>6 DEF Linked
    <2>2. K = {n} /\ ~(w < 0) /\ x = 0 /\ w = 0
      BY <1>2, <2>1
    <2>3. c.first = n /\ n <= n
      BY <1>3, <1>4, <2>2
    <2>4. IsNext({n}, n, x) /\ IsPrev({n}, n, w)
      BY <1>3, <2>2 DEF IsNext, IsPrev
    <2>5. Linked(c.first, c.desc, {n})
      BY <1>3, <1>4, <2>3, <2>4 DEF Linked
    <2> QED BY <2>2, <2>5
  <1>7. CASE 0 \notin L
    <2>1. M \in SUBSET (Nat \ {0}) /\ h \in M /\ n \in M /\ K = M \ {h}
      BY <1>2, <1>3, <1>7
    <2>2. IsNext(M, h, n) /\ IsNext(M, n, x)
      BY <1>2, <1>3, MeetNext
    <2>3. IsPrev(M, n, h) /\ IsPrev(M, h, w)
      <3>1. IsPrev(M, h, IF h = x /\ h # 0 THEN n ELSE w) /\ IsPrev(M, n, h)
        BY <1>2, <1>3, MeetPrev
      <3>2. ~(h = x /\ h # 0)
        BY <1>2
      <3> QED BY <3>1, <3>2
    <2>4. ASSUME NEW u \in L, u # h
          PROVE  c.desc[u].hole /\ IsNext(K, u, c.desc[u].next) /\ IsPrev(K, u, c.desc[u].prev)
      <3>1. PICK e, y, z : e = b.desc[u] /\ y = e.next /\ z = e.prev
        OBVIOUS
      <3>2. e.hole /\ IsNext(L, u, y) /\ IsPrev(L, u, z) /\ u # 0 /\ u # n
        BY <1>3, <1>7, <3>1, Neighbours
      <3>3. /\ c.desc[u].hole = e.hole
            /\ c.desc[u].next = IF u = w THEN n ELSE y
            /\ c.desc[u].prev = IF u = x THEN n ELSE z
        BY <1>5, <3>1, <3>2
      <3>4. IsNext(M, u, y)
        <4>1. IsNext(M, u, IF u = h THEN n ELSE y)
          BY <1>2, <1>3, <3>2, MeetNext
        <4> QED BY <2>4, <4>1
      <3>5. PICK q : q = IF u = x THEN n ELSE z
        OBVIOUS
      <3>6. IsPrev(M, u, q)
        <4>1. IsPrev(M, u, IF u = x /\ u # 0 THEN n ELSE z)
          BY <1>2, <1>3, <3>2, MeetPrev
        <4> QED BY <3>2, <3>5, <4>1
      <3> HIDE DEF M
      <3>7. u \in M
        BY DEF M
      <3>8. IsNext(M \ {h}, u, IF u = w THEN n ELSE y)
        BY <2>1, <2>2, <2>3, <2>4, <3>4, <3>7, SkipNext
      <3>9. IsPrev(M \ {h}, u, IF u = n THEN w ELSE q)
        BY <2>1, <2>2, <2>3, <2>4, <3>6, <3>7, SkipPrev
      <3> QED BY <2>1, <3>2, <3>3, <3>5, <3>8, <3>9
    <2>5. IsNext(K, n, x) /\ IsPrev(K, n, w)
      <3> HIDE DEF M
      <3>1. IsNext(M \ {h}, n, IF n = w THEN n ELSE x)
        BY <1>3, <2>1, <2>2, <2>3, SkipNext
      <3>2. IsPrev(M \ {h}, n, IF n = n THEN w ELSE h)
        BY <1>3, <2>1, <2>2, <2>3, SkipPrev
      <3> QED BY <1>3, <2>1, <3>1, <3>2
    <2>6. c.first \in K /\ \A v \in K : c.first <= v
      <3>1. b.first \in L /\ \A v \in L : b.first <= v
        BY DEF Linked
      <3>2. \A v \in L : v \in Nat
        BY <1>2
      <3>3. CASE w = 0
        <4>1. \A v \in L : h <= v
          BY <1>2, <1>7, <3>3 DEF IsPrev
        <4>2. c.first = n
          BY <1>4, <3>3
        <4>3. ASSUME NEW v \in L, v # h PROVE n <= v
          BY <1>2, <1>3, <3>2, <4>1, <4>3
        <4> QED BY <1>3, <4>2, <4>3
      <3>4. CASE w # 0
        <4>1. w \in L /\ w < h /\ c.first = b.first
          BY <1>2, <1>4, <3>4
        <4>2. b.first # h /\ b.first <= n
          <5>1. b.first <= w /\ b.first \in Nat /\ w \in Nat /\ w < h
            BY <3>1, <3>2, <4>1
          <5> QED BY <1>2, <1>3, <5>1
        <4> QED BY <3>1, <4>1, <4>2
      <3> QED BY <3>3, <3>4
    <2>7. K \subseteq Units /\ 0 \notin K
      BY <1>2, <1>3, <1>7
    <2>8. \A u \in K : c.desc[u].hole /\ IsNext(K, u, c.desc[u].next) /\ IsPrev(K, u, c.desc[u].prev)
      <3>1. \A u \in K : u = n \/ (u \in L /\ u # h)
        OBVIOUS
      <3> HIDE DEF K
      <3> QED BY <1>4, <2>4, <2>5, <3>1
    <2> HIDE DEF K
    <2>9. Linked(c.first, c.desc, K)
      BY <2>6, <2>7, <2>8 DEF Linked
    <2> QED BY <2>9 DEF K
  <1> QED BY <1>6, <1>7

(* "split the hole" *)
LEMMA LinkedSplit ==
    ASSUME NEW b \in Buffers, NEW L, Linked(b.first, b.desc, L), 0 \notin L, NEW h \in L,
           NEW n \in Units, h < n, \A v \in L : v <= h \/ n < v, NEW s, NEW c, HoleSplit(b, h, n, s, c)
    PROVE  Linked(c.first, c.desc, L \cup {n})
  <1> DEFINE K == L \cup {n}
  <1>1. PICK d, x, w : d = b.desc[h] /\ x = d.next /\ w = d.prev
    OBVIOUS
  <1>2. /\ L \in SUBSET Units /\ L \in SUBSET Nat
        /\ IsNext(L, h, x) /\ IsPrev(L, h, w) /\ h \in Nat /\ h \in Units /\ d.hole
        /\ x = 0 \/ (x \in L /\ h < x)
        /\ w = 0 \/ (w \in L /\ w < h)
    BY <1>1, Neighbours
  <1>3. n \in Nat /\ n # 0 /\ n \notin L /\ n # x /\ n # w /\ n # h
    <2>1. n \in Nat /\ n # 0 /\ n \notin L
      BY <1>2, Sizes
    <2> QED BY <1>2, <2>1
  <1>4. c.first = b.first /\ c.desc[n].hole /\ c.desc[n].next = x /\ c.desc[n].prev = h
    BY <1>1, <1>2, <1>3 DEF HoleSplit
  <1>5. ASSUME NEW u \in L
        PROVE  c.desc[u].hole /\ IsNext(K, u, c.desc[u].next) /\ IsPrev(K, u, c.desc[u].prev)
    <2>1. PICK e, y, z : e = b.desc[u] /\ y = e.next /\ z = e.prev
      OBVIOUS
    <2>2. e.hole /\ IsNext(L, u, y) /\ IsPrev(L, u, z) /\ u # n /\ u \in Units
      BY <1>3, <2>1, Neighbours
    <2>3. /\ c.desc[u].hole = e.hole
          /\ c.desc[u].next = IF u = h THEN n ELSE y
          /\ c.desc[u].prev = IF u = x /\ u # 0 THEN n ELSE z
      BY <1>1, <2>1, <2>2 DEF HoleSplit
    <2>4. IsNext(K, u, IF u = h THEN n ELSE y)
      BY <1>2, <1>3, <2>2, MeetNext
    <2>5. IsPrev(K, u, IF u = x /\ u # 0 THEN n ELSE z)
      BY <1>2, <1>3, <2>2, MeetPrev
    <2> HIDE DEF K
    <2> QED BY <2>2, <2>3, <2>4, <2>5
  <1>6. IsNext(K, n, x) /\ IsPrev(K, n, h)
    <2>1. IsNext(K, n, x)
      BY <1>2, <1>3, MeetNext
    <2>2. IsPrev(K, n, h)
      BY <1>2, <1>3, MeetPrev
    <2> QED BY <2>1, <2>2
  <1>7. c.first \in K /\ \A v \in K : c.first <= v
    <2>1. b.first \in L /\ b.first <= h /\ (\A v \in L : b.first <= v) /\ b.first \in Nat
      BY <1>2 DEF Linked
    <2>2. b.first <= n
      BY <1>2, <1>3, <2>1
    <2> QED BY <1>4, <2>1, <2>2
  <1>8. K \subseteq Units /\ 0 \notin K
    BY <1>2, <1>3
  <1>9. \A u \in K : c.desc[u].hole /\ IsNext(K, u, c.desc[u].next) /\ IsPrev(K, u, c.desc[u].prev)
    <2>1. \A u \in K : u = n \/ u \in L
      OBVIOUS
    <2> HIDE DEF K
    <2> QED BY <1>4, <1>5, <1>6, <2>1
  <1> HIDE DEF K
  <1>10. Linked(c.first, c.desc, K)
    BY <1>7, <1>8, <1>9 DEF Linked
  <1> QED BY <1>10 DEF K

-----------------------------------------------------------------------------
(* A fragment, and the hole that it meets.                                    *)

(* A fragment of the packet p, of which the bytes G have come, comes. *)
Arrived(b, L, p, G, f) ==
    /\ Open(b, L, p, G) /\ L \in SUBSET Units
    /\ f \in Fragments /\ f.pkt = p /\ Fits(f)
    /\ 0 \in L => f.off = 0

LEMMA StopsAt ==
    ASSUME NEW b, NEW L, NEW p, NEW G, NEW f, Arrived(b, L, p, G, f), NEW h, h = FindHole(b, Start(f)),
           NEW l, l = Lasts(b.desc)
    PROVE  /\ h \in L /\ h \in Units /\ b.desc[h].hole /\ l[h] = b.desc[h].last
           /\ Stopped(l, L, G, b.total, p, f, h)
           /\ l[h] < Start(f) => \A u \in L : u <= h
  <1>1. /\ b \in Buffers /\ Linked(b.first, b.desc, L) /\ Exact(l, L, G, b.total) /\ Came(p, G, b.total)
        /\ f \in Fragments /\ f.pkt = p /\ L \subseteq Units
    BY DEF Arrived, Open
  <1>2. PICK s \in Nat : s = Start(f)
    BY <1>1, FragmentIs
  <1>3. PICK g \in L : /\ FindHole(b, s) = g
                       /\ \A u \in L : u < g => b.desc[u].last < s
                       /\ b.desc[g].last >= s \/ \A u \in L : u <= g
    BY <1>1, FindHoleIs
  <1>4. g = h
    BY <1>2, <1>3
  <1>5. \A u \in L : l[u] = b.desc[u].last
    BY <1>1 DEF Lasts
  <1>6. l[h] \in Nat /\ b.desc[h].hole
    BY <1>1, <1>3, <1>4 DEF Exact, Linked
  <1>7. Stopped(l, L, G, b.total, p, f, h)
    BY <1>1, <1>2, <1>3, <1>4, <1>5, Sizes DEF Stopped
  <1> QED BY <1>1, <1>2, <1>3, <1>4, <1>5, <1>6, <1>7

(* "no hole that far away", or "no overlap with holes": nothing of it is new. *)
LEMMA NothingNew ==
    ASSUME Sent, NEW b, NEW L, NEW p, NEW G, NEW f, Arrived(b, L, p, G, f),
           NEW h, h = FindHole(b, Start(f)),
           b.desc[h].last < Start(f) \/ End(f) <= h
    PROVE  0 \notin L /\ Span(f) \subseteq G
  <1>1. PICK l : l = Lasts(b.desc)
    OBVIOUS
  <1>2. /\ h \in L /\ h \in Units /\ b.desc[h].hole /\ l[h] = b.desc[h].last
        /\ Stopped(l, L, G, b.total, p, f, h)
        /\ l[h] < Start(f) => \A u \in L : u <= h
    BY <1>1, StopsAt
  <1>4. 0 \notin L
    <2>1. SUFFICES ASSUME 0 \in L PROVE FALSE
      OBVIOUS
    <2>2. L = {0} /\ h = 0 /\ f.off = 0
      BY <1>2, <2>1 DEF Arrived, Open, Linked
    <2>3. f.more
      BY <2>2, FragmentIs DEF Arrived
    <2>4. /\ Start(f) = At(0) /\ At(0) = 0 /\ End(f) \in Nat /\ At(End(f)) = Finish(f)
          /\ Start(f) < Finish(f)
      BY <2>2, <2>3, FragmentIs, AtStep DEF Arrived
    <2>5. End(f) # 0
      BY <2>4
    <2>6. l[h] \in Nat
      BY <1>2 DEF Stopped, Exact
    <2> QED BY <1>2, <2>2, <2>4, <2>5, <2>6
  <1>5. At(h) + Unit <= Length[p]
    BY <1>2, <1>4 DEF Arrived, Open
  <1>6. (l[h] < Start(f) /\ \A u \in L : u <= h) \/ End(f) <= h
    BY <1>2
  <1> QED BY <1>2, <1>4, <1>5, <1>6, NothingMissing

(* Whether the fragment goes "to the end" of the hole. *)
LEMMA TailIs ==
    ASSUME NEW b \in Buffers, NEW h \in Units, NEW f \in Fragments, Fits(f),
           NEW l, l = Lasts(b.desc)
    PROVE  ToItsEnd(f, b, h) <=> ~Tail(l, f, h)
  <1>1. b.desc \in [Units -> Descs] /\ Finish(f) \in Nat /\ l[h] = b.desc[h].last
    BY FragmentIs DEF Buffers, Lasts
  <1>2. l[h] \in Nat
    BY <1>1, Sizes DEF Descs
  <1>3. CASE f.more
    <2>1. Truncated(b, h, f).desc = b.desc
      BY <1>3, TruncatedIs
    <2> QED BY <1>1, <1>2, <1>3, <2>1 DEF ToItsEnd, Tail
  <1>4. CASE ~f.more
    <2>1. ToItsEnd(f, b, h)
      <3>1. SUFFICES ASSUME ~ToItsEnd(f, b, h) PROVE FALSE
        OBVIOUS
      <3> QED BY <1>4, <3>1, BeyondFragment
    <2> QED BY <1>4, <2>1 DEF Tail
  <1> QED BY <1>3, <1>4

(* The place for what is left of a hole behind the fragment is free. *)
LEMMA PlaceBehind ==
    ASSUME NEW l, NEW L, NEW G, NEW T, NEW p, NEW f, NEW h, Stopped(l, L, G, T, p, f, h),
           Tail(l, f, h), NEW v \in L
    PROVE  v <= h \/ End(f) < v
  <1>1. f \in Fragments /\ h \in Nat /\ v \in Nat /\ h \in L
    BY DEF Stopped
  <1>2. f.more /\ Finish(f) < l[h] /\ Finish(f) \in Nat /\ End(f) \in Nat /\ At(End(f)) = Finish(f)
    BY <1>1, FragmentIs DEF Tail
  <1>3. SUFFICES ASSUME h < v PROVE End(f) < v
    BY <1>1
  <1>4. l[h] < At(v) /\ l[h] \in Nat /\ At(v) \in Nat
    BY <1>1, <1>3, AtStep DEF Stopped, Exact
  <1>5. At(End(f)) < At(v)
    BY <1>2, <1>4
  <1> QED BY <1>1, <1>2, <1>5, AtMono

(* A fragment meets hole h, which it overlaps with or borders on. *)
Meets(b, L, p, G, f, h) ==
    /\ Arrived(b, L, p, G, f) /\ h = FindHole(b, Start(f))
    /\ b.desc[h].last >= Start(f) /\ f.off + f.len \div Unit > h

LEMMA MeetsIs ==
    ASSUME NEW b, NEW L, NEW p, NEW G, NEW f, NEW h, Meets(b, L, p, G, f, h), NEW l, l = Lasts(b.desc)
    PROVE  /\ b \in Buffers /\ Linked(b.first, b.desc, L) /\ Open(b, L, p, G)
           /\ L \in SUBSET Units /\ L \in SUBSET Nat
           /\ f \in Fragments /\ f.pkt = p /\ Fits(f)
           /\ h \in L /\ h \in Units /\ h \in Nat /\ h < End(f) /\ f.off \in Nat /\ End(f) \in Nat
           /\ Start(f) <= l[h] /\ l[h] \in Nat
           /\ Stopped(l, L, G, b.total, p, f, h)
           /\ ToItsEnd(f, b, h) <=> ~Tail(l, f, h)
           /\ Start(f) < l[h] <=> ~(l[h] = Start(f))
           /\ ~(h < f.off) => Start(f) < l[h]
           /\ Tail(l, f, h) => Start(f) < l[h]
  <1>1. Arrived(b, L, p, G, f) /\ h = FindHole(b, Start(f))
    BY DEF Meets
  <1>2. /\ h \in L /\ h \in Units /\ l[h] = b.desc[h].last
        /\ Stopped(l, L, G, b.total, p, f, h)
    BY <1>1, StopsAt
  <1>3. /\ b \in Buffers /\ Linked(b.first, b.desc, L) /\ Open(b, L, p, G)
        /\ L \in SUBSET Units /\ f \in Fragments /\ f.pkt = p /\ Fits(f)
    BY <1>1 DEF Arrived, Open
  <1>4. L \in SUBSET Nat /\ h \in Nat
    BY <1>2, <1>3, Sizes
  <1>5. /\ f.off \in Nat /\ End(f) \in Nat /\ Start(f) = At(f.off) /\ Start(f) \in Nat
        /\ Finish(f) \in Nat /\ Start(f) < Finish(f)
    BY <1>3, FragmentIs
  <1>6. l[h] \in Nat /\ At(h) + Unit <= l[h]
    BY <1>2 DEF Stopped, Exact
  <1>7. h < End(f) /\ Start(f) <= l[h]
    BY <1>2, <1>4, <1>5, <1>6 DEF Meets, End
  <1>8. ToItsEnd(f, b, h) <=> ~Tail(l, f, h)
    BY <1>2, <1>3, TailIs
  <1>9. ASSUME ~(h < f.off) PROVE Start(f) < l[h]
    <2>1. At(f.off) <= At(h) /\ At(h) \in Nat
      <3>1. PICK o \in Nat : o = f.off
        BY <1>5
      <3>2. o <= h
        BY <1>4, <1>9, <3>1
      <3>3. At(o) <= At(h) /\ At(h) \in Nat
        BY <1>4, <3>2, AtMono, AtStep
      <3> QED BY <3>1, <3>3
    <2> QED BY <1>5, <1>6, <2>1, Sizes
  <1>10. Tail(l, f, h) => Start(f) < l[h]
    BY <1>5, <1>6 DEF Tail
  <1> QED BY <1>2, <1>3, <1>4, <1>5, <1>6, <1>7, <1>8, <1>9, <1>10

LEMMA MoveKeeps ==
    ASSUME Sent, NEW b, NEW L, NEW p, NEW G, NEW f, NEW h, Meets(b, L, p, G, f, h),
           FromItsStart(f, h), ~ToItsEnd(f, b, h), RoomBehind(f)
    PROVE  \E K \in SUBSET Units : 0 \notin K /\ Open(Copy(Moved(b, h, f), f), K, p, G \cup Span(f))
  <1>1. PICK l : l = Lasts(b.desc)
    OBVIOUS
  <1>2. /\ b \in Buffers /\ Linked(b.first, b.desc, L) /\ Open(b, L, p, G)
        /\ L \in SUBSET Units /\ L \in SUBSET Nat
        /\ f \in Fragments /\ f.pkt = p /\ Fits(f)
        /\ h \in L /\ h \in Units /\ h \in Nat /\ h < End(f) /\ f.off \in Nat /\ End(f) \in Nat
        /\ Stopped(l, L, G, b.total, p, f, h) /\ Tail(l, f, h) /\ Start(f) < l[h]
    BY <1>1, MeetsIs
  <1>3. PICK n, a : n = End(f) /\ a = Moved(b, h, f)
    OBVIOUS
  <1>4. n \in Units /\ f.more
    BY <1>2, <1>3, BeyondFragment
  <1>5. HoleMoved(b, h, n, a)
    BY <1>2, <1>3, <1>4, MovedIs
  <1>6. \A v \in L : v <= h \/ n < v
    BY <1>2, <1>3, PlaceBehind
  <1>7. n \notin L /\ n # h /\ h < n /\ ~(h < f.off)
    BY <1>2, <1>3, <1>6 DEF FromItsStart
  <1>8. PICK K : K = (L \ {h}) \cup {n}
    OBVIOUS
  <1>9. Linked(a.first, a.desc, K)
    BY <1>2, <1>4, <1>5, <1>6, <1>7, <1>8, LinkedMoved
  <1>10. PICK k : k = Lasts(a.desc)
    OBVIOUS
  <1>11. Filled(l, L, f, h, k, K)
    <2>1. \A v \in Units : k[v] = IF v = n THEN l[h] ELSE l[v]
      BY <1>1, <1>2, <1>5, <1>10 DEF HoleMoved, Lasts
    <2> QED BY <1>2, <1>3, <1>4, <1>7, <1>8, <2>1 DEF Filled
  <1>12. Exact(k, K, G \cup Span(f), TotalAfter(b.total, f))
    BY <1>2, <1>11, FilledExact
  <1>13. PICK U : U = {n} \cup ({b.desc[h].prev, b.desc[h].next} \ {0})
    OBVIOUS
  <1>14. a \in Buffers /\ a.total = TotalAfter(b.total, f) /\ Touches(b, a, U)
    BY <1>4, <1>5, <1>13 DEF HoleMoved, TotalAfter
  <1>15. U \in SUBSET (L \cup K)
    <2>1. PICK d : d = b.desc[h]
      OBVIOUS
    <2>2. (d.next = 0 \/ d.next \in L) /\ (d.prev = 0 \/ d.prev \in L)
      BY <1>2, <2>1, Neighbours
    <2> QED BY <1>8, <1>13, <2>1, <2>2
  <1>16. K \in SUBSET Units /\ \A u \in K : u \in L \/ (f.more /\ u = End(f))
    BY <1>2, <1>3, <1>4, <1>8
  <1>17. Open(Copy(a, f), K, p, G \cup Span(f))
    BY <1>2, <1>9, <1>10, <1>12, <1>14, <1>15, <1>16, OpenAfter
  <1>18. 0 \notin K
    BY <1>2, <1>7, <1>8 DEF Linked
  <1> QED BY <1>3, <1>16, <1>17, <1>18

LEMMA SplitKeeps ==
    ASSUME Sent, NEW b, NEW L, NEW p, NEW G, NEW f, NEW h, Meets(b, L, p, G, f, h),
           ~FromItsStart(f, h), ~ToItsEnd(f, b, h), RoomBehind(f)
    PROVE  \E K \in SUBSET Units : 0 \notin K /\ Open(Copy(Split(b, h, f), f), K, p, G \cup Span(f))
  <1>1. PICK l : l = Lasts(b.desc)
    OBVIOUS
  <1>2. /\ b \in Buffers /\ Linked(b.first, b.desc, L) /\ Open(b, L, p, G)
        /\ L \in SUBSET Units /\ L \in SUBSET Nat
        /\ f \in Fragments /\ f.pkt = p /\ Fits(f)
        /\ h \in L /\ h \in Units /\ h \in Nat /\ h < End(f) /\ f.off \in Nat /\ End(f) \in Nat
        /\ Stopped(l, L, G, b.total, p, f, h) /\ Tail(l, f, h) /\ Start(f) < l[h]
    BY <1>1, MeetsIs
  <1>3. PICK n, a, s : n = End(f) /\ a = Split(b, h, f) /\ s = Start(f)
    OBVIOUS
  <1>4. n \in Units /\ f.more
    BY <1>2, <1>3, BeyondFragment
  <1>6. \A v \in L : v <= h \/ n < v
    BY <1>2, <1>3, PlaceBehind
  <1>7. n \notin L /\ n # h /\ h < n /\ h < f.off
    BY <1>2, <1>3, <1>6 DEF FromItsStart
  <1>0. 0 \notin L
    BY <1>2, <1>7 DEF Meets, Arrived
  <1>5. HoleSplit(b, h, n, s, a)
    BY <1>2, <1>3, <1>4, <1>7, SplitIs
  <1>8. PICK K : K = L \cup {n}
    OBVIOUS
  <1>9. Linked(a.first, a.desc, K)
    BY <1>0, <1>2, <1>4, <1>5, <1>6, <1>7, <1>8, LinkedSplit
  <1>10. PICK k : k = Lasts(a.desc)
    OBVIOUS
  <1>11. Filled(l, L, f, h, k, K)
    <2>1. \A v \in Units : k[v] = IF v = h THEN s ELSE IF v = n THEN l[h] ELSE l[v]
      BY <1>1, <1>2, <1>5, <1>10 DEF HoleSplit, Lasts
    <2> QED BY <1>2, <1>3, <1>4, <1>7, <1>8, <2>1 DEF Filled
  <1>12. Exact(k, K, G \cup Span(f), TotalAfter(b.total, f))
    BY <1>2, <1>11, FilledExact
  <1>13. PICK U : U = {n, h} \cup ({b.desc[h].next} \ {0})
    OBVIOUS
  <1>14. a \in Buffers /\ a.total = TotalAfter(b.total, f) /\ Touches(b, a, U)
    BY <1>4, <1>5, <1>13 DEF HoleSplit, TotalAfter
  <1>15. U \in SUBSET (L \cup K)
    <2>1. PICK d : d = b.desc[h]
      OBVIOUS
    <2>2. (d.next = 0 \/ d.next \in L) /\ (d.prev = 0 \/ d.prev \in L)
      BY <1>2, <2>1, Neighbours
    <2> QED BY <1>2, <1>8, <1>13, <2>1, <2>2
  <1>16. K \in SUBSET Units /\ \A u \in K : u \in L \/ (f.more /\ u = End(f))
    BY <1>2, <1>3, <1>4, <1>8
  <1>17. Open(Copy(a, f), K, p, G \cup Span(f))
    BY <1>2, <1>9, <1>10, <1>12, <1>14, <1>15, <1>16, OpenAfter
  <1>18. 0 \notin K
    BY <1>0, <1>2, <1>7, <1>8
  <1> QED BY <1>3, <1>16, <1>17, <1>18

(* Truncating and shortening hole h leaves the links and the other holes alone. *)
SameLinks(b, h, c) ==
    /\ c \in Buffers /\ c.first = b.first /\ Touches(b, c, {h})
    /\ \A v \in Units : /\ c.desc[v].hole = b.desc[v].hole /\ c.desc[v].next = b.desc[v].next
                        /\ c.desc[v].prev = b.desc[v].prev
                        /\ v # h => c.desc[v].last = b.desc[v].last

LEMMA TruncatedLinks ==
    ASSUME NEW b \in Buffers, NEW h \in Units, NEW f \in Fragments, Fits(f)
    PROVE  SameLinks(b, h, Truncated(b, h, f)) /\ Truncated(b, h, f).total = TotalAfter(b.total, f)
  <1>1. PICK t : t = Truncated(b, h, f)
    OBVIOUS
  <1>2. /\ t \in Buffers /\ t.first = b.first /\ Touches(b, t, {h})
        /\ t.total = TotalAfter(b.total, f)
        /\ t.desc = IF f.more THEN b.desc ELSE [b.desc EXCEPT ![h] = [@ EXCEPT !.last = Finish(f)]]
    BY <1>1, TruncatedIs DEF TotalAfter
  <1>3. b.desc \in [Units -> Descs]
    BY DEF Buffers
  <1>4. ASSUME NEW v \in Units
        PROVE  /\ t.desc[v].hole = b.desc[v].hole /\ t.desc[v].next = b.desc[v].next
               /\ t.desc[v].prev = b.desc[v].prev
               /\ v # h => t.desc[v].last = b.desc[v].last
    <2>1. CASE f.more
      BY <1>2, <2>1
    <2>2. CASE ~f.more
      BY <1>2, <1>3, <2>2 DEF Descs
    <2> QED BY <2>1, <2>2
  <1> QED BY <1>1, <1>2, <1>4 DEF SameLinks

LEMMA ShortenedLinks ==
    ASSUME NEW b \in Buffers, NEW h \in Units, NEW f \in Fragments, Fits(f), NEW a,
           a = Shortened(Truncated(b, h, f), h, f)
    PROVE  SameLinks(b, h, a) /\ a.total = TotalAfter(b.total, f) /\ a.desc[h].last = Start(f)
  <1>1. PICK t, s : t = Truncated(b, h, f) /\ s = Start(f)
    OBVIOUS
  <1>2. SameLinks(b, h, t) /\ t.total = TotalAfter(b.total, f)
    BY <1>1, TruncatedLinks
  <1>3. t \in Buffers /\ t.desc \in [Units -> Descs]
    BY <1>2 DEF SameLinks, Buffers
  <1>4. s \in 0..Infinity
    BY <1>1, FragmentIs, Sizes DEF Fits
  <1>5. a = SetLast(t, h, s)
    BY <1>1 DEF Shortened
  <1>6. /\ SetLast(t, h, s) \in Buffers
        /\ SetLast(t, h, s).first = t.first /\ SetLast(t, h, s).total = t.total
        /\ SetLast(t, h, s).desc = [t.desc EXCEPT ![h] = [@ EXCEPT !.last = s]]
        /\ Touches(t, SetLast(t, h, s), {h})
    BY <1>3, <1>4, SetLastIs
  <1>7. /\ a \in Buffers /\ a.first = t.first /\ a.total = t.total /\ Touches(t, a, {h})
        /\ a.desc = [t.desc EXCEPT ![h] = [@ EXCEPT !.last = s]]
    BY <1>5, <1>6
  <1>8. \A v \in Units : /\ a.desc[v].hole = t.desc[v].hole /\ a.desc[v].next = t.desc[v].next
                         /\ a.desc[v].prev = t.desc[v].prev
                         /\ v # h => a.desc[v].last = t.desc[v].last
                         /\ v = h => a.desc[v].last = s
    BY <1>3, <1>7 DEF Descs
  <1>9. Touches(b, a, {h})
    BY <1>2, <1>7 DEF Touches, SameLinks
  <1> QED BY <1>1, <1>2, <1>7, <1>8, <1>9 DEF SameLinks

(* A fragment that borders on the hole has come before. *)
LEMMA Bordering ==
    ASSUME Sent, NEW l, NEW L, NEW G, NEW T, NEW p, NEW f, NEW h, Stopped(l, L, G, T, p, f, h),
           l[h] = Start(f)
    PROVE  Span(f) \subseteq G /\ TotalAfter(T, f) = T
  <1>1. f \in Fragments /\ f.pkt = p /\ p \in Packets /\ h \in L /\ h \in Nat /\ Came(p, G, T)
    BY FragmentIs DEF Stopped
  <1>2. PICK s : s = Start(f)
    OBVIOUS
  <1>3. /\ s \in Nat /\ Finish(f) \in Nat /\ s < Finish(f) /\ Finish(f) <= Length[p]
        /\ ~f.more => Finish(f) = Length[p]
    BY <1>1, <1>2, FragmentIs
  <1>4. /\ T \in Nat /\ Length[p] \in Nat /\ Length[p] <= T
        /\ T = Length[p] <=> Length[p] - 1 \in G
    BY <1>1, TotalIs
  <1>5. /\ At(h) \in Nat /\ At(h) + Unit <= s /\ (s = T \/ s \in G) /\ Unit \in Nat \ {0}
        /\ \A i \in G : ~(At(h) <= i /\ i < s)
    BY <1>1, <1>2, AtStep, Sizes DEF Stopped, Exact
  <1>6. s \in G /\ At(h) <= s - 1 /\ s - 1 < s
    BY <1>3, <1>4, <1>5
  <1>7. s - 1 \notin G
    BY <1>5, <1>6
  <1>8. Span(f) \subseteq G
    BY <1>1, <1>2, <1>6, <1>7, Adjacent
  <1>9. ASSUME ~f.more PROVE Finish(f) = T
    <2>1. PICK j : j = Length[p] - 1
      OBVIOUS
    <2>2. j \in Nat /\ s <= j /\ j < Finish(f)
      BY <1>3, <1>4, <1>9, <2>1
    <2>3. j \in Span(f)
      BY <1>1, <1>2, <2>2, FragmentIs
    <2> QED BY <1>3, <1>4, <1>8, <1>9, <2>1, <2>3
  <1> QED BY <1>8, <1>9 DEF TotalAfter

LEMMA ShortenKeeps ==
    ASSUME Sent, NEW b, NEW L, NEW p, NEW G, NEW f, NEW h, Meets(b, L, p, G, f, h),
           ~FromItsStart(f, h), ToItsEnd(f, b, h), NEW a, a = Shortened(Truncated(b, h, f), h, f)
    PROVE  0 \notin L /\ L \in SUBSET Units /\ Open(Copy(a, f), L, p, G \cup Span(f))
  <1>1. PICK l : l = Lasts(b.desc)
    OBVIOUS
  <1>2. /\ b \in Buffers /\ Linked(b.first, b.desc, L) /\ Open(b, L, p, G)
        /\ L \in SUBSET Units /\ L \in SUBSET Nat
        /\ f \in Fragments /\ f.pkt = p /\ Fits(f)
        /\ h \in L /\ h \in Units /\ h \in Nat /\ f.off \in Nat
        /\ Stopped(l, L, G, b.total, p, f, h) /\ ~Tail(l, f, h) /\ h < End(f)
        /\ Start(f) < l[h] <=> ~(l[h] = Start(f))
    BY <1>1, MeetsIs
  <1>3. h < f.off
    BY <1>2 DEF FromItsStart
  <1>4. 0 \notin L
    BY <1>2, <1>3 DEF Meets, Arrived
  <1>5. SameLinks(b, h, a) /\ a.total = TotalAfter(b.total, f) /\ a.desc[h].last = Start(f)
    BY <1>2, ShortenedLinks
  <1>6. a \in Buffers /\ a.first = b.first /\ Touches(b, a, {h})
    BY <1>5 DEF SameLinks
  <1>7. Linked(a.first, a.desc, L)
    <2>1. \A u \in L : /\ a.desc[u].hole = b.desc[u].hole /\ a.desc[u].next = b.desc[u].next
                       /\ a.desc[u].prev = b.desc[u].prev
      BY <1>2, <1>5 DEF SameLinks
    <2> QED BY <1>2, <1>6, <2>1, LinkedSame
  <1>8. PICK k : k = Lasts(a.desc)
    OBVIOUS
  <1>9. \A v \in L : k[v] = IF v = h THEN Start(f) ELSE l[v]
    BY <1>1, <1>2, <1>5, <1>8 DEF SameLinks, Lasts
  <1>10. Exact(k, L, G \cup Span(f), TotalAfter(b.total, f))
    <2>1. CASE Start(f) < l[h]
      <3>1. Filled(l, L, f, h, k, L)
        BY <1>2, <1>3, <1>9 DEF Filled
      <3> QED BY <1>2, <2>1, <3>1, FilledExact
    <2>2. CASE l[h] = Start(f)
      <3>1. Span(f) \subseteq G /\ TotalAfter(b.total, f) = b.total
        BY <1>2, <2>2, Bordering
      <3>2. G \cup Span(f) = G
        BY <3>1
      <3>3. Exact(l, L, G, b.total)
        BY <1>2 DEF Stopped
      <3>4. \A v \in L : k[v] = l[v]
        BY <1>9, <2>2
      <3>5. Exact(k, L, G, b.total)
        BY <3>3, <3>4, ExactSame
      <3> QED BY <3>1, <3>2, <3>5
    <2> QED BY <1>2, <2>1, <2>2
  <1>11. PICK U : U = {h}
    OBVIOUS
  <1>12. U \in SUBSET (L \cup L) /\ Touches(b, a, U)
    BY <1>2, <1>6, <1>11
  <1>13. Open(Copy(a, f), L, p, G \cup Span(f))
    BY <1>2, <1>5, <1>6, <1>7, <1>8, <1>10, <1>12, OpenAfter
  <1> QED BY <1>2, <1>4, <1>13

(* What the packet p is returned as, whole. *)
WholePacket(p) == [len |-> Length[p], bytes |-> (0..(Length[p] - 1)) \X {p}]

LEMMA ReturnedIs ==
    ASSUME NEW c \in Buffers, NEW p \in Packets, c.total = Length[p],
           0..(Length[p] - 1) \subseteq Bytes, \A i \in 0..(Length[p] - 1) : c.bytes[i] = p
    PROVE  Returned(c) = WholePacket(p)
  <1>1. PICK m \in Nat : m = Length[p]
    BY Sizes
  <1>2. {j \in Bytes : j < m} = 0..(m - 1)
    BY <1>1, Sizes DEF Bytes
  <1>3. {<<i, c.bytes[i]>> : i \in 0..(m - 1)} = (0..(m - 1)) \X {p}
    <2>1. \A i \in 0..(m - 1) : c.bytes[i] = p
      BY <1>1
    <2>2. {<<i, c.bytes[i]>> : i \in 0..(m - 1)} = {<<i, p>> : i \in 0..(m - 1)}
      BY <2>1
    <2>3. {<<i, p>> : i \in 0..(m - 1)} = (0..(m - 1)) \X {p}
      OBVIOUS
    <2> QED BY <2>2, <2>3
  <1> QED BY <1>1, <1>2, <1>3 DEF Returned, WholePacket

(* Without a hole, all of the packet has come. *)
LEMMA NoHoleLeft ==
    ASSUME NEW p \in Packets, NEW k, NEW H, NEW W, Exact(k, {}, H, W), Came(p, H, W)
    PROVE  H = 0..(Length[p] - 1) /\ W = Length[p]
  <1>1. /\ W \in Nat /\ Length[p] \in Nat /\ Infinity \in Nat /\ Length[p] < Infinity
        /\ W = Length[p] \/ W = Infinity
        /\ \A i \in H : i \in Nat /\ i < Length[p]
    BY TotalIs
  <1>2. \A i \in Nat : i < W => i \in H
    BY DEF Exact
  <1>3. W = Length[p]
    BY <1>1, <1>2
  <1>4. PICK m \in Nat : m = Length[p]
    BY <1>1
  <1>5. \A i : i \in H <=> i \in 0..(m - 1)
    BY <1>1, <1>2, <1>3, <1>4
  <1>6. H = 0..(m - 1)
    BY <1>5
  <1> QED BY <1>3, <1>4, <1>6

(* The descriptor at h, the last of them, is overwritten. *)
LEMMA Overwritten ==
    ASSUME NEW f \in Fragments, Fits(f), NEW h \in Units, f.off <= h, h < End(f), NEW a \in Buffers
    PROVE  ~Copy(a, f).desc[h].hole
  <1>1. h \in Nat /\ f.off \in Nat /\ End(f) \in Nat
    BY FragmentIs, Sizes
  <1>2. PICK o, n \in Nat : o = f.off /\ n = End(f)
    BY <1>1
  <1>3. At(o) <= At(h) /\ At(h) < At(n) /\ At(h) \in Nat /\ At(n) \in Nat /\ At(h) \in Int
    <2>1. o <= h /\ h < n
      BY <1>2
    <2>2. At(o) <= At(h)
      BY <1>1, <2>1, AtMono
    <2>3. At(h) < At(n)
      BY <1>1, <2>1, AtMono
    <2> QED BY <1>1, <2>2, <2>3, AtStep
  <1>4. /\ Start(f) = At(o) /\ At(n) <= Finish(f) /\ Finish(f) \in Nat /\ Finish(f) <= MaxUdp
    BY <1>2, FragmentIs DEF Fits
  <1>5. At(h) \in Span(f)
    BY <1>3, <1>4, FragmentIs
  <1>6. At(h) \in Bytes
    BY <1>3, <1>4, Sizes DEF Bytes
  <1>7. At(h) \in UnitOf(h)
    <2>1. PICK i : i = At(h)
      OBVIOUS
    <2>2. i \in UnitOf(h)
      <3>1. i \in Bytes /\ At(h) <= i /\ i < At(h) + Unit
        BY <1>3, <1>6, <2>1, Sizes
      <3> QED BY <1>1, <3>1, InUnit
    <2> QED BY <2>1, <2>2
  <1>8. Copy(a, f).desc[h] = NoHole
    BY <1>5, <1>7, CopyIs
  <1> QED BY <1>8 DEF NoHole

(* The buffer c holds the packet p, of which the bytes H have come, and no hole. *)
Finished(c, p, H) ==
    /\ c \in Buffers /\ Returned(c) = WholePacket(p)
    /\ ~c.desc[c.first].hole /\ H = 0..(Length[p] - 1)

LEMMA FillKeeps ==
    ASSUME Sent, NEW b, NEW L, NEW p, NEW G, NEW f, NEW h, Meets(b, L, p, G, f, h),
           FromItsStart(f, h), ToItsEnd(f, b, h), NEW t, t = Truncated(b, h, f),
           NEW c, c = Copy(Removed(t, h), f)
    PROVE  /\ Done(t, h) => Finished(c, p, G \cup Span(f))
           /\ ~Done(t, h) => \E K \in SUBSET Units : 0 \notin K /\ Open(c, K, p, G \cup Span(f))
  <1>1. PICK l : l = Lasts(b.desc)
    OBVIOUS
  <1>2. /\ b \in Buffers /\ Linked(b.first, b.desc, L) /\ Open(b, L, p, G)
        /\ L \in SUBSET Units /\ L \in SUBSET Nat
        /\ f \in Fragments /\ f.pkt = p /\ Fits(f)
        /\ h \in L /\ h \in Units /\ h \in Nat /\ f.off \in Nat
        /\ Stopped(l, L, G, b.total, p, f, h) /\ ~Tail(l, f, h) /\ h < End(f)
        /\ ~(h < f.off) => Start(f) < l[h]
    BY <1>1, MeetsIs
  <1>3. ~(h < f.off) /\ f.off <= h /\ Start(f) < l[h]
    BY <1>2 DEF FromItsStart
  <1>4. SameLinks(b, h, t) /\ t.total = TotalAfter(b.total, f)
    BY <1>2, TruncatedLinks
  <1>5. t \in Buffers /\ t.first = b.first /\ Touches(b, t, {h})
    BY <1>4 DEF SameLinks
  <1>6. Linked(t.first, t.desc, L)
    <2>1. \A u \in L : /\ t.desc[u].hole = b.desc[u].hole /\ t.desc[u].next = b.desc[u].next
                       /\ t.desc[u].prev = b.desc[u].prev
      BY <1>2, <1>4 DEF SameLinks
    <2> QED BY <1>2, <1>5, <2>1, LinkedSame
  <1>7. PICK a, d, k, K : a = Removed(t, h) /\ d = t.desc[h] /\ k = Lasts(a.desc) /\ K = L \ {h}
    OBVIOUS
  <1>8. HoleRemoved(t, h, a)
    BY <1>2, <1>5, <1>7, RemovedIs
  <1>9. a \in Buffers /\ a.total = TotalAfter(b.total, f) /\ c = Copy(a, f)
    BY <1>4, <1>7, <1>8 DEF HoleRemoved
  <1>10. Filled(l, L, f, h, k, K)
    <2>1. \A v \in Units : v # h => k[v] = l[v]
      BY <1>1, <1>4, <1>7, <1>8 DEF HoleRemoved, SameHole, SameLinks, Lasts
    <2> QED BY <1>2, <1>3, <1>7, <2>1 DEF Filled
  <1>11. PICK H, W : H = G \cup Span(f) /\ W = TotalAfter(b.total, f)
    OBVIOUS
  <1>12. Exact(k, K, H, W)
    BY <1>2, <1>3, <1>10, <1>11, FilledExact
  <1>13. PICK U : U = {h} \cup ({d.prev, d.next} \ {0})
    OBVIOUS
  <1>14. /\ d.next = 0 \/ (d.next \in L /\ h < d.next)
         /\ d.prev = 0 \/ (d.prev \in L /\ d.prev < h)
         /\ IsNext(L, h, d.next) /\ IsPrev(L, h, d.prev)
    BY <1>2, <1>5, <1>6, <1>7, Neighbours
  <1>15. U \in SUBSET (L \cup K)
    BY <1>2, <1>13, <1>14
  <1>16. Touches(b, a, U)
    <2>1. Touches(t, a, {d.prev, d.next} \ {0})
      BY <1>7, <1>8 DEF HoleRemoved
    <2> QED BY <1>5, <1>13, <2>1, TouchesMore
  <1>17. K \in SUBSET Units /\ \A u \in K : u \in L \/ (f.more /\ u = End(f))
    BY <1>2, <1>7
  <1>18. CASE Done(t, h)
    <2>1. d.prev = 0 /\ d.next = 0
      BY <1>7, <1>18 DEF Done
    <2>2. L = {h}
      <3>1. ASSUME NEW v \in L PROVE v = h
        <4>1. v \in Nat /\ ~(h < 0) /\ ~(0 \in L /\ 0 < h)
          <5>1. 0 \in L => h = 0
            BY <1>2 DEF Linked
          <5> QED BY <1>2, <5>1
        <4>2. v <= h
          BY <1>2, <1>14, <2>1, <4>1 DEF IsNext
        <4>3. h <= v
          BY <1>2, <1>14, <2>1, <4>1 DEF IsPrev
        <4> QED BY <1>2, <4>1, <4>2, <4>3
      <3> QED BY <1>2, <3>1
    <2>3. K = {}
      BY <1>7, <2>2
    <2>4. Came(p, H, W) /\ p \in Packets
      BY <1>2, <1>11, CameMore, FragmentIs DEF Open
    <2>5. H = 0..(Length[p] - 1) /\ W = Length[p]
      BY <1>12, <2>3, <2>4, NoHoleLeft
    <2>6. \A i \in H : c.bytes[i] = p
      <3>1. PICK T : T = b.total
        OBVIOUS
      <3>2. /\ Exact(Lasts(b.desc), L, G, T) /\ G \subseteq Bytes
            /\ \A i \in G : b.bytes[i] = f.pkt
        BY <1>2, <3>1 DEF Open, Came
      <3>3. Changed(b, L, T, a, K, W, U, G, f)
        BY <1>2, <1>7, <1>9, <1>11, <1>12, <1>15, <1>16, <1>17, <3>2 DEF Changed
      <3>4. \A i \in G \cup Span(f) : Copy(a, f).bytes[i] = f.pkt
        BY <3>3, DataKept
      <3> QED BY <1>2, <1>9, <1>11, <3>4
    <2>7. c \in Buffers /\ c.total = Length[p] /\ c.first = a.first
      BY <1>2, <1>9, <1>11, <2>5, CopyIs
    <2>8. Returned(c) = WholePacket(p)
      <3>1. 0..(Length[p] - 1) \subseteq Bytes
        BY <2>4, <2>5 DEF Came
      <3> QED BY <2>4, <2>5, <2>6, <2>7, <3>1, ReturnedIs
    <2>9. c.first = h
      <3>1. a.first = t.first
        BY <1>7, <1>8, <2>1 DEF HoleRemoved
      <3>2. b.first \in L
        BY <1>2 DEF Linked
      <3> QED BY <1>5, <2>2, <2>7, <3>1, <3>2
    <2>10. ~c.desc[h].hole
      BY <1>2, <1>3, <1>9, Overwritten
    <2> QED BY <1>11, <1>18, <2>5, <2>7, <2>8, <2>9, <2>10 DEF Finished
  <1>19. CASE ~Done(t, h)
    <2>1. L # {h}
      <3>1. d.prev # 0 \/ d.next # 0
        BY <1>7, <1>19 DEF Done
      <3> QED BY <1>2, <1>14, <3>1
    <2>2. Linked(a.first, a.desc, K)
      BY <1>2, <1>5, <1>6, <1>7, <1>8, <2>1, LinkedRemoved
    <2>3. Open(Copy(a, f), K, p, G \cup Span(f))
      BY <1>2, <1>7, <1>9, <1>11, <1>12, <1>15, <1>16, <1>17, <2>2, OpenAfter
    <2>4. 0 \notin K
      BY <1>2, <1>7, <2>1 DEF Linked
    <2> QED BY <1>9, <1>17, <1>19, <2>3, <2>4
  <1> QED BY <1>18, <1>19

-----------------------------------------------------------------------------
(* The invariant is kept.                                                     *)

(* The data where the last hole was stops the walk, if it is not a descriptor. *)
LEMMA StaysAtData ==
    ASSUME NEW b \in Buffers, ~b.desc[b.first].hole, NEW start
    PROVE  FindHole(b, start) = b.first
  <1>1. PICK at : Walk(at, LastUnit, b.first, Passing(b, start)) /\ FindHole(b, start) = at[LastUnit]
    BY FindHoleWalks
  <1>2. LastUnit \in Nat /\ b.first \in Units
    BY Sizes DEF LastUnit, Buffers
  <1>3. Passing(b, start)[b.first] = b.first
    BY <1>2 DEF Passing
  <1> DEFINE S == {k \in 0..LastUnit : at[k] = b.first}
  <1>4. 0 \in S
    BY <1>1, <1>2 DEF Walk
  <1>5. ASSUME NEW k \in 0..(LastUnit - 1), k \in S PROVE k + 1 \in S
    <2>1. k + 1 \in 1..LastUnit /\ (k + 1) - 1 = k /\ at[k] = b.first
      BY <1>2, <1>5
    <2>2. at[k + 1] = Passing(b, start)[at[k]]
      BY <1>1, <2>1 DEF Walk
    <2> QED BY <1>3, <2>1, <2>2
  <1>6. LastUnit \in S
    <2> HIDE DEF S
    <2>1. \A k \in 0..LastUnit : k \in S
      BY <1>2, <1>4, <1>5, IntervalInduction
    <2> QED BY <1>2, <2>1
  <1> QED BY <1>1, <1>6

(* A packet begins as one hole, of which its first fragment takes the start. *)
LEMMA BegunOpen ==
    ASSUME NEW f \in Fragments, Fits(f), f.off = 0,
           NEW b \in Buffers, b.first = 0, b.total = Infinity, b.desc[0] = Whole
    PROVE  Arrived(b, {0}, f.pkt, {}, f)
  <1>1. f.more /\ f.pkt \in Packets
    BY FragmentIs
  <1>2. Unit <= Infinity /\ Unit \in Nat /\ Infinity \in Nat /\ At(0) = 0
    <2>1. At(End(f)) <= MaxUdp /\ End(f) \in Nat /\ At(End(f)) \in Nat /\ At(End(f)) > 0
      BY <1>1, FragmentIs, AtStep DEF Fits
    <2>2. At(0) = 0 /\ At(1) = Unit
      BY Sizes DEF At
    <2>3. 1 <= End(f)
      BY <2>1, <2>2
    <2>4. At(1) <= At(End(f))
      BY <2>1, <2>3, AtMono
    <2> QED BY <2>1, <2>2, <2>4, Sizes
  <1>3. Linked(b.first, b.desc, {0})
    <2>1. IsNext({0}, 0, 0) /\ IsPrev({0}, 0, 0)
      BY DEF IsNext, IsPrev
    <2>2. b.desc[0].hole /\ b.desc[0].next = 0 /\ b.desc[0].prev = 0
      BY DEF Whole
    <2> QED BY <2>1, <2>2, Sizes DEF Linked
  <1>4. Exact(Lasts(b.desc), {0}, {}, b.total)
    <2>1. Lasts(b.desc)[0] = Infinity
      BY Sizes DEF Lasts, Whole
    <2>2. PICK l : l = Lasts(b.desc)
      OBVIOUS
    <2>3. Exact(l, {0}, {}, Infinity)
      BY <1>2, <2>1, <2>2 DEF Exact
    <2> QED BY <2>2, <2>3
  <1>5. Came(f.pkt, {}, b.total)
    BY DEF Came
  <1>6. Open(b, {0}, f.pkt, {})
    BY <1>3, <1>4, <1>5 DEF Open
  <1> QED BY <1>6, Sizes DEF Arrived

(* What the code works on, unless the packet is complete. *)
LEMMA ArrivedNow ==
    ASSUME Sent, DefragInv, NEW f \in Fragments, Arrives(f), Fits(f), Fresh(f) \/ ~complete
    PROVE  \E L : Arrived(Begun(f), L, f.pkt, Known(f), f)
  <1>1. TypeOK
    BY DEF DefragInv
  <1>2. CASE Fresh(f)
    <2>1. PICK b : b = Begun(f)
      OBVIOUS
    <2>2. b \in Buffers /\ b.first = 0 /\ b.total = Infinity /\ b.desc[0] = Whole
      BY <1>1, <1>2, <2>1, BegunIs
    <2>3. f.off = 0
      BY <1>2 DEF Arrives, Sent
    <2>4. Arrived(b, {0}, f.pkt, {}, f)
      BY <2>2, <2>3, BegunOpen
    <2> QED BY <1>2, <2>1, <2>4 DEF Known
  <1>3. CASE ~Fresh(f)
    <2>1. Begun(f) = Buffer /\ Known(f) = got /\ total_len # 0 /\ ip_id = Id[f.pkt] /\ ~complete
      BY <1>3 DEF Begun, Known, Fresh
    <2>2. PICK p \in Packets, L \in SUBSET Units :
              ip_id = Id[p] /\ 0 \notin L /\ Open(Buffer, L, p, got)
      BY <2>1 DEF DefragInv
    <2>3. f.pkt = p
      BY <2>1, <2>2, FragmentIs DEF Sent
    <2> QED BY <2>1, <2>2, <2>3 DEF Arrived
  <1> QED BY <1>2, <1>3

LEMMA BecomesBuffer ==
    ASSUME NEW c \in Buffers, NEW f, Becomes(c, f)
    PROVE  Buffer' = c /\ total_len' = c.total /\ ip_id' = IF Fresh(f) THEN Id[f.pkt] ELSE ip_id
  BY DEF Becomes, Buffer, Buffers

LEMMA OpenInv ==
    ASSUME DefragInv, TypeOK', NEW f \in Fragments, Arrives(f), NEW c, NEW K \in SUBSET Units, 0 \notin K,
           Open(c, K, f.pkt, Known(f) \cup Span(f)), Becomes(c, f), Comes(f),
           out' = NoOut, complete' = FALSE, confused' = confused
    PROVE  DefragInv'
  <1>1. PICK G : G = Known(f) \cup Span(f)
    OBVIOUS
  <1>2. c \in Buffers /\ Open(c, K, f.pkt, G) /\ Came(f.pkt, G, c.total) /\ f.pkt \in Packets
    BY <1>1, FragmentIs DEF Open
  <1>3. c.total # 0
    <2>1. PICK T : T = c.total
      OBVIOUS
    <2>2. PICK p \in Packets : p = f.pkt
      BY <1>2
    <2>3. Length[p] <= T /\ T \in Nat /\ Length[p] \in Nat
      BY <1>2, <2>1, <2>2, TotalIs
    <2>4. Length[p] >= 1
      BY Sizes
    <2> QED BY <2>1, <2>3, <2>4
  <1>4. Buffer' = c /\ total_len' = c.total /\ got' = G
    BY <1>1, <1>2, BecomesBuffer DEF Comes
  <1>5. ip_id' = Id[f.pkt]
    BY <1>2, BecomesBuffer DEF Fresh
  <1>6. ~confused /\ ~confused' /\ ~complete' /\ total_len' # 0
    BY <1>3, <1>4 DEF Arrives
  <1>7. ReturnsWhole'
    BY DEF ReturnsWhole
  <1>8. Open(Buffer', K, f.pkt, got')
    BY <1>2, <1>4
  <1> QED BY <1>2, <1>5, <1>6, <1>7, <1>8 DEF DefragInv

(* A copy that comes when the packet was returned reads data, and changes nothing. *)
LEMMA LateStep ==
    ASSUME Sent, DefragInv, TypeOK', NEW f \in Fragments, Arrives(f), Fits(f), ~Fresh(f), complete
    PROVE  /\ ~Begun(f).desc[FindHole(Begun(f), Start(f))].hole
           /\ ReadsData(f) => DefragInv'
  <1>1. PICK b : b = Buffer
    OBVIOUS
  <1>2. b \in Buffers /\ Begun(f) = b
    BY <1>1, BufferTypes DEF DefragInv, Begun
  <1>3. PICK p \in Packets : ip_id = Id[p] /\ Closed(p)
    BY DEF DefragInv
  <1>4. ~b.desc[b.first].hole /\ b.first = first_hole /\ b.desc = desc
    BY <1>1, <1>3 DEF Closed, Buffer
  <1>5. FindHole(b, Start(f)) = b.first
    BY <1>2, <1>4, StaysAtData
  <1>6. ASSUME ReadsData(f) PROVE DefragInv'
    <2>1. Becomes(b, f) /\ Keeps(f)
      BY <1>2, <1>6 DEF ReadsData
    <2>2. total_len' = total_len /\ first_hole' = first_hole /\ desc' = desc /\ ip_id' = ip_id
      BY <1>1, <2>1 DEF Becomes, Buffer
    <2>3. f.pkt = p
      BY <1>3, FragmentIs DEF Fresh, Sent
    <2>4. Span(f) \subseteq got
      <3>1. SUFFICES ASSUME NEW i \in Span(f) PROVE i \in got
        OBVIOUS
      <3>2. i \in Nat /\ i < Finish(f) /\ Finish(f) \in Nat /\ Finish(f) <= Length[p] /\ Length[p] \in Nat
        BY <2>3, FragmentIs, Sizes
      <3> QED BY <1>3, <3>2 DEF Closed
    <2>5. got' = got
      BY <2>1, <2>4 DEF Keeps, Comes, Known
    <2>6. out' = NoOut /\ complete'
      BY <2>1 DEF Keeps
    <2>7. ReturnsWhole'
      BY <2>6 DEF ReturnsWhole
    <2>8. Closed(p)'
      BY <1>3, <2>2, <2>5 DEF Closed
    <2>9. total_len' # 0
      BY <2>2 DEF Fresh
    <2> QED BY <1>3, <2>2, <2>6, <2>7, <2>8, <2>9 DEF DefragInv
  <1> QED BY <1>2, <1>4, <1>5, <1>6

LEMMA DoneInv ==
    ASSUME DefragInv, TypeOK', NEW f \in Fragments, NEW c, Becomes(c, f), Comes(f),
           Finished(c, f.pkt, Known(f) \cup Span(f)), out' = Returned(c), complete' = TRUE
    PROVE  DefragInv'
  <1>1. f.pkt \in Packets /\ Length[f.pkt] >= 1 /\ Length[f.pkt] \in Nat
    BY FragmentIs, Sizes
  <1>2. c.total = Length[f.pkt]
    BY DEF Returned, WholePacket, Finished
  <1>3. /\ total_len' = c.total /\ first_hole' = c.first /\ desc' = c.desc /\ ip_id' = Id[f.pkt]
    BY DEF Becomes, Fresh
  <1>4. Closed(f.pkt)'
    <2>1. got' = 0..(Length[f.pkt] - 1)
      BY DEF Comes, Finished
    <2> QED BY <1>3, <2>1 DEF Closed, Finished
  <1>5. ReturnsWhole'
    BY <1>1 DEF ReturnsWhole, WholePacket, Finished
  <1>6. total_len' # 0
    BY <1>1, <1>2, <1>3
  <1> QED BY <1>1, <1>3, <1>4, <1>5, <1>6 DEF DefragInv

LEMMA InvStep ==
    ASSUME Sent, DefragInv, [Next]_vars
    PROVE  DefragInv'
  <1>0. TypeOK' /\ TypeOK
    <2>1. TypeOK
      BY DEF DefragInv
    <2> QED BY <2>1, TypeStep
  <1>1. CASE UNCHANGED vars
    BY <1>1 DEF vars, DefragInv, TypeOK, ReturnsWhole, Closed, Buffer
  <1>2. ASSUME NEW f \in Fragments, TooFar(f) PROVE DefragInv'
    <2>1. ReturnsWhole'
      BY <1>2 DEF TooFar, ReturnsWhole
    <2> QED BY <1>0, <1>2, <2>1 DEF TooFar, DefragInv, Closed, Buffer
  <1>3. ASSUME NEW f \in Fragments,
               \/ NothingToFill(f) \/ ReadsData(f)
               \/ FillHole(f) \/ ShortenHole(f) \/ MoveHole(f) \/ SplitHole(f)
        PROVE  DefragInv'
    <2>1. PICK b : b = Begun(f)
      OBVIOUS
    <2>2. PICK h : h = FindHole(b, Start(f))
      OBVIOUS
    <2>3. Arrives(f) /\ Fits(f)
      BY <1>3 DEF NothingToFill, ReadsData, FillHole, ShortenHole, MoveHole, SplitHole, Fills
    <2>4. CASE ~Fresh(f) /\ complete
      <3>1. ~b.desc[h].hole /\ (ReadsData(f) => DefragInv')
        BY <1>0, <2>1, <2>2, <2>3, <2>4, LateStep
      <3>2. ReadsData(f)
        BY <1>3, <2>1, <2>2, <3>1 DEF NothingToFill, FillHole, ShortenHole, MoveHole, SplitHole, Fills
      <3> QED BY <3>1, <3>2
    <2>5. CASE Fresh(f) \/ ~complete
      <3>1. PICK L, p, G : p = f.pkt /\ G = Known(f) /\ Arrived(b, L, p, G, f)
        BY <2>1, <2>3, <2>5, ArrivedNow
      <3>2. b.desc[h].hole /\ b \in Buffers /\ L \in SUBSET Units
        <4>1. PICK l : l = Lasts(b.desc)
          OBVIOUS
        <4>2. b.desc[h].hole
          BY <2>2, <3>1, <4>1, StopsAt
        <4> QED BY <3>1, <4>2 DEF Arrived, Open
      <3>3. ~(complete /\ ~Fresh(f))
        BY <2>5
      <3>4. CASE ReadsData(f)
        BY <2>1, <2>2, <3>2, <3>4 DEF ReadsData
      <3>5. CASE NothingToFill(f)
        <4>1. /\ b.desc[h].last < Start(f) \/ End(f) <= h
              /\ Becomes(b, f) /\ Keeps(f) /\ confused' = confused
          BY <2>1, <2>2, <3>5 DEF NothingToFill, End
        <4>2. 0 \notin L /\ Span(f) \subseteq G
          BY <2>2, <3>1, <4>1, NothingNew
        <4>3. Open(b, L, f.pkt, Known(f) \cup Span(f))
          <5>1. Known(f) \cup Span(f) = G
            BY <3>1, <4>2
          <5> QED BY <3>1, <5>1 DEF Arrived
        <4>4. out' = NoOut /\ complete' = FALSE /\ Comes(f)
          BY <3>3, <4>1 DEF Keeps
        <4> QED BY <1>0, <2>3, <3>2, <4>1, <4>2, <4>3, <4>4, OpenInv
      <3>6. CASE FillHole(f)
        <4>1. PICK t, c : t = Truncated(b, h, f) /\ c = Copy(Removed(t, h), f)
          OBVIOUS
        <4>2. /\ Meets(b, L, p, G, f, h) /\ FromItsStart(f, h) /\ ToItsEnd(f, b, h)
              /\ Becomes(c, f) /\ Comes(f) /\ confused' = confused
              /\ out' = IF Done(t, h) THEN Returned(c) ELSE NoOut
              /\ complete' = (Done(t, h) \/ (complete /\ ~Fresh(f)))
          BY <2>1, <2>2, <3>1, <3>6, <4>1 DEF FillHole, Fills, Meets
        <4>3. CASE Done(t, h)
          <5>1. Finished(c, p, G \cup Span(f))
            BY <4>1, <4>2, <4>3, FillKeeps
          <5>3. out' = Returned(c) /\ complete' = TRUE
            BY <4>2, <4>3
          <5> QED BY <1>0, <3>1, <4>2, <5>1, <5>3, DoneInv
        <4>4. CASE ~Done(t, h)
          <5>1. PICK K \in SUBSET Units : 0 \notin K /\ Open(c, K, p, G \cup Span(f))
            BY <4>1, <4>2, <4>4, FillKeeps
          <5>2. out' = NoOut /\ complete' = FALSE
            BY <3>3, <4>2, <4>4
          <5> QED BY <1>0, <2>3, <3>1, <4>2, <5>1, <5>2, OpenInv
        <4> QED BY <4>3, <4>4
      <3>7. CASE ShortenHole(f)
        <4>1. PICK a : a = Shortened(Truncated(b, h, f), h, f)
          OBVIOUS
        <4>2. /\ Meets(b, L, p, G, f, h) /\ ~FromItsStart(f, h) /\ ToItsEnd(f, b, h)
              /\ Becomes(Copy(a, f), f) /\ Keeps(f) /\ confused' = confused
          BY <2>1, <2>2, <3>1, <3>7, <4>1 DEF ShortenHole, Fills, Meets, Partly
        <4>3. 0 \notin L /\ L \in SUBSET Units /\ Open(Copy(a, f), L, p, G \cup Span(f))
          BY <4>1, <4>2, ShortenKeeps
        <4>4. out' = NoOut /\ complete' = FALSE /\ Comes(f)
          BY <3>3, <4>2 DEF Keeps
        <4> QED BY <1>0, <2>3, <3>1, <4>2, <4>3, <4>4, OpenInv
      <3>8. CASE MoveHole(f)
        <4>1. PICK c : c = Copy(Moved(b, h, f), f)
          OBVIOUS
        <4>2. /\ Meets(b, L, p, G, f, h) /\ FromItsStart(f, h) /\ ~ToItsEnd(f, b, h)
              /\ RoomBehind(f) /\ Becomes(c, f) /\ Keeps(f) /\ confused' = confused
          BY <2>1, <2>2, <3>1, <3>8, <4>1 DEF MoveHole, Fills, Meets, Partly
        <4>3. PICK K \in SUBSET Units : 0 \notin K /\ Open(c, K, p, G \cup Span(f))
          BY <4>1, <4>2, MoveKeeps
        <4>4. out' = NoOut /\ complete' = FALSE /\ Comes(f)
          BY <3>3, <4>2 DEF Keeps
        <4> QED BY <1>0, <2>3, <3>1, <4>2, <4>3, <4>4, OpenInv
      <3>9. CASE SplitHole(f)
        <4>1. PICK c : c = Copy(Split(b, h, f), f)
          OBVIOUS
        <4>2. /\ Meets(b, L, p, G, f, h) /\ ~FromItsStart(f, h) /\ ~ToItsEnd(f, b, h)
              /\ RoomBehind(f) /\ Becomes(c, f) /\ Keeps(f) /\ confused' = confused
          BY <2>1, <2>2, <3>1, <3>9, <4>1 DEF SplitHole, Fills, Meets, Partly
        <4>3. PICK K \in SUBSET Units : 0 \notin K /\ Open(c, K, p, G \cup Span(f))
          BY <4>1, <4>2, SplitKeeps
        <4>4. out' = NoOut /\ complete' = FALSE /\ Comes(f)
          BY <3>3, <4>2 DEF Keeps
        <4> QED BY <1>0, <2>3, <3>1, <4>2, <4>3, <4>4, OpenInv
      <3> QED BY <1>3, <3>4, <3>5, <3>6, <3>7, <3>8, <3>9
    <2> QED BY <2>4, <2>5
  <1>4. ASSUME NEW f \in Fragments, PastBuffer(f) PROVE DefragInv'
    <2>1. /\ out' = NoOut
          /\ UNCHANGED <<ip_id, total_len, first_hole, desc, bytes, got, complete>>
      BY <1>4 DEF PastBuffer
    <2>2. ReturnsWhole'
      BY <2>1 DEF ReturnsWhole
    <2> QED BY <1>0, <2>1, <2>2 DEF DefragInv, Closed, Buffer
  <1> QED BY <1>1, <1>2, <1>3, <1>4 DEF Next

LEMMA DefragInvariant ==
    ASSUME Sent PROVE Spec => []DefragInv
  <1>1. Init => DefragInv
    <2>1. SUFFICES ASSUME Init PROVE DefragInv
      OBVIOUS
    <2>2. NoHole \in Descs /\ 0 \in 0..Infinity
      BY Sizes DEF NoHole, Descs
    <2>3. desc \in [Units -> Descs] /\ bytes \in [Bytes -> Owners]
      BY <2>1, <2>2 DEF Init, Owners
    <2>4. TypeOK
      BY <2>1, <2>2, <2>3, Sizes, NoOutType DEF Init, TypeOK, Descs, Owners
    <2> QED BY <2>1, <2>4 DEF Init, DefragInv, ReturnsWhole
  <1>2. DefragInv /\ [Next]_vars => DefragInv'
    BY InvStep
  <1> QED BY <1>1, <1>2, PTL DEF Spec

-----------------------------------------------------------------------------
(* What the invariant says of the list.                                       *)

LEMMA HolesWalk ==
    ASSUME TypeOK
    PROVE  \E at : Walk(at, LastUnit, first_hole, Following(desc)) /\ Holes = {at[k] : k \in Units}
  <1> DEFINE at == CHOOSE f : f = [k \in Units |->
                     IF k = 0 THEN first_hole
                     ELSE LET u == f[k - 1] IN IF desc[u].next = 0 THEN u ELSE desc[u].next]
             N == Following(desc)
  <1>1. /\ LastUnit \in Nat /\ Units = 0..LastUnit /\ first_hole \in Units
        /\ desc \in [Units -> Descs]
    BY Sizes DEF LastUnit, Units, TypeOK, Descs
  <1>2. N \in [Units -> Units]
    BY <1>1 DEF Following, Descs
  <1>3. PICK g : Walk(g, LastUnit, first_hole, N)
    <2>1. PICK v, M : v = first_hole /\ M = N
      OBVIOUS
    <2>2. v \in Units /\ M \in [Units -> Units]
      BY <1>1, <1>2, <2>1
    <2>3. \E f : Walk(f, LastUnit, v, M)
      BY <1>1, <2>2, WalkExists
    <2> QED BY <2>1, <2>3
  <1>4. ASSUME NEW u \in Units PROVE N[u] = IF desc[u].next = 0 THEN u ELSE desc[u].next
    BY DEF Following
  <1>5. g = [k \in Units |->
               IF k = 0 THEN first_hole
               ELSE LET u == g[k - 1] IN IF desc[u].next = 0 THEN u ELSE desc[u].next]
    <2>1. g \in [Units -> Units] /\ g[0] = first_hole
      BY <1>1, <1>3 DEF Walk
    <2>2. ASSUME NEW k \in Units, k # 0
          PROVE  g[k] = LET u == g[k - 1] IN IF desc[u].next = 0 THEN u ELSE desc[u].next
      <3>1. k \in 1..LastUnit /\ k - 1 \in Units
        BY <1>1, <2>2
      <3>2. g[k] = N[g[k - 1]] /\ g[k - 1] \in Units
        BY <1>3, <2>1, <3>1 DEF Walk
      <3> QED BY <1>4, <3>2
    <2> QED BY <2>1, <2>2
  <1>6. at = [k \in Units |->
                IF k = 0 THEN first_hole
                ELSE LET u == at[k - 1] IN IF desc[u].next = 0 THEN u ELSE desc[u].next]
    BY <1>5
  <1>7. Holes = {at[k] : k \in Units}
    BY DEF Holes
  <1> HIDE DEF at
  <1>8. Walk(at, LastUnit, first_hole, N)
    <2> DEFINE S == {k \in Units : at[k] \in Units}
    <2>1. at[0] = first_hole
      BY <1>1, <1>6
    <2>2. ASSUME NEW k \in 0..(LastUnit - 1), at[k] \in Units
          PROVE  at[k + 1] = N[at[k]] /\ at[k + 1] \in Units
      <3>1. k + 1 \in Units /\ k + 1 # 0 /\ (k + 1) - 1 = k
        BY <1>1
      <3>2. at[k + 1] = LET u == at[k] IN IF desc[u].next = 0 THEN u ELSE desc[u].next
        <4>1. ASSUME NEW j \in Units, j # 0
              PROVE  at[j] = LET u == at[j - 1] IN IF desc[u].next = 0 THEN u ELSE desc[u].next
          BY <1>6, <4>1, Zenon
        <4>2. PICK j : j = k + 1
          OBVIOUS
        <4>3. j \in Units /\ j # 0 /\ j - 1 = k
          BY <3>1, <4>2
        <4> QED BY <4>1, <4>2, <4>3, Zenon
      <3>3. at[k + 1] = N[at[k]]
        BY <1>4, <2>2, <3>2
      <3> QED BY <1>2, <2>2, <3>3
    <2>3. 0 \in S /\ \A k \in 0..(LastUnit - 1) : k \in S => k + 1 \in S
      BY <1>1, <2>1, <2>2
    <2>4. \A k \in 0..LastUnit : k \in S
      <3>1. PICK V : V = S
        OBVIOUS
      <3>2. 0 \in V /\ \A k \in 0..(LastUnit - 1) : k \in V => k + 1 \in V
        BY <2>3, <3>1
      <3>3. \A k \in 0..LastUnit : k \in V
        BY <1>1, <3>2, IntervalInduction
      <3> QED BY <3>1, <3>3
    <2>5. at \in [0..LastUnit -> Units]
      <3>1. \A k \in Units : at[k] \in Units
        BY <1>1, <2>4
      <3>2. at = [k \in Units |-> at[k]]
        BY <1>6
      <3> QED BY <1>1, <3>1, <3>2
    <2>6. ASSUME NEW k \in 1..LastUnit PROVE at[k] = N[at[k - 1]]
      <3>1. k - 1 \in 0..(LastUnit - 1) /\ (k - 1) + 1 = k /\ at[k - 1] \in Units
        BY <1>1, <2>4
      <3> QED BY <2>2, <3>1
    <2> HIDE DEF N
    <2> QED BY <2>1, <2>5, <2>6 DEF Walk
  <1> QED BY <1>7, <1>8

(* The walk along a list that is linked through L visits all of it. *)
LEMMA VisitsAll ==
    ASSUME NEW first, NEW D \in [Units -> Descs], NEW L, Linked(first, D, L),
           NEW at, Walk(at, LastUnit, first, Following(D))
    PROVE  {at[k] : k \in Units} = L
  <1>1. /\ LastUnit \in Nat /\ Units = 0..LastUnit /\ L \subseteq Units
        /\ first \in L /\ \A v \in L : first <= v
    BY Sizes DEF LastUnit, Units, Linked
  <1>2. \A v \in L : v \in Nat
    BY <1>1
  <1>3. ASSUME NEW u \in L, NEW x, x = D[u].next
        PROVE  /\ Following(D)[u] = IF x = 0 THEN u ELSE x
               /\ x = 0 => \A v \in L : v <= u
               /\ x # 0 => x \in L /\ u < x /\ \A v \in L : v <= u \/ x <= v
    <2>1. u \in Units /\ u \in Nat /\ IsNext(L, u, x)
      BY <1>1, <1>2, <1>3 DEF Linked
    <2>2. x = 0 => \A v \in L : v <= u
      <3>1. x = 0 => ~(u < x)
        BY <2>1
      <3> QED BY <2>1, <3>1 DEF IsNext
    <2>3. x # 0 => x \in L /\ u < x /\ \A v \in L : v <= u \/ x <= v
      BY <2>1 DEF IsNext
    <2>4. Following(D)[u] = IF x = 0 THEN u ELSE x
      BY <1>3, <2>1 DEF Following
    <2> QED BY <2>2, <2>3, <2>4
  <1> DEFINE Seen(k) == \A u \in L : u <= at[k] => \E j \in 0..k : at[j] = u
             Last(w) == \A u \in L : u <= w
             S       == {k \in 0..LastUnit : at[k] \in L /\ Seen(k) /\ (Last(at[k]) \/ at[k] >= k)}
  <1>4. 0 \in S
    <2>1. at[0] = first
      BY DEF Walk
    <2>2. Seen(0)
      BY <1>1, <1>2, <2>1
    <2>3. at[0] \in L /\ at[0] >= 0 /\ 0 \in 0..LastUnit
      BY <1>1, <1>2, <2>1
    <2> HIDE DEF Seen, Last
    <2> QED BY <2>2, <2>3
  <1>5. ASSUME NEW k \in 0..(LastUnit - 1), k \in S PROVE k + 1 \in S
    <2>1. PICK u, x : u = at[k] /\ x = D[u].next
      OBVIOUS
    <2>2. u \in L /\ Seen(k) /\ (Last(u) \/ u >= k)
      <3> HIDE DEF Seen, Last
      <3> QED BY <1>5, <2>1
    <2>3. k + 1 \in 1..LastUnit /\ (k + 1) - 1 = k /\ k + 1 \in 0..LastUnit
      BY <1>1
    <2>4. at[k + 1] = IF x = 0 THEN u ELSE x
      <3>1. at[k + 1] = Following(D)[u]
        BY <2>1, <2>3 DEF Walk
      <3> QED BY <1>3, <2>1, <2>2, <3>1
    <2>5. CASE x = 0
      <3>1. at[k + 1] = u /\ Last(u)
        BY <1>3, <2>1, <2>2, <2>4, <2>5
      <3>2. Seen(k + 1)
        <4>1. SUFFICES ASSUME NEW v \in L, v <= at[k + 1] PROVE \E j \in 0..(k + 1) : at[j] = v
          OBVIOUS
        <4>2. PICK j \in 0..k : at[j] = v
          BY <2>1, <2>2, <3>1, <4>1
        <4>3. j \in 0..(k + 1)
          OBVIOUS
        <4> QED BY <4>2, <4>3
      <3> HIDE DEF Seen, Last
      <3> QED BY <2>2, <2>3, <3>1, <3>2
    <2>6. CASE x # 0
      <3>1. at[k + 1] = x /\ x \in L /\ u < x /\ \A v \in L : v <= u \/ x <= v
        BY <1>3, <2>1, <2>2, <2>4, <2>6
      <3>2. u \in Nat /\ x \in Nat
        BY <1>2, <2>2, <3>1
      <3>3. Seen(k + 1)
        <4>1. SUFFICES ASSUME NEW v \in L, v <= x PROVE \E j \in 0..(k + 1) : at[j] = v
          BY <3>1
        <4>2. CASE v <= u
          <5>1. PICK j \in 0..k : at[j] = v
            BY <2>1, <2>2, <4>2
          <5>2. j \in 0..(k + 1)
            OBVIOUS
          <5> QED BY <5>1, <5>2
        <4>3. CASE x <= v
          <5>1. v = x /\ k + 1 \in 0..(k + 1)
            BY <1>2, <3>2, <4>1, <4>3
          <5> QED BY <3>1, <5>1
        <4> QED BY <3>1, <4>2, <4>3
      <3>4. x >= k + 1
        <4>1. ~Last(u)
          BY <3>1, <3>2
        <4> QED BY <2>2, <3>1, <3>2, <4>1
      <3> HIDE DEF Seen, Last
      <3> QED BY <2>3, <3>1, <3>3, <3>4
    <2> QED BY <2>5, <2>6
  <1>6. \A k \in 0..LastUnit : k \in S
    <2> HIDE DEF S
    <2> QED BY <1>1, <1>4, <1>5, IntervalInduction
  <1>7. \A k \in Units : at[k] \in L
    BY <1>1, <1>6
  <1>8. PICK w : w = at[LastUnit]
    OBVIOUS
  <1>9. w \in L /\ Seen(LastUnit) /\ (Last(w) \/ w >= LastUnit)
    <2>1. LastUnit \in S
      <3> HIDE DEF S
      <3> QED BY <1>1, <1>6
    <2> HIDE DEF Seen, Last
    <2> QED BY <1>8, <2>1
  <1>10. Last(w)
    BY <1>1, <1>2, <1>9
  <1>11. ASSUME NEW u \in L PROVE \E k \in Units : at[k] = u
    BY <1>1, <1>8, <1>9, <1>10
  <1> HIDE DEF S, Seen, Last
  <1> QED BY <1>7, <1>11

LEMMA ListExact ==
    ASSUME Sent, DefragInv
    PROVE  HolesExact
  <1>1. SUFFICES ASSUME total_len # 0, ~complete PROVE HolesExact
    BY DEF HolesExact
  <1>2. PICK p \in Packets, L \in SUBSET Units : Open(Buffer, L, p, got)
    BY <1>1 DEF DefragInv
  <1>3. TypeOK
    BY DEF DefragInv
  <1>4. PICK first, D, T, G : first = first_hole /\ D = desc /\ T = total_len /\ G = got
    OBVIOUS
  <1>5. /\ Linked(first, D, L) /\ Exact(Lasts(D), L, G, T) /\ Came(p, G, T)
        /\ D \in [Units -> Descs]
    BY <1>2, <1>3, <1>4 DEF Open, Buffer, TypeOK, Descs
  <1>6. Holes = L
    <2>1. PICK at : Walk(at, LastUnit, first_hole, Following(desc)) /\ Holes = {at[k] : k \in Units}
      BY <1>3, HolesWalk
    <2>2. Walk(at, LastUnit, first, Following(D))
      BY <1>4, <2>1
    <2>3. {at[k] : k \in Units} = L
      BY <1>5, <2>2, VisitsAll
    <2> QED BY <2>1, <2>3
  <1>7. /\ L \subseteq Units /\ first \in L /\ (\A v \in L : first <= v) /\ \A v \in L : v \in Nat
    BY <1>5, Sizes DEF Linked
  <1>8. ASSUME NEW h \in L, NEW x, x = D[h].next, x # 0 PROVE D[x].prev = h
    <2>1. IsNext(L, h, x)
      BY <1>5, <1>8 DEF Linked
    <2>2. x \in L /\ h < x /\ \A v \in L : v <= h \/ x <= v
      BY <1>8, <2>1 DEF IsNext
    <2>3. PICK y : y = D[x].prev
      OBVIOUS
    <2>4. IsPrev(L, x, y)
      BY <1>5, <2>2, <2>3 DEF Linked
    <2>5. h \in Nat /\ x \in Nat
      BY <1>7, <2>2
    <2>6. y \in L /\ y < x /\ \A v \in L : x <= v \/ v <= y
      BY <2>2, <2>4, <2>5 DEF IsPrev
    <2>7. y \in Nat /\ y <= h /\ h <= y
      BY <1>7, <2>2, <2>5, <2>6
    <2> QED BY <2>3, <2>5, <2>7
  <1>9. D[first].prev = 0
    <2>1. PICK y : y = D[first].prev
      OBVIOUS
    <2>2. IsPrev(L, first, y)
      BY <1>5, <1>7, <2>1 DEF Linked
    <2>3. ~(y \in L /\ y < first)
      BY <1>7
    <2> QED BY <2>1, <2>2, <2>3 DEF IsPrev
  <1>10. /\ T \in Nat /\ Length[p] \in Nat /\ Infinity \in Nat /\ MaxUdp \in Nat
         /\ Length[p] < Infinity /\ MaxUdp < Infinity
         /\ T = Length[p] \/ T = Infinity
         /\ T = Length[p] <=> Length[p] - 1 \in G
         /\ G \subseteq Bytes
    BY <1>5, TotalIs, Sizes DEF Came
  <1>11. PICK end : end = IF T = Infinity THEN MaxUdp ELSE T
    OBVIOUS
  <1>12. end \in Nat /\ end <= MaxUdp /\ end <= T
    BY <1>10, <1>11 DEF Bytes
  <1> DEFINE Part(h) == {i \in Bytes : h * Unit <= i /\ i < D[h].last}
  <1>13. ASSUME NEW i \in (0..(end - 1)) \ G PROVE \E h \in L : i \in Part(h)
    <2>1. i \in Nat /\ i < T /\ i \notin G /\ i \in Bytes
      BY <1>10, <1>12 DEF Bytes
    <2>2. PICK h \in L : At(h) <= i /\ i < Lasts(D)[h]
      BY <1>5, <2>1 DEF Exact
    <2>3. Lasts(D)[h] = D[h].last
      BY <1>7 DEF Lasts
    <2> QED BY <2>1, <2>2, <2>3 DEF At
  <1>14. ASSUME NEW h \in L, NEW i \in Part(h) PROVE i \in (0..(end - 1)) \ G
    <2>1. i \in Bytes /\ i \in Nat /\ i < MaxUdp /\ At(h) <= i /\ i < D[h].last
      BY <1>10 DEF Bytes, At
    <2>2. Lasts(D)[h] = D[h].last
      BY <1>7 DEF Lasts
    <2>3. D[h].last \in Nat /\ D[h].last <= T /\ \A j \in G : ~(At(h) <= j /\ j < D[h].last)
      BY <1>5, <2>2 DEF Exact
    <2>4. i < end
      BY <1>10, <1>11, <2>1, <2>3
    <2> QED BY <1>12, <2>1, <2>3, <2>4
  <1>15. (0..(end - 1)) \ G = UNION {Part(h) : h \in L}
    <2> HIDE DEF Part
    <2> QED BY <1>13, <1>14
  <1>16. \A h \in L : D[h].hole
    BY <1>5 DEF Linked
  <1> QED BY <1>4, <1>6, <1>8, <1>9, <1>11, <1>15, <1>16 DEF HolesExact

LEMMA AllCame ==
    ASSUME Sent, DefragInv
    PROVE  ReturnedWhenAllCame
  <1>1. ASSUME complete PROVE \E p \in Packets : Id[p] = ip_id /\ got = 0..(Length[p] - 1)
    BY <1>1 DEF DefragInv, Closed
  <1>2. ASSUME NEW p \in Packets, Id[p] = ip_id, got = 0..(Length[p] - 1), ~complete PROVE FALSE
    <2>1. total_len # 0
      BY <1>2, SizeAssumption DEF DefragInv
    <2>2. PICK q \in Packets, L \in SUBSET Units : ip_id = Id[q] /\ 0 \notin L /\ Open(Buffer, L, q, got)
      BY <1>2, <2>1 DEF DefragInv
    <2>3. q = p
      BY <1>2, <2>2 DEF Sent
    <2>4. PICK u : u = first_hole
      OBVIOUS
    <2>5. PICK l, T, G : l = Lasts(desc) /\ T = total_len /\ G = got
      OBVIOUS
    <2>6. u \in L /\ Exact(l, L, G, T) /\ (u # 0 => At(u) + Unit <= Length[p])
      BY <2>2, <2>3, <2>4, <2>5 DEF Open, Linked, Buffer
    <2>7. u # 0 /\ u \in Nat /\ At(u) \in Nat
      BY <2>2, <2>6, AtStep, Sizes
    <2>8. Unit \in Nat \ {0} /\ Length[p] \in Nat
      BY Sizes
    <2>9. At(u) \in 0..(Length[p] - 1)
      BY <2>6, <2>7, <2>8
    <2>10. l[u] \in Nat /\ At(u) + Unit <= l[u] /\ \A i \in G : ~(At(u) <= i /\ i < l[u])
      BY <2>6 DEF Exact
    <2> QED BY <1>2, <2>5, <2>7, <2>8, <2>9, <2>10
  <1>3. complete \in BOOLEAN
    BY DEF DefragInv, TypeOK
  <1> QED BY <1>1, <1>2, <1>3 DEF ReturnedWhenAllCame

(* The list of the holes that __NetDefragment keeps in the buffer is linked both ways and
   says exactly which bytes are missing, after fragments in any order and any
   number of copies of them: removing, shortening, moving and splitting a hole
   keep it so, and no data is copied over the descriptor of a hole that is left. *)
THEOREM ListOfHoles == ASSUME Sent PROVE Spec => []HolesExact
  BY ListExact, DefragInvariant, PTL

(* What __NetDefragment returns is one packet, whole, of the right length, with no byte of
   another packet and none of a descriptor in it. *)
THEOREM WholePackets == ASSUME Sent PROVE Spec => []ReturnsWhole
  <1>1. DefragInv => ReturnsWhole
    BY DEF DefragInv
  <1> QED BY <1>1, DefragInvariant, PTL

(* The fragment that fills the last gap of a packet makes __NetDefragment return it, and no
   fragment does so before. *)
THEOREM AllThatCameReturned == ASSUME Sent PROVE Spec => []ReturnedWhenAllCame
  BY AllCame, DefragInvariant, PTL

=============================================================================
