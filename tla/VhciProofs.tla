------------------------------ MODULE VhciProofs -----------------------------
(***************************************************************************)
(* Proofs about RingBuffer and VhciRing, for a ring and packets of any     *)
(* size: the ring is a queue of bytes, no packet in it is forgotten, and   *)
(* those stored whole are handed up whole and in order.                    *)
(***************************************************************************)
EXTENDS VhciRing, SequenceTheorems, TLAPS

LEMMA SizeOK == Size \in Nat /\ Size > 0
BY SizeAssumption

-----------------------------------------------------------------------------
(* Indices. *)

\* What the indices and the flag say, for the arithmetic.
Stock(r, w, full) == IF full THEN Size ELSE IF w >= r THEN w - r ELSE w + Size - r

LEMMA StockOfWrite ==
    ASSUME NEW r \in Slots, NEW w \in Slots, NEW full \in BOOLEAN,
           NEW n \in Nat, n > 0, n <= Size - Stock(r, w, full)
    PROVE  Stock(r, Wrap(w + n), Wrap(w + n) = r) = Stock(r, w, full) + n
BY SizeOK DEF Stock, Wrap, Slots

LEMMA StockOfRead ==
    ASSUME NEW r \in Slots, NEW w \in Slots, NEW full \in BOOLEAN, full => w = r,
           NEW n \in Nat, n > 0, n <= Stock(r, w, full)
    PROVE  Stock(Wrap(r + n), w, FALSE) = Stock(r, w, full) - n
BY SizeOK DEF Stock, Wrap, Slots

\* What is in stock is not ahead of the write index; what is beyond, is.
LEMMA StockAhead ==
    ASSUME NEW r \in Slots, NEW w \in Slots, NEW full \in BOOLEAN, full => w = r,
           NEW n \in Nat, n > 0, n <= Size - Stock(r, w, full),
           NEW k \in Nat, k < Stock(r, w, full) + n
    PROVE  /\ Wrap(r + k) \in Slots
           /\ Ahead(Wrap(r + k), w) = IF k < Stock(r, w, full)
                                      THEN Size - Stock(r, w, full) + k
                                      ELSE k - Stock(r, w, full)
BY SizeOK DEF Stock, Wrap, Ahead, Slots

LEMMA WrapOK ==
    ASSUME NEW i \in Nat, i < 2 * Size
    PROVE  Wrap(i) \in Slots
BY SizeOK DEF Wrap, Slots

LEMMA AvailOK ==
    ASSUME NEW Cells, NEW q \in Rings(Cells)
    PROVE  /\ Avail(q) \in 0..Size /\ Free(q) \in 0..Size
           /\ Free(q) = Size - Avail(q)
BY SizeOK DEF Rings, Avail, Free, Slots

\* The slot that is k ahead of an index, and only that one, is.
LEMMA AheadOfWrap ==
    ASSUME NEW from \in Slots, NEW k \in Slots
    PROVE  Ahead(Wrap(from + k), from) = k
BY SizeOK DEF Ahead, Wrap, Slots

LEMMA AheadOK ==
    ASSUME NEW i \in Slots, NEW from \in Slots
    PROVE  /\ Ahead(i, from) \in Slots
           /\ Wrap(from + Ahead(i, from)) = i
BY SizeOK DEF Ahead, Wrap, Slots

\* The content of a ring is a sequence.
LEMMA ContentSeq ==
    ASSUME NEW Cells, NEW q \in Rings(Cells)
    PROVE  /\ Content(q) \in Seq(Cells)
           /\ Len(Content(q)) = Avail(q)
           /\ \A k \in 1..Avail(q) : Content(q)[k] = q.mem[Wrap(q.r + k - 1)]
<1>0. q.r \in Slots BY DEF Rings
<1>1. Avail(q) \in Nat /\ Avail(q) <= Size /\ q.r \in Slots /\ q.r \in Nat
  <2>1. Avail(q) \in 0..Size BY AvailOK
  <2> QED BY <1>0, <2>1, SizeOK DEF Slots
<1>2. \A k \in 1..Avail(q) : q.mem[Wrap(q.r + k - 1)] \in Cells
  <2> TAKE k \in 1..Avail(q)
  <2>1. q.r + k - 1 \in Nat /\ q.r + k - 1 < 2 * Size
      BY <1>1, SizeOK DEF Slots
  <2>2. Wrap(q.r + k - 1) \in Slots BY <2>1, WrapOK
  <2> QED BY <2>2 DEF Rings
<1>3. Content(q) \in [1..Avail(q) -> Cells] BY <1>2 DEF Content
<1>4. Content(q) \in Seq(Cells) BY <1>1, <1>3, SeqDef
<1>5. DOMAIN Content(q) = 1..Avail(q) BY DEF Content
<1>6. Len(Content(q)) = Avail(q) BY <1>1, <1>4, <1>5, LenProperties
<1> QED BY <1>4, <1>6 DEF Content

-----------------------------------------------------------------------------
(* Writing. *)

LEMMA WriteFields ==
    ASSUME NEW Cells, NEW q \in Rings(Cells), NEW s \in Seq(Cells),
           Len(s) > 0, Len(s) <= Free(q)
    PROVE  LET p == Write(q, s)
           IN  /\ p \in Rings(Cells)
               /\ p.r = q.r
               /\ p.w = Wrap(q.w + Len(s))
               /\ p.full <=> p.w = q.r
               /\ \A i \in Slots : p.mem[i] = IF Ahead(i, q.w) < Len(s)
                                              THEN s[Ahead(i, q.w) + 1] ELSE q.mem[i]
<1> DEFINE w == Wrap(q.w + Len(s))
           mem == [i \in Slots |-> IF Ahead(i, q.w) < Len(s)
                                   THEN s[Ahead(i, q.w) + 1] ELSE q.mem[i]]
<1>1. Len(s) \in Nat /\ Free(q) \in 0..Size /\ q.w \in Slots /\ q.r \in Slots
      /\ q.mem \in [Slots -> Cells] /\ q.full \in BOOLEAN
    BY AvailOK, LenProperties DEF Rings
<1>2. w \in Slots
  <2>1. q.w + Len(s) \in Nat /\ q.w + Len(s) < 2 * Size
      BY <1>1, SizeOK DEF Slots
  <2> QED BY <2>1, WrapOK
<1>3. mem \in [Slots -> Cells]
  <2>1. ASSUME NEW i \in Slots, Ahead(i, q.w) < Len(s)
        PROVE  s[Ahead(i, q.w) + 1] \in Cells
    <3>1. Ahead(i, q.w) \in Slots BY <1>1, AheadOK
    <3>2. Ahead(i, q.w) \in Nat BY <3>1, SizeOK DEF Slots
    <3>3. Ahead(i, q.w) + 1 \in 1..Len(s) BY <1>1, <2>1, <3>2
    <3> QED BY <3>3, ElementOfSeq
  <2>2. ASSUME NEW i \in Slots PROVE q.mem[i] \in Cells
      BY <1>1, <2>2
  <2>3. ASSUME NEW i \in Slots
        PROVE  (IF Ahead(i, q.w) < Len(s) THEN s[Ahead(i, q.w) + 1]
                ELSE q.mem[i]) \in Cells
      BY <2>1, <2>2, Zenon
  <2> QED BY <2>3, Zenon
<1>4. Write(q, s) = [q EXCEPT !.mem = mem, !.w = w, !.full = (w = q.r)]
  <2>1. ~(Free(q) < Len(s) \/ Len(s) = 0) BY <1>1, SizeOK
  <2>2. q.mem = [i \in Slots |-> q.mem[i]] BY <1>1
  <2> QED BY <2>1 DEF Write
<1>5. Write(q, s) = [mem |-> mem, r |-> q.r, w |-> w, full |-> (w = q.r)]
    BY <1>4 DEF Rings
<1> HIDE DEF mem, w
<1>6. /\ Write(q, s).mem = mem /\ Write(q, s).r = q.r /\ Write(q, s).w = w
      /\ Write(q, s).full <=> w = q.r
  <2>1. /\ Write(q, s).mem = mem /\ Write(q, s).r = q.r /\ Write(q, s).w = w
      BY <1>5
  <2>2. CASE w = q.r
    <3>1. Write(q, s) = [mem |-> mem, r |-> q.r, w |-> w, full |-> TRUE]
        BY <1>5, <2>2
    <3> QED BY <2>1, <2>2, <3>1
  <2>3. CASE w # q.r
    <3>1. Write(q, s) = [mem |-> mem, r |-> q.r, w |-> w, full |-> FALSE]
        BY <1>5, <2>3
    <3> QED BY <2>1, <2>3, <3>1
  <2> QED BY <2>2, <2>3
<1>7. Write(q, s) \in [mem : [Slots -> Cells], r : Slots, w : Slots, full : BOOLEAN]
    BY <1>1, <1>2, <1>3, <1>5
<1>8. Write(q, s).full => Write(q, s).w = Write(q, s).r BY <1>6
<1>9. Write(q, s) \in Rings(Cells) BY <1>7, <1>8 DEF Rings
<1>10. \A i \in Slots : mem[i] = IF Ahead(i, q.w) < Len(s)
                                 THEN s[Ahead(i, q.w) + 1] ELSE q.mem[i]
    BY DEF mem
<1> QED BY <1>6, <1>9, <1>10 DEF w

LEMMA WriteAvail ==
    ASSUME NEW Cells, NEW q \in Rings(Cells), NEW s \in Seq(Cells),
           Len(s) > 0, Len(s) <= Free(q)
    PROVE  /\ Write(q, s) \in Rings(Cells)
           /\ Avail(Write(q, s)) = Avail(q) + Len(s)
<1> DEFINE p == Write(q, s)
<1>1. /\ p \in Rings(Cells) /\ p.r = q.r /\ p.w = Wrap(q.w + Len(s))
      /\ p.full <=> p.w = q.r
    BY WriteFields
<1>2. q.r \in Slots /\ q.w \in Slots /\ q.full \in BOOLEAN /\ Len(s) \in Nat
    BY LenProperties DEF Rings
<1>3. Avail(p) = Stock(q.r, p.w, p.w = q.r) BY <1>1 DEF Avail, Stock
<1>4. Avail(q) = Stock(q.r, q.w, q.full) BY DEF Avail, Stock
<1>5. Len(s) <= Size - Avail(q) BY AvailOK
<1>6. Avail(p) = Avail(q) + Len(s)
    BY <1>1, <1>2, <1>3, <1>4, <1>5, StockOfWrite
<1> QED BY <1>1, <1>6

\* A write with the room for it joins the end of the content, whatever its
\* place in the storage.
THEOREM WriteAppends ==
    ASSUME NEW Cells, NEW q \in Rings(Cells), NEW s \in Seq(Cells),
           Len(s) > 0, Len(s) <= Free(q)
    PROVE  /\ Write(q, s) \in Rings(Cells)
           /\ Content(Write(q, s)) = Content(q) \o s
<1> DEFINE p == Write(q, s)
<1>1. /\ p \in Rings(Cells) /\ p.r = q.r
      /\ \A i \in Slots : p.mem[i] = IF Ahead(i, q.w) < Len(s)
                                     THEN s[Ahead(i, q.w) + 1] ELSE q.mem[i]
    BY WriteFields
<1>2. /\ Avail(p) = Avail(q) + Len(s) /\ Avail(p) \in Nat /\ Avail(p) <= Size
      /\ Avail(q) \in Nat /\ Len(s) \in Nat
    BY <1>1, WriteAvail, AvailOK, LenProperties, SizeOK
<1>3. /\ Content(q) \in Seq(Cells) /\ Len(Content(q)) = Avail(q)
      /\ Content(p) \in Seq(Cells) /\ Len(Content(p)) = Avail(q) + Len(s)
    BY <1>1, <1>2, ContentSeq
<1>4. /\ q.r \in Slots /\ q.w \in Slots /\ q.full \in BOOLEAN
      /\ q.full => q.w = q.r
    BY DEF Rings
<1>s. Avail(q) = Stock(q.r, q.w, q.full) /\ Len(s) <= Size - Avail(q)
    BY AvailOK DEF Avail, Stock
<1>5. ASSUME NEW k \in 1..(Avail(q) + Len(s))
      PROVE  Content(p)[k] = (Content(q) \o s)[k]
  <2> DEFINE slot == Wrap(q.r + k - 1)
  <2>0. k \in Nat /\ k - 1 \in Nat /\ k - 1 < Avail(q) + Len(s)
        /\ q.r + k - 1 = q.r + (k - 1)
      BY <1>2, <1>4, SizeOK DEF Slots
  <2>1. /\ slot \in Slots
        /\ Ahead(slot, q.w) = IF k - 1 < Avail(q) THEN Size - Avail(q) + (k - 1)
                              ELSE (k - 1) - Avail(q)
      BY <1>2, <1>4, <1>s, <2>0, StockAhead
  <2>2. Content(p)[k] = p.mem[slot] BY <1>1, <1>2, ContentSeq
  <2>3. CASE k <= Avail(q)
    <3>1. ~(Ahead(slot, q.w) < Len(s))
        BY <1>2, <1>s, <2>0, <2>1, <2>3, SizeOK
    <3>2. p.mem[slot] = q.mem[slot] BY <1>1, <2>1, <3>1
    <3>3. k \in 1..Avail(q) BY <1>2, <2>3
    <3>4. Content(q)[k] = q.mem[slot] BY <3>3, ContentSeq
    <3>5. (Content(q) \o s)[k] = Content(q)[k]
        BY <1>3, <3>3, ConcatProperties
    <3> QED BY <2>2, <3>2, <3>4, <3>5
  <2>4. CASE k > Avail(q)
    <3>1. Ahead(slot, q.w) = k - Avail(q) - 1
        BY <1>2, <2>0, <2>1, <2>4
    <3>2. Ahead(slot, q.w) < Len(s) BY <1>2, <2>4, <3>1
    <3>3. p.mem[slot] = s[Ahead(slot, q.w) + 1] BY <1>1, <2>1, <3>2
    <3>4. Ahead(slot, q.w) + 1 = k - Avail(q) BY <1>2, <2>4, <3>1
    <3>5. (Content(q) \o s)[k] = s[k - Avail(q)]
        BY <1>2, <1>3, <2>4, ConcatProperties
    <3> QED BY <2>2, <3>3, <3>4, <3>5
  <2>5. k <= Avail(q) \/ k > Avail(q) BY <1>2, <2>0
  <2> QED BY <2>3, <2>4, <2>5
<1>6. Content(q) \o s \in Seq(Cells) /\ Len(Content(q) \o s) = Avail(q) + Len(s)
    BY <1>3, ConcatProperties
<1> QED BY <1>1, <1>3, <1>5, <1>6, SeqEqual

-----------------------------------------------------------------------------
(* Reading. *)

LEMMA ReadFields ==
    ASSUME NEW Cells, Blank \in Cells, NEW q \in Rings(Cells), NEW n \in Nat
    PROVE  LET t == Taken(q, n)
               p == AfterRead(q, n)
           IN  /\ t \in 0..Avail(q) /\ p \in Rings(Cells)
               /\ Avail(p) = Avail(q) - t
               /\ p.r = Wrap(q.r + t)
               /\ \A i \in Slots : ~(Ahead(i, q.r) < t) => p.mem[i] = q.mem[i]
<1> DEFINE t == Taken(q, n)
           p == AfterRead(q, n)
<1>1. Avail(q) \in 0..Size /\ t \in 0..Avail(q) /\ t \in Nat
    BY AvailOK, SizeOK DEF Taken
<1>2. /\ q.r \in Slots /\ q.w \in Slots /\ q.full \in BOOLEAN
      /\ q.mem \in [Slots -> Cells] /\ (q.full => q.w = q.r)
    BY DEF Rings
<1>3. CASE t = 0
  <2>1. p = q BY <1>3 DEF AfterRead
  <2>2. Wrap(q.r + t) = q.r BY <1>2, <1>3, SizeOK DEF Wrap, Slots
  <2> QED BY <1>1, <1>3, <2>1, <2>2, SizeOK
<1>4. CASE t > 0
  <2> DEFINE r == Wrap(q.r + t)
             mem == Blanked(q, t)
  <2>1. r \in Slots BY <1>1, <1>2, SizeOK DEF Wrap, Slots
  <2>2. mem \in [Slots -> Cells] BY <1>2 DEF Blanked
  <2>3. p = [q EXCEPT !.r = r, !.full = FALSE, !.mem = mem]
      BY <1>1, <1>4 DEF AfterRead
  <2>4. p = [mem |-> mem, r |-> r, w |-> q.w, full |-> FALSE]
      BY <2>3 DEF Rings
  <2>5. p \in Rings(Cells) BY <1>2, <2>1, <2>2, <2>4 DEF Rings
  <2>6. Avail(p) = Stock(r, q.w, FALSE) /\ Avail(q) = Stock(q.r, q.w, q.full)
      BY <2>4 DEF Avail, Stock
  <2>7. Avail(p) = Avail(q) - t
    <3>1. t <= Stock(q.r, q.w, q.full) BY <1>1, <2>6, SizeOK
    <3>2. Stock(r, q.w, FALSE) = Stock(q.r, q.w, q.full) - t
        BY <1>1, <1>2, <1>4, <3>1, StockOfRead
    <3> QED BY <2>6, <3>2
  <2>8. \A i \in Slots : ~(Ahead(i, q.r) < t) => mem[i] = q.mem[i]
      BY DEF Blanked
  <2> QED BY <1>1, <2>4, <2>5, <2>7, <2>8
<1> QED BY <1>1, <1>3, <1>4

\* A read takes the front of the content, and leaves the rest as it was.
THEOREM ReadTakesFront ==
    ASSUME NEW Cells, Blank \in Cells, NEW q \in Rings(Cells), NEW n \in Nat
    PROVE  /\ AfterRead(q, n) \in Rings(Cells)
           /\ ReadBytes(q, n) = SubSeq(Content(q), 1, Taken(q, n))
           /\ Content(AfterRead(q, n))
                = SubSeq(Content(q), Taken(q, n) + 1, Avail(q))
<1> DEFINE t == Taken(q, n)
           p == AfterRead(q, n)
           rest == SubSeq(Content(q), t + 1, Avail(q))
<1>1. /\ t \in 0..Avail(q) /\ p \in Rings(Cells) /\ Avail(p) = Avail(q) - t
      /\ p.r = Wrap(q.r + t)
      /\ \A i \in Slots : ~(Ahead(i, q.r) < t) => p.mem[i] = q.mem[i]
    BY ReadFields
<1>2. Avail(q) \in 0..Size /\ Avail(q) \in Nat /\ t \in Nat /\ q.r \in Slots
    BY <1>1, AvailOK, SizeOK DEF Rings
<1>3. /\ Content(q) \in Seq(Cells) /\ Len(Content(q)) = Avail(q)
      /\ Content(p) \in Seq(Cells) /\ Len(Content(p)) = Avail(q) - t
    BY <1>1, ContentSeq
<1>4. \A k \in (t + 1)..Avail(q) : Content(q)[k] \in Cells
    BY <1>2, <1>3, ElementOfSeq
<1>5. /\ rest \in Seq(Cells) /\ Len(rest) = Avail(q) - t
      /\ \A k \in 1..(Avail(q) - t) : rest[k] = Content(q)[t + k]
  <2>1. t + 1 \in Int /\ Avail(q) \in Int BY <1>2
  <2>2. /\ rest \in Seq(Cells)
        /\ Len(rest) = IF t + 1 <= Avail(q) THEN Avail(q) - (t + 1) + 1 ELSE 0
        /\ \A k \in 1..(Avail(q) - (t + 1) + 1) : rest[k] = Content(q)[(t + 1) + k - 1]
      BY <1>4, <2>1, SubSeqProperties
  <2>3. Avail(q) - (t + 1) + 1 = Avail(q) - t BY <1>2
  <2>4. \A k \in 1..(Avail(q) - t) : (t + 1) + k - 1 = t + k BY <1>2
  <2> QED BY <1>1, <1>2, <2>2, <2>3, <2>4
<1>6. ASSUME NEW k \in 1..(Avail(q) - t)
      PROVE  Content(p)[k] = rest[k]
  <2> DEFINE slot == Wrap(q.r + (t + k) - 1)
  <2>1. slot \in Slots BY <1>1, <1>2, SizeOK DEF Slots, Wrap
  <2>2. Wrap(p.r + k - 1) = slot
      BY <1>1, <1>2, SizeOK DEF Slots, Wrap
  <2>3. ~(Ahead(slot, q.r) < t)
      BY <1>1, <1>2, SizeOK DEF Slots, Wrap, Ahead
  <2>4. Content(p)[k] = p.mem[slot] BY <1>1, <2>2, ContentSeq
  <2>5. t + k \in 1..Avail(q) BY <1>1, <1>2
  <2>6. Content(q)[t + k] = q.mem[slot] BY <2>5, ContentSeq
  <2> QED BY <1>1, <1>5, <2>1, <2>3, <2>4, <2>6
<1>7. Content(p) = rest BY <1>2, <1>3, <1>5, <1>6, SeqEqual
<1> QED BY <1>1, <1>7 DEF ReadBytes

-----------------------------------------------------------------------------
(* The transport's types. *)

Bytes == Cell \cup {Blank}

LEMMA WriteType ==
    ASSUME NEW q \in Rings(Bytes), NEW s \in Seq(Bytes)
    PROVE  Write(q, s) \in Rings(Bytes)
<1>1. CASE Free(q) < Len(s) \/ Len(s) = 0 BY <1>1 DEF Write
<1>2. CASE ~(Free(q) < Len(s) \/ Len(s) = 0)
  <2>1. Len(s) \in Nat /\ Free(q) \in 0..Size BY AvailOK, LenProperties
  <2>2. Len(s) > 0 /\ Len(s) <= Free(q) BY <1>2, <2>1, SizeOK
  <2> QED BY <2>2, WriteAppends
<1> QED BY <1>1, <1>2

\* Tag and payload are bytes of their packet.
LEMMA FrameType ==
    ASSUME NEW p \in Packet
    PROVE  Tag(p) \in Seq(Bytes) /\ Payload(p) \in Seq(Bytes)
<1>1. p.len \in Nat BY VhciAssumption DEF Packet
<1>2. \A k \in 1..(p.len + 2) : Frame(p)[k] \in Bytes
    BY <1>1 DEF Frame, Bytes, Cell
<1>3. \A k \in 1..2 : Frame(p)[k] \in Bytes BY <1>1, <1>2
<1>4. \A k \in 3..(p.len + 2) : Frame(p)[k] \in Bytes BY <1>1, <1>2
<1>5. Tag(p) \in Seq(Bytes) BY <1>3, SubSeqProperties DEF Tag
<1>6. Payload(p) \in Seq(Bytes) BY <1>1, <1>4, SubSeqProperties DEF Payload
<1> QED BY <1>5, <1>6

LEMMA EmptyRingOK == EmptyRing \in Rings(Bytes) /\ Avail(EmptyRing) = 0
BY SizeOK DEF EmptyRing, Rings, Bytes, Slots, Avail

LEMMA VhciInitTypes == VhciInit => VhciTypeOK
<1> SUFFICES ASSUME VhciInit PROVE VhciTypeOK
    OBVIOUS
<1>1. rb \in Rings(Cell \cup {Blank}) BY EmptyRingOK DEF VhciInit, Bytes
<1>2. next \in 0..(Ids - 1) BY VhciAssumption DEF VhciInit
<1>3. list \in Seq({"receive", "send"}) /\ due \in Seq(Packet) BY DEF VhciInit
<1> QED BY <1>1, <1>2, <1>3 DEF VhciInit, VhciTypeOK

LEMMA AddTailType ==
    ASSUME list \in Seq({"receive", "send"}), NEW c \in {"receive", "send"}
    PROVE  AddTail(list, c) \in Seq({"receive", "send"})
BY AppendProperties DEF AddTail

\* Whatever is read as a tag, it says a length.
LEMMA TagSaysNat ==
    ASSUME NEW t, NEW len \in TagSays(t)
    PROVE  2 + len \in Nat
<1> DEFINE tag == /\ Len(t) = 2 /\ t[1] \in Cell /\ t[2] \in Cell
                  /\ t[1].at = 0 /\ t[2].at = 1 /\ t[1].pkt = t[2].pkt
<1>1. CASE tag
  <2>1. len = t[1].pkt.len BY <1>1 DEF TagSays
  <2>2. t[1].pkt.len \in Lens BY <1>1 DEF Cell, Packet
  <2>3. len \in Lens BY <2>1, <2>2
  <2>4. len \in Nat BY <2>3, VhciAssumption
  <2> QED BY <2>4
<1>2. CASE ~tag
  <2>1. len \in 0..Size BY <1>2 DEF TagSays
  <2> QED BY <2>1, SizeAssumption
<1> QED BY <1>1, <1>2

LEMMA VhciTypeStep ==
    ASSUME VhciTypeOK, [VhciNext]_vars
    PROVE  VhciTypeOK'
<1> USE DEF VhciTypeOK
<1>b. rb \in Rings(Bytes) BY DEF Bytes
<1>1. ASSUME NEW len \in Lens, Receive(len) PROVE VhciTypeOK'
  <2> DEFINE p == [id |-> next, len |-> len]
  <2>1. p \in Packet BY DEF Packet
  <2>2. CASE Drops(len) BY <1>1, <2>2 DEF Receive
  <2>3. CASE ~Drops(len)
    <3>1. Stored(rb, p) \in Rings(Bytes)
      <4>1. Write(rb, Tag(p)) \in Rings(Bytes) BY <1>b, <2>1, FrameType, WriteType
      <4> QED BY <2>1, <4>1, FrameType, WriteType DEF Stored
    <3>2. rb' \in Rings(Bytes) BY <1>1, <2>3, <3>1 DEF Receive
    <3>3. next' \in 0..(Ids - 1)
      <4>1. next' = (next + 1) % Ids BY <1>1, <2>3 DEF Receive
      <4>2. Ids \in Nat /\ Ids > 0 /\ next \in Nat BY VhciAssumption
      <4> QED BY <4>1, <4>2, SMT
    <3>4. due' \in Seq(Packet)
      <4>1. due' = due \/ due' = Append(due, p) BY <1>1, <2>3 DEF Receive
      <4> QED BY <2>1, <4>1, AppendProperties
    <3>5. torn' \in BOOLEAN /\ ctrl' \in {"idle", "posting", "ringing"}
        BY <1>1, <2>3 DEF Receive
    <3>6. UNCHANGED <<list, bell, loop, got>> BY <1>1 DEF Receive
    <3> QED BY <3>2, <3>3, <3>4, <3>5, <3>6 DEF Bytes
  <2> QED BY <2>2, <2>3
<1>2. CASE SendAvailable BY <1>2, AddTailType DEF SendAvailable
<1>3. CASE Post BY <1>3, AddTailType DEF Post
<1>4. CASE Ring BY <1>4 DEF Ring
<1>5. CASE NextCallback
  <2>1. list' \in Seq({"receive", "send"})
    <3>1. CASE list = <<>> BY <1>5, <3>1 DEF NextCallback
    <3>2. CASE list # <<>>
      <4>1. list' = Tail(list) BY <1>5, <3>2 DEF NextCallback
      <4> QED BY <3>2, <4>1, HeadTailProperties
    <3> QED BY <3>1, <3>2
  <2>2. loop' \in {"callbacks", "delivering", "timers", "waiting"}
      BY <1>5 DEF NextCallback
  <2> QED BY <1>5, <2>1, <2>2 DEF NextCallback
<1>6. CASE Deliver
  <2>1. PICK len \in TagSays(ReadBytes(rb, 2)) :
            /\ rb' = AfterRead(rb, 2 + len)
            /\ got' = Handed(SubSeq(ReadBytes(rb, 2 + len), 3,
                                    Len(ReadBytes(rb, 2 + len))), len)
      BY <1>6 DEF Deliver
  <2>2. 2 + len \in Nat BY <2>1, TagSaysNat
  <2>3. rb' \in Rings(Bytes)
    <3>1. Blank \in Bytes BY DEF Bytes
    <3> QED BY <1>b, <2>1, <2>2, <3>1, ReadTakesFront
  <2>4. got' \in Packet \cup {Nothing, Mixture} BY <2>1 DEF Handed, Cell
  <2>5. due' \in Seq(Packet)
    <3>1. due' = due \/ (due # <<>> /\ due' = Tail(due)) BY <1>6 DEF Deliver
    <3> QED BY <3>1, HeadTailProperties
  <2>6. torn' \in BOOLEAN /\ loop' = "delivering"
        /\ UNCHANGED <<ctrl, list, bell, next>>
      BY <1>6 DEF Deliver, Delivers
  <2> QED BY <2>3, <2>4, <2>5, <2>6 DEF Bytes
<1>7. CASE DeliverEnds BY <1>7 DEF DeliverEnds
<1>8. CASE Timers BY <1>8 DEF Timers, Kept
<1>9. CASE Wake \/ WakeByTimer BY <1>9 DEF Wake, WakeByTimer
<1>10. CASE UNCHANGED vars BY <1>10 DEF vars
<1> QED BY <1>1, <1>2, <1>3, <1>4, <1>5, <1>6, <1>7, <1>8, <1>9, <1>10
        DEF VhciNext, Controller, Posting, RunLoop

\* Type correctness, the ring's indices and flag included, for a ring and
\* packets of any size.
THEOREM VhciTypes == VhciSpec => []VhciTypeOK
BY VhciInitTypes, VhciTypeStep, PTL DEF VhciSpec

-----------------------------------------------------------------------------
(* Nothing is stranded. *)

\* Adding keeps what is there, and there is what is added.
LEMMA AddTailContains ==
    ASSUME list \in Seq({"receive", "send"}), NEW c \in {"receive", "send"}
    PROVE  /\ Contains(AddTail(list, c), c)
           /\ \A d : Contains(list, d) => Contains(AddTail(list, c), d)
<1>1. CASE Contains(list, c) BY <1>1 DEF AddTail
<1>2. CASE ~Contains(list, c)
  <2>1. AddTail(list, c) = Append(list, c) BY <1>2 DEF AddTail
  <2>2. /\ Len(list) \in Nat /\ Len(Append(list, c)) = Len(list) + 1
        /\ \A i \in 1..Len(list) : Append(list, c)[i] = list[i]
        /\ Append(list, c)[Len(list) + 1] = c
      BY AppendProperties, LenProperties
  <2>3. Contains(Append(list, c), c) BY <2>2 DEF Contains
  <2>4. ASSUME NEW d, Contains(list, d) PROVE Contains(Append(list, c), d)
    <3>1. PICK i \in 1..Len(list) : list[i] = d BY <2>4 DEF Contains
    <3>2. i \in 1..Len(Append(list, c)) /\ Append(list, c)[i] = d BY <2>2, <3>1
    <3> QED BY <3>2 DEF Contains
  <2> QED BY <2>1, <2>3, <2>4
<1> QED BY <1>1, <1>2

\* What is behind the head stays.
LEMMA TailContains ==
    ASSUME list \in Seq({"receive", "send"}), list # <<>>, NEW d,
           Contains(list, d), Head(list) # d
    PROVE  Contains(Tail(list), d)
<1>1. /\ Len(list) \in Nat /\ Len(list) > 0 /\ Head(list) = list[1]
      /\ Len(Tail(list)) = Len(list) - 1
      /\ \A i \in 1..(Len(list) - 1) : Tail(list)[i] = list[i + 1]
    BY HeadTailProperties, LenProperties, EmptySeq
<1>2. PICK i \in 1..Len(list) : list[i] = d BY DEF Contains
<1>3. i # 1 BY <1>1, <1>2
<1>4. i - 1 \in 1..Len(Tail(list)) /\ Tail(list)[i - 1] = d
    BY <1>1, <1>2, <1>3
<1> QED BY <1>4 DEF Contains

LEMMA StrandedInit == VhciInit => NothingStranded
<1> SUFFICES ASSUME VhciInit PROVE NothingStranded
    OBVIOUS
<1>1. Avail(rb) = 0 BY EmptyRingOK DEF VhciInit
<1>2. ~Contains(list, "receive") BY DEF VhciInit, Contains
<1> QED BY <1>1, <1>2 DEF NothingStranded

LEMMA StrandedStep ==
    ASSUME VhciTypeOK, NothingStranded, [VhciNext]_vars
    PROVE  NothingStranded'
<1> USE DEF VhciTypeOK, NothingStranded
<1>1. ASSUME NEW len \in Lens, Receive(len) PROVE NothingStranded'
    BY <1>1 DEF Receive
<1>2. CASE SendAvailable
  <2>1. Contains(list, "receive") => Contains(list', "receive")
      BY <1>2, AddTailContains DEF SendAvailable
  <2>2. ctrl' = "ringing" /\ ctrl = "idle" /\ UNCHANGED <<rb, loop>>
      BY <1>2 DEF SendAvailable
  <2> QED BY <2>1, <2>2
<1>3. CASE Post
  <2>1. Contains(list', "receive") BY <1>3, AddTailContains DEF Post
  <2>2. ctrl' = "ringing" BY <1>3 DEF Post
  <2> QED BY <2>1, <2>2
<1>4. CASE Ring BY <1>4 DEF Ring
<1>5. CASE NextCallback
  <2>1. CASE list = <<>>
    <3>1. ~Contains(list, "receive") BY <2>1 DEF Contains
    <3>2. UNCHANGED <<rb, ctrl, list>> /\ loop = "callbacks"
        BY <1>5, <2>1 DEF NextCallback
    <3> QED BY <3>1, <3>2
  <2>2. CASE list # <<>>
    <3>1. /\ list' = Tail(list) /\ UNCHANGED <<rb, ctrl>>
          /\ loop = "callbacks" /\ loop' \in {"delivering", "callbacks"}
          /\ Head(list) = "receive" => loop' = "delivering"
        BY <1>5, <2>2 DEF NextCallback
    <3>2. Contains(list, "receive")
            => Contains(list', "receive") \/ loop' = "delivering"
        BY <2>2, <3>1, TailContains
    <3> QED BY <3>1, <3>2
  <2> QED BY <2>1, <2>2
<1>6. CASE Deliver
  <2>1. loop' = "delivering" BY <1>6 DEF Deliver, Delivers
  <2> QED BY <2>1
<1>7. CASE DeliverEnds
  <2>1. Avail(rb) = 0 /\ rb' = rb /\ loop' = "callbacks"
      BY <1>7 DEF DeliverEnds
  <2> QED BY <2>1
<1>8. CASE Timers BY <1>8 DEF Timers, Kept
<1>9. CASE Wake \/ WakeByTimer BY <1>9 DEF Wake, WakeByTimer
<1>10. CASE UNCHANGED vars BY <1>10 DEF vars
<1> QED BY <1>1, <1>2, <1>3, <1>4, <1>5, <1>6, <1>7, <1>8, <1>9, <1>10
        DEF VhciNext, Controller, Posting, RunLoop

\* A packet in the ring has its callback under way, and the loop its wake-up.
THEOREM NoPacketStranded == VhciSpec => []NothingStranded
BY VhciInitTypes, VhciTypeStep, StrandedInit, StrandedStep, PTL DEF VhciSpec

-----------------------------------------------------------------------------
(* Framing. *)

\* Where the frames of d start in the bytes s: frame k from cut[k] on, and the
\* bytes after the last from cut[Len(d) + 1].
Cuts(s, d, cut) ==
    /\ cut \in [1..(Len(d) + 1) -> 0..Len(s)]
    /\ cut[1] = 0
    /\ \A i, j \in 1..(Len(d) + 1) : i <= j => cut[i] <= cut[j]
    /\ \A k \in 1..Len(d) :
          /\ cut[k + 1] = cut[k] + (d[k].len + 2)
          /\ \A j \in 1..(d[k].len + 2) : s[cut[k] + j] = Frame(d[k])[j]

\* The frames account for all bytes while no packet is torn.
FramedBy(s, d, whole, cut) ==
    Cuts(s, d, cut) /\ (whole => cut[Len(d) + 1] = Len(s))

LEMMA FrameSeq ==
    ASSUME NEW p \in Packet
    PROVE  /\ Frame(p) \in Seq(Bytes) /\ Len(Frame(p)) = p.len + 2
           /\ p.len \in Nat /\ p.len > 0
           /\ \A j \in 1..(p.len + 2) : Frame(p)[j] = [pkt |-> p, at |-> j - 1]
<1>0. p.len \in Lens BY DEF Packet
<1>a. p.len \in Nat \ {0} BY <1>0, VhciAssumption
<1>1. p.len \in Nat /\ p.len > 0 BY <1>a
<1>2. \A j \in 1..(p.len + 2) : Frame(p)[j] = [pkt |-> p, at |-> j - 1]
    BY DEF Frame
<1>3. \A j \in 1..(p.len + 2) : Frame(p)[j] \in Bytes
  <2> TAKE j \in 1..(p.len + 2)
  <2>1. j - 1 \in Nat BY <1>1
  <2>2. [pkt |-> p, at |-> j - 1] \in Cell BY <2>1 DEF Cell
  <2> QED BY <1>2, <2>2 DEF Bytes
<1>4. Frame(p) \in [1..(p.len + 2) -> Bytes] BY <1>3 DEF Frame
<1>5. p.len + 2 \in Nat BY <1>1
<1>6. Frame(p) \in Seq(Bytes) BY <1>4, <1>5, SeqDef
<1>7. DOMAIN Frame(p) = 1..(p.len + 2) BY DEF Frame
<1>8. Len(Frame(p)) = p.len + 2 BY <1>5, <1>6, <1>7, LenProperties
<1> QED BY <1>1, <1>2, <1>6, <1>8

\* Arithmetic of spans.
LEMMA SpanLength ==
    ASSUME NEW a \in Nat, NEW l \in Nat, NEW b, b = a + (l + 2)
    PROVE  b - (a + 1) + 1 = l + 2 /\ a + 1 <= b
OBVIOUS

LEMMA Within ==
    ASSUME NEW a \in Nat, NEW l \in Nat, NEW n \in Nat, a + l <= n,
           NEW j \in 1..l
    PROVE  a + j \in 1..n
OBVIOUS

\* The cuts of the proof are the cuts of the property.
LEMMA CutsFramed ==
    ASSUME VhciTypeOK, NEW cut, FramedBy(Content(rb), due, ~torn, cut)
    PROVE  Framed
<1> DEFINE s == Content(rb)
<1>1. s \in Seq(Bytes) /\ Len(s) = Avail(rb) /\ Len(s) \in Nat
  <2>1. rb \in Rings(Bytes) BY DEF VhciTypeOK, Bytes
  <2> QED BY <2>1, ContentSeq, LenProperties
<1>2. Len(due) \in Nat /\ \A k \in 1..Len(due) : due[k] \in Packet
    BY LenProperties, ElementOfSeq DEF VhciTypeOK
<1> HIDE DEF s
<1>3. ASSUME NEW k \in 1..Len(due)
      PROVE  SubSeq(s, cut[k] + 1, cut[k + 1]) = Frame(due[k])
  <2> DEFINE p == due[k]
             t == SubSeq(s, cut[k] + 1, cut[k + 1])
  <2>1. p \in Packet BY <1>2
  <2>2. /\ Frame(p) \in Seq(Bytes) /\ Len(Frame(p)) = p.len + 2
        /\ p.len \in Nat /\ p.len > 0
      BY <2>1, FrameSeq
  <2>3. k \in 1..(Len(due) + 1) /\ k + 1 \in 1..(Len(due) + 1) BY <1>2
  <2>4. /\ cut[k] \in 0..Len(s) /\ cut[k + 1] \in 0..Len(s)
        /\ cut[k + 1] = cut[k] + (p.len + 2)
        /\ \A j \in 1..(p.len + 2) : s[cut[k] + j] = Frame(p)[j]
      BY <2>3 DEF FramedBy, Cuts, s
  <2> HIDE DEF p
  <2>5. cut[k] + 1 \in Int /\ cut[k + 1] \in Int BY <1>1, <2>4
  <2>6. \A i \in (cut[k] + 1)..cut[k + 1] : s[i] \in Bytes
      BY <1>1, <2>4, ElementOfSeq
  <2>7. /\ t \in Seq(Bytes) /\ Len(t) = p.len + 2
        /\ \A j \in 1..(p.len + 2) : t[j] = s[cut[k] + 1 + j - 1]
    <3>1. /\ t \in Seq(Bytes)
          /\ Len(t) = IF cut[k] + 1 <= cut[k + 1]
                      THEN cut[k + 1] - (cut[k] + 1) + 1 ELSE 0
          /\ \A j \in 1..(cut[k + 1] - (cut[k] + 1) + 1) :
                t[j] = s[cut[k] + 1 + j - 1]
        BY <2>5, <2>6, SubSeqProperties
    <3>2. cut[k + 1] - (cut[k] + 1) + 1 = p.len + 2 /\ cut[k] + 1 <= cut[k + 1]
      <4>1. cut[k] \in Nat BY <1>1, <2>4
      <4> QED BY <2>2, <2>4, <4>1, SpanLength
    <3> QED BY <3>1, <3>2
  <2>8. \A j \in 1..(p.len + 2) : cut[k] + 1 + j - 1 = cut[k] + j
      BY <1>1, <2>2, <2>4
  <2>9. \A j \in 1..Len(t) : t[j] = Frame(p)[j]
      BY <2>4, <2>7, <2>8
  <2> QED BY <2>2, <2>7, <2>9, SeqEqual DEF p
<1> QED BY <1>1, <1>3 DEF Framed, FramedBy, Cuts, s

\* Bytes that follow leave the frames where they are.
LEMMA CutsExtend ==
    ASSUME NEW s \in Seq(Bytes), NEW t \in Seq(Bytes), NEW d \in Seq(Packet),
           NEW cut, Cuts(s, d, cut)
    PROVE  Cuts(s \o t, d, cut)
<1>1. /\ Len(s) \in Nat /\ Len(t) \in Nat /\ Len(s \o t) = Len(s) + Len(t)
      /\ \A i \in 1..Len(s) : (s \o t)[i] = s[i]
      /\ Len(d) \in Nat
    BY ConcatProperties, LenProperties
<1>2. cut \in [1..(Len(d) + 1) -> 0..Len(s \o t)] BY <1>1 DEF Cuts
<1>3. ASSUME NEW k \in 1..Len(d), NEW j \in 1..(d[k].len + 2)
      PROVE  (s \o t)[cut[k] + j] = Frame(d[k])[j]
  <2>0. k \in 1..(Len(d) + 1) /\ k + 1 \in 1..(Len(d) + 1) BY <1>1
  <2>1. d[k].len \in Nat BY ElementOfSeq, FrameSeq
  <2>2. cut[k] \in 0..Len(s) /\ cut[k + 1] \in 0..Len(s)
        /\ cut[k + 1] = cut[k] + (d[k].len + 2)
      BY <2>0 DEF Cuts
  <2>3. cut[k] + j \in 1..Len(s) BY <1>1, <2>1, <2>2
  <2> QED BY <1>1, <2>3 DEF Cuts
<1> QED BY <1>2, <1>3 DEF Cuts

\* A frame that follows the last is the next.
LEMMA CutsAppend ==
    ASSUME NEW s \in Seq(Bytes), NEW d \in Seq(Packet), NEW p \in Packet,
           NEW cut, FramedBy(s, d, TRUE, cut)
    PROVE  \E c : FramedBy(s \o Frame(p), Append(d, p), TRUE, c)
<1> DEFINE n == Len(d)
           z == s \o Frame(p)
           e == Append(d, p)
           c == [k \in 1..(n + 2) |-> IF k = n + 2 THEN Len(z) ELSE cut[k]]
<1>1. /\ Frame(p) \in Seq(Bytes) /\ Len(Frame(p)) = p.len + 2
      /\ p.len \in Nat /\ n \in Nat /\ Len(s) \in Nat
    BY FrameSeq, LenProperties
<1>2. /\ z \in Seq(Bytes) /\ Len(z) = Len(s) + (p.len + 2)
      /\ \A i \in 1..(Len(s) + (p.len + 2)) :
            z[i] = IF i <= Len(s) THEN s[i] ELSE Frame(p)[i - Len(s)]
  <2>1. /\ z \in Seq(Bytes) /\ Len(z) = Len(s) + Len(Frame(p))
        /\ \A i \in 1..(Len(s) + Len(Frame(p))) :
              z[i] = IF i <= Len(s) THEN s[i] ELSE Frame(p)[i - Len(s)]
      BY <1>1, ConcatProperties
  <2> HIDE DEF z
  <2> QED BY <1>1, <2>1
<1>3. /\ e \in Seq(Packet) /\ Len(e) = n + 1 /\ e[n + 1] = p
      /\ \A k \in 1..n : e[k] = d[k]
    BY AppendProperties
<1>4. Cuts(z, d, cut) /\ cut[n + 1] = Len(s) /\ Cuts(s, d, cut)
    BY <1>1, CutsExtend DEF FramedBy
<1>5. /\ cut \in [1..(n + 1) -> 0..Len(s)] /\ cut[1] = 0
      /\ \A i, j \in 1..(n + 1) : i <= j => cut[i] <= cut[j]
    BY <1>4 DEF Cuts
<1> HIDE DEF z, e
<1>6. /\ \A k \in 1..(n + 1) : c[k] = cut[k] /\ c[k] \in 0..Len(s)
      /\ c[n + 2] = Len(z)
  <2>1. \A k \in 1..(n + 1) : k \in 1..(n + 2) /\ k # n + 2 BY <1>1
  <2>2. n + 2 \in 1..(n + 2) BY <1>1
  <2> QED BY <1>5, <2>1, <2>2
<1>7. c \in [1..(n + 2) -> 0..Len(z)]
  <2>1. \A k \in 1..(n + 2) : c[k] \in 0..Len(z)
    <3> TAKE k \in 1..(n + 2)
    <3>1. CASE k = n + 2 BY <1>1, <1>2, <1>6, <3>1
    <3>2. CASE k # n + 2
      <4>1. k \in 1..(n + 1) BY <1>1, <3>2
      <4>2. c[k] \in 0..Len(s) BY <1>6, <4>1
      <4> QED BY <1>1, <1>2, <4>2
    <3> QED BY <3>1, <3>2
  <2> QED BY <2>1
<1> HIDE DEF c
<1>8. ASSUME NEW i \in 1..(n + 2), NEW j \in 1..(n + 2), i <= j
      PROVE  c[i] <= c[j]
  <2>1. CASE j = n + 2
    <3>1. c[i] \in 0..Len(z) BY <1>7
    <3>2. c[j] = Len(z) BY <1>6, <2>1
    <3> QED BY <1>1, <1>2, <3>1, <3>2
  <2>2. CASE j # n + 2
    <3>1. i \in 1..(n + 1) /\ j \in 1..(n + 1) BY <1>1, <1>8, <2>2
    <3> QED BY <1>5, <1>6, <1>8, <3>1
  <2> QED BY <2>1, <2>2
<1>9. ASSUME NEW k \in 1..(n + 1)
      PROVE  /\ c[k + 1] = c[k] + (e[k].len + 2)
             /\ \A j \in 1..(e[k].len + 2) : z[c[k] + j] = Frame(e[k])[j]
  <2>1. CASE k = n + 1
    <3>1. e[k] = p /\ c[k] = Len(s) /\ c[k + 1] = Len(z) /\ k + 1 = n + 2
        BY <1>1, <1>3, <1>4, <1>6, <2>1
    <3>2. \A j \in 1..(p.len + 2) : /\ Len(s) + j \in 1..(Len(s) + (p.len + 2))
                                    /\ ~(Len(s) + j <= Len(s))
                                    /\ Len(s) + j - Len(s) = j
        BY <1>1
    <3>3. \A j \in 1..(p.len + 2) : z[Len(s) + j] = Frame(p)[j]
        BY <1>2, <3>2
    <3> QED BY <1>2, <3>1, <3>3
  <2>2. CASE k # n + 1
    <3>1. k \in 1..n /\ k + 1 \in 1..(n + 1) BY <1>1, <2>2
    <3>2. e[k] = d[k] /\ c[k] = cut[k] /\ c[k + 1] = cut[k + 1]
        BY <1>3, <1>6, <3>1
    <3> QED BY <1>4, <3>1, <3>2 DEF Cuts
  <2> QED BY <2>1, <2>2
<1>10. 1 \in 1..(n + 1) /\ Len(e) + 1 = n + 2 BY <1>1, <1>3
<1>11. c[1] = 0 BY <1>5, <1>6, <1>10
<1>12. Cuts(z, e, c) BY <1>3, <1>7, <1>8, <1>9, <1>10, <1>11 DEF Cuts
<1>13. FramedBy(z, e, TRUE, c) BY <1>6, <1>10, <1>12 DEF FramedBy
<1> QED BY <1>13 DEF z, e

\* Without its first frame the rest is framed as it was.
LEMMA CutsTail ==
    ASSUME NEW s \in Seq(Bytes), NEW d \in Seq(Packet), d # <<>>,
           NEW whole \in BOOLEAN, NEW cut, FramedBy(s, d, whole, cut)
    PROVE  LET p == Head(d)
           IN  /\ p.len + 2 <= Len(s)
               /\ \A j \in 1..(p.len + 2) : s[j] = Frame(p)[j]
               /\ \E c : FramedBy(SubSeq(s, p.len + 3, Len(s)), Tail(d), whole, c)
<1> DEFINE p == Head(d)
           n == Len(d)
           m == p.len + 2
           z == SubSeq(s, p.len + 3, Len(s))
           e == Tail(d)
           c == [k \in 1..n |-> cut[k + 1] - m]
<1>1. /\ n \in Nat /\ n > 0 /\ Len(s) \in Nat /\ p = d[1] /\ p \in Packet
      /\ p.len \in Nat /\ m \in Nat
    BY EmptySeq, LenProperties, HeadTailProperties, FrameSeq
<1>2. /\ e \in Seq(Packet) /\ Len(e) = n - 1
      /\ \A k \in 1..(n - 1) : e[k] = d[k + 1]
    BY HeadTailProperties
<1>3. /\ cut \in [1..(n + 1) -> 0..Len(s)] /\ cut[1] = 0
      /\ \A i, j \in 1..(n + 1) : i <= j => cut[i] <= cut[j]
      /\ \A k \in 1..n :
          /\ cut[k + 1] = cut[k] + (d[k].len + 2)
          /\ \A j \in 1..(d[k].len + 2) : s[cut[k] + j] = Frame(d[k])[j]
      /\ whole => cut[n + 1] = Len(s)
    BY DEF FramedBy, Cuts
<1>m. m \in Nat /\ m = p.len + 2 /\ p.len \in Nat /\ n \in Nat
      /\ Len(s) \in Nat
    BY <1>1
<1> HIDE DEF z, e, p, m, n
<1>4. cut[2] = m /\ m <= Len(s)
  <2>1. 1 \in 1..n /\ 2 \in 1..(n + 1) BY <1>1
  <2>2. cut[1 + 1] = cut[1] + (d[1].len + 2) BY <1>3, <2>1
  <2>a. d[1].len + 2 = m BY <1>1, <1>m
  <2>b. cut[2] = cut[1] + m BY <2>2, <2>a
  <2>3. cut[2] = m BY <1>3, <1>m, <2>b
  <2>4. cut[2] \in 0..Len(s) BY <1>3, <2>1
  <2> QED BY <1>1, <2>3, <2>4
<1>5. \A j \in 1..m : s[j] = Frame(p)[j]
  <2>1. 1 \in 1..n BY <1>1
  <2>2. \A j \in 1..(d[1].len + 2) : s[cut[1] + j] = Frame(d[1])[j] BY <1>3, <2>1
  <2>3. \A j \in 1..m : cut[1] + j = j BY <1>m, <1>3
  <2>4. d[1].len + 2 = m /\ d[1] = p BY <1>1, <1>m
  <2>5. \A j \in 1..m : s[cut[1] + j] = Frame(p)[j] BY <2>2, <2>4
  <2> QED BY <2>3, <2>5
<1>6. /\ z \in Seq(Bytes) /\ Len(z) = Len(s) - m
      /\ \A i \in 1..(Len(s) - m) : z[i] = s[m + i]
  <2>1. \A i \in (p.len + 3)..Len(s) : s[i] \in Bytes BY <1>1, ElementOfSeq
  <2>2. /\ z \in Seq(Bytes)
        /\ Len(z) = IF p.len + 3 <= Len(s) THEN Len(s) - (p.len + 3) + 1 ELSE 0
        /\ \A i \in 1..(Len(s) - (p.len + 3) + 1) : z[i] = s[p.len + 3 + i - 1]
    <3>1. p.len + 3 \in Int /\ Len(s) \in Int BY <1>1
    <3> QED BY <2>1, <3>1, SubSeqProperties DEF z
  <2>3. Len(s) - (p.len + 3) + 1 = Len(s) - m BY <1>m
  <2>4. \A i \in 1..(Len(s) - m) : p.len + 3 + i - 1 = m + i BY <1>m
  <2>5. p.len + 3 <= Len(s) => Len(z) = Len(s) - m BY <2>2, <2>3
  <2>6. ~(p.len + 3 <= Len(s)) => Len(z) = Len(s) - m BY <1>m, <1>4, <2>2
  <2>7. \A i \in 1..(Len(s) - m) : z[i] = s[m + i] BY <2>2, <2>3, <2>4
  <2> QED BY <2>2, <2>5, <2>6, <2>7
<1>7. ASSUME NEW k \in 1..n
      PROVE  /\ c[k] = cut[k + 1] - m /\ cut[k + 1] \in 0..Len(s)
             /\ c[k] \in 0..Len(z) /\ k + 1 \in 1..(n + 1)
  <2>1. k + 1 \in 1..(n + 1) /\ 2 \in 1..(n + 1) /\ 2 <= k + 1 BY <1>1
  <2>2. cut[2] <= cut[k + 1] /\ cut[k + 1] \in 0..Len(s) BY <1>3, <2>1
  <2>3. c[k] = cut[k + 1] - m BY DEF c
  <2>4. m <= cut[k + 1] /\ Len(z) = Len(s) - m BY <1>4, <1>6, <2>2
  <2>5. c[k] \in 0..Len(z) BY <1>m, <2>2, <2>3, <2>4
  <2> QED BY <2>1, <2>2, <2>3, <2>5
<1>8. c \in [1..n -> 0..Len(z)] BY <1>7
<1> HIDE DEF c
<1>9. ASSUME NEW i \in 1..n, NEW j \in 1..n, i <= j
      PROVE  c[i] <= c[j]
  <2>1. i + 1 <= j + 1 BY <1>1, <1>9
  <2>2. cut[i + 1] <= cut[j + 1] BY <1>3, <1>7, <2>1
  <2> QED BY <1>1, <1>7, <2>2
<1>10. ASSUME NEW k \in 1..(n - 1)
       PROVE  /\ c[k + 1] = c[k] + (e[k].len + 2)
              /\ \A j \in 1..(e[k].len + 2) : z[c[k] + j] = Frame(e[k])[j]
  <2>1. k \in 1..n /\ k + 1 \in 1..n /\ e[k] = d[k + 1] BY <1>1, <1>2
  <2>2. e[k] \in Packet BY <1>2, <2>1, ElementOfSeq
  <2>3. e[k].len \in Nat BY <2>2, FrameSeq
  <2>4. cut[k + 1 + 1] = cut[k + 1] + (e[k].len + 2) BY <1>3, <2>1
  <2> DEFINE a == cut[k + 1]
             b == cut[k + 1 + 1]
             l == e[k].len + 2
             x == c[k]
             y == c[k + 1]
  <2>5. /\ a \in Nat /\ l \in Nat /\ m \in Nat /\ b = a + l
        /\ x = a - m /\ y = b - m
        /\ x \in 0..Len(z) /\ y \in 0..Len(z)
    <3>1. /\ c[k] = cut[k + 1] - m /\ c[k + 1] = cut[k + 1 + 1] - m
          /\ cut[k + 1] \in 0..Len(s)
          /\ c[k] \in 0..Len(z) /\ c[k + 1] \in 0..Len(z)
        BY <1>7, <2>1
    <3>2. cut[k + 1] \in Nat BY <1>m, <3>1
    <3>3. e[k].len + 2 \in Nat BY <2>3
    <3> QED BY <1>m, <2>4, <3>1, <3>2, <3>3
  <2>6. Len(z) = Len(s) - m /\ Len(z) \in Nat BY <1>4, <1>6, <1>m
  <2>7. \A j \in 1..l : s[a + j] = Frame(e[k])[j] BY <1>3, <2>1
  <2> HIDE DEF a, b, l, x, y
  <2>8. y = x + l BY <2>5
  <2>9. ASSUME NEW j \in 1..l
        PROVE  z[x + j] = Frame(e[k])[j]
    <3>1. x \in Nat /\ x + l <= Len(z) BY <2>5, <2>6, <2>8
    <3>2. x + j \in 1..Len(z) BY <2>5, <2>6, <3>1, Within
    <3>3. z[x + j] = s[m + (x + j)] BY <1>6, <2>6, <3>2
    <3>4. m + (x + j) = a + j BY <2>5
    <3> QED BY <2>7, <3>3, <3>4
  <2> QED BY <2>8, <2>9 DEF x, y, l
<1>11. c[1] = 0 /\ (whole => c[n] = Len(z)) /\ Len(e) + 1 = n
  <2>1. 1 \in 1..n /\ n \in 1..n BY <1>1
  <2>2. cut[1 + 1] = m BY <1>4
  <2>3. c[1] = 0 BY <1>1, <1>7, <2>1, <2>2
  <2>4. whole => c[n] = Len(z) BY <1>3, <1>6, <1>7, <2>1
  <2> QED BY <1>1, <1>2, <2>3, <2>4
<1>12. Cuts(z, e, c) BY <1>2, <1>8, <1>9, <1>10, <1>11 DEF Cuts
<1>13. FramedBy(z, e, whole, c) BY <1>11, <1>12 DEF FramedBy
<1>14. FramedBy(SubSeq(s, p.len + 3, Len(s)), e, whole, c) BY <1>13 DEF z
<1>15. p.len + 2 <= Len(s) BY <1>4, <1>m
<1>16. \A j \in 1..(p.len + 2) : s[j] = Frame(p)[j] BY <1>5, <1>m
<1> QED BY <1>14, <1>15, <1>16 DEF e, p

\* A write adds to what a reader would get, or does nothing.
LEMMA WriteExtends ==
    ASSUME NEW q \in Rings(Bytes), NEW s \in Seq(Bytes)
    PROVE  \E t \in Seq(Bytes) : Content(Write(q, s)) = Content(q) \o t
<1>1. CASE Free(q) < Len(s) \/ Len(s) = 0
  <2>1. Write(q, s) = q BY <1>1 DEF Write
  <2>2. Content(q) \o <<>> = Content(q) BY ContentSeq, ConcatEmptySeq
  <2>3. <<>> \in Seq(Bytes) BY EmptySeq
  <2> QED BY <2>1, <2>2, <2>3
<1>2. CASE ~(Free(q) < Len(s) \/ Len(s) = 0)
  <2>1. Len(s) \in Nat /\ Free(q) \in 0..Size BY AvailOK, LenProperties
  <2>2. Len(s) > 0 /\ Len(s) <= Free(q) BY <1>2, <2>1, SizeOK
  <2> QED BY <2>2, WriteAppends
<1> QED BY <1>1, <1>2

\* A packet that is stored whole joins the content as its frame; one that is
\* not leaves what was there.
LEMMA StoredContent ==
    ASSUME NEW q \in Rings(Bytes), NEW p \in Packet
    PROVE  /\ Stored(q, p) \in Rings(Bytes)
           /\ \E t \in Seq(Bytes) : Content(Stored(q, p)) = Content(q) \o t
           /\ Free(q) >= p.len + 2
                => Content(Stored(q, p)) = Content(q) \o Frame(p)
<1> DEFINE r == Write(q, Tag(p))
<1>1. Tag(p) \in Seq(Bytes) /\ Payload(p) \in Seq(Bytes) BY FrameType
<1>2. r \in Rings(Bytes) /\ Stored(q, p) \in Rings(Bytes)
    BY <1>1, WriteType DEF Stored
<1>3. /\ Content(q) \in Seq(Bytes) /\ Content(r) \in Seq(Bytes)
    BY <1>2, ContentSeq
<1>4. PICK t \in Seq(Bytes) : Content(r) = Content(q) \o t
    BY <1>1, WriteExtends
<1>5. PICK u \in Seq(Bytes) : Content(Stored(q, p)) = Content(r) \o u
    BY <1>1, <1>2, WriteExtends DEF Stored
<1>6. /\ Content(Stored(q, p)) = Content(q) \o (t \o u)
      /\ t \o u \in Seq(Bytes)
    BY <1>3, <1>4, <1>5, ConcatAssociative, ConcatProperties
<1>7. ASSUME Free(q) >= p.len + 2
      PROVE  Content(Stored(q, p)) = Content(q) \o Frame(p)
  <2>1. /\ Frame(p) \in Seq(Bytes) /\ Len(Frame(p)) = p.len + 2
        /\ p.len \in Nat /\ p.len > 0
      BY FrameSeq
  <2>2. Frame(p) = Tag(p) \o Payload(p)
    <3>1. /\ 1 \in 1..(Len(Frame(p)) + 1) /\ 2 \in 0..Len(Frame(p))
          /\ Len(Frame(p)) \in 2..Len(Frame(p))
        BY <2>1
    <3>2. SubSeq(Frame(p), 1, 2) \o SubSeq(Frame(p), 2 + 1, Len(Frame(p)))
            = SubSeq(Frame(p), 1, Len(Frame(p)))
        BY <2>1, <3>1, ConcatAdjacentSubSeq
    <3>3. SubSeq(Frame(p), 1, Len(Frame(p))) = Frame(p) BY <2>1, SubSeqFull
    <3>4. Tag(p) \o SubSeq(Frame(p), 3, Len(Frame(p))) = Frame(p)
        BY <3>2, <3>3 DEF Tag
    <3> QED BY <2>1, <3>4 DEF Payload
  <2>3. Len(Tag(p)) = 2 /\ Len(Payload(p)) = p.len
    <3>1. /\ \A i \in 1..2 : Frame(p)[i] \in Bytes
          /\ \A i \in 3..(p.len + 2) : Frame(p)[i] \in Bytes
        BY <2>1, ElementOfSeq
    <3>2. Len(SubSeq(Frame(p), 1, 2)) = IF 1 <= 2 THEN 2 - 1 + 1 ELSE 0
        BY <3>1, SubSeqProperties
    <3>3. Len(SubSeq(Frame(p), 3, p.len + 2)) = p.len
      <4> DEFINE n == p.len + 2
      <4>1. n \in Int /\ 3 <= n /\ n - 3 + 1 = p.len BY <2>1
      <4>2. \A i \in 3..n : Frame(p)[i] \in Bytes BY <3>1
      <4> HIDE DEF n
      <4>3. Len(SubSeq(Frame(p), 3, n)) = IF 3 <= n THEN n - 3 + 1 ELSE 0
          BY <4>1, <4>2, SubSeqProperties
      <4>4. Len(SubSeq(Frame(p), 3, n)) = p.len BY <4>1, <4>3
      <4> QED BY <4>4 DEF n
    <3>4. Len(Tag(p)) = 2 BY <3>2 DEF Tag
    <3>5. Len(Payload(p)) = p.len BY <3>3 DEF Payload
    <3> QED BY <3>4, <3>5
  <2>4. Free(q) \in Nat /\ Avail(q) \in Nat /\ Free(q) = Size - Avail(q)
    <3>1. Free(q) \in 0..Size /\ Avail(q) \in 0..Size /\ Free(q) = Size - Avail(q)
        BY AvailOK
    <3> QED BY <3>1, SizeOK
  <2>5. Len(Tag(p)) > 0 /\ Len(Tag(p)) <= Free(q)
      BY <1>7, <2>1, <2>3, <2>4
  <2>6. Content(r) = Content(q) \o Tag(p) /\ Avail(r) = Avail(q) + 2
      BY <1>1, <2>3, <2>5, WriteAppends, WriteAvail
  <2>7. Free(r) = Size - Avail(r) BY <1>2, AvailOK
  <2>8. Len(Payload(p)) > 0 /\ Len(Payload(p)) <= Free(r)
      BY <1>7, <2>1, <2>3, <2>4, <2>6, <2>7, SizeOK
  <2>9. Content(Stored(q, p)) = Content(r) \o Payload(p)
      BY <1>1, <1>2, <2>8, WriteAppends DEF Stored
  <2>10. Content(Stored(q, p)) = Content(q) \o (Tag(p) \o Payload(p))
    <3>1. Content(Stored(q, p)) = (Content(q) \o Tag(p)) \o Payload(p)
        BY <2>6, <2>9
    <3>2. (Content(q) \o Tag(p)) \o Payload(p)
            = Content(q) \o (Tag(p) \o Payload(p))
      <4> DEFINE a == Content(q)
                 b == Tag(p)
                 c == Payload(p)
      <4>1. a \in Seq(Bytes) /\ b \in Seq(Bytes) /\ c \in Seq(Bytes)
          BY <1>1, <1>3
      <4> HIDE DEF a, b, c
      <4>2. (a \o b) \o c = a \o (b \o c) BY <4>1, ConcatAssociative
      <4> QED BY <4>2 DEF a, b, c
    <3> QED BY <3>1, <3>2
  <2> QED BY <2>2, <2>10
<1> QED BY <1>2, <1>6, <1>7

-----------------------------------------------------------------------------
(* The framing is kept. *)

FrameInv == \E cut : FramedBy(Content(rb), due, ~torn, cut)

LEMMA RingNow ==
    ASSUME VhciTypeOK
    PROVE  /\ rb \in Rings(Bytes)
           /\ Content(rb) \in Seq(Bytes) /\ Len(Content(rb)) = Avail(rb)
           /\ Avail(rb) \in Nat /\ Avail(rb) <= Size
<1>1. rb \in Rings(Bytes) BY DEF VhciTypeOK, Bytes
<1>2. Avail(rb) \in 0..Size BY <1>1, AvailOK
<1> QED BY <1>1, <1>2, ContentSeq, SizeOK

\* No packet and no byte.
LEMMA NoFrames ==
    ASSUME NEW s \in Seq(Bytes), NEW whole \in BOOLEAN, whole => Len(s) = 0
    PROVE  FramedBy(s, <<>>, whole, [k \in 1..1 |-> 0])
<1>1. Len(s) \in Nat BY LenProperties
<1> DEFINE cut == [k \in 1..1 |-> 0]
<1>2. Len(<<>>) = 0 BY EmptySeq
<1>3. cut \in [1..1 -> 0..Len(s)] /\ cut[1] = 0 BY <1>1
<1>4. \A i, j \in 1..1 : cut[i] <= cut[j] BY <1>3
<1> HIDE DEF cut
<1>5. Cuts(s, <<>>, cut) BY <1>2, <1>3, <1>4 DEF Cuts
<1>6. FramedBy(s, <<>>, whole, cut) BY <1>2, <1>3, <1>5 DEF FramedBy
<1> QED BY <1>6 DEF cut

LEMMA FrameInit == VhciInit => FrameInv
<1> SUFFICES ASSUME VhciInit PROVE FrameInv
    OBVIOUS
<1>1. rb \in Rings(Bytes) /\ Avail(rb) = 0 BY EmptyRingOK DEF VhciInit
<1>2. Content(rb) \in Seq(Bytes) /\ Len(Content(rb)) = 0 BY <1>1, ContentSeq
<1>3. due = <<>> /\ torn = FALSE BY DEF VhciInit
<1>4. FramedBy(Content(rb), <<>>, TRUE, [k \in 1..1 |-> 0]) BY <1>2, NoFrames
<1>5. FramedBy(Content(rb), due, ~torn, [k \in 1..1 |-> 0]) BY <1>3, <1>4
<1> QED BY <1>5 DEF FrameInv

LEMMA ReceiveFrames ==
    ASSUME VhciTypeOK, FrameInv, NEW len \in Lens, Receive(len)
    PROVE  FrameInv'
<1> DEFINE p == [id |-> next, len |-> len]
           whole == Free(rb) >= len + 2
<1>1. p \in Packet /\ p.len = len BY DEF Packet, VhciTypeOK
<1>2. PICK cut : FramedBy(Content(rb), due, ~torn, cut) BY DEF FrameInv
<1>3. rb \in Rings(Bytes) /\ Content(rb) \in Seq(Bytes) /\ due \in Seq(Packet)
      /\ torn \in BOOLEAN
    BY RingNow DEF VhciTypeOK
<1>4. CASE Drops(len)
  <2>1. UNCHANGED <<rb, due, torn>> BY <1>4 DEF Receive
  <2> QED BY <1>2, <2>1 DEF FrameInv
<1>5. CASE ~Drops(len)
  <2>1. /\ rb' = Stored(rb, p)
        /\ due' = IF whole /\ ~torn THEN Append(due, p) ELSE due
        /\ torn' = (torn \/ ~whole)
      BY <1>5 DEF Receive
  <2>2. CASE whole /\ ~torn
    <3>1. Content(rb') = Content(rb) \o Frame(p)
        BY <1>1, <1>3, <2>1, <2>2, StoredContent
    <3>2. FramedBy(Content(rb), due, TRUE, cut) BY <1>2, <2>2 DEF FramedBy
    <3>3. PICK c : FramedBy(Content(rb) \o Frame(p), Append(due, p), TRUE, c)
        BY <1>1, <1>3, <3>2, CutsAppend
    <3>4. FramedBy(Content(rb'), due', TRUE, c)
        BY <2>1, <2>2, <3>1, <3>3
    <3>5. FramedBy(Content(rb'), due', ~torn', c)
        BY <2>1, <2>2, <3>4
    <3> QED BY <3>5 DEF FrameInv
  <2>3. CASE ~(whole /\ ~torn)
    <3>1. PICK t \in Seq(Bytes) : Content(rb') = Content(rb) \o t
        BY <1>1, <1>3, <2>1, StoredContent
    <3>2. due' = due /\ torn' BY <2>1, <2>3
    <3>3. Cuts(Content(rb) \o t, due, cut)
        BY <1>2, <1>3, CutsExtend DEF FramedBy
    <3>4. FramedBy(Content(rb'), due', ~torn', cut)
        BY <3>1, <3>2, <3>3 DEF FramedBy
    <3> QED BY <3>4 DEF FrameInv
  <2> QED BY <2>2, <2>3
<1> QED BY <1>4, <1>5

\* While a packet in the ring is whole the loop reads its tag, and with it the
\* packet: what it hands up is the first that is due.
LEMMA DeliverFrames ==
    ASSUME VhciTypeOK, FrameInv, Deliver
    PROVE  /\ FrameInv'
           /\ due # <<>> => got' = Head(due)
<1> DEFINE s == Content(rb)
<1>1. /\ rb \in Rings(Bytes) /\ s \in Seq(Bytes) /\ Len(s) = Avail(rb)
      /\ Avail(rb) \in Nat /\ Avail(rb) > 0 /\ Blank \in Bytes
      /\ due \in Seq(Packet) /\ torn \in BOOLEAN
    BY RingNow DEF Deliver, VhciTypeOK, Bytes
<1>2. PICK len \in TagSays(ReadBytes(rb, 2)) :
        /\ rb' = AfterRead(rb, 2 + len)
        /\ got' = Handed(SubSeq(ReadBytes(rb, 2 + len), 3,
                                Len(ReadBytes(rb, 2 + len))), len)
    BY DEF Deliver
<1>3. 2 + len \in Nat BY <1>2, TagSaysNat
<1>4. /\ due' = IF due = <<>> THEN due ELSE Tail(due)
      /\ torn' = (torn /\ Avail(rb') > 0)
    BY DEF Deliver
<1>5. /\ rb' \in Rings(Bytes)
      /\ Content(rb') = SubSeq(s, Taken(rb, 2 + len) + 1, Avail(rb))
      /\ ReadBytes(rb, 2 + len) = SubSeq(s, 1, Taken(rb, 2 + len))
      /\ ReadBytes(rb, 2) = SubSeq(s, 1, Taken(rb, 2))
    BY <1>1, <1>2, <1>3, ReadTakesFront
<1>6. /\ Content(rb') \in Seq(Bytes) /\ Len(Content(rb')) = Avail(rb')
      /\ Avail(rb') \in Nat
  <2>1. Avail(rb') \in 0..Size BY <1>5, AvailOK
  <2>2. Content(rb') \in Seq(Bytes) /\ Len(Content(rb')) = Avail(rb')
      BY <1>5, ContentSeq
  <2> DEFINE a == Avail(rb')
  <2>3. a \in 0..Size BY <2>1
  <2> HIDE DEF a
  <2>4. a \in Nat BY <2>3, SizeOK
  <2> QED BY <2>2, <2>4 DEF a
<1>7. PICK cut : FramedBy(s, due, ~torn, cut) BY DEF FrameInv
<1>e. torn /\ ~torn' => Len(Content(rb')) = 0
  <2>1. torn /\ ~torn' => ~(Avail(rb') > 0) BY <1>1, <1>4
  <2> DEFINE a == Avail(rb')
  <2>2. a \in Nat /\ Len(Content(rb')) = a BY <1>6
  <2> HIDE DEF a
  <2>3. ~(a > 0) => a = 0 BY <2>2
  <2> QED BY <2>1, <2>2, <2>3 DEF a
<1> HIDE DEF s
<1>8. CASE due = <<>>
  <2>1. torn
    <3>1. Len(due) = 0 BY <1>8, EmptySeq
    <3>2. cut[1] = 0 /\ (~torn => cut[1] = Len(s))
        BY <1>7, <3>1 DEF FramedBy, Cuts
    <3> QED BY <1>1, <3>2
  <2>2. ~torn' => Len(Content(rb')) = 0 BY <1>e, <2>1
  <2>3. due' = <<>> BY <1>4, <1>8
  <2>4. (~torn') \in BOOLEAN BY <1>4
  <2>5. FramedBy(Content(rb'), <<>>, ~torn', [k \in 1..1 |-> 0])
      BY <1>6, <2>2, <2>4, NoFrames
  <2> QED BY <1>8, <2>3, <2>5 DEF FrameInv
<1>9. CASE due # <<>>
  <2> DEFINE p == Head(due)
  <2>0. p \in Packet /\ due' = Tail(due) BY <1>1, <1>4, <1>9, HeadTailProperties
  <2>1. /\ p.len + 2 <= Len(s)
        /\ \A j \in 1..(p.len + 2) : s[j] = Frame(p)[j]
        /\ \E c : FramedBy(SubSeq(s, p.len + 3, Len(s)), Tail(due), ~torn, c)
    <3>1. (~torn) \in BOOLEAN BY <1>1
    <3> QED BY <1>1, <1>7, <1>9, <3>1, CutsTail
  <2>2. /\ p.len \in Nat /\ p.len > 0 /\ Frame(p) \in Seq(Bytes)
        /\ Len(Frame(p)) = p.len + 2
        /\ \A j \in 1..(p.len + 2) : Frame(p)[j] = [pkt |-> p, at |-> j - 1]
      BY <2>0, FrameSeq
  <2> HIDE DEF p
  <2>3. len = p.len
    <3> DEFINE t == ReadBytes(rb, 2)
    <3>1. Taken(rb, 2) = 2 BY <1>1, <2>1, <2>2 DEF Taken
    <3>2. \A i \in 1..2 : s[i] \in Bytes
        BY <1>1, <2>1, <2>2, ElementOfSeq
    <3>3. /\ Len(SubSeq(s, 1, 2)) = IF 1 <= 2 THEN 2 - 1 + 1 ELSE 0
          /\ \A i \in 1..(2 - 1 + 1) : SubSeq(s, 1, 2)[i] = s[1 + i - 1]
        BY <3>2, SubSeqProperties
    <3>4. t = SubSeq(s, 1, 2) BY <1>5, <3>1
    <3>5. Len(t) = 2 /\ t[1] = s[1] /\ t[2] = s[2]
        BY <3>3, <3>4
    <3>6. 1 \in 1..(p.len + 2) /\ 2 \in 1..(p.len + 2) BY <2>2
    <3>7. t[1] = [pkt |-> p, at |-> 0] /\ t[2] = [pkt |-> p, at |-> 1]
        BY <2>1, <2>2, <3>5, <3>6
    <3>8. t[1] \in Cell /\ t[2] \in Cell BY <2>0, <3>7 DEF Cell, p
    <3> HIDE DEF t
    <3>9. TagSays(t) = {p.len} BY <3>5, <3>7, <3>8 DEF TagSays
    <3> QED BY <1>2, <3>9 DEF t
  <2>4. Taken(rb, 2 + len) = p.len + 2 /\ p.len + 2 + 1 = p.len + 3
      BY <1>1, <2>1, <2>2, <2>3 DEF Taken
  <2>5. Content(rb') = SubSeq(s, p.len + 3, Len(s))
      BY <1>1, <1>5, <2>4
  <2>6. PICK c : FramedBy(Content(rb'), due', ~torn, c)
      BY <2>0, <2>1, <2>5
  <2>7. FrameInv'
    <3>1. ~torn' => c[Len(due') + 1] = Len(Content(rb'))
      <4>1. CASE ~torn BY <2>6, <4>1 DEF FramedBy
      <4>2. CASE torn
        <5>1. ~torn' => Len(Content(rb')) = 0 BY <1>e, <4>2
        <5>2. Len(due') \in Nat BY <1>1, <1>9, <2>0, HeadTailProperties, LenProperties
        <5>3. Len(due') + 1 \in 1..(Len(due') + 1) BY <5>2
        <5>4. c[Len(due') + 1] \in 0..Len(Content(rb'))
            BY <2>6, <5>3 DEF FramedBy, Cuts
        <5> QED BY <1>6, <5>1, <5>4
      <4> QED BY <4>1, <4>2
    <3>2. FramedBy(Content(rb'), due', ~torn', c) BY <2>6, <3>1 DEF FramedBy
    <3> QED BY <3>2 DEF FrameInv
  <2>8. got' = p
    <3> DEFINE read == ReadBytes(rb, 2 + len)
               body == SubSeq(read, 3, Len(read))
    <3>1. read = SubSeq(s, 1, p.len + 2) BY <1>5, <2>4
    <3>2. \A i \in 1..(p.len + 2) : s[i] \in Bytes
        BY <1>1, <2>1, <2>2, ElementOfSeq
    <3>3. /\ read \in Seq(Bytes) /\ Len(read) = p.len + 2
          /\ \A i \in 1..(p.len + 2) : read[i] = s[i]
      <4> DEFINE n == p.len + 2
      <4>1. n \in Int /\ 1 <= n /\ n - 1 + 1 = n BY <2>2
      <4> HIDE DEF n
      <4>2. \A i \in 1..n : s[i] \in Bytes BY <3>2 DEF n
      <4>3. /\ SubSeq(s, 1, n) \in Seq(Bytes)
            /\ Len(SubSeq(s, 1, n)) = IF 1 <= n THEN n - 1 + 1 ELSE 0
            /\ \A i \in 1..(n - 1 + 1) : SubSeq(s, 1, n)[i] = s[1 + i - 1]
          BY <4>1, <4>2, SubSeqProperties
      <4>4. \A i \in 1..n : 1 + i - 1 = i BY <4>1
      <4>5. /\ Len(SubSeq(s, 1, n)) = n
            /\ \A i \in 1..n : SubSeq(s, 1, n)[i] = s[i]
          BY <4>1, <4>3, <4>4
      <4> QED BY <3>1, <4>3, <4>5 DEF n
    <3>4. read = Frame(p)
      <4>1. \A i \in 1..Len(read) : read[i] = Frame(p)[i] BY <2>1, <3>3
      <4> QED BY <2>2, <3>3, <4>1, SeqEqual
    <3>5. body = Payload(p) BY <2>2, <3>4 DEF Payload
    <3>6. /\ Len(Payload(p)) = p.len
          /\ Payload(p)[1] = [pkt |-> p, at |-> 2]
      <4> DEFINE n == p.len + 2
      <4>1. n \in Int /\ 3 <= n /\ n - 3 + 1 = p.len BY <2>2
      <4>2. \A i \in 3..n : Frame(p)[i] \in Bytes BY <2>2, ElementOfSeq
      <4> HIDE DEF n
      <4>3. /\ Len(SubSeq(Frame(p), 3, n)) = IF 3 <= n THEN n - 3 + 1 ELSE 0
            /\ \A i \in 1..(n - 3 + 1) : SubSeq(Frame(p), 3, n)[i] = Frame(p)[3 + i - 1]
          BY <4>1, <4>2, SubSeqProperties
      <4>4. 1 \in 1..(n - 3 + 1) BY <2>2, <4>1
      <4>5. SubSeq(Frame(p), 3, n)[1] = Frame(p)[3 + 1 - 1] BY <4>3, <4>4
      <4>6. 3 \in 1..(p.len + 2) BY <2>2
      <4>7. Frame(p)[3] = [pkt |-> p, at |-> 2] BY <2>2, <4>6
      <4>8. 3 + 1 - 1 = 3 OBVIOUS
      <4>9. SubSeq(Frame(p), 3, n)[1] = [pkt |-> p, at |-> 2]
          BY <4>5, <4>7, <4>8
      <4>10. Len(SubSeq(Frame(p), 3, n)) = p.len BY <4>1, <4>3
      <4> QED BY <4>9, <4>10 DEF Payload, n
    <3>7. Payload(p)[1] \in Cell BY <2>0, <3>6 DEF Cell, p
    <3>8. Payload(p)[1].pkt = p BY <3>6
    <3> HIDE DEF body
    <3>9. Handed(body, len) = p
        BY <2>2, <2>3, <3>5, <3>6, <3>7, <3>8 DEF Handed
    <3> QED BY <1>2, <3>9 DEF body
  <2> QED BY <2>7, <2>8 DEF p
<1> QED BY <1>8, <1>9

LEMMA FrameStep ==
    ASSUME VhciTypeOK, FrameInv, [VhciNext]_vars
    PROVE  FrameInv'
<1>1. CASE UNCHANGED <<rb, due, torn>> BY <1>1 DEF FrameInv
<1>2. ASSUME NEW len \in Lens, Receive(len) PROVE FrameInv'
    BY <1>2, ReceiveFrames
<1>3. CASE Deliver BY <1>3, DeliverFrames
<1> QED BY <1>1, <1>2, <1>3
        DEF VhciNext, Controller, Posting, RunLoop, SendAvailable, Post, Ring,
            NextCallback, DeliverEnds, Timers, Wake, WakeByTimer, vars

\* The two sides agree on where packets start, up to the first torn one, for a
\* ring of any size and packets of any length.
THEOREM FramedHolds == VhciSpec => []Framed
<1>1. VhciInit => VhciTypeOK /\ FrameInv BY VhciInitTypes, FrameInit
<1>2. VhciTypeOK /\ FrameInv /\ [VhciNext]_vars => (VhciTypeOK /\ FrameInv)'
    BY VhciTypeStep, FrameStep
<1>3. VhciTypeOK /\ FrameInv => Framed BY CutsFramed DEF FrameInv
<1> QED BY <1>1, <1>2, <1>3, PTL DEF VhciSpec

\* The handler gets the packets that were stored whole in the order in which
\* the controller sent them, none twice and none left out, until the loop comes
\* to one that was torn.
THEOREM DeliveredInOrder ==
    VhciSpec => [][Deliver /\ due # <<>> => got' = Head(due)]_vars
<1>1. VhciInit => VhciTypeOK /\ FrameInv BY VhciInitTypes, FrameInit
<1>2. VhciTypeOK /\ FrameInv /\ [VhciNext]_vars => (VhciTypeOK /\ FrameInv)'
    BY VhciTypeStep, FrameStep
<1>3. VhciTypeOK /\ FrameInv /\ [VhciNext]_vars
        => [Deliver /\ due # <<>> => got' = Head(due)]_vars
    BY DeliverFrames
<1> QED BY <1>1, <1>2, <1>3, PTL DEF VhciSpec
=============================================================================
