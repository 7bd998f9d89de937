----------------------------- MODULE RingBuffer -----------------------------
(***************************************************************************)
(* btstack_ring_buffer.c: a byte ring with a read and a write index and a  *)
(* flag that tells full from empty when the two meet.  A ring is a record; *)
(* the operators return the ring after the call.                           *)
(***************************************************************************)
EXTENDS Naturals, Sequences

CONSTANTS
    Size,    \* bytes of storage
    Blank    \* a byte nobody will read: never written, or read already

ASSUME SizeAssumption == Size \in Nat \ {0}

Slots == 0..(Size - 1)

\* A full ring's indices have met.
Rings(Cells) ==
    {rb \in [mem : [Slots -> Cells], r : Slots, w : Slots, full : BOOLEAN] :
        rb.full => rb.w = rb.r}

\* btstack_ring_buffer_init() and _reset().
EmptyRing == [mem |-> [i \in Slots |-> Blank], r |-> 0, w |-> 0, full |-> FALSE]

\* An index that ran past the end goes on at the start.
Wrap(i) == IF i >= Size THEN i - Size ELSE i

\* btstack_ring_buffer_bytes_available().
Avail(rb) == IF rb.full THEN Size
             ELSE IF rb.w >= rb.r THEN rb.w - rb.r ELSE rb.w + Size - rb.r

\* btstack_ring_buffer_bytes_free().
Free(rb) == Size - Avail(rb)

\* What a reader would get, oldest first.
Content(rb) == [k \in 1..Avail(rb) |-> rb.mem[Wrap(rb.r + k - 1)]]

\* The distance of a slot from an index, going up.
Ahead(i, from) == IF i >= from THEN i - from ELSE i + Size - from

\* btstack_ring_buffer_write(): all of s or, without the room, nothing.
Write(rb, s) ==
    IF Free(rb) < Len(s) \/ Len(s) = 0 THEN rb
    ELSE LET w == Wrap(rb.w + Len(s))
         IN  [rb EXCEPT
                !.mem = [i \in Slots |-> IF Ahead(i, rb.w) < Len(s)
                                         THEN s[Ahead(i, rb.w) + 1] ELSE @[i]],
                !.w = w,
                !.full = w = rb.r]

\* btstack_ring_buffer_read() takes what there is, up to n ...
Taken(rb, n) == IF n < Avail(rb) THEN n ELSE Avail(rb)

ReadBytes(rb, n) == SubSeq(Content(rb), 1, Taken(rb, n))

\* (What was read stays in the storage; nothing reads it again.)
Blanked(rb, n) == [i \in Slots |-> IF Ahead(i, rb.r) < n THEN Blank ELSE rb.mem[i]]

\* ... and moves the read index past it.
AfterRead(rb, n) ==
    IF Taken(rb, n) = 0 THEN rb
    ELSE [rb EXCEPT !.r = Wrap(@ + Taken(rb, n)), !.full = FALSE,
                    !.mem = Blanked(rb, Taken(rb, n))]
=============================================================================
