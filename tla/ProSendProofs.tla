---------------------------- MODULE ProSendProofs ----------------------------
(***************************************************************************)
(* Proofs about ProSend: the queue of replies, the send request's latch,   *)
(* the nudge, and the refinement of Handoff, for queues, inputs and        *)
(* settling times of any size.                                             *)
(***************************************************************************)
EXTENDS ProSend, SequenceTheorems, TLAPS

\* A channel that is open belongs to a connection, whose run loop is up; and a
\* connection that does not stream yet has reported no buttons.
LinkInv ==
    /\ conn.intr = "open" => conn.open
    /\ conn.open => nudge.ready
    /\ conn.open /\ ~stream.on => stream.prev = NoButtons

\* The snapshot is the one published last, but for what is not copied yet.
CopyInv ==
    /\ app.at = "copying" => state.btn = app.goal.btn
    /\ app.at # "copying" => state = app.goal

\* The callback is in one place at a time, and the flag is set wherever it is.
NudgeInv ==
    /\ PostedOnce
    /\ nudge.queued => ~nudge.popped
    /\ app.at = "posting" \/ nudge.queued \/ nudge.popped => nudge.pending

\* What a host at rest lacks is on its way: the nudge or a send request.
PromptInv ==
    stream.on /\ conn.intr = "open" /\ app.at = "idle" /\ ~replied
        => host = app.goal \/ nudge.pending \/ latch

SendInv == /\ SendTypeOK /\ RepliesOwed /\ LinkInv /\ CopyInv /\ NudgeInv
           /\ LatchLive /\ PromptInv

-----------------------------------------------------------------------------
(* The parts of a step. *)

\* A request leaves the latch set and, over an open channel, L2CAP asked; or
\* both as they were.
LEMMA RequestedSets ==
    ASSUME NEW l \in BOOLEAN, NEW a \in [user : BOOLEAN, waiting : BOOLEAN],
           conn.open \in BOOLEAN
    PROVE  /\ Requested(l, a).latch \in BOOLEAN
           /\ Requested(l, a).asked \in [user : BOOLEAN, waiting : BOOLEAN]
           /\ l => Requested(l, a).latch /\ Requested(l, a).asked = a
           /\ conn.open /\ ~l => Requested(l, a).latch
           /\ conn.open /\ ~l /\ conn.intr = "open"
                => Requested(l, a).asked = [user |-> TRUE, waiting |-> TRUE]
BY DEF Requested

\* An index taken modulo the queue's length is one of its slots.
LEMMA SlotOK ==
    ASSUME NEW n \in Nat
    PROVE  n % QueueLen \in 0..(QueueLen - 1)
<1>1. QueueLen \in Nat /\ QueueLen > 0 BY SendAssumption
<1> QED BY <1>1, SMT

LEMMA ModOf ==
    ASSUME NEW n \in Nat, n < 2 * QueueLen
    PROVE  n % QueueLen = IF n < QueueLen THEN n ELSE n - QueueLen
<1>1. QueueLen \in Nat /\ QueueLen > 0 BY SendAssumption
<1> QED BY <1>1, SMT

Rings == [slots : [0..(QueueLen - 1) -> 0..MaxAsks], head : 0..(QueueLen - 1),
          count : 0..QueueLen]

\* The contents of a queue, as a sequence.
Listed(r) == [k \in 1..r.count |-> r.slots[(r.head + k - 1) % QueueLen]]

LEMMA ListedSeq ==
    ASSUME NEW r \in Rings
    PROVE  /\ Listed(r) \in Seq(0..MaxAsks)
           /\ Len(Listed(r)) = r.count
           /\ \A k \in 1..r.count : Listed(r)[k] = r.slots[(r.head + k - 1) % QueueLen]
<1>1. QueueLen \in Nat /\ r.count \in Nat /\ r.head \in Nat
    BY SendAssumption DEF Rings
<1>2. \A k \in 1..r.count : r.slots[(r.head + k - 1) % QueueLen] \in 0..MaxAsks
  <2> TAKE k \in 1..r.count
  <2>1. r.head + k - 1 \in Nat BY <1>1
  <2> QED BY <2>1, SlotOK DEF Rings
<1>3. Listed(r) \in [1..r.count -> 0..MaxAsks] BY <1>2 DEF Listed
<1>4. Listed(r) \in Seq(0..MaxAsks) BY <1>1, <1>3, SeqDef
<1>5. DOMAIN Listed(r) = 1..r.count BY DEF Listed
<1>6. Len(Listed(r)) = r.count BY <1>1, <1>4, <1>5, LenProperties
<1> QED BY <1>4, <1>6 DEF Listed

\* Two places of the ring less than its length apart are not the same slot.
LEMMA SlotsDiffer ==
    ASSUME NEW h \in 0..(QueueLen - 1), NEW i \in 0..QueueLen, NEW j \in 0..QueueLen,
           i < j, j - i < QueueLen
    PROVE  (h + i) % QueueLen # (h + j) % QueueLen
<1> DEFINE N == QueueLen
<1>1. N \in Nat /\ N > 0 BY SendAssumption
<1>2. (h + i) % N = IF h + i < N THEN h + i ELSE IF h + i < 2 * N THEN h + i - N ELSE h + i - 2 * N
    BY <1>1, SMT
<1>3. (h + j) % N = IF h + j < N THEN h + j ELSE IF h + j < 2 * N THEN h + j - N ELSE h + j - 2 * N
    BY <1>1, SMT
<1> QED BY <1>1, <1>2, <1>3, SMT

\* What joins a queue with room joins its end.
LEMMA PushAppends ==
    ASSUME NEW r \in Rings, r.count < QueueLen, NEW c \in 0..MaxAsks
    PROVE  Push(r, c) \in Rings /\ Listed(Push(r, c)) = Append(Listed(r), c)
<1> DEFINE p == Push(r, c)
<1>1. /\ QueueLen \in Nat /\ r.count \in Nat /\ r.head \in Nat
      /\ p.count = r.count + 1 /\ p.head = r.head
    BY SendAssumption DEF Rings, Push
<1>2. (r.head + r.count) % QueueLen \in 0..(QueueLen - 1) BY <1>1, SlotOK
<1>3. /\ p.slots \in [0..(QueueLen - 1) -> 0..MaxAsks]
      /\ \A s \in 0..(QueueLen - 1) :
            p.slots[s] = IF s = (r.head + r.count) % QueueLen THEN c ELSE r.slots[s]
    BY <1>1, <1>2 DEF Rings, Push
<1>4. p \in Rings
  <2>1. p = [slots |-> p.slots, head |-> p.head, count |-> p.count]
      BY <1>1 DEF Rings, Push
  <2>2. p.head \in 0..(QueueLen - 1) /\ p.count \in 0..QueueLen
      BY <1>1 DEF Rings
  <2> QED BY <1>3, <2>1, <2>2 DEF Rings
<1>5. \A k \in 1..r.count : Listed(p)[k] = Listed(r)[k]
  <2> TAKE k \in 1..r.count
  <2>1. /\ k - 1 \in 0..QueueLen /\ r.count \in 0..QueueLen
        /\ k - 1 < r.count /\ r.count - (k - 1) < QueueLen
        /\ r.head \in 0..(QueueLen - 1)
      BY <1>1 DEF Rings
  <2>2. (r.head + (k - 1)) % QueueLen # (r.head + r.count) % QueueLen
      BY <2>1, SlotsDiffer
  <2>3. (r.head + (k - 1)) % QueueLen \in 0..(QueueLen - 1)
      BY <2>1, <1>1, SlotOK
  <2>4. p.slots[(r.head + (k - 1)) % QueueLen] = r.slots[(r.head + (k - 1)) % QueueLen]
      BY <1>3, <2>2, <2>3
  <2>5. r.head + k - 1 = r.head + (k - 1) BY <1>1
  <2>6. k \in 1..p.count BY <1>1
  <2> QED BY <1>1, <1>4, <2>4, <2>5, <2>6, ListedSeq
<1>6. Listed(p)[r.count + 1] = c
  <2>1. r.count + 1 \in 1..p.count /\ r.head + (r.count + 1) - 1 = r.head + r.count
      BY <1>1
  <2>2. Listed(p)[r.count + 1] = p.slots[(p.head + (r.count + 1) - 1) % QueueLen]
      BY <1>4, <2>1, ListedSeq
  <2> QED BY <1>1, <1>2, <1>3, <2>1, <2>2
<1>7. /\ Listed(r) \in Seq(0..MaxAsks) /\ Len(Listed(r)) = r.count
      /\ Listed(p) \in Seq(0..MaxAsks) /\ Len(Listed(p)) = r.count + 1
    BY <1>1, <1>4, ListedSeq
<1>8. Listed(p) = Append(Listed(r), c)
  <2>1. /\ Append(Listed(r), c) \in Seq(0..MaxAsks)
        /\ Len(Append(Listed(r), c)) = r.count + 1
        /\ \A k \in 1..r.count : Append(Listed(r), c)[k] = Listed(r)[k]
        /\ Append(Listed(r), c)[r.count + 1] = c
      BY <1>7, AppendProperties
  <2>2. \A k \in 1..(r.count + 1) : Listed(p)[k] = Append(Listed(r), c)[k]
      BY <1>1, <1>5, <1>6, <2>1
  <2> QED BY <1>7, <2>1, <2>2, SeqEqual
<1> QED BY <1>4, <1>8

\* What leaves it leaves its front.
LEMMA PopTails ==
    ASSUME NEW r \in Rings, r.count > 0
    PROVE  Pop(r) \in Rings /\ Listed(Pop(r)) = Tail(Listed(r))
<1> DEFINE p == Pop(r)
<1>1. /\ QueueLen \in Nat /\ QueueLen > 0
      /\ r.count \in Nat /\ r.head \in Nat /\ r.head < QueueLen
      /\ p.count = r.count - 1 /\ p.head = (r.head + 1) % QueueLen
      /\ p.slots = r.slots
    BY SendAssumption DEF Rings, Pop
<1>2. p \in Rings
  <2>1. p = [slots |-> p.slots, head |-> p.head, count |-> p.count]
      BY DEF Pop
  <2>2. p.head \in 0..(QueueLen - 1) BY <1>1, SlotOK
  <2>3. p.count \in 0..QueueLen /\ p.slots \in [0..(QueueLen - 1) -> 0..MaxAsks]
      BY <1>1 DEF Rings
  <2> QED BY <2>1, <2>2, <2>3 DEF Rings
<1>3. /\ Listed(r) \in Seq(0..MaxAsks) /\ Len(Listed(r)) = r.count
      /\ Listed(p) \in Seq(0..MaxAsks) /\ Len(Listed(p)) = r.count - 1
    BY <1>1, <1>2, ListedSeq
<1>4. Listed(r) # <<>> BY <1>3
<1>5. \A k \in 1..(r.count - 1) : Listed(p)[k] = Listed(r)[k + 1]
  <2> TAKE k \in 1..(r.count - 1)
  <2>1. p.head = IF r.head + 1 < QueueLen THEN r.head + 1 ELSE 0
      BY <1>1, ModOf
  <2>2. /\ k \in Nat /\ k > 0 /\ k < QueueLen
        /\ k \in 1..p.count /\ k + 1 \in 1..r.count
      BY <1>1 DEF Rings
  <2>3. (r.head + (k + 1) - 1) % QueueLen
          = IF r.head + k < QueueLen THEN r.head + k ELSE r.head + k - QueueLen
      BY <1>1, <2>2, ModOf
  <2>4. (p.head + k - 1) % QueueLen
          = IF r.head + k < QueueLen THEN r.head + k ELSE r.head + k - QueueLen
    <3>1. CASE r.head + 1 < QueueLen
      <4>1. p.head + k - 1 = r.head + k BY <1>1, <2>1, <2>2, <3>1
      <4> QED BY <1>1, <2>2, <4>1, ModOf
    <3>2. CASE r.head + 1 = QueueLen
      <4>0. p.head = 0 BY <2>1, <3>2, <1>1
      <4>1. p.head + k - 1 = k - 1 BY <2>2, <4>0
      <4>2a. k \in Nat /\ r.head \in Nat /\ QueueLen \in Nat BY <1>1, <2>2
      <4>3. r.head + k = QueueLen + (k - 1) BY <3>2, <4>2a
      <4>2. (k - 1) % QueueLen = k - 1 BY <1>1, <2>2, ModOf
      <4> QED BY <1>1, <2>2, <4>1, <4>2, <4>3
    <3> QED BY <1>1, <3>1, <3>2
  <2>5. Listed(p)[k] = p.slots[(p.head + k - 1) % QueueLen]
      BY <1>2, <2>2, ListedSeq
  <2>6. Listed(r)[k + 1] = r.slots[(r.head + (k + 1) - 1) % QueueLen]
      BY <2>2, ListedSeq
  <2> QED BY <1>1, <2>3, <2>4, <2>5, <2>6
<1>6. Listed(p) = Tail(Listed(r))
  <2>1. /\ Tail(Listed(r)) \in Seq(0..MaxAsks)
        /\ Len(Tail(Listed(r))) = r.count - 1
        /\ \A k \in 1..(r.count - 1) : Tail(Listed(r))[k] = Listed(r)[k + 1]
      BY <1>3, <1>4, HeadTailProperties
  <2> QED BY <1>3, <1>5, <2>1, SeqEqual
<1> QED BY <1>2, <1>6

LEMMA QueueIsListed == Queue = Listed(ring)
BY DEF Queue, Listed

\* An emptied queue.
LEMMA FreshEmpty ==
    ASSUME NEW r \in Rings
    PROVE  Fresh(r) \in Rings /\ Listed(Fresh(r)) = <<>>
<1>1. QueueLen \in Nat /\ QueueLen > 0 BY SendAssumption
<1>2. Fresh(r) = [slots |-> r.slots, head |-> 0, count |-> 0]
    BY DEF Fresh
<1>3. Fresh(r) \in Rings BY <1>1, <1>2 DEF Rings
<1>4. Listed(Fresh(r)) \in Seq(0..MaxAsks) /\ Len(Listed(Fresh(r))) = 0
    BY <1>2, <1>3, ListedSeq
<1> QED BY <1>3, <1>4, EmptySeq

Streams == [on : BOOLEAN, mode : Modes, settle : 0..Settle,
            prev : Buttons \cup {NoButtons}, since : 0..KeepAlive]

Apps   == [at : {"idle", "copying", "nudging", "posting"}, goal : Inputs]
Nudges == [ready : BOOLEAN, pending : BOOLEAN, queued : BOOLEAN, popped : BOOLEAN]
Conns  == [open : BOOLEAN, intr : {"none", "open", "closed", "again"}]

\* A record is one of these if its fields are.
LEMMA StreamFields ==
    ASSUME NEW on \in BOOLEAN, NEW mode \in Modes, NEW settle \in 0..Settle,
           NEW prev \in Buttons \cup {NoButtons}, NEW since \in 0..KeepAlive
    PROVE  [on |-> on, mode |-> mode, settle |-> settle, prev |-> prev,
            since |-> since] \in Streams
BY DEF Streams

-----------------------------------------------------------------------------
(* Initially. *)

LEMMA InitInv == SendInit => SendInv
<1> SUFFICES ASSUME SendInit PROVE SendInv
    OBVIOUS
<1>1. QueueLen \in Nat /\ QueueLen > 0 /\ MaxAsks \in Nat
      /\ Settle \in Nat /\ KeepAlive \in Nat /\ Neutral \in Inputs /\ Neutral \in Input
    BY SendAssumption
<1>2. ring \in Rings
  <2>1. ring.slots \in [0..(QueueLen - 1) -> 0..MaxAsks] BY <1>1 DEF SendInit
  <2> QED BY <1>1, <2>1 DEF SendInit, Rings
<1>3. SendTypeOK
  <2>1. stream \in Streams BY <1>1 DEF SendInit, Streams, Modes
  <2>2. owed \in Seq(1..MaxAsks) /\ count \in 0..MaxAsks BY <1>1 DEF SendInit
  <2>3. app \in [at : {"idle", "copying", "nudging", "posting"}, goal : Inputs]
      BY <1>1 DEF SendInit
  <2>4. /\ nudge \in [ready : BOOLEAN, pending : BOOLEAN, queued : BOOLEAN,
                      popped : BOOLEAN]
        /\ conn \in [open : BOOLEAN, intr : {"none", "open", "closed", "again"}]
        /\ latch \in BOOLEAN /\ asked \in [user : BOOLEAN, waiting : BOOLEAN]
      BY DEF SendInit
  <2>5. state \in Input /\ host \in Input \cup {NoInput} /\ replied \in BOOLEAN
      BY <1>1 DEF SendInit
  <2> QED BY <1>2, <2>1, <2>2, <2>3, <2>4, <2>5 DEF SendTypeOK, Streams, Rings
<1>4. RepliesOwed
  <2>1. ring.count = 0 /\ owed = <<>> BY DEF SendInit
  <2>2. Len(Listed(ring)) = 0 /\ Listed(ring) \in Seq(0..MaxAsks)
      BY <1>2, <2>1, ListedSeq
  <2> QED BY <2>1, <2>2, EmptySeq, QueueIsListed DEF RepliesOwed
<1>5. LinkInv /\ CopyInv /\ NudgeInv /\ LatchLive /\ PromptInv
    BY DEF SendInit, LinkInv, CopyInv, NudgeInv, PostedOnce, LatchLive, PromptInv
<1> QED BY <1>3, <1>4, <1>5 DEF SendInv

-----------------------------------------------------------------------------
(* The type invariant. *)

LEMMA TypeStep ==
    ASSUME SendTypeOK, RepliesOwed, SendNext
    PROVE  SendTypeOK'
<1> USE DEF SendTypeOK
<1>0. /\ QueueLen \in Nat /\ MaxAsks \in Nat /\ Settle \in Nat /\ KeepAlive \in Nat
      /\ Inputs \subseteq Input
    BY SendAssumption
<1>r. ring \in Rings BY DEF Rings
<1>1. ASSUME NEW i \in Inputs, SetInput(i) PROVE SendTypeOK'
  <2>1. i.btn \in Buttons /\ i \in Input BY <1>0 DEF Input
  <2>2. state' \in Input BY <1>1, <2>1 DEF SetInput, Input
  <2>3. app' \in [at : {"idle", "copying", "nudging", "posting"}, goal : Inputs]
        /\ replied' \in BOOLEAN
      BY <1>1 DEF SetInput
  <2>4. UNCHANGED <<nudge, conn, latch, asked, stream, ring, host, owed, count>>
      BY <1>1 DEF SetInput
  <2> QED BY <2>2, <2>3, <2>4
<1>2. CASE CopyRest
  <2>1. app.goal \in Input BY <1>0
  <2>2. state' \in Input BY <1>2, <2>1 DEF CopyRest, Copied, Input
  <2>3. app' \in Apps BY <1>2 DEF CopyRest, Apps
  <2>4. UNCHANGED <<nudge, conn, latch, asked, stream, ring, host, owed, count,
                    replied>>
      BY <1>2 DEF CopyRest
  <2> QED BY <2>2, <2>3, <2>4 DEF Apps
<1>3. CASE Exchange
  <2>1. app' \in Apps BY <1>3 DEF Exchange, Apps
  <2>2. nudge' \in Nudges BY <1>3 DEF Exchange, Take, Nudges
  <2>3. UNCHANGED <<state, conn, latch, asked, stream, ring, host, owed, count,
                    replied>>
      BY <1>3 DEF Exchange
  <2> QED BY <2>1, <2>2, <2>3 DEF Apps, Nudges
<1>4. CASE Post
  <2>1. app' \in Apps BY <1>4 DEF Post, Apps
  <2>2. nudge' \in Nudges BY <1>4 DEF Post, Nudges
  <2>3. UNCHANGED <<state, conn, latch, asked, stream, ring, host, owed, count,
                    replied>>
      BY <1>4 DEF Post
  <2> QED BY <2>1, <2>2, <2>3 DEF Apps, Nudges
<1>5. CASE Ready
  <2>1. nudge' \in Nudges BY <1>5 DEF Ready, Nudges
  <2>2. UNCHANGED <<app, state, conn, latch, asked, stream, ring, host, owed,
                    count, replied>>
      BY <1>5 DEF Ready
  <2> QED BY <2>1, <2>2 DEF Nudges
<1>6. CASE PopCallback
  <2>1. nudge' \in Nudges BY <1>6 DEF PopCallback, Nudges
  <2>2. UNCHANGED <<app, state, conn, latch, asked, stream, ring, host, owed,
                    count, replied>>
      BY <1>6 DEF PopCallback
  <2> QED BY <2>1, <2>2 DEF Nudges
<1>7. CASE OnInputChanged
  <2>1. latch' \in BOOLEAN /\ asked' \in [user : BOOLEAN, waiting : BOOLEAN]
      BY <1>7, RequestedSets DEF OnInputChanged, Ships
  <2>2. nudge' \in Nudges BY <1>7 DEF OnInputChanged, Nudges
  <2>3. UNCHANGED <<app, state, conn, stream, ring, host, owed, count, replied>>
      BY <1>7 DEF OnInputChanged
  <2> QED BY <2>1, <2>2, <2>3 DEF Nudges
<1>8. CASE Opened
  <2>1. ring' \in Rings BY <1>8, <1>r, FreshEmpty DEF Opened
  <2>2. owed' \in Seq(1..MaxAsks) /\ host' \in Input \cup {NoInput}
      BY <1>8 DEF Opened
  <2>3. stream' \in Streams BY <1>0, <1>8 DEF Opened, Streams, Modes
  <2>4. /\ conn' \in [open : BOOLEAN, intr : {"none", "open", "closed", "again"}]
        /\ latch' \in BOOLEAN /\ asked' \in [user : BOOLEAN, waiting : BOOLEAN]
        /\ replied' \in BOOLEAN
      BY <1>8 DEF Opened, FreshLatch
  <2>5. UNCHANGED <<app, state, nudge, count>> BY <1>8 DEF Opened
  <2> QED BY <2>1, <2>2, <2>3, <2>4, <2>5 DEF Rings, Streams
<1>9. CASE Closed
  <2>1. ring' \in Rings BY <1>9, <1>r, FreshEmpty DEF Closed
  <2>2. owed' \in Seq(1..MaxAsks) /\ host' \in Input \cup {NoInput}
      BY <1>9 DEF Closed
  <2>3. conn' \in Conns BY <1>9 DEF Closed, Conns
  <2>4. stream' \in Streams BY <1>9 DEF Closed, Streams
  <2>5. /\ latch' \in BOOLEAN /\ asked' \in [user : BOOLEAN, waiting : BOOLEAN]
        /\ replied' \in BOOLEAN
      BY <1>9 DEF Closed, FreshLatch
  <2>6. UNCHANGED <<app, state, nudge, count>> BY <1>9 DEF Closed
  <2> QED BY <2>1, <2>2, <2>3, <2>4, <2>5, <2>6 DEF Conns, Rings, Streams
<1>10. CASE IntrMoves
  <2>1. conn' \in Conns BY <1>10 DEF IntrMoves, Conns
  <2>2. asked' \in [user : BOOLEAN, waiting : BOOLEAN] BY <1>10 DEF IntrMoves
  <2>3. UNCHANGED <<app, state, nudge, latch, stream, ring, host, owed, count,
                    replied>>
      BY <1>10 DEF IntrMoves
  <2> QED BY <2>1, <2>2, <2>3 DEF Conns
<1>11. ASSUME NEW m \in Modes, Subcommand(m) PROVE SendTypeOK'
  <2>1. count' \in 0..MaxAsks /\ count' \in 1..MaxAsks
      BY <1>0, <1>11 DEF Subcommand
  <2>2. ring' \in Rings
    <3>1. CASE ring.count < QueueLen
        BY <1>11, <1>r, <2>1, <3>1, PushAppends DEF Subcommand
    <3>2. CASE ring.count >= QueueLen
        BY <1>11, <1>r, <3>2 DEF Subcommand, Push
    <3> QED BY <1>0, <3>1, <3>2
  <2>3. latch' \in BOOLEAN /\ asked' \in [user : BOOLEAN, waiting : BOOLEAN]
      BY <1>11, RequestedSets DEF Subcommand
  <2>4. owed' \in Seq(1..MaxAsks)
      BY <1>11, <2>1, AppendProperties DEF Subcommand
  <2>5. stream' \in Streams
      BY <1>11 DEF Subcommand, Streams
  <2>6. UNCHANGED <<app, state, nudge, conn, host, replied>>
      BY <1>11 DEF Subcommand
  <2> QED BY <2>1, <2>2, <2>3, <2>4, <2>5, <2>6 DEF Rings, Streams
<1>12. CASE Tick
  <2>1. stream' \in Streams
    <3> DEFINE since == IF stream.since < KeepAlive THEN stream.since + 1
                        ELSE stream.since
               settle == IF stream.settle > 0 THEN stream.settle - 1 ELSE 0
               on == stream.on \/ settle = 0
    <3>1. since \in 0..KeepAlive /\ settle \in 0..Settle /\ on \in BOOLEAN
      <4>1. stream.since \in 0..KeepAlive /\ stream.settle \in 0..Settle
          OBVIOUS
      <4>2. stream.on \in BOOLEAN OBVIOUS
      <4>3. since \in 0..KeepAlive /\ settle \in 0..Settle
          BY <1>0, <4>1
      <4> QED BY <4>2, <4>3
    <3>2. stream' = [on |-> on, mode |-> stream.mode, settle |-> settle,
                     prev |-> stream.prev, since |-> since]
        BY <1>12 DEF Tick
    <3> QED BY <3>1, <3>2, StreamFields
  <2>2. latch' \in BOOLEAN /\ asked' \in [user : BOOLEAN, waiting : BOOLEAN]
      BY <1>12, RequestedSets DEF Tick
  <2>3. UNCHANGED <<app, state, nudge, conn, ring, host, owed, count, replied>>
      BY <1>12 DEF Tick
  <2> QED BY <2>1, <2>2, <2>3 DEF Streams
<1>13. CASE CanSendNow
  <2>1. ring' \in Rings /\ owed' \in Seq(1..MaxAsks)
    <3>1. CASE conn.open /\ ring.count > 0
      <4>1. ring' = Pop(ring) /\ owed' = Tail(owed) BY <1>0, <1>13, <3>1 DEF CanSendNow
      <4>2. owed = Listed(ring) BY QueueIsListed DEF RepliesOwed
      <4>3. owed # <<>> BY <1>r, <3>1, <4>2, ListedSeq
      <4> QED BY <1>r, <3>1, <4>1, <4>3, PopTails, HeadTailProperties
    <3>2. CASE ~(conn.open /\ ring.count > 0)
        BY <1>13, <1>r, <3>2 DEF CanSendNow
    <3> QED BY <3>1, <3>2
  <2>2. latch' \in BOOLEAN /\ asked' \in [user : BOOLEAN, waiting : BOOLEAN]
    <3>1. AfterReply(ring.count - 1).latch \in BOOLEAN
          /\ AfterReply(ring.count - 1).asked \in [user : BOOLEAN, waiting : BOOLEAN]
        BY RequestedSets DEF AfterReply
    <3>2. CASE conn.open /\ ring.count > 0
        BY <1>0, <1>13, <3>1, <3>2 DEF CanSendNow
    <3>3. CASE ~(conn.open /\ ring.count > 0)
      <4>1. latch' = FALSE /\ asked' = [user |-> FALSE, waiting |-> FALSE]
          BY <1>13, <3>3, Zenon DEF CanSendNow
      <4> QED BY <4>1
    <3> QED BY <3>2, <3>3
  <2>3. host' \in Input \cup {NoInput} /\ replied' \in BOOLEAN
      BY <1>13 DEF CanSendNow
  <2>4. stream' \in Streams
    <3>1. state.btn \in Buttons BY DEF Input
    <3>2. CASE UNCHANGED stream BY <3>2 DEF Streams
    <3>3. CASE stream' = [stream EXCEPT !.prev = state.btn, !.since = 0]
      <4>1. stream' = [on |-> stream.on, mode |-> stream.mode,
                       settle |-> stream.settle, prev |-> state.btn, since |-> 0]
          BY <3>3
      <4>2. 0 \in 0..KeepAlive BY <1>0
      <4> QED BY <3>1, <4>1, <4>2, StreamFields
    <3> QED BY <1>13, <3>2, <3>3 DEF CanSendNow
  <2>5. UNCHANGED <<app, state, nudge, conn, count>> BY <1>13 DEF CanSendNow
  <2> QED BY <2>1, <2>2, <2>3, <2>4, <2>5 DEF Rings, Streams
<1> QED BY <1>1, <1>2, <1>3, <1>4, <1>5, <1>6, <1>7, <1>8, <1>9, <1>10, <1>11,
           <1>12, <1>13 DEF SendNext, AppTask, HostActs, RunLoop

-----------------------------------------------------------------------------
(* The queue. *)

LEMMA RepliesStep ==
    ASSUME SendTypeOK, RepliesOwed, SendNext
    PROVE  RepliesOwed'
<1>0. ring \in Rings /\ owed \in Seq(1..MaxAsks) /\ ring.count \in Nat /\ QueueLen \in Nat
    BY SendAssumption DEF SendTypeOK, Rings
<1>1. owed = Listed(ring) BY QueueIsListed DEF RepliesOwed
<1>2. SUFFICES owed' = Listed(ring') BY DEF RepliesOwed, Queue, Listed
<1>3. ASSUME NEW m \in Modes, Subcommand(m) PROVE owed' = Listed(ring')
  <2>1. count' \in 0..MaxAsks
      BY <1>3, SendAssumption DEF Subcommand, SendTypeOK
  <2>2. CASE ring.count < QueueLen
    <3>1. owed' = Append(owed, count') /\ ring' = Push(ring, count')
        BY <1>3, <2>2 DEF Subcommand
    <3> QED BY <1>0, <1>1, <2>1, <2>2, <3>1, PushAppends
  <2>3. CASE ring.count >= QueueLen
    <3>1. owed' = owed /\ ring' = ring
        BY <1>0, <1>3, <2>3 DEF Subcommand, Push
    <3> QED BY <1>1, <3>1
  <2> QED BY <1>0, <2>2, <2>3
<1>4. CASE CanSendNow
  <2>1. CASE conn.open /\ ring.count > 0
    <3>1. ring' = Pop(ring) /\ owed' = Tail(owed) BY <1>0, <1>4, <2>1 DEF CanSendNow
    <3> QED BY <1>0, <1>1, <2>1, <3>1, PopTails
  <2>2. CASE ~(conn.open /\ ring.count > 0)
    <3>1. UNCHANGED <<ring, owed>> BY <1>4, <2>2 DEF CanSendNow
    <3> QED BY <1>1, <3>1
  <2> QED BY <2>1, <2>2
<1>5. CASE Opened \/ Closed
  <2>1. ring' = Fresh(ring) /\ owed' = <<>> BY <1>5 DEF Opened, Closed
  <2> QED BY <1>0, <2>1, FreshEmpty
<1>6. CASE UNCHANGED <<ring, owed>> BY <1>1, <1>6
<1>7. CASE AppTask
    BY <1>6, <1>7 DEF AppTask, SetInput, CopyRest, Exchange, Post
<1>8. CASE Ready \/ PopCallback \/ OnInputChanged \/ IntrMoves \/ Tick
    BY <1>6, <1>8 DEF Ready, PopCallback, OnInputChanged, IntrMoves, Tick
<1> QED BY <1>3, <1>4, <1>5, <1>7, <1>8 DEF SendNext, HostActs, RunLoop

-----------------------------------------------------------------------------
(* The connection, the copy and the nudge. *)

LEMMA LinkStep ==
    ASSUME SendTypeOK, LinkInv, SendNext
    PROVE  LinkInv'
<1> USE DEF SendTypeOK, LinkInv
<1>1. ASSUME NEW i \in Inputs, SetInput(i) PROVE LinkInv'
    BY <1>1 DEF SetInput
<1>2. CASE CopyRest BY <1>2 DEF CopyRest
<1>3. CASE Exchange BY <1>3 DEF Exchange, Take
<1>4. CASE Post BY <1>4 DEF Post
<1>5. CASE Ready BY <1>5 DEF Ready
<1>6. CASE PopCallback BY <1>6 DEF PopCallback
<1>7. CASE OnInputChanged BY <1>7 DEF OnInputChanged
<1>8. CASE Opened BY <1>8 DEF Opened
<1>9. CASE Closed BY <1>9 DEF Closed
<1>10. CASE IntrMoves BY <1>10 DEF IntrMoves
<1>11. ASSUME NEW m \in Modes, Subcommand(m) PROVE LinkInv'
    BY <1>11 DEF Subcommand
<1>12. CASE Tick
  <2>1. /\ stream'.prev = stream.prev
        /\ ~stream'.on => ~stream.on
      BY <1>12 DEF Tick
  <2>2. UNCHANGED <<conn, nudge>> BY <1>12 DEF Tick
  <2> QED BY <2>1, <2>2
<1>13. CASE CanSendNow
  <2>1. stream'.on = stream.on /\ (~stream.on => stream'.prev = stream.prev)
      BY <1>13 DEF CanSendNow
  <2>2. UNCHANGED <<conn, nudge>> BY <1>13 DEF CanSendNow
  <2> QED BY <2>1, <2>2
<1> QED BY <1>1, <1>2, <1>3, <1>4, <1>5, <1>6, <1>7, <1>8, <1>9, <1>10, <1>11,
           <1>12, <1>13 DEF SendNext, AppTask, HostActs, RunLoop

\* The run loop moves neither what is published nor the copy.
LEMMA RunLoopKeepsCopy ==
    ASSUME HostActs \/ RunLoop
    PROVE  UNCHANGED <<app, state>>
BY DEF HostActs, RunLoop, Opened, Closed, IntrMoves, Subcommand, Ready,
       PopCallback, OnInputChanged, Tick, CanSendNow

LEMMA CopyStep ==
    ASSUME SendTypeOK, CopyInv, SendNext
    PROVE  CopyInv'
<1>1. ASSUME NEW i \in Inputs, SetInput(i) PROVE CopyInv'
    BY <1>1, SendAssumption DEF SetInput, SendTypeOK, CopyInv, Input
<1>2. CASE CopyRest
  <2>1. app.goal \in Input BY SendAssumption DEF SendTypeOK
  <2>2. state.btn = app.goal.btn BY <1>2 DEF CopyRest, CopyInv
  <2>3. state' = [btn |-> state.btn, axes |-> app.goal.axes]
      BY <1>2 DEF CopyRest, Copied, SendTypeOK, Input
  <2>4. app.goal = [btn |-> app.goal.btn, axes |-> app.goal.axes]
      BY <2>1 DEF Input
  <2>5. state' = app.goal BY <2>2, <2>3, <2>4
  <2>6. app'.goal = app.goal /\ app'.at = "nudging"
      BY <1>2 DEF CopyRest, SendTypeOK
  <2> QED BY <2>5, <2>6 DEF CopyInv
<1>3. CASE Exchange \/ Post
  <2>1. app.at # "copying" /\ state' = state BY <1>3 DEF Exchange, Post
  <2>2. app'.goal = app.goal /\ app'.at # "copying"
      BY <1>3 DEF Exchange, Post, SendTypeOK
  <2> QED BY <2>1, <2>2 DEF CopyInv
<1>4. CASE HostActs \/ RunLoop BY <1>4, RunLoopKeepsCopy DEF CopyInv
<1> QED BY <1>1, <1>2, <1>3, <1>4 DEF SendNext, AppTask

LEMMA NudgeStep ==
    ASSUME SendTypeOK, NudgeInv, SendNext
    PROVE  NudgeInv'
<1> USE DEF SendTypeOK, NudgeInv, PostedOnce
<1>1. ASSUME NEW i \in Inputs, SetInput(i) PROVE NudgeInv'
    BY <1>1 DEF SetInput
<1>2. CASE CopyRest BY <1>2 DEF CopyRest
<1>3. CASE Exchange BY <1>3 DEF Exchange, Take
<1>4. CASE Post BY <1>4 DEF Post
<1>5. CASE Ready BY <1>5 DEF Ready
<1>6. CASE PopCallback BY <1>6 DEF PopCallback, Handling
<1>7. CASE OnInputChanged BY <1>7 DEF OnInputChanged
<1>8. CASE UNCHANGED <<app, nudge>> BY <1>8
<1>9. CASE HostActs
    BY <1>8, <1>9 DEF HostActs, Opened, Closed, IntrMoves, Subcommand
<1>10. CASE Tick \/ CanSendNow BY <1>8, <1>10 DEF Tick, CanSendNow
<1> QED BY <1>1, <1>2, <1>3, <1>4, <1>5, <1>6, <1>7, <1>9, <1>10
        DEF SendNext, AppTask, RunLoop

-----------------------------------------------------------------------------
(* The latch. *)

LEMMA LatchStep ==
    ASSUME SendTypeOK, LinkInv, LatchLive, SendNext
    PROVE  LatchLive'
<1>0. /\ conn.open \in BOOLEAN /\ latch \in BOOLEAN
      /\ asked \in [user : BOOLEAN, waiting : BOOLEAN]
      /\ ring \in Rings /\ ring.count \in Nat /\ QueueLen \in Nat /\ QueueLen > 0
    BY SendAssumption DEF SendTypeOK, Rings
<1> DEFINE r == Requested(latch, asked)
<1>r. conn.intr = "open" => r.latch /\ r.asked.user /\ r.asked.waiting
  <2>1. CASE latch
    <3>1. r.latch /\ r.asked = asked BY <1>0, <2>1, RequestedSets
    <3> QED BY <2>1, <3>1 DEF LatchLive
  <2>2. CASE ~latch
      BY <1>0, <2>2, RequestedSets DEF LinkInv
  <2> QED BY <1>0, <2>1, <2>2
<1>1. CASE UNCHANGED <<conn, latch, asked, ring>> BY <1>1 DEF LatchLive
<1>2. CASE AppTask
    BY <1>1, <1>2 DEF AppTask, SetInput, CopyRest, Exchange, Post
<1>3. CASE Ready \/ PopCallback
    BY <1>1, <1>3 DEF Ready, PopCallback
<1>4. CASE OnInputChanged
  <2>1. UNCHANGED <<conn, ring>> BY <1>4 DEF OnInputChanged
  <2>2. CASE stream.on
    <3>1. latch' = r.latch /\ asked' = r.asked
        BY <1>4, <2>2 DEF OnInputChanged, Ships
    <3> QED BY <1>r, <2>1, <3>1 DEF LatchLive
  <2>3. CASE ~stream.on
    <3>1. latch' = latch /\ asked' = asked
        BY <1>4, <2>3 DEF OnInputChanged, Ships
    <3> QED BY <2>1, <3>1 DEF LatchLive
  <2> QED BY <2>2, <2>3
<1>5. CASE Opened \/ Closed
  <2>1. latch' = FALSE /\ ring'.count = 0
      BY <1>5 DEF Opened, Closed, FreshLatch, Fresh
  <2> QED BY <2>1 DEF LatchLive
<1>6. CASE IntrMoves
  <2>1. conn'.intr # "open" BY <1>6 DEF IntrMoves, SendTypeOK
  <2> QED BY <2>1 DEF LatchLive
<1>7. ASSUME NEW m \in Modes, Subcommand(m) PROVE LatchLive'
  <2>1. conn' = conn BY <1>7 DEF Subcommand
  <2>2. CASE ring.count < QueueLen
    <3>1. latch' = r.latch /\ asked' = r.asked BY <1>7, <2>2 DEF Subcommand
    <3> QED BY <1>r, <2>1, <3>1 DEF LatchLive
  <2>3. CASE ring.count >= QueueLen
    <3>1. latch' = latch /\ asked' = asked /\ ring' = ring
        BY <1>0, <1>7, <2>3 DEF Subcommand, Push
    <3> QED BY <2>1, <3>1 DEF LatchLive
  <2> QED BY <1>0, <2>2, <2>3
<1>8. CASE Tick
  <2>1. UNCHANGED <<conn, ring>> BY <1>8 DEF Tick
  <2>2. \/ latch' = r.latch /\ asked' = r.asked
        \/ latch' = latch /\ asked' = asked
      BY <1>8 DEF Tick
  <2> QED BY <1>r, <2>1, <2>2 DEF LatchLive
<1>9. CASE CanSendNow
  <2> DEFINE none == [user |-> FALSE, waiting |-> FALSE]
             next == AfterReply(ring.count - 1)
  <2>1. conn' = conn BY <1>9 DEF CanSendNow
  <2>2. CASE conn.open /\ ring.count > 0
    <3>1. latch' = next.latch /\ asked' = next.asked /\ ring' = Pop(ring)
        BY <1>0, <1>9, <2>2 DEF CanSendNow
    <3>2. ring'.count = ring.count - 1 BY <3>1 DEF Pop
    <3>3. CASE ring.count - 1 > 0
      <4>1. latch' = Requested(FALSE, none).latch /\ asked' = Requested(FALSE, none).asked
          BY <3>1, <3>3 DEF AfterReply
      <4>2. none \in [user : BOOLEAN, waiting : BOOLEAN] OBVIOUS
      <4>3. Requested(FALSE, none).latch BY <1>0, <2>2, <4>2, RequestedSets
      <4>4. conn.intr = "open"
              => Requested(FALSE, none).asked = [user |-> TRUE, waiting |-> TRUE]
          BY <1>0, <2>2, <4>2, RequestedSets
      <4>5. latch' BY <4>1, <4>3
      <4>6. asked' = Requested(FALSE, none).asked BY <4>1
      <4>7. conn.intr = "open" => asked' = [user |-> TRUE, waiting |-> TRUE]
          BY <4>4, <4>6
      <4>8. conn.intr = "open" => asked'.user /\ asked'.waiting BY <4>7
      <4> QED BY <2>1, <4>5, <4>8 DEF LatchLive
    <3>4. CASE ~(ring.count - 1 > 0)
      <4>1. latch' = FALSE BY <3>1, <3>4 DEF AfterReply
      <4>2. ~(ring'.count > 0) BY <3>2, <3>4
      <4> QED BY <4>1, <4>2 DEF LatchLive
    <3> QED BY <3>3, <3>4
  <2>3. CASE ~(conn.open /\ ring.count > 0)
    <3>1. latch' = FALSE /\ ring' = ring
        BY <1>9, <2>3, Zenon DEF CanSendNow
    <3>2. conn.intr = "open" => ~(ring.count > 0) BY <2>3 DEF LinkInv
    <3> QED BY <2>1, <3>1, <3>2 DEF LatchLive
  <2> QED BY <2>2, <2>3
<1> QED BY <1>2, <1>3, <1>4, <1>5, <1>6, <1>7, <1>8, <1>9
        DEF SendNext, HostActs, RunLoop

-----------------------------------------------------------------------------
(* A press on its way. *)

LEMMA PromptStep ==
    ASSUME SendTypeOK, LinkInv, CopyInv, NudgeInv, PromptInv, SendNext
    PROVE  PromptInv'
<1>0. /\ conn.open \in BOOLEAN /\ latch \in BOOLEAN /\ stream.on \in BOOLEAN
      /\ asked \in [user : BOOLEAN, waiting : BOOLEAN]
    BY DEF SendTypeOK
<1>r. conn.open => Requested(latch, asked).latch
    BY <1>0, RequestedSets
<1>1. ASSUME NEW i \in Inputs, SetInput(i) PROVE PromptInv'
    BY <1>1 DEF SetInput, PromptInv
<1>2. CASE CopyRest
  <2>1. app'.at = "nudging" BY <1>2 DEF CopyRest, SendTypeOK
  <2> QED BY <2>1 DEF PromptInv
<1>3. CASE Exchange
  <2>1. app'.at = "idle" /\ nudge.ready => nudge'.pending
      BY <1>3 DEF Exchange, Take, SendTypeOK
  <2>2. UNCHANGED <<conn, stream>> BY <1>3 DEF Exchange
  <2> QED BY <2>1, <2>2 DEF LinkInv, PromptInv
<1>4. CASE Post
  <2>1. /\ nudge'.pending = nudge.pending /\ app'.goal = app.goal
        /\ UNCHANGED <<conn, stream, latch, host, replied>>
      BY <1>4 DEF Post, SendTypeOK
  <2>2. nudge.pending BY <1>4 DEF Post, NudgeInv
  <2> QED BY <2>1, <2>2 DEF PromptInv
<1>5. CASE Ready \/ PopCallback
  <2>1. /\ nudge'.pending = nudge.pending
        /\ UNCHANGED <<app, conn, stream, latch, host, replied>>
      BY <1>5 DEF Ready, PopCallback, SendTypeOK
  <2> QED BY <2>1 DEF PromptInv
<1>6. CASE OnInputChanged
  <2>1. UNCHANGED <<app, conn, stream, host, replied>> BY <1>6 DEF OnInputChanged
  <2>2. stream.on => latch' = Requested(latch, asked).latch
      BY <1>6 DEF OnInputChanged, Ships
  <2> QED BY <1>r, <2>1, <2>2 DEF LinkInv, PromptInv
<1>7. CASE Opened \/ Closed
  <2>1. ~stream'.on BY <1>7 DEF Opened, Closed, SendTypeOK
  <2> QED BY <2>1 DEF PromptInv
<1>8. CASE IntrMoves
  <2>1. conn'.intr # "open" BY <1>8 DEF IntrMoves, SendTypeOK
  <2> QED BY <2>1 DEF PromptInv
<1>9. ASSUME NEW m \in Modes, Subcommand(m) PROVE PromptInv'
  <2>1. /\ UNCHANGED <<app, nudge, conn, host, replied>>
        /\ stream'.on = stream.on
      BY <1>9 DEF Subcommand, SendTypeOK
  <2>2. latch => latch'
    <3>1. latch => Requested(latch, asked).latch BY <1>0, RequestedSets
    <3> QED BY <1>9, <3>1 DEF Subcommand
  <2> QED BY <2>1, <2>2 DEF PromptInv
<1>10. CASE Tick
  <2>1. UNCHANGED <<app, state, nudge, conn, host, replied>> /\ conn.open
      BY <1>10 DEF Tick
  <2>2. /\ stream'.prev = stream.prev
        /\ \/ latch' = Requested(latch, asked).latch
           \/ latch' = latch /\ ~Due(stream')
      BY <1>10 DEF Tick, Due
  <2>3. CASE latch' = Requested(latch, asked).latch
      BY <1>r, <2>1, <2>3 DEF PromptInv
  <2>4. CASE latch' = latch /\ ~Due(stream')
    <3>1. CASE stream.on BY <2>1, <2>4, <3>1 DEF PromptInv
    <3>2. CASE ~stream.on
      <4>1. state.btn \in Buttons BY DEF SendTypeOK, Input
      <4>2. stream'.prev # state.btn
          BY <2>1, <2>2, <3>2, <4>1, SendAssumption DEF LinkInv
      <4>3. ~stream'.on BY <2>4, <4>2 DEF Due
      <4> QED BY <4>3 DEF PromptInv
    <3> QED BY <3>1, <3>2
  <2> QED BY <2>2, <2>3, <2>4
<1>11. CASE CanSendNow
  <2>1. UNCHANGED <<app, state, nudge, conn>> BY <1>11 DEF CanSendNow
  <2>2. CASE conn.open /\ ring.count > 0
    <3>1. replied' BY <1>11, <2>2, SendAssumption DEF CanSendNow, SendTypeOK
    <3> QED BY <3>1 DEF PromptInv
  <2>3. CASE ~(conn.open /\ ring.count > 0)
    <3>1. stream'.on = stream.on BY <1>11 DEF CanSendNow, SendTypeOK
    <3>2. stream.on /\ conn.intr = "open" => host' = state
        BY <1>11, <2>3 DEF CanSendNow, LinkInv
    <3>3. app.at = "idle" => state = app.goal BY DEF CopyInv
    <3> QED BY <2>1, <3>1, <3>2, <3>3 DEF PromptInv
  <2> QED BY <2>2, <2>3
<1> QED BY <1>1, <1>2, <1>3, <1>4, <1>5, <1>6, <1>7, <1>8, <1>9, <1>10, <1>11
        DEF SendNext, AppTask, HostActs, RunLoop

-----------------------------------------------------------------------------
(* The invariants. *)

LEMMA SendInvStep == SendInv /\ [SendNext]_sendVars => SendInv'
<1> SUFFICES ASSUME SendInv, [SendNext]_sendVars PROVE SendInv'
    OBVIOUS
<1>1. CASE SendNext
    BY <1>1, TypeStep, RepliesStep, LinkStep, CopyStep, NudgeStep, LatchStep,
       PromptStep DEF SendInv
<1>2. CASE UNCHANGED sendVars
    BY <1>2 DEF sendVars, SendInv, SendTypeOK, RepliesOwed, Queue, LinkInv, CopyInv,
       NudgeInv, PostedOnce, LatchLive, PromptInv
<1> QED BY <1>1, <1>2

THEOREM SendInvHolds == SendSpec => []SendInv
BY InitInv, SendInvStep, PTL DEF SendSpec

\* Type correctness of the send path, for any queue, settling time and inputs.
THEOREM SendTypes == SendSpec => []SendTypeOK
BY SendInvHolds, PTL DEF SendInv

\* The ring of replies holds what the host is owed, in order, across the ring's
\* end, full queues and connections that end with replies in it.
THEOREM RepliesInOrder == SendSpec => []RepliesOwed
BY SendInvHolds, PTL DEF SendInv

\* A set latch never blocks a live connection.
THEOREM LatchNeverStuck == SendSpec => []LatchLive
BY SendInvHolds, PTL DEF SendInv

\* At most one of the nudge's callbacks is in flight, on any interleaving of
\* the app's task with the run loop.
THEOREM NudgePostedOnce == SendSpec => []PostedOnce
<1>1. SendInv => PostedOnce BY DEF SendInv, NudgeInv
<1> QED BY <1>1, SendInvHolds, PTL

\* At rest the host has the whole last input, unless a reply took its turn.
THEOREM PressShips == SendSpec => []Prompt
<1>1. SendInv => Prompt BY DEF SendInv, PromptInv, Prompt, AtRest
<1> QED BY <1>1, SendInvHolds, PTL

-----------------------------------------------------------------------------
(* The refinement of Handoff. *)

LEMMA HandoffStep ==
    ASSUME SendInv, SendNext
    PROVE  [H!HandoffNext]_H!handoffVars
<1> USE DEF SendInv, SendTypeOK
<1>1. ASSUME NEW i \in Inputs, SetInput(i) PROVE H!Publish
  <2>1. state = app.goal BY <1>1 DEF SetInput, CopyInv
  <2>2. app'.goal = i /\ state' = [state EXCEPT !.btn = i.btn] /\ host' = host
      BY <1>1 DEF SetInput
  <2> QED BY <2>1, <2>2 DEF H!Publish
<1>2. CASE CopyRest
  <2>1. state' = app'.goal
      BY <1>2, CopyStep DEF CopyRest, CopyInv, SendNext, AppTask
  <2>2. app'.goal = app.goal /\ host' = host BY <1>2 DEF CopyRest
  <2> QED BY <2>1, <2>2 DEF H!HandoffNext, H!Complete
<1>3. CASE UNCHANGED <<app, state, host>>
    BY <1>3 DEF H!handoffVars
<1>4. CASE Exchange \/ Post
  <2>1. app'.goal = app.goal /\ UNCHANGED <<state, host>>
      BY <1>4 DEF Exchange, Post
  <2> QED BY <2>1 DEF H!handoffVars
<1>5. CASE Opened \/ Closed
  <2>1. UNCHANGED <<app, state>> /\ host' = NoInput /\ ~stream'.on
      BY <1>5 DEF Opened, Closed
  <2> QED BY <2>1 DEF H!HandoffNext, H!Lose
<1>6. CASE CanSendNow
  <2>1. UNCHANGED <<app, state>> /\ (host' = state \/ host' = host)
      BY <1>6 DEF CanSendNow
  <2> QED BY <2>1 DEF H!HandoffNext, H!Tell, H!handoffVars
<1>7. CASE \/ Ready \/ PopCallback \/ OnInputChanged \/ Tick \/ IntrMoves
           \/ \E m \in Modes : Subcommand(m)
    BY <1>3, <1>7 DEF Ready, PopCallback, OnInputChanged, Tick, IntrMoves, Subcommand
<1> QED BY <1>1, <1>2, <1>4, <1>5, <1>6, <1>7
        DEF SendNext, AppTask, HostActs, RunLoop, H!HandoffNext

\* The send path implements the hand-off: what the host is told is the current
\* snapshot, or its buttons over the stick before; nothing older.
THEOREM SendHandsOff == SendSpec => HandedOff
<1>1. SendInit => H!HandoffInit
    BY SendAssumption DEF SendInit, H!HandoffInit
<1>2. SendInv /\ [SendNext]_sendVars => [H!HandoffNext]_H!handoffVars
  <2> SUFFICES ASSUME SendInv, [SendNext]_sendVars
               PROVE  [H!HandoffNext]_H!handoffVars
      OBVIOUS
  <2>1. CASE SendNext BY <2>1, HandoffStep
  <2>2. CASE UNCHANGED sendVars BY <2>2 DEF sendVars, H!handoffVars
  <2> QED BY <2>1, <2>2
<1> QED BY <1>1, <1>2, SendInvHolds, PTL DEF SendSpec, HandedOff, H!HandoffSafe
=============================================================================
