------------------------------ MODULE ProSend -------------------------------
(***************************************************************************)
(* What the Classic transport sends: bt_pro_btstack.cpp from the app task's *)
(* pro_set_input() to the frames on the interrupt channel.                 *)
(*                                                                         *)
(* Two tasks take part.  The app task writes the snapshot and nudges the   *)
(* run loop; the run loop packs frames, answers the host's subcommands and *)
(* ticks.  The run loop's task preempts the app's (priority 5 over 1 on    *)
(* core 0), never the other way round, so the app's steps are split where  *)
(* that shows and a handler of the run loop is one step.                   *)
(*                                                                         *)
(* Time is counted in ticks of the stream timer (kStreamTickMs).           *)
(***************************************************************************)
EXTENDS Naturals, Sequences

CONSTANTS
    Buttons,     \* values of a snapshot's buttons
    Axes,        \* values of its stick
    Inputs,      \* the snapshots the app publishes
    Neutral,     \* ProState{}
    NoButtons,   \* s_prev_3f of a fresh connection: like no buttons at all
    QueueLen,    \* kReplyQueueLen
    Settle,      \* kSettleMs, in ticks
    KeepAlive,   \* k3fKeepaliveMs, in ticks
    MaxAsks      \* bound: subcommands the host sends

Input   == [btn : Buttons, axes : Axes]

ASSUME SendAssumption ==
    /\ NoButtons \notin Buttons
    /\ Inputs \subseteq Input /\ Neutral \in Inputs
    /\ QueueLen \in Nat \ {0}
    /\ Settle \in Nat /\ KeepAlive \in Nat /\ MaxAsks \in Nat

NoInput == [btn |-> NoButtons, axes |-> NoButtons]

VARIABLES
    app,         \* the app task: where it is, what it publishes
    state,       \* s_state
    nudge,       \* s_run_loop_ready, s_input_pending, s_input_cb
    conn,        \* s_hid_cid and the interrupt channel under it
    latch,       \* s_can_send_requested
    asked,       \* hid_device.c: user_request_can_send_now, L2CAP's waiting
    stream,      \* s_streaming, the mode, and the stream timer's state
    ring,        \* s_reply, s_reply_head, s_reply_count
    host,        \* the input of the last report the host got
    owed,        \* history: replies accepted on this connection, not sent
    count,       \* subcommands the host has sent so far
    replied      \* history: a reply was sent since the last input was
                 \* published

sendVars == <<app, state, nudge, conn, latch, asked, stream, ring, host,
              owed, count, replied>>

-----------------------------------------------------------------------------
\* request_send(): one request at a time.  Without an interrupt channel
\* hid_device.c ignores it, and the latch stays set all the same.  L2CAP gives
\* its answer inside the request if it has room for a packet, else later; the
\* request is the last thing each handler does, so the answer is always a step
\* of its own here.
Requested(l, a) ==
    IF ~conn.open \/ l THEN [latch |-> l, asked |-> a]
    ELSE [latch |-> TRUE,
          asked |-> IF conn.intr \in {"open", "again"}
                    THEN [user |-> TRUE, waiting |-> TRUE] ELSE a]

\* Mutant: the ring is not taken modulo its length.
PushPastEnd(r, c) ==
    IF r.count >= QueueLen THEN r
    ELSE [r EXCEPT !.slots = [k \in DOMAIN @ |->
                                IF k = r.head + r.count THEN c ELSE @[k]],
                   !.count = @ + 1]

\* queue_reply(): a full queue drops the reply.
Push(r, c) ==
    IF r.count >= QueueLen THEN r
    ELSE [r EXCEPT !.slots[(r.head + r.count) % QueueLen] = c,
                   !.count = @ + 1]

Pop(r) == [slots |-> r.slots, head |-> (r.head + 1) % QueueLen,
           count |-> r.count - 1]

\* What the ring holds, oldest first.
Queue == [k \in 1..ring.count |-> ring.slots[(ring.head + k - 1) % QueueLen]]

\* start_stream() and HID_SUBEVENT_CONNECTION_CLOSED: an empty queue ...
Fresh(r) == [slots |-> r.slots, head |-> 0, count |-> 0]

\* Mutant: a request left over from the last connection still counts.
LatchKept(l) == l

\* ... and no request, whatever the last connection left.
FreshLatch(l) == FALSE

-----------------------------------------------------------------------------
SendInit ==
    /\ app = [at |-> "idle", goal |-> Neutral] /\ state = Neutral
    /\ nudge = [ready |-> FALSE, pending |-> FALSE, queued |-> FALSE,
                popped |-> FALSE]
    /\ conn = [open |-> FALSE, intr |-> "none"]
    /\ latch = FALSE
    /\ asked = [user |-> FALSE, waiting |-> FALSE]
    /\ stream = [on |-> FALSE, mode |-> "simple", settle |-> 0,
                 prev |-> NoButtons, since |-> 0]
    /\ ring = [slots |-> [k \in 0..(QueueLen - 1) |-> 0], head |-> 0,
               count |-> 0]
    /\ host = NoInput
    /\ owed = <<>> /\ count = 0 /\ replied = FALSE

\* pro_set_input() and pro_clear_input(): the snapshot is copied member by
\* member, here in two pieces, the buttons and the stick.
SetInput(i) ==
    /\ app.at = "idle" /\ i # app.goal
    /\ app' = [at |-> "copying", goal |-> i]
    /\ state' = [state EXCEPT !.btn = i.btn]
    /\ replied' = FALSE
    /\ UNCHANGED <<nudge, conn, latch, asked, stream, ring, host, owed, count>>

\* Mutant: the members after the buttons are not copied.
CopiedHalf(s, i) == s

\* The rest of the members.
Copied(s, i) == [s EXCEPT !.axes = i.axes]

CopyRest ==
    /\ app.at = "copying"
    /\ app' = [app EXCEPT !.at = "nudging"]
    /\ state' = Copied(state, app.goal)
    /\ UNCHANGED <<nudge, conn, latch, asked, stream, ring, host, owed, count,
                   replied>>

\* Mutant: the flag is tested and not set.
TakeNothing(n) == n

\* s_input_pending.exchange(true).
Take(n) == [n EXCEPT !.pending = TRUE]

\* nudge_run_loop(), up to the exchange: one that is pending already will
\* see the new state.
Exchange ==
    /\ app.at = "nudging"
    /\ LET posts == nudge.ready /\ ~nudge.pending
       IN  /\ app' = [app EXCEPT !.at = IF posts THEN "posting" ELSE "idle"]
           /\ nudge' = IF nudge.ready THEN Take(nudge) ELSE nudge
    /\ UNCHANGED <<state, conn, latch, asked, stream, ring, host, owed, count,
                   replied>>

\* btstack_run_loop_execute_on_main_thread(): the callback joins the list.
Post ==
    /\ app.at = "posting"
    /\ app' = [app EXCEPT !.at = "idle"]
    /\ nudge' = [nudge EXCEPT !.queued = TRUE]
    /\ UNCHANGED <<state, conn, latch, asked, stream, ring, host, owed, count,
                   replied>>

-----------------------------------------------------------------------------
(* The run loop. *)

Handling == ~nudge.popped

\* btstack_task(): the callbacks may come from here on.
Ready ==
    /\ ~nudge.ready
    /\ nudge' = [nudge EXCEPT !.ready = TRUE]
    /\ UNCHANGED <<app, state, conn, latch, asked, stream, ring, host, owed,
                   count, replied>>

\* The run loop takes the callback off its list ...
PopCallback ==
    /\ nudge.queued /\ Handling
    /\ nudge' = [nudge EXCEPT !.queued = FALSE, !.popped = TRUE]
    /\ UNCHANGED <<app, state, conn, latch, asked, stream, ring, host, owed,
                   count, replied>>

\* Mutant: it only clears the flag, and leaves the rest to the next tick.
ShipsOnTick == [latch |-> latch, asked |-> asked]

\* ... and calls it: on_input_changed() clears the flag before it asks.
Ships == IF stream.on THEN Requested(latch, asked)
         ELSE [latch |-> latch, asked |-> asked]

OnInputChanged ==
    /\ nudge.popped
    /\ nudge' = [nudge EXCEPT !.popped = FALSE, !.pending = FALSE]
    /\ latch' = Ships.latch /\ asked' = Ships.asked
    /\ UNCHANGED <<app, state, conn, stream, ring, host, owed, count, replied>>

\* HID_SUBEVENT_CONNECTION_OPENED: simple mode, and start_stream().
Opened ==
    /\ nudge.ready /\ ~conn.open /\ Handling
    /\ conn' = [open |-> TRUE, intr |-> "open"]
    /\ stream' = [on |-> FALSE, mode |-> "simple", settle |-> Settle,
                  prev |-> NoButtons, since |-> KeepAlive]
    /\ latch' = FreshLatch(latch)
    /\ asked' = [asked EXCEPT !.waiting = FALSE]
    /\ ring' = Fresh(ring)
    /\ owed' = <<>> /\ host' = NoInput /\ replied' = FALSE
    /\ UNCHANGED <<app, state, nudge, count>>

\* HID_SUBEVENT_CONNECTION_CLOSED.
Closed ==
    /\ conn.open /\ Handling
    /\ conn' = [open |-> FALSE, intr |-> "none"]
    /\ stream' = [stream EXCEPT !.on = FALSE]
    /\ latch' = FreshLatch(latch)
    /\ asked' = [asked EXCEPT !.waiting = FALSE]
    /\ ring' = Fresh(ring)
    /\ owed' = <<>> /\ host' = NoInput /\ replied' = FALSE
    /\ UNCHANGED <<app, state, nudge, count>>

\* The host closes the interrupt channel alone, or opens it again: neither is
\* reported to the app.
IntrMoves ==
    /\ conn.open /\ Handling
    /\ conn' = [conn EXCEPT !.intr = IF @ = "closed" THEN "again"
                                     ELSE "closed"]
    /\ asked' = [asked EXCEPT !.waiting = FALSE]
    /\ UNCHANGED <<app, state, nudge, latch, stream, ring, host, owed, count,
                   replied>>

\* handle_subcommand(): 0x03 sets the mode, and every subcommand is answered.
Subcommand(mode) ==
    /\ conn.open /\ Handling /\ count < MaxAsks
    /\ count' = count + 1
    /\ stream' = [stream EXCEPT !.mode = mode]
    /\ ring' = Push(ring, count')
    /\ LET r    == Requested(latch, asked)
           room == ring.count < QueueLen
       IN  /\ latch' = IF room THEN r.latch ELSE latch
           /\ asked' = IF room THEN r.asked ELSE asked
           /\ owed' = IF room THEN Append(owed, count') ELSE owed
    /\ UNCHANGED <<app, state, nudge, conn, host, replied>>

\* Mutant: simple mode has no keepalive.
DueOnChange(s) == s.on /\ (s.mode = "full" \/ s.prev # state.btn)

\* Full mode streams; simple mode reports changed buttons and keeps alive.
Due(s) == s.on /\ (s.mode = "full" \/ s.prev # state.btn
                    \/ s.since >= KeepAlive)

\* stream_timer_handler().
Tick ==
    /\ conn.open /\ Handling
    /\ LET aged == [stream EXCEPT !.since = IF @ < KeepAlive THEN @ + 1 ELSE @,
                                  !.settle = IF @ > 0 THEN @ - 1 ELSE 0]
           s    == [aged EXCEPT !.on = @ \/ aged.settle = 0]
           r    == Requested(latch, asked)
       IN  /\ stream' = s
           /\ latch' = IF Due(s) THEN r.latch ELSE latch
           /\ asked' = IF Due(s) THEN r.asked ELSE asked
    /\ UNCHANGED <<app, state, nudge, conn, ring, host, owed, count, replied>>

\* Mutant: the rest of the queue waits for the next request.
AfterReplyIdle(left) == [latch |-> FALSE,
                         asked |-> [user |-> FALSE, waiting |-> FALSE]]

\* One reply per can-send-now; the rest is asked for again.
AfterReply(left) ==
    LET none == [user |-> FALSE, waiting |-> FALSE]
    IN  IF left > 0 THEN Requested(FALSE, none)
        ELSE [latch |-> FALSE, asked |-> none]

\* HID_SUBEVENT_CAN_SEND_NOW: L2CAP can take a packet.  hid_device.c reports
\* it whenever a request is outstanding, also when it was the control channel
\* that waited.
\* handle_can_send_now() sends a reply if there is one, else the snapshot;
\* without an interrupt channel nothing leaves.
CanSendNow ==
    /\ asked.user /\ Handling
    /\ LET goes == conn.intr \in {"open", "again"}
           none == [user |-> FALSE, waiting |-> FALSE]
           next == AfterReply(ring.count - 1)
       IN  \/ /\ conn.open /\ ring.count > 0
              /\ ring' = Pop(ring)
              /\ owed' = Tail(owed)
              /\ latch' = next.latch /\ asked' = next.asked
              /\ replied' = TRUE
              /\ UNCHANGED <<stream, host>>
           \/ /\ conn.open /\ ring.count = 0 /\ stream.on
              /\ host' = IF goes THEN state ELSE host
              /\ stream' = IF stream.mode = "full" THEN stream
                           ELSE [stream EXCEPT !.prev = state.btn, !.since = 0]
              /\ latch' = FALSE /\ asked' = none
              /\ UNCHANGED <<ring, owed, replied>>
           \/ /\ ~conn.open \/ (ring.count = 0 /\ ~stream.on)
              /\ latch' = FALSE /\ asked' = none
              /\ UNCHANGED <<stream, host, ring, owed, replied>>
    /\ UNCHANGED <<app, state, nudge, conn, count>>

AppTask == (\E i \in Inputs : SetInput(i)) \/ CopyRest \/ Exchange \/ Post
Modes   == {"simple", "full"}
HostActs == Opened \/ Closed \/ IntrMoves \/ \E m \in Modes : Subcommand(m)
RunLoop == Ready \/ PopCallback \/ OnInputChanged \/ Tick \/ CanSendNow

SendNext == AppTask \/ HostActs \/ RunLoop

SendSpec == SendInit /\ [][SendNext]_sendVars

\* The run loop serves its sources in turn: no flood of nudges keeps the stream
\* timer or L2CAP from theirs, which is why the two are strongly fair (between
\* the callback's two steps neither is enabled).  A packet that waits on an
\* interrupt channel is let out in the end.
FairSend ==
    /\ SendSpec
    /\ WF_sendVars(CopyRest \/ Exchange \/ Post)
    /\ WF_sendVars(PopCallback \/ OnInputChanged)
    /\ SF_sendVars(Tick)
    /\ SF_sendVars(asked.waiting /\ CanSendNow)

-----------------------------------------------------------------------------
SendTypeOK ==
    /\ app \in [at : {"idle", "copying", "nudging", "posting"}, goal : Inputs]
    /\ state \in Input
    /\ nudge \in [ready : BOOLEAN, pending : BOOLEAN, queued : BOOLEAN,
                  popped : BOOLEAN]
    /\ conn \in [open : BOOLEAN, intr : {"none", "open", "closed", "again"}]
    /\ latch \in BOOLEAN
    /\ asked \in [user : BOOLEAN, waiting : BOOLEAN]
    /\ stream \in [on : BOOLEAN, mode : Modes, settle : 0..Settle,
                   prev : Buttons \cup {NoButtons}, since : 0..KeepAlive]
    /\ ring \in [slots : [0..(QueueLen - 1) -> 0..MaxAsks],
                 head : 0..(QueueLen - 1), count : 0..QueueLen]
    /\ host \in Input \cup {NoInput}
    /\ owed \in Seq(1..MaxAsks) /\ count \in 0..MaxAsks
    /\ replied \in BOOLEAN

\* The host gets the replies it is owed, in the order of its subcommands, none
\* twice and none of an earlier connection: the ring holds exactly those.
RepliesOwed == Queue = owed

\* The latch never blocks a live connection: while the interrupt channel of
\* start_stream() is there, a set latch means L2CAP owes us an event, and a
\* reply in the queue means the latch is set.
LatchLive ==
    conn.intr = "open" => /\ latch => asked.user /\ asked.waiting
                          /\ ring.count > 0 => latch

\* At most one callback is in flight (bt_pro_btstack.cpp:846): whoever wins the
\* flag posts a callback that the run loop neither has in its list nor has
\* taken from it and not yet run.
PostedOnce == app.at = "posting" => ~nudge.queued /\ ~nudge.popped

\* The connection streams, and nothing is under way before the next tick.
AtRest ==
    /\ stream.on /\ conn.intr = "open"
    /\ app.at = "idle" /\ ~nudge.pending /\ ~latch

\* Then the host has all of the last input, however a frame packed in between
\* tore it and however nudges were coalesced; unless a reply took its place.
Prompt == AtRest /\ ~replied => host = app.goal

\* The hand-off as it is promised, to a host whose interrupt channel is the one
\* of start_stream().
H == INSTANCE Handoff WITH
        Snapshots <- Inputs, Nothing <- NoInput,
        cur <- app.goal, shown <- state, host <- host,
        live <- stream.on /\ conn.intr = "open"

\* Through the copy that the run loop can preempt, the coalesced nudges, the
\* replies that take a snapshot's turn and connections that come and go, the
\* host is told nothing but the current snapshot, or its buttons over the
\* stick of the one before; never one that was current earlier.
HandedOff == H!HandoffSafe

\* Whatever becomes of the nudge, the host gets the current input in the end,
\* the stick's position included.
Delivered == H!Arrives

\* And every reply it is owed.
Answered == conn.intr = "open" /\ ring.count > 0
                ~> ring.count = 0 \/ conn.intr # "open"
=============================================================================
