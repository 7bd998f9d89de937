------------------------------ MODULE VhciRing -------------------------------
(***************************************************************************)
(* hci_transport_esp32_vhci.c: how packets get from the controller's task  *)
(* to BTstack's run loop.                                                  *)
(*                                                                         *)
(* host_recv_pkt_cb() writes a tag of two bytes (the length) and the       *)
(* packet into a ring, under a mutex, and puts a callback on the run       *)
(* loop's list; the run loop, woken by a task notification, takes packets  *)
(* out until the ring is empty.                                            *)
(*                                                                         *)
(* A byte of the ring is the packet it belongs to and its position in that *)
(* packet's frame, tag included.                                           *)
(***************************************************************************)
EXTENDS RingBuffer, SequencesExt

CONSTANTS
    Lens,    \* lengths of packets, the packet type included
    Ids      \* bound: packets are numbered modulo Ids, more than the ring holds

ASSUME VhciAssumption ==
    /\ Lens \subseteq Nat \ {0}
    /\ Ids \in Nat \ {0}

VARIABLES
    rb,      \* hci_ringbuffer
    ctrl,    \* the controller's task: idle, or on its way to the list
    list,    \* btstack_run_loop_base_callbacks
    bell,    \* the run loop task's notification
    loop,    \* where btstack_run_loop_freertos_execute() is
    got,     \* what the handler was given last: a packet, or a mixture
    next,    \* history: the number of the next packet
    due,     \* history: packets in the ring, up to the first torn one
    torn     \* history: a packet in the ring lacks its tag or its bytes

vars == <<rb, ctrl, list, bell, loop, got, next, due, torn>>

Packet == [id : 0..(Ids - 1), len : Lens]
Cell   == [pkt : Packet, at : Nat]

\* A frame: bytes 0 and 1 are the tag.
Frame(p)   == [k \in 1..(p.len + 2) |-> [pkt |-> p, at |-> k - 1]]
Tag(p)     == SubSeq(Frame(p), 1, 2)
Payload(p) == SubSeq(Frame(p), 3, p.len + 2)

\* What the handler has before the first packet, and what it gets when the
\* bytes are not one packet's from its type byte to its end.
Nothing == [id |-> Ids, len |-> 0]
Mixture == [id |-> Ids, len |-> 1]

\* The receive buffer keeps bytes of earlier packets where a read of len bytes
\* comes short.
Handed(body, len) ==
    IF /\ len > 0 /\ Len(body) = len
       /\ body[1] \in Cell /\ body = Payload(body[1].pkt)
    THEN body[1].pkt ELSE Mixture

VhciInit ==
    /\ rb = EmptyRing
    /\ ctrl = "idle" /\ list = <<>> /\ bell = FALSE /\ loop = "waiting"
    /\ got = Nothing
    /\ next = 0 /\ due = <<>> /\ torn = FALSE

-----------------------------------------------------------------------------
(* The controller's task, "BT Controller". *)

\* Mutant: the data is written before its length.
StoredSwapped(r, p) == Write(Write(r, Payload(p)), Tag(p))

\* The two writes of host_recv_pkt_cb(); what they return is not looked at.
Stored(r, p) == Write(Write(r, Tag(p)), Payload(p))

\* A packet longer than the free space is dropped; the tag is not counted.
Drops(len) == Free(rb) < len

\* host_recv_pkt_cb(), under the mutex.
Receive(len) ==
    /\ ctrl = "idle"
    /\ LET p == [id |-> next, len |-> len]
           whole == Free(rb) >= len + 2
       IN  IF Drops(len) THEN UNCHANGED <<rb, ctrl, next, due, torn>>
           ELSE /\ rb' = Stored(rb, p)
                /\ ctrl' = "posting"
                /\ next' = (next + 1) % Ids
                /\ due' = IF whole /\ ~torn THEN Append(due, p) ELSE due
                /\ torn' = (torn \/ ~whole)
    /\ UNCHANGED <<list, bell, loop, got>>

\* btstack_linked_list_add_tail() refuses what is in the list already.
AddTail(l, c) == IF Contains(l, c) THEN l ELSE Append(l, c)

\* btstack_run_loop_freertos_execute_on_main_thread() ...
Post ==
    /\ ctrl = "posting"
    /\ list' = AddTail(list, "receive")
    /\ ctrl' = "ringing"
    /\ UNCHANGED <<rb, bell, loop, got, next, due, torn>>

\* host_send_pkt_available_cb() posts the other callback.
SendAvailable ==
    /\ ctrl = "idle"
    /\ list' = AddTail(list, "send")
    /\ ctrl' = "ringing"
    /\ UNCHANGED <<rb, bell, loop, got, next, due, torn>>

\* ... ends with the notification.
Ring ==
    /\ ctrl = "ringing"
    /\ ctrl' = "idle" /\ bell' = TRUE
    /\ UNCHANGED <<rb, list, loop, got, next, due, torn>>

-----------------------------------------------------------------------------
(* The run loop. *)

\* The next callback of the list; when there is none the timers' turn comes.
NextCallback ==
    /\ loop = "callbacks"
    /\ IF list = <<>> THEN loop' = "timers" /\ list' = list
       ELSE /\ list' = Tail(list)
            /\ loop' = IF Head(list) = "receive" THEN "delivering"
                       ELSE "callbacks"
    /\ UNCHANGED <<rb, ctrl, bell, got, next, due, torn>>

\* What two bytes read as a tag say: the length, if they are one packet's tag.
\* Bytes of anything else, or of a read that found only one, may say anything;
\* Size stands for every length the ring cannot satisfy.
TagSays(t) ==
    IF /\ Len(t) = 2 /\ t[1] \in Cell /\ t[2] \in Cell
       /\ t[1].at = 0 /\ t[2].at = 1 /\ t[1].pkt = t[2].pkt
    THEN {t[1].pkt.len} ELSE 0..Size

\* Mutant: one packet for each callback.
DeliversOne == "callbacks"

\* The loop goes on while there is something to read.
Delivers == "delivering"

\* transport_deliver_packets(), once round its loop: tag and packet are read
\* under the mutex, the one after the other, and handed up without it.
Deliver ==
    /\ loop = "delivering" /\ Avail(rb) > 0
    /\ \E len \in TagSays(ReadBytes(rb, 2)) :
          LET read == ReadBytes(rb, 2 + len)
          IN  /\ rb' = AfterRead(rb, 2 + len)
              /\ got' = Handed(SubSeq(read, 3, Len(read)), len)
    /\ due' = IF due = <<>> THEN due ELSE Tail(due)
    /\ torn' = (torn /\ Avail(rb') > 0)
    /\ loop' = Delivers
    /\ UNCHANGED <<ctrl, list, bell, next>>

DeliverEnds ==
    /\ loop = "delivering" /\ Avail(rb) = 0
    /\ loop' = "callbacks"
    /\ UNCHANGED <<rb, ctrl, list, bell, got, next, due, torn>>

\* Mutant: a notification is cleared on entry, not on exit.
Forgotten(b) == FALSE

\* xTaskNotifyWait() clears nothing on entry ...
Kept(b) == b

\* The timers have their turn, then the loop waits.
Timers ==
    /\ loop = "timers"
    /\ loop' = "waiting" /\ bell' = Kept(bell)
    /\ UNCHANGED <<rb, ctrl, list, got, next, due, torn>>

\* ... so that a notification that came meanwhile ends the wait at once.
Wake ==
    /\ loop = "waiting" /\ bell
    /\ loop' = "callbacks" /\ bell' = FALSE
    /\ UNCHANGED <<rb, ctrl, list, got, next, due, torn>>

\* A timer is due.
WakeByTimer ==
    /\ loop = "waiting" /\ ~bell
    /\ loop' = "callbacks"
    /\ UNCHANGED <<rb, ctrl, list, bell, got, next, due, torn>>

Controller == (\E len \in Lens : Receive(len)) \/ SendAvailable
Posting    == Post \/ Ring
RunLoop    == NextCallback \/ Deliver \/ DeliverEnds \/ Timers \/ Wake

VhciNext == Controller \/ Posting \/ RunLoop \/ WakeByTimer

VhciSpec == VhciInit /\ [][VhciNext]_vars

\* Both tasks go on with what they are at.  No timer is counted on: there may
\* be none.
FairVhci == VhciSpec /\ WF_vars(Posting) /\ WF_vars(RunLoop)

-----------------------------------------------------------------------------
VhciTypeOK ==
    /\ rb \in Rings(Cell \cup {Blank})
    /\ ctrl \in {"idle", "posting", "ringing"}
    /\ list \in Seq({"receive", "send"})
    /\ bell \in BOOLEAN
    /\ loop \in {"callbacks", "delivering", "timers", "waiting"}
    /\ got \in Packet \cup {Nothing, Mixture}
    /\ next \in 0..(Ids - 1) /\ due \in Seq(Packet) /\ torn \in BOOLEAN

\* The ring reads as the frames of the packets put into it, in order, up to the
\* first packet that lost a part; and nothing else if none did.  So the two
\* sides agree on where a packet starts for as long as every tag got its bytes,
\* across the end of the storage and when the ring is exactly full, and again
\* from the moment the ring runs empty.
Framed ==
    \E cut \in [1..(Len(due) + 1) -> 0..Avail(rb)] :
        /\ cut[1] = 0
        /\ \A k \in 1..Len(due) :
              SubSeq(Content(rb), cut[k] + 1, cut[k + 1]) = Frame(due[k])
        /\ ~torn => cut[Len(due) + 1] = Avail(rb)

\* A packet in the ring is on its way: its callback is on the list or running
\* or about to be posted, and a loop that sleeps is being woken for it.  Nothing
\* is left in the ring until the next packet happens to come.
NothingStranded ==
    /\ Avail(rb) > 0 => \/ Contains(list, "receive")
                        \/ loop = "delivering" \/ ctrl = "posting"
    /\ Contains(list, "receive") /\ loop \in {"timers", "waiting"}
            => bell \/ ctrl = "ringing"

\* Whatever is in the ring, the run loop turns to it and reads on until the
\* ring is empty, with no help from a timer and whatever else is posted.
Served == Avail(rb) > 0 ~> loop = "delivering"

\* "check space ... dropping packet" (hci_transport_esp32_vhci.c:143-147): a packet
\* that does not fit is dropped, so each one the handler gets is one the
\* controller sent, from its type byte to its end.
WholePackets == got # Mixture
=============================================================================
