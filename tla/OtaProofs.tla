------------------------------- MODULE OtaProofs -----------------------------
(***************************************************************************)
(* Proofs about Ota, for images, windows and stall times of any size and   *)
(* any number of transfers and faults.                                     *)
(*                                                                         *)
(* What goes to the flash is in sequence because the page, the air, the    *)
(* handler and the open handle agree on which chunk is next; the watchdog  *)
(* can make the transfer's statics disagree with each other, but then no   *)
(* more is written to an open handle.                                      *)
(***************************************************************************)
EXTENDS Ota, TLAPS

-----------------------------------------------------------------------------
(* The invariant. *)

\* The page may go on writing chunks.
Pumping == page.pump /\ link /\ ~page.error

\* The notification that starts the pump is on its way.
ReadyDue == \E i \in 1..Len(notes) : notes[i].st = "ready"

\* It is sent once.
OneReady == \A i, j \in 1..Len(notes) :
               notes[i].st = "ready" /\ notes[j].st = "ready" => i = j

\* The write that is next to be handled is an op.
Comes(op) == air # <<>> /\ air[1].op = op

\* Chunks in the air follow one another, with nothing before or between them.
\* Only one write can be a begin, the first.
AirInv ==
    /\ \A i \in 2..Len(air) : air[i].op # "begin"
    /\ \A i \in 1..Len(air) : air[i].op = "data" =>
          /\ air[i].chunk < Size
          /\ \A j \in 1..i : /\ air[j].op = "data"
                             /\ air[i].chunk = air[j].chunk + (i - j)

\* A page without its connection has given up on its transfer.
LinkInv == ~link => page.error /\ notes = <<>>

\* Until the page knows that the transfer has begun nothing follows the begin
\* but what gives the transfer up.
BeginInv ==
    /\ Comes("begin") => btc.at = "idle"
    /\ Comes("begin") \/ btc.at = "beginning" => ~ReadyDue
    /\ Comes("begin") \/ btc.at = "beginning" \/ ReadyDue =>
          /\ page.sent = 0 /\ ~page.pump
          /\ \A i \in 1..Len(air) : air[i].op \notin {"data", "end"}
          /\ ~page.error => Len(air) = IF Comes("begin") THEN 1 ELSE 0
    /\ ReadyDue => btc.at = "idle"
    /\ OneReady

\* The chunk the page writes next follows the last one under way.
PumpInv ==
    Pumping =>
        /\ btc.at \in {"idle", "writing"}
        /\ \A i \in 1..Len(air) : air[i].op = "data"
        /\ air # <<>> => air[Len(air)].chunk + 1 = page.sent
        /\ air = <<>> /\ btc.at = "writing" => btc.chunk + 1 = page.sent

\* A chunk that is being written is where its handle has come to, whatever the
\* watchdog does to the statics meanwhile.
WriteInv ==
    btc.at = "writing" =>
        /\ btc.chunk < Size /\ dev.recv <= btc.chunk
        /\ btc.handle \in slot.open => slot.chunks[btc.handle] = btc.chunk
        /\ dev.handle \in {btc.handle, 0}
        /\ Comes("data") => air[1].chunk = btc.chunk + 1

Writing == IF btc.at = "writing" THEN 1 ELSE 0

\* If another chunk is to come to the stick it is c, or at least c.
NextIs(c) ==
    /\ Comes("data") => air[1].chunk = c
    /\ air = <<>> /\ (Pumping \/ ReadyDue) => page.sent = c

NextReaches(c) ==
    /\ Comes("data") => c <= air[1].chunk
    /\ Pumping \/ ReadyDue => c <= page.sent

\* The transfer under way gets the chunk its handle has come to.
NextInv ==
    /\ dev.active /\ dev.handle \in slot.open =>
          NextIs(slot.chunks[dev.handle] + Writing)
    /\ NextReaches(dev.recv + Writing)

\* Handles are not used twice, and there is one for each begin.
HandleInv ==
    /\ slot.open \subseteq 1..slot.last
    /\ dev.handle <= slot.last /\ btc.handle <= slot.last
    /\ slot.last + (IF Comes("begin") \/ btc.at = "beginning" THEN 1 ELSE 0)
         <= page.begins

OtaInv == /\ OtaTypeOK /\ AirInv /\ LinkInv /\ BeginInv /\ PumpInv
          /\ WriteInv /\ NextInv /\ HandleInv /\ InSequence

-----------------------------------------------------------------------------
(* Types. *)

Writes == [op : {"begin", "data", "end", "abort", "bye"}, chunk : 0..Size]
Notes  == [st : {"ready", "ack", "done", "error"}, upTo : 0..Size]

LEMMA SizesOK ==
    /\ Size \in Nat /\ Size > 0 /\ Window \in Nat /\ Stall \in Nat /\ Stall > 0
    /\ MaxBegins \in Nat /\ MaxFaults \in Nat
BY OtaAssumption

LEMMA QueuesOK ==
    ASSUME OtaTypeOK
    PROVE  /\ air \in Seq(Writes) /\ notes \in Seq(Notes)
           /\ Len(air) \in Nat /\ Len(notes) \in Nat
           /\ air # <<>> => /\ Head(air) = air[1] /\ air[1] \in Writes
                            /\ Tail(air) \in Seq(Writes)
                            /\ Len(Tail(air)) = Len(air) - 1
                            /\ \A i \in 1..(Len(air) - 1) :
                                  Tail(air)[i] = air[i + 1]
           /\ air = <<>> <=> Len(air) = 0
<1>1. air \in Seq(Writes) /\ notes \in Seq(Notes)
    BY DEF OtaTypeOK, Writes, Notes
<1> HIDE DEF Writes, Notes
<1> QED BY <1>1

\* A write appended to the air.
LEMMA Appended ==
    ASSUME air \in Seq(Writes), NEW w \in Writes, air' = Append(air, w)
    PROVE  /\ air' \in Seq(Writes) /\ air' # <<>> /\ Len(air') = Len(air) + 1
           /\ \A i \in 1..Len(air) : air'[i] = air[i]
           /\ air'[Len(air) + 1] = w
           /\ air # <<>> => air'[1] = air[1]
           /\ air = <<>> => air'[1] = w /\ Len(air) = 0
<1> HIDE DEF Writes
<1> QED OBVIOUS

\* A notification that is not Ready changes nothing for the page's pump.
LEMMA NoteAdded ==
    ASSUME notes \in Seq(Notes), NEW n \in Notes, n.st # "ready",
           notes' = notes \/ notes' = Append(notes, n)
    PROVE  /\ notes' \in Seq(Notes) /\ ReadyDue' <=> ReadyDue
           /\ OneReady => OneReady'
<1>1. CASE notes' = notes BY <1>1 DEF ReadyDue, OneReady
<1>2. CASE notes' = Append(notes, n)
  <2> HIDE DEF Notes
  <2>1. /\ notes' \in Seq(Notes) /\ Len(notes) \in Nat
        /\ Len(notes') = Len(notes) + 1
        /\ \A i \in 1..Len(notes) : notes'[i] = notes[i]
        /\ notes'[Len(notes) + 1] = n
      BY <1>2
  <2>2. \A i \in 1..Len(notes') : notes'[i].st = "ready" =>
            i \in 1..Len(notes) /\ notes'[i] = notes[i]
      BY <2>1
  <2>3. 1..Len(notes) \subseteq 1..Len(notes') BY <2>1
  <2>4. ReadyDue' <=> ReadyDue BY <2>1, <2>2, <2>3 DEF ReadyDue
  <2> QED BY <2>1, <2>2, <2>4 DEF OneReady
<1> QED BY <1>1, <1>2

\* The same of what Notify() does with it.
LEMMA Notified ==
    ASSUME OtaTypeOK, OneReady, NEW n \in Notes, n.st # "ready",
           \/ Notify(n)
           \/ Quietly
           \/ notes' = IF link THEN Append(notes, n) ELSE notes
    PROVE  /\ ReadyDue' <=> ReadyDue
           /\ ~link => notes' = notes
           /\ OneReady'
<1>1. /\ notes' = notes \/ notes' = Append(notes, n)
      /\ ~link => notes' = notes
    BY DEF Notify, Quietly
<1>2. notes \in Seq(Notes) BY QueuesOK
<1> QED BY <1>1, <1>2, NoteAdded

-----------------------------------------------------------------------------
(* Every action keeps the types. *)

LEMMA AppendIn ==
    ASSUME NEW S, NEW s \in Seq(S), NEW x \in S
    PROVE  Append(s, x) \in Seq(S)
OBVIOUS

LEMMA NotesTyped ==
    ASSUME OtaTypeOK, NEW n \in Notes,
           \/ Notify(n)
           \/ Quietly
           \/ Fault /\ notes' = IF link THEN Append(notes, n) ELSE notes
    PROVE  notes' \in Seq(Notes) /\ faults' \in 0..MaxFaults
<1>1. notes \in Seq(Notes) BY QueuesOK
<1>2. notes' = notes \/ notes' = Append(notes, n) BY DEF Notify, Quietly
<1>3. notes' \in Seq(Notes) BY <1>1, <1>2, AppendIn
<1>4. faults' = faults \/ (faults < MaxFaults /\ faults' = faults + 1)
    BY DEF Notify, Quietly, Fault
<1>5. faults \in 0..MaxFaults BY DEF OtaTypeOK
<1>6. faults' \in 0..MaxFaults BY <1>4, <1>5, SizesOK
<1> QED BY <1>3, <1>6

LEMMA FaultTyped ==
    ASSUME OtaTypeOK, Fault \/ faults' = faults
    PROVE  faults' \in 0..MaxFaults
<1>1. faults \in 0..MaxFaults BY DEF OtaTypeOK
<1> QED BY <1>1, SizesOK DEF Fault

LEMMA CleanupTyped ==
    ASSUME OtaTypeOK, Cleanup
    PROVE  /\ dev' \in [active : BOOLEAN, handle : Handles, part : BOOLEAN,
                        size : {0, Size}, recv : 0..Size, acked : 0..Size,
                        age : 0..Stall]
           /\ ~dev'.active /\ dev'.handle = 0 /\ dev'.recv = 0
           /\ slot' \in [open : SUBSET Handles, last : Handles,
                         chunks : [Handles -> 0..Gap]]
           /\ slot'.open \subseteq slot.open
           /\ slot'.last = slot.last /\ slot'.chunks = slot.chunks
<1>1. dev' = [NoTransfer EXCEPT !.age = dev.age] BY DEF Cleanup
<1>2. /\ dev' = [active |-> FALSE, handle |-> 0, part |-> FALSE, size |-> 0,
                 recv |-> 0, acked |-> 0, age |-> dev.age]
      /\ 0 \in Handles /\ 0 \in 0..Size /\ dev.age \in 0..Stall
  <2>1. dev.age \in 0..Stall BY DEF OtaTypeOK
  <2>2. 0 \in Handles /\ 0 \in 0..Size BY SizesOK DEF Handles
  <2> QED BY <1>1, <2>1, <2>2 DEF NoTransfer
<1>3. slot' = slot \/ slot' = [slot EXCEPT !.open = @ \ {dev.handle}]
    BY DEF Cleanup, Close
<1>4. slot \in [open : SUBSET Handles, last : Handles,
                chunks : [Handles -> 0..Gap]]
    BY DEF OtaTypeOK
<1>5. /\ slot' \in [open : SUBSET Handles, last : Handles,
                    chunks : [Handles -> 0..Gap]]
      /\ slot'.open \subseteq slot.open
      /\ slot'.last = slot.last /\ slot'.chunks = slot.chunks
    BY <1>3, <1>4
<1> QED BY <1>2, <1>5

\* The constants that are sent.
LEMMA SentTyped ==
    /\ Begin \in Writes /\ End \in Writes /\ Abort \in Writes /\ Bye \in Writes
    /\ \A c \in 0..Size : Data(c) \in Writes /\ Data(c).op = "data"
                          /\ Data(c).chunk = c
    /\ Ready \in Notes /\ Done \in Notes /\ Error \in Notes
    /\ \A n \in 0..Size : Ack(n) \in Notes /\ Ack(n).st = "ack"
    /\ Done.st = "done" /\ Error.st = "error" /\ Ready.st = "ready"
    /\ Begin.op = "begin" /\ End.op = "end" /\ Abort.op = "abort"
    /\ Bye.op = "bye"
BY SizesOK DEF Begin, End, Abort, Bye, Data, Ready, Done, Error, Ack,
               Writes, Notes

\* Appending to the air, losing its end, taking its head.
LEMMA AirTyped ==
    ASSUME OtaTypeOK
    PROVE  /\ \A w \in Writes : Append(air, w) \in Seq(Writes)
           /\ \A k \in 0..Len(air) :
                 Append(SubSeq(air, 1, k), Bye) \in Seq(Writes)
           /\ air # <<>> => Tail(air) \in Seq(Writes)
<1>1. air \in Seq(Writes) BY QueuesOK
<1>2. Bye \in Writes BY SentTyped
<1> HIDE DEF Writes
<1>3. \A k \in 0..Len(air) : SubSeq(air, 1, k) \in Seq(Writes) BY <1>1
<1> QED BY <1>1, <1>2, <1>3

PageTypeOK ==
    page \in [ui : {"idle", "active", "over"}, begins : 0..MaxBegins,
              sent : 0..Size, acked : 0..Size, error : BOOLEAN, pump : BOOLEAN]
DevTypeOK ==
    dev \in [active : BOOLEAN, handle : Handles, part : BOOLEAN,
             size : {0, Size}, recv : 0..Size, acked : 0..Size, age : 0..Stall]
BtcTypeOK ==
    btc \in [at : {"idle", "beginning", "writing", "ending", "restarting"},
             handle : Handles, chunk : 0..Size]
SlotTypeOK ==
    slot \in [open : SUBSET Handles, last : Handles,
              chunks : [Handles -> 0..Gap]]
RestTypeOK ==
    /\ link \in BOOLEAN /\ on \in BOOLEAN
    /\ main \in {"loop", "abort", "active", "handle", "part", "counters"}
    /\ boot \in {"old", "new"} /\ faults \in 0..MaxFaults

LEMMA TypeParts ==
    /\ OtaTypeOK <=> /\ PageTypeOK /\ DevTypeOK /\ BtcTypeOK /\ SlotTypeOK
                     /\ RestTypeOK
                     /\ air \in Seq(Writes) /\ notes \in Seq(Notes)
    /\ OtaTypeOK' <=> /\ PageTypeOK' /\ DevTypeOK' /\ BtcTypeOK' /\ SlotTypeOK'
                      /\ RestTypeOK'
                      /\ air' \in Seq(Writes) /\ notes' \in Seq(Notes)
BY DEF OtaTypeOK, PageTypeOK, DevTypeOK, BtcTypeOK, SlotTypeOK, RestTypeOK,
       Writes, Notes

\* What the page does is typed ...
LEMMA PageTypes ==
    ASSUME OtaTypeOK,
           User \/ OnOtaStatus \/ Pump \/ Disconnect \/ Reconnect
    PROVE  OtaTypeOK'
<1>1. UNCHANGED <<dev, btc, main, slot, boot, on>>
    BY DEF User, StartOta, AbortOta, OnOtaStatus, Pump, PumpWrites, PumpEnds,
           PumpStops, Disconnect, Reconnect
<1>2. PageTypeOK /\ DevTypeOK /\ BtcTypeOK /\ SlotTypeOK /\ RestTypeOK
    BY TypeParts
<1>3. DevTypeOK' /\ BtcTypeOK' /\ SlotTypeOK'
    BY <1>1, <1>2 DEF DevTypeOK, BtcTypeOK, SlotTypeOK
<1>4. RestTypeOK'
  <2>1. link' \in BOOLEAN
      BY <1>2 DEF User, StartOta, AbortOta, OnOtaStatus, Pump, PumpWrites,
             PumpEnds, PumpStops, Disconnect, Reconnect, RestTypeOK
  <2>2. Fault \/ faults' = faults
      BY DEF User, StartOta, AbortOta, OnOtaStatus, Pump, PumpWrites,
             PumpEnds, PumpStops, Disconnect, Reconnect
  <2> QED BY <1>1, <1>2, <2>1, <2>2, FaultTyped DEF RestTypeOK
<1>5. air' \in Seq(Writes)
  <2>1. \/ air' = air
        \/ \E w \in Writes : air' = Append(air, w)
        \/ \E k \in 0..Len(air) : air' = Append(SubSeq(air, 1, k), Bye)
      BY <1>2, SentTyped
      DEF User, StartOta, AbortOta, OnOtaStatus, Pump, PumpWrites, PumpEnds,
          PumpStops, Disconnect, Reconnect, PageTypeOK
  <2> QED BY <2>1, AirTyped, QueuesOK
<1>6. notes' \in Seq(Notes)
  <2>1. notes' = notes \/ notes' = <<>> \/ (notes # <<>> /\ notes' = Tail(notes))
      BY DEF User, StartOta, AbortOta, OnOtaStatus, Pump, PumpWrites,
             PumpEnds, PumpStops, Disconnect, Reconnect
  <2>2. notes \in Seq(Notes) BY QueuesOK
  <2> HIDE DEF Notes
  <2>3. <<>> \in Seq(Notes) OBVIOUS
  <2>4. notes # <<>> => Tail(notes) \in Seq(Notes) BY <2>2
  <2> QED BY <2>1, <2>2, <2>3, <2>4
<1>7. PageTypeOK'
  <2>1. CASE StartOta BY <1>2, <2>1, SizesOK DEF StartOta, PageTypeOK
  <2>2. CASE OnOtaStatus
    <3>1. Head(notes) \in Notes /\ notes # <<>>
        BY <2>2, QueuesOK DEF OnOtaStatus
    <3>2. Head(notes).upTo \in 0..Size
          /\ Head(notes).st \in {"ready", "ack", "done", "error"}
        BY <3>1 DEF Notes
    <3> DEFINE n == Head(notes)
    <3>3. page' = CASE n.st = "ready" -> [page EXCEPT !.pump = TRUE]
                    [] n.st = "ack"   -> [page EXCEPT !.acked = n.upTo]
                    [] n.st = "done"  -> [page EXCEPT !.ui = "over"]
                    [] n.st = "error" -> [page EXCEPT !.ui = "over",
                                                      !.error = TRUE]
        BY <2>2 DEF OnOtaStatus
    <3> HIDE DEF n
    <3>4. n.upTo \in 0..Size /\ n.st \in {"ready", "ack", "done", "error"}
        BY <3>2 DEF n
    <3> QED BY <1>2, <3>3, <3>4 DEF PageTypeOK
  <2>3. CASE PumpWrites BY <1>2, <2>3, SizesOK DEF PumpWrites, PageTypeOK
  <2>4. CASE PumpEnds \/ PumpStops
      BY <1>2, <2>4 DEF PumpEnds, PumpStops, PageTypeOK
  <2>5. CASE AbortOta \/ Disconnect \/ Reconnect
      BY <1>2, <2>5 DEF AbortOta, Disconnect, Reconnect, PageTypeOK
  <2> QED BY <2>1, <2>2, <2>3, <2>4, <2>5 DEF User, Pump
<1> QED BY <1>3, <1>4, <1>5, <1>6, <1>7, TypeParts

\* ... and so is what the stick does.
LEMMA BtcTypes ==
    ASSUME OtaInv, Btc
    PROVE  OtaTypeOK'
<1>1. /\ OtaTypeOK /\ PageTypeOK /\ DevTypeOK /\ BtcTypeOK /\ SlotTypeOK
      /\ RestTypeOK /\ notes \in Seq(Notes) /\ air \in Seq(Writes)
      /\ 0 \in Handles /\ 0 \in 0..Size /\ 0 \in 0..Stall
    BY TypeParts, SizesOK DEF OtaInv, Handles
<1>2. /\ Idle \in [at : {"idle", "beginning", "writing", "ending",
                         "restarting"}, handle : Handles, chunk : 0..Size]
      /\ Idle = [at |-> "idle", handle |-> 0, chunk |-> 0]
    BY <1>1 DEF Idle
<1>3. \A op \in {"begin", "data", "end", "abort", "bye"} :
         Handling(op) => air' \in Seq(Writes)
    BY <1>1, AirTyped DEF Handling
<1>4. \A h \in Handles : Close(slot, h) \in
         [open : SUBSET Handles, last : Handles, chunks : [Handles -> 0..Gap]]
    BY <1>1 DEF Close, SlotTypeOK
<1>5. CASE OtaBegin
  <2>1. dev' = [NoTransfer EXCEPT !.size = Size, !.part = TRUE, !.age = dev.age]
      BY <1>5 DEF OtaBegin
  <2>2. dev.age \in 0..Stall /\ dev.handle \in Handles
      BY <1>1 DEF DevTypeOK
  <2>3. DevTypeOK' BY <1>1, <2>1, <2>2 DEF NoTransfer, DevTypeOK
  <2>4. slot' = slot \/ slot' = Close(slot, dev.handle)
      BY <1>5 DEF OtaBegin
  <2>5. SlotTypeOK' BY <1>1, <1>4, <2>2, <2>4 DEF SlotTypeOK
  <2>6. BtcTypeOK' BY <1>2, <1>5 DEF OtaBegin, BtcTypeOK
  <2>7. PageTypeOK' /\ RestTypeOK' /\ notes' \in Seq(Notes)
      BY <1>1, <1>5 DEF OtaBegin, PageTypeOK, RestTypeOK
  <2> QED BY <1>3, <1>5, <2>3, <2>5, <2>6, <2>7, TypeParts DEF OtaBegin
<1>6. CASE OtaBegun
  <2>1. /\ UNCHANGED <<page, air, link, main, boot, on>> /\ btc' = Idle
        /\ btc.at = "beginning"
      BY <1>6 DEF OtaBegun
  <2>2. BtcTypeOK' BY <1>2, <2>1 DEF BtcTypeOK
  <2>3. notes' \in Seq(Notes) /\ faults' \in 0..MaxFaults
    <3>1. \/ Notify(Ready)
          \/ Fault /\ notes' = IF link THEN Append(notes, Error) ELSE notes
        BY <1>6 DEF OtaBegun
    <3> QED BY <1>1, <3>1, NotesTyped, SentTyped
  <2>4. DevTypeOK' /\ SlotTypeOK'
    <3>1. CASE UNCHANGED <<slot, dev>>
        BY <1>1, <3>1 DEF DevTypeOK, SlotTypeOK
    <3>2. CASE
            /\ slot' = [open |-> slot.open \cup {slot.last + 1},
                        last |-> slot.last + 1,
                        chunks |-> [slot.chunks EXCEPT ![slot.last + 1] = 0]]
            /\ dev' = [dev EXCEPT !.active = TRUE, !.handle = slot.last + 1,
                                  !.recv = 0, !.acked = 0, !.age = 0]
      <4>1. slot.last + 1 \in Handles
        <5>1. slot.last + 1 <= page.begins BY <2>1 DEF OtaInv, HandleInv
        <5>2. slot.last \in Nat /\ page.begins \in 0..MaxBegins
            BY <1>1, SizesOK DEF SlotTypeOK, PageTypeOK, Handles
        <5> QED BY <5>1, <5>2, SizesOK DEF Handles
      <4>2. 0 \in 0..Gap BY SizesOK DEF Gap
      <4>3. SlotTypeOK' BY <1>1, <3>2, <4>1, <4>2 DEF SlotTypeOK
      <4>4. DevTypeOK' BY <1>1, <3>2, <4>1 DEF DevTypeOK
      <4> QED BY <4>3, <4>4
    <3> QED BY <1>6, <3>1, <3>2 DEF OtaBegun
  <2>5. PageTypeOK' /\ RestTypeOK' /\ air' \in Seq(Writes)
      BY <1>1, <2>1, <2>3 DEF PageTypeOK, RestTypeOK
  <2> QED BY <2>2, <2>3, <2>4, <2>5, TypeParts
<1>7. CASE OtaData
  <2>1. UNCHANGED <<page, notes, link, dev, main, slot, boot, on, faults>>
      BY <1>7 DEF OtaData
  <2>2. Head(air).chunk \in 0..Size
    <3>1. air # <<>> BY <1>7 DEF OtaData, Handling
    <3>2. Head(air) \in Writes BY <1>1, <3>1, QueuesOK
    <3> QED BY <3>2 DEF Writes
  <2>3. BtcTypeOK' BY <1>1, <1>2, <1>7, <2>2 DEF OtaData, BtcTypeOK, DevTypeOK
  <2>4. /\ PageTypeOK' /\ DevTypeOK' /\ SlotTypeOK' /\ RestTypeOK'
        /\ notes' \in Seq(Notes)
      BY <1>1, <2>1 DEF PageTypeOK, DevTypeOK, SlotTypeOK, RestTypeOK
  <2> QED BY <1>3, <1>7, <2>3, <2>4, TypeParts DEF OtaData
<1>8. CASE OtaWritten
  <2> DEFINE recv == dev.recv + 1
             acks == Acks(recv, dev.acked, dev.size)
             grown == [slot.chunks EXCEPT
                         ![btc.handle] = IF @ = btc.chunk THEN @ + 1 ELSE Gap]
  <2>1. /\ UNCHANGED <<page, air, link, main, boot, on>> /\ btc' = Idle
        /\ btc.at = "writing"
      BY <1>8 DEF OtaWritten
  <2>2. BtcTypeOK' BY <1>2, <2>1 DEF BtcTypeOK
  <2>3. recv \in 0..Size
    <3>1. dev.recv <= btc.chunk /\ btc.chunk < Size
        BY <2>1 DEF OtaInv, WriteInv
    <3>2. dev.recv \in 0..Size /\ btc.chunk \in 0..Size
        BY <1>1 DEF DevTypeOK, BtcTypeOK
    <3> QED BY <3>1, <3>2, SizesOK
  <2>4. \/ /\ slot' = slot \/ slot' = [slot EXCEPT !.chunks = grown]
           /\ dev' = [dev EXCEPT !.recv = recv, !.age = 0,
                                 !.acked = IF acks THEN recv ELSE @]
           /\ Notify(Ack(recv)) \/ Quietly
        \/ /\ Fault \/ faults' = faults
           /\ notes' = IF link THEN Append(notes, Error) ELSE notes
           /\ Cleanup
      BY <1>8 DEF OtaWritten
  <2> HIDE DEF recv, acks
  <2>5. notes' \in Seq(Notes) /\ faults' \in 0..MaxFaults
    <3>1. CASE Notify(Ack(recv)) \/ Quietly
        BY <1>1, <2>3, <3>1, NotesTyped, SentTyped
    <3>2. CASE /\ Fault \/ faults' = faults
               /\ notes' = IF link THEN Append(notes, Error) ELSE notes
      <4>1. notes' = notes \/ notes' = Append(notes, Error) BY <3>2
      <4>2. Error \in Notes BY SentTyped
      <4>3. notes' \in Seq(Notes) BY <1>1, <4>1, <4>2, AppendIn
      <4> QED BY <1>1, <3>2, <4>3, FaultTyped
    <3> QED BY <2>4, <3>1, <3>2
  <2>6. DevTypeOK' /\ SlotTypeOK'
    <3>1. CASE Cleanup BY <1>1, <3>1, CleanupTyped DEF DevTypeOK, SlotTypeOK
    <3>2. CASE
            /\ slot' = slot \/ slot' = [slot EXCEPT !.chunks = grown]
            /\ dev' = [dev EXCEPT !.recv = recv, !.age = 0,
                                  !.acked = IF acks THEN recv ELSE @]
      <4>1. DevTypeOK' BY <1>1, <2>3, <3>2 DEF DevTypeOK
      <4>2. slot.chunks \in [Handles -> 0..Gap] BY <1>1 DEF SlotTypeOK
      <4>3. grown \in [Handles -> 0..Gap]
        <5>1. btc.chunk \in 0..Size /\ btc.chunk + 1 \in 0..Gap /\ Gap \in 0..Gap
            BY <1>1, SizesOK DEF BtcTypeOK, Gap
        <5> HIDE DEF Gap
        <5> QED BY <4>2, <5>1
      <4> HIDE DEF grown
      <4>4. SlotTypeOK' BY <1>1, <3>2, <4>3 DEF SlotTypeOK
      <4> QED BY <4>1, <4>4
    <3> QED BY <2>4, <3>1, <3>2
  <2>7. PageTypeOK' /\ RestTypeOK' /\ air' \in Seq(Writes)
      BY <1>1, <2>1, <2>5 DEF PageTypeOK, RestTypeOK
  <2> QED BY <2>2, <2>5, <2>6, <2>7, TypeParts
<1>9. CASE OtaEnd
  <2>1. UNCHANGED <<page, link, dev, main, slot, boot, on>>
      BY <1>9 DEF OtaEnd
  <2>2. notes' \in Seq(Notes) /\ faults' \in 0..MaxFaults
    <3>1. Notify(Error) \/ Quietly BY <1>9 DEF OtaEnd
    <3> QED BY <1>1, <3>1, NotesTyped, SentTyped
  <2>3. BtcTypeOK' BY <1>1, <1>2, <1>9 DEF OtaEnd, BtcTypeOK, DevTypeOK
  <2>4. PageTypeOK' /\ DevTypeOK' /\ SlotTypeOK' /\ RestTypeOK'
      BY <1>1, <2>1, <2>2 DEF PageTypeOK, DevTypeOK, SlotTypeOK, RestTypeOK
  <2> QED BY <1>3, <1>9, <2>2, <2>3, <2>4, TypeParts DEF OtaEnd
<1>10. CASE OtaEnded
  <2>1. /\ UNCHANGED <<page, air, link, main, on>>
        /\ slot' = Close(slot, btc.handle)
        /\ dev' = [dev EXCEPT !.active = FALSE, !.handle = 0]
        /\ boot' = boot \/ boot' = "new"
        /\ btc' = Idle \/ btc' = [Idle EXCEPT !.at = "restarting"]
      BY <1>10 DEF OtaEnded
  <2>2. notes' \in Seq(Notes) /\ faults' \in 0..MaxFaults
    <3>1. \/ Notify(Done) \/ Notify(Error)
          \/ Fault /\ notes' = IF link THEN Append(notes, Error) ELSE notes
        BY <1>10 DEF OtaEnded
    <3> QED BY <1>1, <3>1, NotesTyped, SentTyped
  <2>3. BtcTypeOK' BY <1>2, <2>1 DEF BtcTypeOK
  <2>4. DevTypeOK' BY <1>1, <2>1 DEF DevTypeOK
  <2>5. SlotTypeOK' BY <1>1, <1>4, <2>1 DEF SlotTypeOK, BtcTypeOK
  <2>6. PageTypeOK' /\ RestTypeOK' /\ air' \in Seq(Writes)
      BY <1>1, <2>1, <2>2 DEF PageTypeOK, RestTypeOK
  <2> QED BY <2>2, <2>3, <2>4, <2>5, <2>6, TypeParts
<1>11. CASE OtaAborted \/ Disconnected
  <2>1. /\ UNCHANGED <<page, notes, link, btc, main, boot, on, faults>>
        /\ Cleanup /\ air' \in Seq(Writes)
      BY <1>3, <1>11 DEF OtaAborted, Disconnected
  <2>2. DevTypeOK' /\ SlotTypeOK'
      BY <1>1, <2>1, CleanupTyped DEF DevTypeOK, SlotTypeOK
  <2>3. PageTypeOK' /\ RestTypeOK' /\ BtcTypeOK' /\ notes' \in Seq(Notes)
      BY <1>1, <2>1 DEF PageTypeOK, RestTypeOK, BtcTypeOK
  <2> QED BY <2>1, <2>2, <2>3, TypeParts
<1>12. CASE Restart
  <2>1. /\ UNCHANGED <<air, dev, btc, main, slot, boot, faults>>
        /\ on' = FALSE /\ link' = FALSE /\ notes' = <<>>
        /\ page' = [page EXCEPT !.ui = "over", !.error = TRUE]
      BY <1>12 DEF Restart
  <2>2. PageTypeOK' BY <1>1, <2>1 DEF PageTypeOK
  <2>3. DevTypeOK' /\ BtcTypeOK' /\ SlotTypeOK' /\ RestTypeOK'
      BY <1>1, <2>1 DEF DevTypeOK, BtcTypeOK, SlotTypeOK, RestTypeOK
  <2>4. notes' \in Seq(Notes) BY <2>1
  <2> QED BY <1>1, <2>1, <2>2, <2>3, <2>4, TypeParts
<1> QED BY <1>5, <1>6, <1>7, <1>8, <1>9, <1>10, <1>11, <1>12 DEF Btc

LEMMA LoopTypes ==
    ASSUME OtaInv, Watchdog \/ Escape \/ TimePasses
    PROVE  OtaTypeOK'
<1>1. /\ OtaTypeOK /\ PageTypeOK /\ DevTypeOK /\ BtcTypeOK /\ SlotTypeOK
      /\ RestTypeOK /\ notes \in Seq(Notes) /\ air \in Seq(Writes)
      /\ 0 \in Handles /\ 0 \in 0..Size
    BY TypeParts, SizesOK DEF OtaInv, Handles
<1>2. UNCHANGED <<air, btc, boot>>
    BY DEF Watchdog, WatchdogBites, WatchdogAborts, WatchdogClears, Statement,
           Escape, TimePasses
<1>3. notes' \in Seq(Notes) /\ faults' \in 0..MaxFaults
  <2>1. CASE WatchdogBites
      BY <1>1, <2>1, NotesTyped, SentTyped DEF WatchdogBites
  <2>2. CASE WatchdogAborts \/ WatchdogClears
      BY <1>1, <2>2
      DEF WatchdogAborts, WatchdogClears, Statement, RestTypeOK
  <2>3. CASE Escape
    <3>1. notes' = <<>> /\ faults' = faults BY <2>3 DEF Escape
    <3> QED BY <1>1, <3>1 DEF RestTypeOK
  <2>4. CASE TimePasses
    <3>1. notes' = notes /\ (Fault \/ faults' = faults) BY <2>4 DEF TimePasses
    <3> QED BY <1>1, <3>1, FaultTyped
  <2> QED BY <2>1, <2>2, <2>3, <2>4 DEF Watchdog
<1>4. RestTypeOK'
    BY <1>1, <1>2, <1>3
    DEF Watchdog, WatchdogBites, WatchdogAborts, WatchdogClears, Statement,
        Escape, TimePasses, RestTypeOK
<1>5. PageTypeOK'
  <2>1. \/ page' = page
        \/ page' = [page EXCEPT !.ui = IF @ = "active" THEN "over" ELSE @,
                                !.error = TRUE]
      BY DEF Watchdog, WatchdogBites, WatchdogAborts, WatchdogClears,
             Statement, Escape, TimePasses
  <2> QED BY <1>1, <2>1 DEF PageTypeOK
<1>6. SlotTypeOK'
  <2>1. slot' = slot \/ slot' = Close(slot, dev.handle)
      BY DEF Watchdog, WatchdogBites, WatchdogAborts, WatchdogClears,
             Statement, Escape, TimePasses
  <2> QED BY <1>1, <2>1 DEF SlotTypeOK, Close
<1>7. DevTypeOK'
  <2>1. CASE WatchdogClears
    <3>1. \/ dev' = [dev EXCEPT !.active = FALSE]
          \/ dev' = [dev EXCEPT !.handle = 0]
          \/ dev' = [dev EXCEPT !.part = FALSE]
          \/ dev' = [dev EXCEPT !.size = 0, !.recv = 0, !.acked = 0]
        BY <2>1 DEF WatchdogClears, Statement
    <3>2. CASE \/ dev' = [dev EXCEPT !.active = FALSE]
               \/ dev' = [dev EXCEPT !.handle = 0]
               \/ dev' = [dev EXCEPT !.part = FALSE]
        BY <1>1, <3>2 DEF DevTypeOK
    <3>3. CASE dev' = [dev EXCEPT !.size = 0, !.recv = 0, !.acked = 0]
        BY <1>1, <3>3 DEF DevTypeOK
    <3> QED BY <3>1, <3>2, <3>3
  <2>2. CASE TimePasses
    <3>1. dev' = [dev EXCEPT !.age = @ + 1] /\ dev.age < Stall
        BY <2>2 DEF TimePasses
    <3>2. dev.age \in 0..Stall BY <1>1 DEF DevTypeOK
    <3>3. dev.age + 1 \in 0..Stall BY <3>1, <3>2, SizesOK
    <3> QED BY <1>1, <3>1, <3>3 DEF DevTypeOK
  <2>3. CASE WatchdogBites \/ WatchdogAborts \/ Escape
      BY <1>1, <2>3 DEF WatchdogBites, WatchdogAborts, Escape, DevTypeOK
  <2> QED BY <2>1, <2>2, <2>3 DEF Watchdog
<1> QED BY <1>1, <1>2, <1>3, <1>4, <1>5, <1>6, <1>7, TypeParts DEF BtcTypeOK

-----------------------------------------------------------------------------
(* The transfer on the stick moves towards its end. *)

\* Steps that leave the page and the air alone, do not write a chunk and at
\* most end a transfer or a handler.
LEMMA DevStep ==
    ASSUME OtaInv, OtaTypeOK', UNCHANGED <<page, air, link>>,
           ReadyDue' <=> ReadyDue, ~link => notes' = notes,
           OneReady',
           \/ btc' = btc
           \/ btc'.at = "idle" /\ btc'.handle = 0
           \/ btc.at = "ending" /\ btc'.at = "restarting" /\ btc'.handle = 0,
           dev'.active /\ dev'.handle \in slot'.open =>
               dev.active /\ dev'.handle = dev.handle /\ Writing' = Writing,
           dev'.recv + Writing' <= dev.recv + Writing,
           btc'.at = "writing" => dev'.recv <= dev.recv,
           dev'.handle \in {dev.handle, 0},
           slot'.open \subseteq slot.open, slot'.last = slot.last,
           slot'.chunks = slot.chunks
    PROVE  OtaInv'
<1>1. AirInv' /\ LinkInv' BY DEF OtaInv, AirInv, LinkInv
<1>2. Pumping' <=> Pumping BY DEF Pumping
<1>3. Comes("begin")' = Comes("begin") /\ Comes("data")' = Comes("data")
    BY DEF Comes
<1>4. BeginInv'
  <2>1. btc'.at = btc.at \/ btc'.at = "idle"
        \/ (btc.at = "ending" /\ btc'.at = "restarting")
      OBVIOUS
  <2> QED BY <1>3, <2>1 DEF OtaInv, BeginInv
<1>5. PumpInv' BY <1>2 DEF OtaInv, PumpInv
<1>6. /\ dev.handle \in Nat /\ btc.handle \in Nat /\ slot.last \in Nat
      /\ dev.recv \in Nat /\ dev'.recv \in Nat /\ btc.chunk \in Nat
      /\ page.sent \in Nat /\ page.begins \in Nat
      /\ Comes("data") => air[1].chunk \in Nat
  <2>1. OtaTypeOK BY DEF OtaInv
  <2>2. Comes("data") => air[1] \in Writes BY <2>1, QueuesOK DEF Comes
  <2>3. Comes("data") => air[1].chunk \in Nat BY <2>2, SizesOK DEF Writes
  <2> QED BY <2>1, <2>3, SizesOK DEF OtaTypeOK, Handles
<1>7. WriteInv'
  <2> SUFFICES ASSUME btc'.at = "writing" PROVE WriteInv'
      BY DEF WriteInv
  <2>1. btc' = btc OBVIOUS
  <2> QED BY <1>3, <1>6, <2>1 DEF OtaInv, WriteInv
<1>8. NextInv'
  <2>1. Writing \in Nat /\ Writing' \in Nat BY DEF Writing
  <2>2. NextReaches(dev.recv + Writing) BY DEF OtaInv, NextInv
  <2>3. /\ Comes("data")' => dev'.recv + Writing' <= air'[1].chunk
        /\ (Pumping \/ ReadyDue)' => dev'.recv + Writing' <= page'.sent
      BY <1>2, <1>3, <1>6, <2>1, <2>2 DEF NextReaches
  <2>4. ASSUME dev'.active, dev'.handle \in slot'.open
        PROVE  /\ Comes("data")' =>
                      air'[1].chunk = slot'.chunks[dev'.handle] + Writing'
               /\ air' = <<>> /\ (Pumping \/ ReadyDue)' =>
                      page'.sent = slot'.chunks[dev'.handle] + Writing'
    <3>1. NextIs(slot.chunks[dev.handle] + Writing)
        BY <2>4 DEF OtaInv, NextInv
    <3> QED BY <1>2, <1>3, <2>4, <3>1 DEF NextIs
  <2> QED BY <2>3, <2>4 DEF NextInv, NextIs, NextReaches
<1>9. HandleInv'
  <2>1. btc'.at = "beginning" => btc.at = "beginning" OBVIOUS
  <2>2. /\ dev'.handle <= slot'.last /\ btc'.handle <= slot'.last
        /\ slot'.open \subseteq 1..slot'.last
      BY <1>6 DEF OtaInv, HandleInv
  <2> QED BY <1>3, <1>6, <2>1, <2>2 DEF OtaInv, HandleInv
<1>10. InSequence' BY DEF OtaInv, InSequence
<1> QED BY <1>1, <1>4, <1>5, <1>7, <1>8, <1>9, <1>10 DEF OtaInv

\* Nobody awaits or sends anything over a connection that is gone.
LEMMA GoneStep ==
    ASSUME OtaInv, OtaTypeOK', UNCHANGED <<dev, btc, slot>>,
           ~link', notes' = <<>>, page'.error,
           page'.begins = page.begins, page'.sent = page.sent,
           page'.pump = page.pump,
           \/ air' = air
           \/ \E k \in 0..Len(air) : air' = Append(SubSeq(air, 1, k), Bye)
    PROVE  OtaInv'
<1>1. ~Pumping' /\ ~ReadyDue' BY DEF Pumping, ReadyDue
<1>2. PICK n \in 0..Len(air) :
         /\ Len(air') \in {n, n + 1}
         /\ \A i \in 1..n : air'[i] = air[i]
         /\ Len(air') = n + 1 => air'[n + 1] = Bye
         /\ air' = <<>> => air = <<>> /\ n = 0
         /\ n > 0 => air # <<>> /\ air' # <<>>
  <2>1. air \in Seq(Writes) /\ Len(air) \in Nat BY QueuesOK DEF OtaInv
  <2>2. CASE air' = air BY <2>1, <2>2
  <2>3. CASE \E k \in 0..Len(air) : air' = Append(SubSeq(air, 1, k), Bye)
    <3>1. PICK k \in 0..Len(air) : air' = Append(SubSeq(air, 1, k), Bye)
        BY <2>3
    <3> DEFINE a == SubSeq(air, 1, k)
    <3>2. /\ a \in Seq(Writes) /\ Len(a) = k /\ \A i \in 1..k : a[i] = air[i]
          /\ k \in Nat
      <4> HIDE DEF Writes
      <4> QED BY <2>1
    <3> HIDE DEF a
    <3>3. air' = Append(a, Bye) BY <3>1 DEF a
    <3>4. /\ Len(air') = k + 1 /\ \A i \in 1..k : air'[i] = air[i]
          /\ air'[k + 1] = Bye /\ air' # <<>>
      <4> HIDE DEF Writes
      <4> QED BY <3>2, <3>3
    <3>5. k > 0 => air # <<>> BY <2>1
    <3> QED BY <3>1, <3>4, <3>5
  <2> QED BY <2>2, <2>3
<1>3. /\ Len(air) \in Nat /\ n \in Nat /\ Bye.op = "bye"
      /\ \A i \in 1..Len(air) : air[i].chunk \in Nat
  <2>1. air \in Seq(Writes) BY QueuesOK DEF OtaInv
  <2>2. \A i \in 1..Len(air) : air[i] \in Writes
    <3> HIDE DEF Writes
    <3> QED BY <2>1
  <2> QED BY <2>1, <2>2, SizesOK DEF Writes, Bye
<1>4. \A i \in 1..Len(air') : air'[i].op # "bye" =>
         i \in 1..n /\ i \in 1..Len(air) /\ air'[i] = air[i]
    BY <1>2, <1>3
<1>5. \A op \in {"begin", "data"} : Comes(op)' => Comes(op) /\ air'[1] = air[1]
  <2>1. air' # <<>> => 1 \in 1..Len(air')
    <3>1. air' \in Seq(Writes) BY DEF OtaTypeOK, Writes
    <3> HIDE DEF Writes
    <3> QED BY <3>1
  <2> QED BY <1>2, <1>3, <1>4, <2>1 DEF Comes
<1>6. AirInv'
  <2>1. \A i \in 2..Len(air') : air'[i].op # "begin"
      BY <1>3, <1>4 DEF OtaInv, AirInv
  <2>2. ASSUME NEW i \in 1..Len(air'), air'[i].op = "data"
        PROVE  /\ air'[i].chunk < Size
               /\ \A j \in 1..i : /\ air'[j].op = "data"
                                  /\ air'[i].chunk = air'[j].chunk + (i - j)
    <3>1. i \in 1..n /\ i \in 1..Len(air) /\ air'[i] = air[i]
        BY <1>4, <2>2
    <3>2. \A j \in 1..i : air'[j] = air[j] BY <1>2, <1>3, <3>1
    <3> QED BY <2>2, <3>1, <3>2 DEF OtaInv, AirInv
  <2> QED BY <2>1, <2>2 DEF AirInv
<1>7. LinkInv' BY DEF LinkInv
<1>8. BeginInv'
  <2>1. OneReady' BY DEF OneReady
  <2>2. Comes("begin")' \/ btc.at = "beginning" =>
            /\ page.sent = 0 /\ ~page.pump
            /\ \A i \in 1..Len(air) : air[i].op \notin {"data", "end"}
      BY <1>5 DEF OtaInv, BeginInv
  <2>3. (\A i \in 1..Len(air) : air[i].op \notin {"data", "end"}) =>
            (\A i \in 1..Len(air') : air'[i].op \notin {"data", "end"})
      BY <1>4
  <2>4. Comes("begin")' => btc'.at = "idle" BY <1>5 DEF OtaInv, BeginInv
  <2> QED BY <1>1, <2>1, <2>2, <2>3, <2>4 DEF BeginInv
<1>9. PumpInv' BY <1>1 DEF PumpInv
<1>10. WriteInv' BY <1>5 DEF OtaInv, WriteInv
<1>11. NextInv'
  <2>1. Writing' = Writing BY DEF Writing
  <2>2. /\ Comes("data")' => dev'.recv + Writing' <= air'[1].chunk
        /\ dev'.active /\ dev'.handle \in slot'.open =>
              (Comes("data")' =>
                  air'[1].chunk = slot'.chunks[dev'.handle] + Writing')
      BY <1>5, <2>1 DEF OtaInv, NextInv, NextIs, NextReaches
  <2> QED BY <1>1, <2>2 DEF NextInv, NextIs, NextReaches
<1>12. HandleInv'
  <2>1. /\ slot.last \in Nat /\ page.begins \in Nat
      BY SizesOK DEF OtaInv, OtaTypeOK, Handles
  <2> QED BY <1>5, <2>1 DEF OtaInv, HandleInv
<1>13. InSequence' BY DEF OtaInv, InSequence
<1> QED BY <1>6, <1>7, <1>8, <1>9, <1>10, <1>11, <1>12, <1>13 DEF OtaInv

LEMMA EmptyOrNot ==
    ASSUME NEW S, NEW s \in Seq(S)
    PROVE  s = <<>> <=> Len(s) = 0
OBVIOUS

\* The head of the air, and what it leaves behind.
LEMMA Taken ==
    ASSUME OtaInv, air # <<>>, air' = Tail(air)
    PROVE  /\ Head(air) = air[1] /\ air[1] \in Writes
           /\ Len(air) \in Nat /\ Len(air) > 0 /\ Len(air') = Len(air) - 1
           /\ \A i \in 1..Len(air') : air'[i] = air[i + 1] /\ i + 1 \in 1..Len(air)
           /\ air' = <<>> => Len(air) = 1
           /\ air' # <<>> => Len(air) > 1 /\ air'[1] = air[2]
           /\ ~Comes("begin")'
           /\ \A i \in 1..Len(air) : air[i].chunk \in Nat
           /\ AirInv'
<1>1. /\ Head(air) = air[1] /\ air[1] \in Writes
      /\ Len(air) \in Nat /\ Len(air) > 0 /\ Len(air') = Len(air) - 1
      /\ \A i \in 1..Len(air') : air'[i] = air[i + 1] /\ i + 1 \in 1..Len(air)
    BY QueuesOK DEF OtaInv
<1>2. /\ air' = <<>> => Len(air) = 1
      /\ air' # <<>> => Len(air) > 1 /\ air'[1] = air[2]
  <2>1. air' \in Seq(Writes) BY QueuesOK DEF OtaInv
  <2>2. air' = <<>> <=> Len(air') = 0 BY <2>1, EmptyOrNot
  <2> QED BY <1>1, <2>2
<1>3. \A i \in 1..Len(air) : air[i].chunk \in Nat
  <2>1. air \in Seq(Writes) BY QueuesOK DEF OtaInv
  <2>2. \A i \in 1..Len(air) : air[i] \in Writes
    <3> HIDE DEF Writes
    <3> QED BY <2>1
  <2> QED BY <2>2, SizesOK DEF Writes
<1>4. ~Comes("begin")' BY <1>1, <1>2 DEF Comes, OtaInv, AirInv
<1>5. AirInv'
  <2>1. \A i \in 2..Len(air') : air'[i].op # "begin"
      BY <1>1 DEF OtaInv, AirInv
  <2>2. ASSUME NEW i \in 1..Len(air'), air'[i].op = "data"
        PROVE  /\ air'[i].chunk < Size
               /\ \A j \in 1..i : /\ air'[j].op = "data"
                                  /\ air'[i].chunk = air'[j].chunk + (i - j)
    <3>1. i + 1 \in 1..Len(air) /\ air'[i] = air[i + 1] BY <1>1
    <3>2. /\ air[i + 1].chunk < Size
          /\ \A j \in 1..(i + 1) :
                /\ air[j].op = "data"
                /\ air[i + 1].chunk = air[j].chunk + ((i + 1) - j)
        BY <2>2, <3>1 DEF OtaInv, AirInv
    <3>3. ASSUME NEW j \in 1..i
          PROVE  /\ air'[j].op = "data"
                 /\ air'[i].chunk = air'[j].chunk + (i - j)
      <4>1. /\ j + 1 \in 1..(i + 1) /\ j + 1 \in 1..Len(air)
            /\ air'[j] = air[j + 1]
          BY <1>1, <3>1
      <4>2. /\ air[j + 1].op = "data"
            /\ air[i + 1].chunk = air[j + 1].chunk + ((i + 1) - (j + 1))
          BY <3>2, <4>1
      <4>3. (i + 1) - (j + 1) = i - j OBVIOUS
      <4> QED BY <3>1, <4>1, <4>2, <4>3
    <3> QED BY <3>1, <3>2, <3>3
  <2> QED BY <2>1, <2>2 DEF AirInv
<1> QED BY <1>1, <1>2, <1>3, <1>4, <1>5

\* A write that ends the transfer is the last of it.
LEMMA EndStep ==
    ASSUME OtaInv, OtaTypeOK', UNCHANGED <<page, link>>,
           ReadyDue' <=> ReadyDue, ~link => notes' = notes,
           OneReady',
           btc.at = "idle", air # <<>>, Head(air).op \in {"end", "abort", "bye"},
           air' = Tail(air),
           \/ btc' = btc
           \/ btc'.at \in {"idle", "ending"} /\ btc'.handle \in {0, dev.handle},
           dev'.active => Head(air).op = "end",
           btc'.at = "ending" => Head(air).op = "end",
           dev'.handle \in {dev.handle, 0}, dev'.recv <= dev.recv,
           slot'.open \subseteq slot.open, slot'.last = slot.last,
           slot'.chunks = slot.chunks
    PROVE  OtaInv'
<1>1. /\ air[1] \in Writes /\ Head(air) = air[1] /\ Len(air) > 0
      /\ \A i \in 1..Len(air') : air'[i] = air[i + 1] /\ i + 1 \in 1..Len(air)
      /\ air' # <<>> => Len(air) > 1 /\ air'[1] = air[2]
      /\ ~Comes("begin")' /\ AirInv' /\ Len(air) \in Nat
      /\ Len(air') = Len(air) - 1
    BY Taken
<1>2. /\ ~Comes("data")'
      /\ ~Pumping /\ ~Pumping'
      /\ ~Comes("begin")
      /\ air[1].op = "end" => ~ReadyDue
  <2>1. 1 \in 1..Len(air) BY <1>1
  <2>2. ~Comes("data")'
    <3> SUFFICES ASSUME air' # <<>>, air'[1].op = "data" PROVE FALSE
        BY DEF Comes
    <3>1. 2 \in 1..Len(air) /\ 1 \in 1..2 /\ air[2].op = "data" BY <1>1
    <3> QED BY <1>1, <3>1 DEF OtaInv, AirInv
  <2>3. ~Pumping BY <1>1, <2>1 DEF OtaInv, PumpInv
  <2> QED BY <1>1, <2>1, <2>2, <2>3 DEF OtaInv, BeginInv, Pumping, Comes
<1>3. LinkInv' BY DEF OtaInv, LinkInv
<1>4. BeginInv'
  <2>1. ReadyDue => page.error
      BY <1>1, <1>2 DEF OtaInv, BeginInv
  <2>2. ReadyDue => btc'.at = "idle" BY <1>1, <1>2
  <2>3. ReadyDue => \A i \in 1..Len(air') : air'[i].op \notin {"data", "end"}
      BY <1>1 DEF OtaInv, BeginInv
  <2> QED BY <1>2, <1>1, <2>1, <2>2, <2>3 DEF OtaInv, BeginInv
<1>5. PumpInv' BY <1>2 DEF PumpInv
<1>6. WriteInv' BY DEF WriteInv
<1>7. NextInv'
  <2>1. Writing = 0 /\ Writing' = 0 BY DEF Writing
  <2>2. dev.recv \in Nat /\ dev'.recv \in Nat /\ page.sent \in Nat
      BY SizesOK DEF OtaInv, OtaTypeOK
  <2>3. ReadyDue => dev.recv <= page.sent
      BY <2>1, <2>2 DEF OtaInv, NextInv, NextReaches
  <2>4. dev'.active => ~ReadyDue' BY <1>1, <1>2
  <2> QED BY <1>2, <2>1, <2>2, <2>3, <2>4 DEF NextInv, NextIs, NextReaches
<1>8. HandleInv'
  <2>1. /\ slot.last \in Nat /\ page.begins \in Nat /\ dev.handle \in Nat
        /\ btc.handle \in Nat
      BY SizesOK DEF OtaInv, OtaTypeOK, Handles
  <2>2. btc'.at # "beginning" BY DEF OtaInv
  <2> QED BY <1>1, <2>1, <2>2 DEF OtaInv, HandleInv
<1>9. InSequence' BY DEF OtaInv, InSequence
<1> QED BY <1>1, <1>3, <1>4, <1>5, <1>6, <1>7, <1>8, <1>9 DEF OtaInv

-----------------------------------------------------------------------------
(* The page. *)

LEMMA Chunks ==
    ASSUME OtaInv
    PROVE  /\ air \in Seq(Writes) /\ Len(air) \in Nat
           /\ \A i \in 1..Len(air) : air[i].chunk \in Nat
           /\ page.sent \in Nat /\ page.begins \in Nat /\ dev.recv \in Nat
           /\ slot.last \in Nat /\ Writing \in {0, 1} /\ btc.chunk \in Nat
           /\ air = <<>> <=> Len(air) = 0
           /\ page.pump \in BOOLEAN /\ page.error \in BOOLEAN
<1>1. air \in Seq(Writes) /\ Len(air) \in Nat /\ (air = <<>> <=> Len(air) = 0)
    BY QueuesOK DEF OtaInv
<1>2. \A i \in 1..Len(air) : air[i] \in Writes
  <2> HIDE DEF Writes
  <2> QED BY <1>1
<1>3. \A i \in 1..Len(air) : air[i].chunk \in Nat
    BY <1>2, SizesOK DEF Writes
<1>4. /\ page.sent \in Nat /\ page.begins \in Nat /\ dev.recv \in Nat
      /\ slot.last \in Nat /\ btc.chunk \in Nat
      /\ page.pump \in BOOLEAN /\ page.error \in BOOLEAN
    BY SizesOK DEF OtaInv, OtaTypeOK, Handles
<1> QED BY <1>1, <1>3, <1>4 DEF Writing

LEMMA StartOtaInv ==
    ASSUME OtaInv, OtaTypeOK', StartOta
    PROVE  OtaInv'
<1>1. /\ link /\ air = <<>> /\ notes = <<>> /\ btc = Idle /\ ~page.pump
      /\ page' = [ui |-> "active", begins |-> page.begins + 1, sent |-> 0,
                  acked |-> 0, error |-> FALSE, pump |-> FALSE]
      /\ air' = Append(air, Begin)
      /\ UNCHANGED <<notes, link, dev, btc, main, slot, boot, on, faults>>
    BY DEF StartOta, InFlight
<1>2. /\ Len(air') = 1 /\ air'[1] = Begin /\ air' # <<>>
      /\ Begin.op = "begin"
    BY <1>1 DEF Begin
<1>3. btc.at = "idle" /\ btc.handle = 0 BY <1>1 DEF Idle
<1>4. ~ReadyDue /\ ~ReadyDue' /\ ~Pumping' BY <1>1 DEF ReadyDue, Pumping
<1>5. AirInv' BY <1>2 DEF AirInv
<1>6. LinkInv' BY <1>1 DEF LinkInv
<1>7. Comes("begin")' /\ ~Comes("data")' BY <1>2 DEF Comes
<1>8. BeginInv' BY <1>1, <1>2, <1>3, <1>4, <1>7 DEF BeginInv, OneReady
<1>9. PumpInv' /\ WriteInv' BY <1>1, <1>3, <1>4 DEF PumpInv, WriteInv
<1>10. NextInv' BY <1>2, <1>4, <1>7 DEF NextInv, NextIs, NextReaches
<1>11. HandleInv'
  <2>1. slot.last <= page.begins BY <1>1, <1>3, Chunks DEF OtaInv, HandleInv, Comes
  <2> QED BY <1>1, <1>3, <2>1, Chunks DEF OtaInv, HandleInv
<1>12. InSequence' BY <1>1 DEF OtaInv, InSequence
<1> QED BY <1>5, <1>6, <1>8, <1>9, <1>10, <1>11, <1>12 DEF OtaInv

LEMMA OnOtaStatusInv ==
    ASSUME OtaInv, OtaTypeOK', OnOtaStatus
    PROVE  OtaInv'
<1>1. /\ link /\ notes # <<>> /\ notes' = Tail(notes)
      /\ UNCHANGED <<air, link, dev, btc, main, slot, boot, on, faults>>
    BY DEF OnOtaStatus
<1>2. /\ notes \in Seq(Notes) /\ Len(notes) \in Nat /\ Head(notes) = notes[1]
      /\ 1 \in 1..Len(notes) /\ Len(notes') = Len(notes) - 1
      /\ \A i \in 1..Len(notes') : /\ notes'[i] = notes[i + 1]
                                   /\ i + 1 \in 1..Len(notes)
  <2>1. notes \in Seq(Notes) BY QueuesOK DEF OtaInv
  <2> HIDE DEF Notes
  <2> QED BY <1>1, <2>1
<1>3. /\ OneReady'
      /\ ReadyDue' => ReadyDue /\ Head(notes).st # "ready"
  <2>1. ASSUME NEW i \in 1..Len(notes'), NEW j \in 1..Len(notes'),
               notes'[i].st = "ready", notes'[j].st = "ready"
        PROVE  i = j
    <3>1. i + 1 = j + 1 BY <1>2, <2>1 DEF OtaInv, BeginInv, OneReady
    <3> QED BY <3>1
  <2>2. ASSUME NEW i \in 1..Len(notes'), notes'[i].st = "ready"
        PROVE  ReadyDue /\ Head(notes).st # "ready"
    <3>1. i + 1 \in 1..Len(notes) /\ notes[i + 1].st = "ready" /\ i + 1 # 1
        BY <1>2, <2>2
    <3> QED BY <1>2, <3>1 DEF ReadyDue, OtaInv, BeginInv, OneReady
  <2> QED BY <2>1, <2>2 DEF ReadyDue, OneReady
<1>4. /\ page'.sent = page.sent /\ page'.begins = page.begins
      /\ page.error => page'.error
      /\ page'.pump => page.pump \/ Head(notes).st = "ready"
  <2>1. Head(notes).st \in {"ready", "ack", "done", "error"}
    <3>1. Head(notes) \in Notes BY <1>1, <1>2
    <3> QED BY <3>1 DEF Notes
  <2>2. PageTypeOK BY TypeParts DEF OtaInv
  <2> DEFINE n == Head(notes)
  <2>3. page' = CASE n.st = "ready" -> [page EXCEPT !.pump = TRUE]
                  [] n.st = "ack"   -> [page EXCEPT !.acked = n.upTo]
                  [] n.st = "done"  -> [page EXCEPT !.ui = "over"]
                  [] n.st = "error" -> [page EXCEPT !.ui = "over",
                                                    !.error = TRUE]
      BY DEF OnOtaStatus
  <2> HIDE DEF n
  <2>4. n.st \in {"ready", "ack", "done", "error"} BY <2>1 DEF n
  <2>5. /\ page'.sent = page.sent /\ page'.begins = page.begins
        /\ page.error => page'.error
        /\ page'.pump => page.pump \/ n.st = "ready"
      BY <2>2, <2>3, <2>4 DEF PageTypeOK
  <2> QED BY <2>5 DEF n
<1>5. Head(notes).st = "ready" => ReadyDue BY <1>2 DEF ReadyDue
<1>6. Pumping' /\ ~Pumping => ReadyDue /\ ~page.error /\ Head(notes).st = "ready"
    BY <1>1, <1>4, <1>5, Chunks DEF Pumping
<1>7. ReadyDue /\ ~page.error => air = <<>> /\ btc.at = "idle"
    BY Chunks DEF OtaInv, BeginInv
<1>8. AirInv' /\ LinkInv' BY <1>1 DEF OtaInv, AirInv, LinkInv
<1>9. Comes("begin")' = Comes("begin") /\ Comes("data")' = Comes("data")
    BY <1>1 DEF Comes
<1>10. BeginInv'
    BY <1>1, <1>3, <1>4, <1>5, <1>9 DEF OtaInv, BeginInv
<1>11. PumpInv'
  <2>1. CASE Pumping BY <1>1, <1>4, <2>1 DEF OtaInv, PumpInv
  <2>2. CASE ~Pumping
    <3> SUFFICES ASSUME Pumping' PROVE PumpInv' BY DEF PumpInv
    <3>1. air' = <<>> /\ btc'.at = "idle" /\ Len(air') = 0
        BY <1>1, <1>6, <1>7, <2>2, Chunks
    <3> QED BY <3>1 DEF PumpInv
  <2> QED BY <2>1, <2>2
<1>12. WriteInv' BY <1>1, <1>9 DEF OtaInv, WriteInv
<1>13. NextInv'
  <2>1. Pumping' \/ ReadyDue' => Pumping \/ ReadyDue BY <1>3, <1>6
  <2>2. Writing' = Writing BY <1>1 DEF Writing
  <2> QED BY <1>1, <1>4, <1>9, <2>1, <2>2
          DEF OtaInv, NextInv, NextIs, NextReaches
<1>14. HandleInv' BY <1>1, <1>4, <1>9 DEF OtaInv, HandleInv
<1>15. InSequence' BY <1>1 DEF OtaInv, InSequence
<1> QED BY <1>8, <1>10, <1>11, <1>12, <1>13, <1>14, <1>15 DEF OtaInv

LEMMA PumpWritesInv ==
    ASSUME OtaInv, OtaTypeOK', PumpWrites
    PROVE  OtaInv'
<1>1. /\ page.pump /\ link /\ ~page.error /\ page.sent < Size
      /\ page' = [page EXCEPT !.sent = @ + 1]
      /\ air' = Append(air, Data(page.sent))
      /\ UNCHANGED <<notes, link, dev, btc, main, slot, boot, on, faults>>
    BY DEF PumpWrites
<1>2. Pumping /\ PageTypeOK /\ Len(air) \in Nat /\ page.sent \in 0..Size
  <2>1. PageTypeOK BY TypeParts DEF OtaInv
  <2> QED BY <1>1, <2>1, Chunks DEF Pumping, PageTypeOK
<1>3. /\ page'.sent = page.sent + 1 /\ page'.begins = page.begins
      /\ page'.pump = page.pump /\ page'.error = page.error
    BY <1>1, <1>2 DEF PageTypeOK
<1>4. /\ Data(page.sent) \in Writes /\ Data(page.sent).op = "data"
      /\ Data(page.sent).chunk = page.sent
    BY <1>2, SentTyped
<1>5. /\ air' # <<>> /\ Len(air') = Len(air) + 1
      /\ \A i \in 1..Len(air) : air'[i] = air[i]
      /\ air'[Len(air) + 1] = Data(page.sent)
      /\ air # <<>> => air'[1] = air[1]
      /\ air = <<>> => air'[1] = Data(page.sent) /\ Len(air) = 0
    BY <1>1, <1>4, Chunks, Appended
<1>6. ~ReadyDue /\ ~ReadyDue' /\ btc.at \in {"idle", "writing"} /\ ~Comes("begin")
      /\ \A i \in 1..Len(air) : air[i].op = "data"
  <2>1. ~ReadyDue /\ ~Comes("begin") /\ btc.at # "beginning"
      BY <1>1 DEF OtaInv, BeginInv
  <2>2. ReadyDue' <=> ReadyDue BY <1>1 DEF ReadyDue
  <2>3. btc.at \in {"idle", "writing"} /\ \A i \in 1..Len(air) : air[i].op = "data"
      BY <1>2 DEF OtaInv, PumpInv
  <2> QED BY <2>1, <2>2, <2>3
<1>7. air # <<>> => \A i \in 1..Len(air) :
                       page.sent = air[i].chunk + (Len(air) + 1 - i)
  <2> SUFFICES ASSUME air # <<>>, NEW i \in 1..Len(air)
               PROVE  page.sent = air[i].chunk + (Len(air) + 1 - i)
      OBVIOUS
  <2>1. Len(air) \in 1..Len(air) /\ i \in 1..Len(air) /\ i \in Nat
      BY <1>2, Chunks
  <2>2. air[Len(air)].chunk + 1 = page.sent BY <1>2 DEF OtaInv, PumpInv
  <2>3. air[Len(air)].chunk = air[i].chunk + (Len(air) - i)
      BY <1>6, <2>1 DEF OtaInv, AirInv
  <2>4. air[i].chunk \in Nat /\ page.sent \in Nat BY <2>1, Chunks
  <2> QED BY <1>2, <2>1, <2>2, <2>3, <2>4
<1>8. AirInv'
  <2>1. \A i \in 2..Len(air') : air'[i].op # "begin"
    <3> SUFFICES ASSUME NEW i \in 2..Len(air') PROVE air'[i].op = "data"
        OBVIOUS
    <3>1. i \in 1..Len(air) \/ i = Len(air) + 1 BY <1>2, <1>5
    <3> QED BY <1>4, <1>5, <1>6, <3>1
  <2>2. ASSUME NEW i \in 1..Len(air'), air'[i].op = "data"
        PROVE  /\ air'[i].chunk < Size
               /\ \A j \in 1..i : /\ air'[j].op = "data"
                                  /\ air'[i].chunk = air'[j].chunk + (i - j)
    <3>1. CASE i \in 1..Len(air)
      <4>1. \A j \in 1..i : j \in 1..Len(air) /\ air'[j] = air[j]
          BY <1>2, <1>5, <3>1
      <4>2. air'[i] = air[i] BY <1>5, <3>1
      <4> QED BY <1>6, <3>1, <4>1, <4>2 DEF OtaInv, AirInv
    <3>2. CASE i = Len(air) + 1
      <4>1. air'[i].chunk = page.sent BY <1>4, <1>5, <3>2
      <4>2. ASSUME NEW j \in 1..i
            PROVE  /\ air'[j].op = "data"
                   /\ air'[i].chunk = air'[j].chunk + (i - j)
        <5>1. CASE j = i BY <1>2, <1>4, <1>5, <3>2, <4>1, <5>1
        <5>2. CASE j \in 1..Len(air)
          <6>1. air # <<>> BY <5>2, Chunks
          <6>2. page.sent = air[j].chunk + (Len(air) + 1 - j)
              BY <1>7, <5>2, <6>1
          <6> QED BY <1>5, <1>6, <3>2, <4>1, <5>2, <6>2
        <5> QED BY <1>2, <3>2, <5>1, <5>2
      <4> QED BY <1>1, <4>1, <4>2
    <3> QED BY <1>2, <1>5, <3>1, <3>2
  <2> QED BY <2>1, <2>2 DEF AirInv
<1>9. LinkInv' BY <1>1, <1>3 DEF OtaInv, LinkInv
<1>10. ~Comes("begin")'
  <2>1. air'[1].op = "data"
    <3>1. CASE air = <<>> BY <1>4, <1>5, <3>1
    <3>2. CASE air # <<>>
      <4>1. 1 \in 1..Len(air) BY <1>2, <3>2, Chunks
      <4> QED BY <1>5, <1>6, <4>1
    <3> QED BY <3>1, <3>2
  <2> QED BY <2>1 DEF Comes
<1>11. BeginInv'
  <2>1. btc'.at = btc.at /\ notes' = notes BY <1>1
  <2> QED BY <1>6, <1>10, <2>1 DEF OtaInv, BeginInv, OneReady
<1>12. PumpInv'
  <2>1. \A i \in 1..Len(air') : air'[i].op = "data"
    <3> SUFFICES ASSUME NEW i \in 1..Len(air') PROVE air'[i].op = "data"
        OBVIOUS
    <3>1. i \in 1..Len(air) \/ i = Len(air) + 1 BY <1>2, <1>5
    <3> QED BY <1>4, <1>5, <1>6, <3>1
  <2>2. air'[Len(air')].chunk + 1 = page'.sent BY <1>3, <1>4, <1>5
  <2> QED BY <1>1, <1>5, <1>6, <2>1, <2>2 DEF PumpInv
<1>13. WriteInv'
  <2> SUFFICES ASSUME btc.at = "writing", Comes("data")'
               PROVE  air'[1].chunk = btc.chunk + 1
      BY <1>1 DEF OtaInv, WriteInv
  <2>1. CASE air = <<>>
      BY <1>2, <1>4, <1>5, <2>1 DEF OtaInv, PumpInv
  <2>2. CASE air # <<>>
    <3>1. 1 \in 1..Len(air) BY <1>2, <2>2, Chunks
    <3>2. Comes("data") BY <1>6, <2>2, <3>1 DEF Comes
    <3> QED BY <1>5, <2>2, <3>2 DEF OtaInv, WriteInv
  <2> QED BY <2>1, <2>2
<1>14. NextInv'
  <2>1. Writing' = Writing BY <1>1 DEF Writing
  <2>2. CASE air = <<>>
    <3>1. air'[1].chunk = page.sent BY <1>4, <1>5, <2>2
    <3>2. /\ dev.recv + Writing <= page.sent
          /\ dev.active /\ dev.handle \in slot.open =>
                page.sent = slot.chunks[dev.handle] + Writing
        BY <1>2, <2>2 DEF OtaInv, NextInv, NextIs, NextReaches
    <3> QED BY <1>1, <1>3, <1>5, <1>6, <2>1, <3>1, <3>2, Chunks
            DEF NextInv, NextIs, NextReaches
  <2>3. CASE air # <<>>
    <3>1. 1 \in 1..Len(air) BY <1>2, <2>3, Chunks
    <3>2. Comes("data") BY <1>6, <2>3, <3>1 DEF Comes
    <3>3. /\ dev.recv + Writing <= page.sent
          /\ dev.recv + Writing <= air[1].chunk
          /\ dev.active /\ dev.handle \in slot.open =>
                air[1].chunk = slot.chunks[dev.handle] + Writing
        BY <1>2, <3>2 DEF OtaInv, NextInv, NextIs, NextReaches
    <3> QED BY <1>1, <1>3, <1>5, <1>6, <2>1, <2>3, <3>3, Chunks
            DEF NextInv, NextIs, NextReaches
  <2> QED BY <2>2, <2>3
<1>15. HandleInv' BY <1>1, <1>3, <1>6, <1>10 DEF OtaInv, HandleInv
<1>16. InSequence' BY <1>1 DEF OtaInv, InSequence
<1> QED BY <1>8, <1>9, <1>11, <1>12, <1>13, <1>14, <1>15, <1>16 DEF OtaInv

\* The page sends its last write, or gives up, or the pump stops, or the
\* connection comes back to a page that gave up.
LEMMA PageRestsInv ==
    ASSUME OtaInv, OtaTypeOK', PumpEnds \/ PumpStops \/ AbortOta \/ Reconnect
    PROVE  OtaInv'
<1>1. /\ UNCHANGED <<notes, dev, btc, slot>>
      /\ ReadyDue' <=> ReadyDue
    BY DEF PumpEnds, PumpStops, AbortOta, Reconnect, ReadyDue
<1>2. PageTypeOK BY TypeParts DEF OtaInv
<1>3. /\ page'.sent = page.sent /\ page'.begins = page.begins
      /\ page.error => page'.error
      /\ page'.pump => page.pump
    BY <1>2 DEF PumpEnds, PumpStops, AbortOta, Reconnect, PageTypeOK
<1>4. ~link' \/ ~page'.pump \/ page'.error
    BY <1>2 DEF PumpEnds, PumpStops, AbortOta, Reconnect, PageTypeOK,
                OtaInv, LinkInv
<1>5. ~Pumping' BY <1>4 DEF Pumping
<1>6. \/ air' = air
      \/ air' = Append(air, End) /\ page.pump
      \/ air' = Append(air, Abort) /\ page'.error
    BY <1>2 DEF PumpEnds, PumpStops, AbortOta, Reconnect, PageTypeOK
<1>7. LinkInv'
    BY <1>2 DEF PumpEnds, PumpStops, AbortOta, Reconnect, PageTypeOK,
                OtaInv, LinkInv
<1>8. Len(air) \in Nat BY Chunks
<1>9. /\ \A i \in 1..Len(air') : air'[i].op \notin {"end", "abort"} =>
             i \in 1..Len(air) /\ air'[i] = air[i]
      /\ \A i \in 1..Len(air) : i \in 1..Len(air') /\ air'[i] = air[i]
      /\ air' = <<>> => air = <<>>
      /\ ~page.pump => \A i \in 1..Len(air') : air'[i].op # "abort" =>
                          i \in 1..Len(air) /\ air'[i] = air[i]
      /\ ~page'.error /\ ~page.pump => air' = air
      /\ air' # <<>> => 1 \in 1..Len(air')
      /\ air # <<>> => 1 \in 1..Len(air)
  <2>1. CASE air' = air BY <1>8, <2>1, Chunks
  <2>2. CASE \/ air' = Append(air, End) /\ page.pump
             \/ air' = Append(air, Abort) /\ page'.error
    <3>1. PICK w \in {End, Abort} :
             /\ air' = Append(air, w) /\ (w = End => page.pump)
             /\ w = Abort => page'.error
        BY <2>2 DEF End, Abort
    <3>2. w \in Writes /\ w.op \in {"end", "abort"}
          /\ (w.op = "end" => page.pump) /\ (w.op = "abort" => page'.error)
      <4>1. CASE w = End BY <3>1, <4>1, SentTyped
      <4>2. CASE w = Abort BY <3>1, <4>2, SentTyped
      <4> QED BY <4>1, <4>2
    <3>3. /\ air' # <<>> /\ Len(air') = Len(air) + 1
          /\ \A i \in 1..Len(air) : air'[i] = air[i]
          /\ air'[Len(air) + 1] = w
        BY <3>1, <3>2, Appended, Chunks
    <3>4. \A i \in 1..Len(air') : i \in 1..Len(air) \/ i = Len(air) + 1
        BY <1>8, <3>3
    <3> QED BY <1>8, <3>2, <3>3, <3>4, Chunks
  <2> QED BY <1>6, <2>1, <2>2
<1>10. \A op \in {"begin", "data"} : Comes(op)' <=> Comes(op)
  <2> SUFFICES ASSUME NEW op \in {"begin", "data"}
               PROVE  Comes(op)' <=> Comes(op)
      OBVIOUS
  <2>1. Comes(op)' => Comes(op) BY <1>8, <1>9 DEF Comes
  <2>2. Comes(op) => Comes(op)' BY <1>8, <1>9 DEF Comes
  <2> QED BY <2>1, <2>2
<1>11. Comes("begin")' = Comes("begin") /\ Comes("data")' = Comes("data")
  <2>1. Comes("begin") \in BOOLEAN /\ Comes("data") \in BOOLEAN
        /\ Comes("begin")' \in BOOLEAN /\ Comes("data")' \in BOOLEAN
      BY DEF Comes
  <2> QED BY <1>10, <2>1
<1>12. Comes("data") => air'[1] = air[1]
    BY <1>9 DEF Comes
<1>13. AirInv'
  <2>1. \A i \in 2..Len(air') : air'[i].op # "begin"
    <3> SUFFICES ASSUME NEW i \in 2..Len(air'), air'[i].op = "begin"
                 PROVE  FALSE
        OBVIOUS
    <3>1. i \in 1..Len(air') /\ i >= 2
      <4>1. Len(air') \in Nat
        <5>1. air' \in Seq(Writes) BY TypeParts
        <5> HIDE DEF Writes
        <5> QED BY <5>1
      <4> QED BY <4>1
    <3>2. i \in 1..Len(air) /\ air'[i] = air[i] BY <1>9, <3>1
    <3>3. i \in 2..Len(air) BY <1>8, <3>1, <3>2
    <3> QED BY <3>2, <3>3 DEF OtaInv, AirInv
  <2>2. ASSUME NEW i \in 1..Len(air'), air'[i].op = "data"
        PROVE  /\ air'[i].chunk < Size
               /\ \A j \in 1..i : /\ air'[j].op = "data"
                                  /\ air'[i].chunk = air'[j].chunk + (i - j)
    <3>1. i \in 1..Len(air) /\ air'[i] = air[i] BY <1>9, <2>2
    <3>2. \A j \in 1..i : j \in 1..Len(air) /\ air'[j] = air[j]
        BY <1>8, <1>9, <3>1
    <3> QED BY <2>2, <3>1, <3>2 DEF OtaInv, AirInv
  <2> QED BY <2>1, <2>2 DEF AirInv
<1>14. BeginInv'
  <2>1. ASSUME Comes("begin") \/ btc.at = "beginning" \/ ReadyDue
        PROVE  /\ page'.sent = 0 /\ ~page'.pump
               /\ \A i \in 1..Len(air') : air'[i].op \notin {"data", "end"}
               /\ ~page'.error =>
                     Len(air') = IF Comes("begin") THEN 1 ELSE 0
    <3>1. /\ page.sent = 0 /\ ~page.pump
          /\ \A i \in 1..Len(air) : air[i].op \notin {"data", "end"}
          /\ ~page.error => Len(air) = IF Comes("begin") THEN 1 ELSE 0
        BY <2>1 DEF OtaInv, BeginInv
    <3>2. \A i \in 1..Len(air') : air'[i].op \notin {"data", "end"}
        BY <1>9, <3>1
    <3>3. ~page'.error => air' = air /\ ~page.error BY <1>3, <1>9, <3>1
    <3> QED BY <1>3, <3>1, <3>2, <3>3
  <2> QED BY <1>1, <1>11, <2>1 DEF OtaInv, BeginInv, OneReady
<1>15. PumpInv' BY <1>5 DEF PumpInv
<1>16. WriteInv' BY <1>1, <1>11, <1>12 DEF OtaInv, WriteInv
<1>17. NextInv'
  <2>1. Writing' = Writing BY <1>1 DEF Writing
  <2>2. NextReaches(dev.recv + Writing) BY DEF OtaInv, NextInv
  <2>3. /\ Comes("data")' => dev'.recv + Writing' <= air'[1].chunk
        /\ (Pumping \/ ReadyDue)' => dev'.recv + Writing' <= page'.sent
      BY <1>1, <1>3, <1>5, <1>11, <1>12, <2>1, <2>2 DEF NextReaches
  <2>4. ASSUME dev.active, dev.handle \in slot.open
        PROVE  /\ Comes("data")' =>
                      air'[1].chunk = slot'.chunks[dev'.handle] + Writing'
               /\ air' = <<>> /\ (Pumping \/ ReadyDue)' =>
                      page'.sent = slot'.chunks[dev'.handle] + Writing'
    <3>1. NextIs(slot.chunks[dev.handle] + Writing)
        BY <2>4 DEF OtaInv, NextInv
    <3> QED BY <1>1, <1>3, <1>5, <1>9, <1>11, <1>12, <2>1, <3>1 DEF NextIs
  <2> QED BY <1>1, <2>3, <2>4 DEF NextInv, NextIs, NextReaches
<1>18. HandleInv' BY <1>1, <1>3, <1>11 DEF OtaInv, HandleInv
<1>19. InSequence' BY <1>1 DEF OtaInv, InSequence
<1> QED BY <1>7, <1>13, <1>14, <1>15, <1>16, <1>17, <1>18, <1>19 DEF OtaInv

LEMMA DisconnectInv ==
    ASSUME OtaInv, OtaTypeOK', Disconnect \/ Restart \/ Escape
    PROVE  OtaInv'
<1>1. PageTypeOK BY TypeParts DEF OtaInv
<1>2. /\ UNCHANGED <<dev, btc, slot>> /\ ~link' /\ notes' = <<>>
    BY DEF Disconnect, Restart, Escape
<1>3. /\ page'.error /\ page'.begins = page.begins
      /\ page'.sent = page.sent /\ page'.pump = page.pump
    BY <1>1 DEF Disconnect, Restart, Escape, PageTypeOK
<1>4. \/ air' = air
      \/ \E k \in 0..Len(air) : air' = Append(SubSeq(air, 1, k), Bye)
    BY DEF Disconnect, Restart, Escape
<1> QED BY <1>2, <1>3, <1>4, GoneStep

-----------------------------------------------------------------------------
(* The stick. *)

\* The watchdog, the clock, and the ends of handlers that write no chunk.
LEMMA LoopInv ==
    ASSUME OtaInv, OtaTypeOK', Watchdog \/ TimePasses
    PROVE  OtaInv'
<1>1. UNCHANGED <<page, air, link, btc>>
    BY DEF Watchdog, WatchdogBites, WatchdogAborts, WatchdogClears, Statement,
           TimePasses
<1>2. /\ ReadyDue' <=> ReadyDue
      /\ ~link => notes' = notes
      /\ OneReady'
  <2>1. \/ Notify(Error) \/ notes' = notes
      BY DEF Watchdog, WatchdogBites, WatchdogAborts, WatchdogClears,
             Statement, TimePasses
  <2>2. CASE Notify(Error)
    <3>1. OtaTypeOK /\ OneReady BY DEF OtaInv, BeginInv
    <3>2. Error \in Notes /\ Error.st # "ready" BY SentTyped
    <3> QED BY <2>2, <3>1, <3>2, Notified
  <2>3. CASE notes' = notes BY <2>3 DEF ReadyDue, OtaInv, BeginInv, OneReady
  <2> QED BY <2>1, <2>2, <2>3
<1>3. DevTypeOK /\ SlotTypeOK /\ dev.recv \in Nat
    BY TypeParts, Chunks DEF OtaInv
<1>4. /\ dev'.active => dev.active
      /\ dev'.handle \in {dev.handle, 0} /\ dev'.recv <= dev.recv
  <2>1. CASE WatchdogClears
    <3>1. \/ dev' = [dev EXCEPT !.active = FALSE]
          \/ dev' = [dev EXCEPT !.handle = 0]
          \/ dev' = [dev EXCEPT !.part = FALSE]
          \/ dev' = [dev EXCEPT !.size = 0, !.recv = 0, !.acked = 0]
        BY <2>1 DEF WatchdogClears, Statement
    <3>2. CASE dev' = [dev EXCEPT !.active = FALSE]
        BY <1>3, <3>2 DEF DevTypeOK
    <3>3. CASE dev' = [dev EXCEPT !.handle = 0] \/ dev' = [dev EXCEPT !.part = FALSE]
        BY <1>3, <3>3 DEF DevTypeOK
    <3>4. CASE dev' = [dev EXCEPT !.size = 0, !.recv = 0, !.acked = 0]
        BY <1>3, <3>4 DEF DevTypeOK
    <3> QED BY <3>1, <3>2, <3>3, <3>4
  <2>2. CASE TimePasses BY <1>3, <2>2 DEF TimePasses, DevTypeOK
  <2>3. CASE WatchdogBites \/ WatchdogAborts
      BY <1>3, <2>3 DEF WatchdogBites, WatchdogAborts
  <2> QED BY <2>1, <2>2, <2>3 DEF Watchdog
<1>5. /\ slot'.open \subseteq slot.open /\ slot'.last = slot.last
      /\ slot'.chunks = slot.chunks
    BY <1>3 DEF Watchdog, WatchdogBites, WatchdogAborts, WatchdogClears,
                Statement, TimePasses, Close, SlotTypeOK
<1>6. 0 \notin slot.open BY DEF OtaInv, HandleInv
<1>7. Writing' = Writing BY <1>1 DEF Writing
<1>8. dev'.active /\ dev'.handle \in slot'.open =>
          dev.active /\ dev'.handle = dev.handle /\ Writing' = Writing
    BY <1>4, <1>5, <1>6, <1>7
<1>9. dev'.recv + Writing' <= dev.recv + Writing
  <2>1. dev'.recv \in Nat
    <3>1. DevTypeOK' BY TypeParts
    <3> QED BY <3>1, SizesOK DEF DevTypeOK
  <2> QED BY <1>3, <1>4, <1>7, <2>1, Chunks
<1> QED BY <1>1, <1>2, <1>4, <1>5, <1>8, <1>9, DevStep

LEMMA OtaBeginInv ==
    ASSUME OtaInv, OtaTypeOK', OtaBegin
    PROVE  OtaInv'
<1>1. /\ btc = Idle /\ air # <<>> /\ Head(air).op = "begin" /\ air' = Tail(air)
      /\ dev' = [NoTransfer EXCEPT !.size = Size, !.part = TRUE, !.age = dev.age]
      /\ slot' = slot \/ slot' = Close(slot, dev.handle)
      /\ btc' = [Idle EXCEPT !.at = "beginning"]
      /\ UNCHANGED <<page, notes, link, main, boot, on, faults>>
    BY DEF OtaBegin, Handling, Op
<1>2. /\ dev'.active = FALSE /\ dev'.handle = 0 /\ dev'.recv = 0
      /\ btc.at = "idle" /\ btc'.at = "beginning" /\ btc'.handle = 0
    BY <1>1 DEF NoTransfer, Idle
<1>3. /\ slot'.open \subseteq slot.open /\ slot'.last = slot.last
      /\ slot'.chunks = slot.chunks
  <2>1. SlotTypeOK BY TypeParts DEF OtaInv
  <2> QED BY <1>1, <2>1 DEF Close, SlotTypeOK
<1>4. /\ air[1] \in Writes /\ Head(air) = air[1] /\ Len(air) > 0
      /\ \A i \in 1..Len(air') : air'[i] = air[i + 1] /\ i + 1 \in 1..Len(air)
      /\ air' # <<>> => Len(air) > 1 /\ air'[1] = air[2]
      /\ ~Comes("begin")' /\ AirInv' /\ Len(air) \in Nat
      /\ Len(air') = Len(air) - 1
    BY <1>1, Taken
<1>5. /\ Comes("begin") /\ ~ReadyDue /\ page.sent = 0 /\ ~page.pump
      /\ \A i \in 1..Len(air) : air[i].op \notin {"data", "end"}
      /\ ~page.error => Len(air) = 1
    BY <1>1, <1>4 DEF Comes, OtaInv, BeginInv
<1>6. ~ReadyDue' /\ ~Pumping' BY <1>1, <1>5 DEF ReadyDue, Pumping
<1>7. LinkInv' BY <1>1 DEF OtaInv, LinkInv
<1>8. BeginInv'
  <2>1. \A i \in 1..Len(air') : air'[i].op \notin {"data", "end"}
      BY <1>4, <1>5
  <2>2. ~page'.error => Len(air') = 0 BY <1>1, <1>4, <1>5
  <2> QED BY <1>1, <1>2, <1>4, <1>5, <1>6, <2>1, <2>2 DEF OtaInv, BeginInv, OneReady
<1>9. PumpInv' /\ WriteInv' BY <1>2, <1>6 DEF PumpInv, WriteInv
<1>10. ~Comes("data")'
  <2>1. air' # <<>> => 2 \in 1..Len(air) BY <1>4
  <2> QED BY <1>4, <1>5, <2>1 DEF Comes
<1>11. NextInv' BY <1>2, <1>6, <1>10 DEF NextInv, NextIs, NextReaches
<1>12. HandleInv'
    BY <1>1, <1>2, <1>3, <1>4, <1>5, Chunks DEF OtaInv, HandleInv
<1>13. InSequence' BY <1>3 DEF OtaInv, InSequence
<1> QED BY <1>4, <1>7, <1>8, <1>9, <1>11, <1>12, <1>13 DEF OtaInv

LEMMA OtaBegunInv ==
    ASSUME OtaInv, OtaTypeOK', OtaBegun
    PROVE  OtaInv'
<1>1. /\ btc.at = "beginning" /\ btc' = Idle
      /\ btc'.at = "idle" /\ btc'.handle = 0
      /\ UNCHANGED <<page, air, link, main, boot, on>>
    BY DEF OtaBegun, Idle
<1>2. /\ ~ReadyDue /\ page.sent = 0 /\ ~page.pump /\ ~Comes("begin")
      /\ \A i \in 1..Len(air) : air[i].op \notin {"data", "end"}
      /\ ~page.error => Len(air) = 0
    BY <1>1 DEF OtaInv, BeginInv
<1>3. Writing = 0 /\ Writing' = 0 BY <1>1 DEF Writing
<1>4. OtaTypeOK /\ OneReady BY DEF OtaInv, BeginInv
<1>5. CASE /\ Fault
           /\ notes' = IF link THEN Append(notes, Error) ELSE notes
           /\ UNCHANGED <<slot, dev>>
  <2>1. Error \in Notes /\ Error.st # "ready" BY SentTyped
  <2>2. /\ (ReadyDue' <=> ReadyDue) /\ (~link => notes' = notes)
        /\ OneReady'
    <3>1. notes' = IF link THEN Append(notes, Error) ELSE notes BY <1>5
    <3> QED BY <1>4, <2>1, <3>1, Notified
  <2>3. dev'.recv + Writing' <= dev.recv + Writing BY <1>3, <1>5, Chunks
  <2> QED BY <1>1, <1>2, <1>3, <1>5, <2>2, <2>3, DevStep
<1>6. CASE /\ slot' = [open |-> slot.open \cup {slot.last + 1},
                       last |-> slot.last + 1,
                       chunks |-> [slot.chunks EXCEPT ![slot.last + 1] = 0]]
           /\ dev' = [dev EXCEPT !.active = TRUE, !.handle = slot.last + 1,
                                 !.recv = 0, !.acked = 0, !.age = 0]
           /\ Notify(Ready)
  <2> DEFINE h == slot.last + 1
  <2>1. slot.last \in Nat /\ DevTypeOK /\ SlotTypeOK /\ page.begins \in Nat
      BY TypeParts, Chunks DEF OtaInv
  <2>2. h \in Handles /\ h # 0
    <3>1. h <= page.begins BY <1>1 DEF OtaInv, HandleInv
    <3>2. page.begins <= MaxBegins BY SizesOK DEF OtaInv, OtaTypeOK
    <3> QED BY <2>1, <3>1, <3>2, SizesOK DEF Handles
  <2>3. /\ slot'.last = h /\ slot'.open = slot.open \cup {h}
        /\ slot'.chunks[h] = 0
        /\ \A k \in Handles : k # h => slot'.chunks[k] = slot.chunks[k]
        /\ dev'.handle = h /\ dev'.recv = 0
      BY <1>6, <2>1, <2>2 DEF DevTypeOK, SlotTypeOK
  <2>4. notes' = notes \/ (link /\ notes' = Append(notes, Ready))
      BY <1>6 DEF Notify
  <2>5. OneReady'
    <3>1. CASE notes' = notes BY <1>4, <3>1 DEF OneReady
    <3>2. CASE notes' = Append(notes, Ready)
      <4>1. /\ Len(notes) \in Nat /\ Len(notes') = Len(notes) + 1
            /\ \A i \in 1..Len(notes) : notes'[i] = notes[i]
        <5>1. notes \in Seq(Notes) /\ Ready \in Notes
            BY <1>4, QueuesOK, SentTyped
        <5> HIDE DEF Notes
        <5> QED BY <3>2, <5>1
      <4>2. \A i \in 1..Len(notes) : notes[i].st # "ready"
          BY <1>2 DEF ReadyDue
      <4>3. \A i \in 1..Len(notes') : i \in 1..Len(notes) \/ i = Len(notes')
          BY <4>1
      <4> QED BY <4>1, <4>2, <4>3 DEF OneReady
    <3> QED BY <2>4, <3>1, <3>2
  <2>6. AirInv' BY <1>1 DEF OtaInv, AirInv
  <2>7. LinkInv' BY <1>1, <2>4 DEF OtaInv, LinkInv
  <2>8. ~Comes("begin")' /\ ~Pumping' BY <1>1, <1>2 DEF Comes, Pumping
  <2>9. BeginInv' BY <1>1, <1>2, <2>5, <2>8 DEF BeginInv
  <2>10. PumpInv' /\ WriteInv' BY <1>1, <2>8 DEF PumpInv, WriteInv
  <2>11. ~Comes("data")'
    <3>1. air # <<>> => 1 \in 1..Len(air) BY Chunks
    <3> QED BY <1>1, <1>2, <3>1 DEF Comes
  <2>12. NextInv'
      BY <1>1, <1>2, <1>3, <2>3, <2>8, <2>11 DEF NextInv, NextIs, NextReaches
  <2>13. HandleInv'
    <3>1. h <= page.begins BY <1>1 DEF OtaInv, HandleInv
    <3>2. slot.open \subseteq 1..slot.last BY DEF OtaInv, HandleInv
    <3> QED BY <1>1, <2>1, <2>3, <2>8, <3>1, <3>2 DEF HandleInv
  <2>14. InSequence'
    <3>1. Gap # 0 BY SizesOK DEF Gap
    <3>2. slot.open \subseteq Handles BY <2>1 DEF SlotTypeOK
    <3> QED BY <2>3, <3>1, <3>2 DEF OtaInv, InSequence
  <2> QED BY <2>6, <2>7, <2>9, <2>10, <2>12, <2>13, <2>14 DEF OtaInv
<1> QED BY <1>5, <1>6 DEF OtaBegun

\* A chunk is taken up to be written.
LEMMA OtaDataInv ==
    ASSUME OtaInv, OtaTypeOK', OtaData
    PROVE  OtaInv'
<1>1. /\ btc.at = "idle" /\ air # <<>> /\ Head(air).op = "data"
      /\ air' = Tail(air)
      /\ btc' = IF dev.active THEN [at |-> "writing", handle |-> dev.handle,
                                    chunk |-> Head(air).chunk]
                ELSE Idle
      /\ UNCHANGED <<page, notes, link, dev, main, slot, boot, on, faults>>
    BY DEF OtaData, Handling, Op, Idle
<1>2. /\ air[1] \in Writes /\ Head(air) = air[1] /\ Len(air) > 0
      /\ \A i \in 1..Len(air') : air'[i] = air[i + 1] /\ i + 1 \in 1..Len(air)
      /\ air' = <<>> => Len(air) = 1
      /\ air' # <<>> => Len(air) > 1 /\ air'[1] = air[2]
      /\ ~Comes("begin")' /\ AirInv' /\ Len(air) \in Nat
      /\ Len(air') = Len(air) - 1
      /\ \A i \in 1..Len(air) : air[i].chunk \in Nat
    BY <1>1, Taken
<1>3. 1 \in 1..Len(air) /\ air[1].op = "data" /\ Comes("data") /\ ~Comes("begin")
    BY <1>1, <1>2 DEF Comes
<1>4. ~ReadyDue /\ ~ReadyDue' /\ (Pumping' <=> Pumping)
    BY <1>1, <1>3 DEF OtaInv, BeginInv, ReadyDue, Pumping
<1>5. air[1].chunk < Size /\ air[1].chunk \in Nat
    BY <1>2, <1>3 DEF OtaInv, AirInv
<1>6. Comes("data")' => air'[1].chunk = air[1].chunk + 1
  <2> SUFFICES ASSUME air' # <<>>, air'[1].op = "data"
               PROVE  air'[1].chunk = air[1].chunk + 1
      BY DEF Comes
  <2>1. 2 \in 1..Len(air) /\ 1 \in 1..2 /\ air[2].op = "data" BY <1>2
  <2>2. air[2].chunk = air[1].chunk + (2 - 1) BY <2>1 DEF OtaInv, AirInv
  <2> QED BY <1>2, <2>2
<1>7. Pumping => /\ \A i \in 1..Len(air') : air'[i].op = "data"
                 /\ air' # <<>> => air'[Len(air')].chunk + 1 = page.sent
                 /\ air' = <<>> => air[1].chunk + 1 = page.sent
                 /\ air[1].chunk + 1 <= page.sent
  <2> SUFFICES ASSUME Pumping
               PROVE  /\ \A i \in 1..Len(air') : air'[i].op = "data"
                      /\ air' # <<>> => air'[Len(air')].chunk + 1 = page.sent
                      /\ air' = <<>> => air[1].chunk + 1 = page.sent
                      /\ air[1].chunk + 1 <= page.sent
      OBVIOUS
  <2>1. /\ \A i \in 1..Len(air) : air[i].op = "data"
        /\ air[Len(air)].chunk + 1 = page.sent
      BY <1>1 DEF OtaInv, PumpInv
  <2>2. \A i \in 1..Len(air') : air'[i].op = "data" BY <1>2, <2>1
  <2>3. air' # <<>> => air'[Len(air')].chunk + 1 = page.sent
      BY <1>2, <2>1
  <2>4. air' = <<>> => air[1].chunk + 1 = page.sent BY <1>2, <2>1
  <2>5. air[Len(air)].chunk = air[1].chunk + (Len(air) - 1)
      BY <1>2, <2>1 DEF OtaInv, AirInv
  <2>6. air[1].chunk + 1 <= page.sent BY <1>2, <1>5, <2>1, <2>5
  <2> QED BY <2>2, <2>3, <2>4, <2>6
<1>8. LinkInv' BY <1>1 DEF OtaInv, LinkInv
<1>9. BeginInv'
  <2>1. btc'.at # "beginning" BY <1>1 DEF Idle
  <2> QED BY <1>1, <1>2, <1>4, <2>1 DEF OtaInv, BeginInv, OneReady
<1>10. HandleInv'
  <2>1. btc'.at # "beginning" /\ btc'.handle \in {0, dev.handle}
      BY <1>1 DEF Idle
  <2>2. btc.at # "beginning" BY <1>1
  <2> QED BY <1>1, <1>2, <1>3, <2>1, <2>2, Chunks DEF OtaInv, HandleInv
<1>11. InSequence' BY <1>1 DEF OtaInv, InSequence
<1>12. Writing = 0 /\ dev.recv <= air[1].chunk
    BY <1>1, <1>3, Chunks DEF Writing, OtaInv, NextInv, NextReaches
<1>13. CASE dev.active
  <2>1. /\ btc'.at = "writing" /\ btc'.handle = dev.handle
        /\ btc'.chunk = air[1].chunk
      BY <1>1, <1>2, <1>13
  <2>2. Writing' = 1 BY <2>1 DEF Writing
  <2>3. dev.handle \in slot.open => air[1].chunk = slot.chunks[dev.handle]
    <3> SUFFICES ASSUME dev.handle \in slot.open
                 PROVE  air[1].chunk = slot.chunks[dev.handle]
        OBVIOUS
    <3>1. slot.chunks[dev.handle] \in Nat
      <4>1. dev.handle \in Handles /\ slot.chunks \in [Handles -> 0..Gap]
          BY TypeParts DEF OtaInv, DevTypeOK, SlotTypeOK
      <4> QED BY <4>1, SizesOK DEF Gap
    <3> QED BY <1>3, <1>12, <1>13, <3>1 DEF OtaInv, NextInv, NextIs
  <2>4. PumpInv' BY <1>1, <1>4, <1>7, <2>1 DEF PumpInv
  <2>5. WriteInv' BY <1>1, <1>5, <1>6, <1>12, <2>1, <2>3 DEF WriteInv
  <2>6. NextInv'
    <3>1. Comes("data")' => dev.recv + 1 <= air'[1].chunk
        BY <1>5, <1>6, <1>12, Chunks
    <3>2. Pumping => dev.recv + 1 <= page.sent BY <1>5, <1>7, <1>12, Chunks
    <3> QED BY <1>1, <1>4, <1>6, <1>7, <2>2, <2>3, <3>1, <3>2
            DEF NextInv, NextIs, NextReaches
  <2> QED BY <1>2, <1>8, <1>9, <1>10, <1>11, <2>4, <2>5, <2>6 DEF OtaInv
<1>14. CASE ~dev.active
  <2>1. btc'.at = "idle" /\ Writing' = 0 BY <1>1, <1>14 DEF Idle, Writing
  <2>2. PumpInv' BY <1>1, <1>4, <1>7, <2>1 DEF PumpInv
  <2>3. WriteInv' BY <2>1 DEF WriteInv
  <2>4. NextInv'
    <3>1. Comes("data")' => dev.recv <= air'[1].chunk
        BY <1>5, <1>6, <1>12, Chunks
    <3>2. Pumping => dev.recv <= page.sent BY <1>5, <1>7, <1>12, Chunks
    <3>3. ~dev'.active /\ dev'.recv + Writing' = dev.recv
        BY <1>1, <1>14, <2>1, Chunks
    <3> QED BY <1>1, <1>4, <3>1, <3>2, <3>3 DEF NextInv, NextIs, NextReaches
  <2> QED BY <1>2, <1>8, <1>9, <1>10, <1>11, <2>2, <2>3, <2>4 DEF OtaInv
<1> QED BY <1>13, <1>14

\* The chunk is written, or it is not and the transfer is over.
LEMMA OtaWrittenInv ==
    ASSUME OtaInv, OtaTypeOK', OtaWritten
    PROVE  OtaInv'
<1> DEFINE h == btc.handle
           recv == dev.recv + 1
           acks == Acks(recv, dev.acked, dev.size)
           grown == [slot.chunks EXCEPT
                       ![h] = IF @ = btc.chunk THEN @ + 1 ELSE Gap]
<1>1. /\ btc.at = "writing" /\ btc' = Idle
      /\ btc'.at = "idle" /\ btc'.handle = 0
      /\ UNCHANGED <<page, air, link, main, boot, on>>
    BY DEF OtaWritten, Idle
<1>2. Writing = 1 /\ Writing' = 0 BY <1>1 DEF Writing
<1>3. OtaTypeOK /\ OneReady /\ ~ReadyDue BY <1>1 DEF OtaInv, BeginInv
<1>4. \/ /\ h # 0
         /\ slot' = IF h \in slot.open THEN [slot EXCEPT !.chunks = grown]
                    ELSE slot
         /\ dev' = [dev EXCEPT !.recv = recv, !.age = 0,
                               !.acked = IF acks THEN recv ELSE @]
         /\ Notify(Ack(recv)) \/ Quietly
      \/ /\ notes' = IF link THEN Append(notes, Error) ELSE notes
         /\ Cleanup
    BY DEF OtaWritten
<1>5. /\ DevTypeOK /\ SlotTypeOK /\ dev.recv \in Nat /\ recv \in Nat
      /\ btc.chunk \in Nat /\ btc.chunk < Size /\ dev.recv <= btc.chunk
      /\ h \in slot.open => slot.chunks[h] = btc.chunk
      /\ dev.handle \in {h, 0}
      /\ Comes("data") => air[1].chunk = btc.chunk + 1
      /\ h \in Handles
    BY <1>1, Chunks, TypeParts DEF OtaInv, WriteInv, BtcTypeOK
<1> HIDE DEF recv, acks
<1>6. CASE /\ notes' = IF link THEN Append(notes, Error) ELSE notes
           /\ Cleanup
  <2>1. /\ ~dev'.active /\ dev'.handle = 0 /\ dev'.recv = 0
        /\ slot'.open \subseteq slot.open
        /\ slot'.last = slot.last /\ slot'.chunks = slot.chunks
      BY <1>3, <1>6, CleanupTyped
  <2>2. Error \in Notes /\ Error.st # "ready" BY SentTyped
  <2>3. /\ (ReadyDue' <=> ReadyDue) /\ (~link => notes' = notes)
        /\ OneReady'
      BY <1>3, <1>6, <2>2, Notified
  <2>4. dev'.recv + Writing' <= dev.recv + Writing BY <1>2, <1>5, <2>1
  <2> QED BY <1>1, <1>3, <2>1, <2>3, <2>4, DevStep
<1>7. CASE /\ h # 0
           /\ slot' = IF h \in slot.open THEN [slot EXCEPT !.chunks = grown]
                      ELSE slot
           /\ dev' = [dev EXCEPT !.recv = recv, !.age = 0,
                                 !.acked = IF acks THEN recv ELSE @]
           /\ Notify(Ack(recv)) \/ Quietly
  <2>1. /\ dev'.active = dev.active /\ dev'.handle = dev.handle
        /\ dev'.recv = recv
      BY <1>5, <1>7 DEF DevTypeOK
  <2>2. /\ slot'.open = slot.open /\ slot'.last = slot.last
        /\ h \in slot.open => slot'.chunks[h] = btc.chunk + 1
        /\ \A k \in Handles : k # h => slot'.chunks[k] = slot.chunks[k]
    <3>1. slot.chunks \in [Handles -> 0..Gap] BY <1>5 DEF SlotTypeOK
    <3>2. /\ h \in slot.open => grown[h] = btc.chunk + 1
          /\ \A k \in Handles : k # h => grown[k] = slot.chunks[k]
        BY <1>5, <3>1
    <3> HIDE DEF grown
    <3>3. slot' = [slot EXCEPT !.chunks = grown] \/ (slot' = slot /\ h \notin slot.open)
        BY <1>7
    <3> QED BY <1>5, <3>2, <3>3 DEF SlotTypeOK
  <2>3. /\ (ReadyDue' <=> ReadyDue) /\ (~link => notes' = notes)
        /\ OneReady'
    <3>1. recv \in 0..Size BY <1>5, SizesOK DEF recv
    <3>2. Ack(recv) \in Notes /\ Ack(recv).st # "ready" BY <3>1, SentTyped
    <3>3. Notify(Ack(recv)) \/ Quietly BY <1>7
    <3> QED BY <1>3, <3>2, <3>3, Notified
  <2>4. AirInv' /\ LinkInv' BY <1>1, <2>3 DEF OtaInv, AirInv, LinkInv
  <2>5. Comes("begin")' = Comes("begin") /\ Comes("data")' = Comes("data")
      BY <1>1 DEF Comes
  <2>6. Pumping' <=> Pumping BY <1>1 DEF Pumping
  <2>7. ~Comes("begin") BY <1>1 DEF OtaInv, BeginInv
  <2>8. BeginInv' BY <1>1, <1>3, <2>3, <2>5, <2>7 DEF BeginInv
  <2>9. PumpInv' BY <1>1, <2>6 DEF OtaInv, PumpInv
  <2>10. WriteInv' BY <1>1 DEF WriteInv
  <2>11. NextInv'
    <3>1. recv = dev.recv + 1 BY DEF recv
    <3>2. /\ Comes("data") => recv <= air[1].chunk
          /\ Pumping => recv <= page.sent
        BY <1>2, <1>5, <3>1 DEF OtaInv, NextInv, NextReaches
    <3>3. ASSUME dev.active, dev.handle \in slot.open
          PROVE  /\ slot'.chunks[dev.handle] = btc.chunk + 1
                 /\ air = <<>> /\ Pumping => page.sent = btc.chunk + 1
      <4>1. dev.handle = h
        <5>1. 0 \notin slot.open BY DEF OtaInv, HandleInv
        <5> QED BY <1>5, <3>3, <5>1
      <4>2. air = <<>> /\ Pumping => page.sent = btc.chunk + 1
          BY <1>1 DEF OtaInv, PumpInv
      <4> QED BY <2>2, <3>3, <4>1, <4>2
    <3>4. btc.chunk + 1 + 0 = btc.chunk + 1 /\ recv + 0 = recv BY <1>5
    <3> QED BY <1>1, <1>2, <1>3, <1>5, <2>1, <2>2, <2>3, <2>5, <2>6, <3>2,
               <3>3, <3>4
            DEF NextInv, NextIs, NextReaches
  <2>12. HandleInv'
      BY <1>1, <2>1, <2>2, <2>5, <2>7, Chunks DEF OtaInv, HandleInv
  <2>13. InSequence'
    <3>1. Gap = Size + 1 /\ Size \in Nat BY SizesOK DEF Gap
    <3>2. slot.open \subseteq Handles BY <1>5 DEF SlotTypeOK
    <3> QED BY <1>5, <2>2, <3>1, <3>2 DEF OtaInv, InSequence
  <2> QED BY <2>4, <2>8, <2>9, <2>10, <2>11, <2>12, <2>13 DEF OtaInv
<1> QED BY <1>4, <1>6, <1>7

LEMMA OtaEndsInv ==
    ASSUME OtaInv, OtaTypeOK', OtaEnd \/ OtaAborted \/ Disconnected
    PROVE  OtaInv'
<1>1. /\ btc = Idle /\ btc.at = "idle" /\ air # <<>> /\ air' = Tail(air)
      /\ Head(air).op \in {"end", "abort", "bye"}
      /\ UNCHANGED <<page, link>>
    BY DEF OtaEnd, OtaAborted, Disconnected, Handling, Op, Idle
<1>2. OtaTypeOK /\ OneReady BY DEF OtaInv, BeginInv
<1>3. CASE OtaEnd
  <2>1. Notify(Error) \/ Quietly BY <1>3 DEF OtaEnd
  <2>2. Error \in Notes /\ Error.st # "ready" BY SentTyped
  <2>3. /\ (ReadyDue' <=> ReadyDue) /\ (~link => notes' = notes)
        /\ OneReady'
      BY <1>2, <2>1, <2>2, Notified
  <2>4. /\ btc' = btc \/ (btc'.at = "ending" /\ btc'.handle = dev.handle)
        /\ UNCHANGED <<dev, slot>> /\ Head(air).op = "end"
      BY <1>1, <1>3 DEF OtaEnd, Idle, Handling, Op
  <2>5. dev'.recv <= dev.recv BY <2>4, Chunks
  <2> QED BY <1>1, <2>3, <2>4, <2>5, EndStep
<1>4. CASE OtaAborted \/ Disconnected
  <2>1. Cleanup /\ UNCHANGED <<notes, btc>>
      BY <1>4 DEF OtaAborted, Disconnected
  <2>2. /\ ~dev'.active /\ dev'.handle = 0 /\ dev'.recv = 0
        /\ slot'.open \subseteq slot.open
        /\ slot'.last = slot.last /\ slot'.chunks = slot.chunks
      BY <1>2, <2>1, CleanupTyped
  <2>3. (ReadyDue' <=> ReadyDue) /\ OneReady'
      BY <1>2, <2>1 DEF ReadyDue, OneReady
  <2>4. dev'.recv <= dev.recv BY <2>2, Chunks
  <2> QED BY <1>1, <2>1, <2>2, <2>3, <2>4, EndStep
<1> QED BY <1>3, <1>4

LEMMA OtaEndedInv ==
    ASSUME OtaInv, OtaTypeOK', OtaEnded
    PROVE  OtaInv'
<1>1. /\ btc.at = "ending"
      /\ UNCHANGED <<page, air, link>>
      /\ slot' = Close(slot, btc.handle)
      /\ dev' = [dev EXCEPT !.active = FALSE, !.handle = 0]
      /\ btc'.at \in {"idle", "restarting"} /\ btc'.handle = 0
      /\ \/ Notify(Done) \/ Notify(Error)
         \/ notes' = IF link THEN Append(notes, Error) ELSE notes
    BY DEF OtaEnded, Idle
<1>2. /\ OtaTypeOK /\ OneReady /\ DevTypeOK /\ SlotTypeOK
    BY TypeParts DEF OtaInv, BeginInv
<1>3. /\ (ReadyDue' <=> ReadyDue) /\ (~link => notes' = notes)
      /\ OneReady'
  <2>1. /\ Error \in Notes /\ Error.st # "ready"
        /\ Done \in Notes /\ Done.st # "ready"
      BY SentTyped
  <2>2. CASE Notify(Done) BY <1>2, <2>1, <2>2, Notified
  <2>3. CASE Notify(Error) \/ notes' = IF link THEN Append(notes, Error) ELSE notes
      BY <1>2, <2>1, <2>3, Notified
  <2> QED BY <1>1, <2>2, <2>3
<1>4. /\ ~dev'.active /\ dev'.handle = 0 /\ dev'.recv = dev.recv
    BY <1>1, <1>2 DEF DevTypeOK
<1>5. /\ slot'.open \subseteq slot.open /\ slot'.last = slot.last
      /\ slot'.chunks = slot.chunks
    BY <1>1, <1>2 DEF Close, SlotTypeOK
<1>6. dev'.recv + Writing' <= dev.recv + Writing
    BY <1>1, <1>4, Chunks DEF Writing
<1> QED BY <1>1, <1>3, <1>4, <1>5, <1>6, DevStep

-----------------------------------------------------------------------------
LEMMA OtaInitInv ==
    ASSUME OtaInit
    PROVE  OtaInv
<1>1. OtaTypeOK
  <2>1. /\ 0 \in Handles /\ 0 \in 0..Size /\ 0 \in 0..Stall /\ 0 \in 0..Gap
        /\ 0 \in 0..MaxBegins /\ 0 \in 0..MaxFaults
      BY SizesOK DEF Handles, Gap
  <2>2. PageTypeOK BY <2>1 DEF OtaInit, PageTypeOK
  <2>3. DevTypeOK BY <2>1 DEF OtaInit, NoTransfer, DevTypeOK
  <2>4. BtcTypeOK BY <2>1 DEF OtaInit, Idle, BtcTypeOK
  <2>5. SlotTypeOK BY <2>1 DEF OtaInit, SlotTypeOK
  <2>6. RestTypeOK BY <2>1 DEF OtaInit, RestTypeOK
  <2>7. air \in Seq(Writes) /\ notes \in Seq(Notes) BY DEF OtaInit
  <2> QED BY <2>2, <2>3, <2>4, <2>5, <2>6, <2>7, TypeParts
<1>2. /\ air = <<>> /\ notes = <<>> /\ Len(air) = 0 /\ Len(notes) = 0 /\ link
      /\ btc.at = "idle" /\ btc.handle = 0 /\ ~page.pump /\ page.begins = 0
      /\ ~dev.active /\ dev.handle = 0 /\ dev.recv = 0
      /\ slot.open = {} /\ slot.last = 0
    BY DEF OtaInit, Idle, NoTransfer
<1>3. ~ReadyDue /\ ~Pumping /\ ~Comes("begin") /\ ~Comes("data")
    BY <1>2 DEF ReadyDue, Pumping, Comes
<1>4. AirInv /\ LinkInv /\ PumpInv /\ WriteInv
    BY <1>2, <1>3 DEF AirInv, LinkInv, PumpInv, WriteInv
<1>5. BeginInv BY <1>2, <1>3 DEF BeginInv, OneReady
<1>6. NextInv /\ HandleInv /\ InSequence
    BY <1>2, <1>3 DEF NextInv, NextReaches, HandleInv, InSequence
<1> QED BY <1>1, <1>4, <1>5, <1>6 DEF OtaInv

LEMMA OtaStep ==
    ASSUME OtaInv, [OtaNext]_vars
    PROVE  OtaInv'
<1>1. CASE UNCHANGED vars
    BY <1>1 DEF vars, OtaInv, OtaTypeOK, AirInv, LinkInv, BeginInv, PumpInv,
                WriteInv, NextInv, HandleInv, InSequence, Comes, ReadyDue,
                OneReady, Pumping, Writing, NextIs, NextReaches
<1>2. CASE User \/ OnOtaStatus \/ Pump \/ Disconnect \/ Reconnect
  <2>1. OtaTypeOK' BY <1>2, PageTypes DEF OtaInv
  <2> QED BY <1>2, <2>1, StartOtaInv, OnOtaStatusInv, PumpWritesInv,
             PageRestsInv, DisconnectInv DEF User, Pump
<1>3. CASE Btc
  <2>1. OtaTypeOK' BY <1>3, BtcTypes
  <2> QED BY <1>3, <2>1, OtaBeginInv, OtaBegunInv, OtaDataInv, OtaWrittenInv,
             OtaEndsInv, OtaEndedInv, DisconnectInv DEF Btc
<1>4. CASE Watchdog \/ Escape \/ TimePasses
  <2>1. OtaTypeOK' BY <1>4, LoopTypes
  <2> QED BY <1>4, <2>1, LoopInv, DisconnectInv
<1> QED BY <1>1, <1>2, <1>3, <1>4 DEF OtaNext

\* Page, air and flash agree on which chunk is next, at every point at which
\* the two tasks can be interrupted.
THEOREM OtaInvHolds == OtaSpec => []OtaInv
<1>1. OtaInit => OtaInv BY OtaInitInv
<1>2. OtaInv /\ [OtaNext]_vars => OtaInv' BY OtaStep
<1> QED BY <1>1, <1>2, PTL DEF OtaSpec

\* Every variable of Ota stays in its type: no counter passes the image's size,
\* no handle is used for two transfers.
THEOREM OtaTypes == OtaSpec => []OtaTypeOK
<1>1. OtaInv => OtaTypeOK BY DEF OtaInv
<1> QED BY <1>1, OtaInvHolds, PTL

\* What ota_data() writes to the flash has no gap, for any image, window and
\* stall time, and however often transfers begin, fail and are taken apart.
THEOREM InSequenceHolds == OtaSpec => []InSequence
<1>1. OtaInv => InSequence BY DEF OtaInv
<1> QED BY <1>1, OtaInvHolds, PTL
=============================================================================
