---------------------------------- MODULE Ota --------------------------------
(***************************************************************************)
(* A firmware update over BLE: the OTA part of bt_config.cpp against the   *)
(* page that drives it, web/index.html.                                    *)
(*                                                                         *)
(* The page sends the image in chunks without response, at most a window   *)
(* ahead of what the stick has acknowledged.  On the stick two tasks share *)
(* the transfer's statics without a lock: Bluetooth's task handles the     *)
(* page's writes, and the loop of run() aborts a transfer that stalls.     *)
(* Bluetooth's task has the higher priority and preempts the loop between  *)
(* any two statements; the loop gets a turn inside a handler only where    *)
(* the flash makes that wait.                                              *)
(*                                                                         *)
(* Sizes are counted in chunks.                                            *)
(***************************************************************************)
EXTENDS Naturals, Sequences

CONSTANTS
    Size,       \* the image
    Window,     \* OTA_WINDOW; half of it is what the stick acknowledges
    Stall,      \* kOtaStallMs, in units of which the rest takes no time
    MaxBegins,  \* bound: transfers the user starts
    MaxFaults   \* bound: things that go wrong

ASSUME OtaAssumption ==
    /\ Size \in Nat \ {0} /\ Window \in Nat \ {0, 1} /\ Stall \in Nat \ {0}
    /\ MaxBegins \in Nat /\ MaxFaults \in Nat

VARIABLES
    page,    \* the global `ota` of the page, its pump and its buttons
    air,     \* writes of the page the stick has not handled yet
    notes,   \* notifications the page has not handled yet
    link,    \* the connection is up
    dev,     \* s_ota_active, s_ota, s_ota_part, and the counters
    btc,     \* Bluetooth's task: the handler it is in
    main,    \* the loop of run(): how far its abort has come
    slot,    \* external, esp_ota_*: open handles and what was written
    boot,    \* external: the image otadata points at
    on,      \* the stick is still in config mode
    faults   \* bound: what went wrong so far

vars == <<page, air, notes, link, dev, btc, main, slot, boot, on, faults>>

Handles == 0..MaxBegins     \* 0 is no handle
Gap     == Size + 1         \* written out of sequence

Begin == [op |-> "begin", chunk |-> 0]
Data(c) == [op |-> "data", chunk |-> c]
End   == [op |-> "end", chunk |-> 0]
Abort == [op |-> "abort", chunk |-> 0]
Bye   == [op |-> "bye", chunk |-> 0]
Op    == Head(air).op

Ready == [st |-> "ready", upTo |-> 0]
Ack(n) == [st |-> "ack", upTo |-> n]
Done  == [st |-> "done", upTo |-> 0]
Error == [st |-> "error", upTo |-> 0]

Idle == [at |-> "idle", handle |-> 0, chunk |-> 0]

-----------------------------------------------------------------------------
Fault == faults < MaxFaults /\ faults' = faults + 1

\* esp_ble_gatts_send_indicate() without confirmation: it may not arrive.
Notify(n) ==
    \/ notes' = (IF link THEN Append(notes, n) ELSE notes) /\ faults' = faults
    \/ notes' = notes /\ Fault

Quietly == notes' = notes /\ faults' = faults

NoTransfer == [active |-> FALSE, handle |-> 0, part |-> FALSE, size |-> 0,
               recv |-> 0, acked |-> 0, age |-> 0]

Close(s, h) == [s EXCEPT !.open = @ \ {h}]

\* Mutant: the transfer goes on after a chunk that was not written.
CleanupForgets == dev' = dev /\ slot' = slot

\* ota_abort_cleanup() in one go.
Cleanup ==
    /\ dev' = [NoTransfer EXCEPT !.age = dev.age]
    /\ slot' = IF dev.active THEN Close(slot, dev.handle) ELSE slot

\* Mutants: only a full half window is acknowledged, not the end of the image;
\* the watchdog looks at the handle.
AcksHalves(recv, acked, size) == recv - acked >= Window \div 2
StalledByHandle == dev.active /\ dev.handle # 0 /\ dev.age = Stall

\* ota_data(): acknowledged every half window and at the end.
Acks(recv, acked, size) == recv - acked >= Window \div 2 \/ recv >= size

\* The stall watchdog's condition.
Stalled == dev.active /\ dev.age = Stall

-----------------------------------------------------------------------------
OtaInit ==
    /\ page = [ui |-> "idle", begins |-> 0, sent |-> 0, acked |-> 0,
               error |-> FALSE, pump |-> FALSE]
    /\ air = <<>> /\ notes = <<>> /\ link = TRUE
    /\ dev = NoTransfer /\ btc = Idle /\ main = "loop"
    /\ slot = [open |-> {}, last |-> 0, chunks |-> [h \in Handles |-> 0]]
    /\ boot = "old" /\ on = TRUE /\ faults = 0

(* The page. *)

InFlight == air # <<>> \/ notes # <<>> \/ btc # Idle

\* startOta().  The user takes longer to start anew than what is under way.
StartOta ==
    /\ on /\ link /\ ~InFlight /\ ~page.pump
    /\ page.ui # "active" /\ page.begins < MaxBegins
    /\ page' = [ui |-> "active", begins |-> page.begins + 1, sent |-> 0,
                acked |-> 0, error |-> FALSE, pump |-> FALSE]
    /\ air' = Append(air, Begin)
    /\ UNCHANGED <<notes, link, dev, btc, main, slot, boot, on, faults>>

\* onOtaStatus().
OnOtaStatus ==
    /\ link /\ notes # <<>>
    /\ notes' = Tail(notes)
    /\ LET n == Head(notes)
       IN  page' = CASE n.st = "ready" -> [page EXCEPT !.pump = TRUE]
                     [] n.st = "ack"   -> [page EXCEPT !.acked = n.upTo]
                     [] n.st = "done"  -> [page EXCEPT !.ui = "over"]
                     [] n.st = "error" -> [page EXCEPT !.ui = "over",
                                                       !.error = TRUE]
    /\ UNCHANGED <<air, link, dev, btc, main, slot, boot, on, faults>>

\* pumpOta(): the next chunk, with the window open.  (An ACK is the only thing
\* that wakes a pump which waits; one that waits for ever after an error does
\* nothing more.)
PumpWrites ==
    /\ page.pump /\ link /\ ~page.error
    /\ page.sent < Size /\ page.sent < page.acked + Window
    /\ page' = [page EXCEPT !.sent = @ + 1]
    /\ air' = Append(air, Data(page.sent))
    /\ UNCHANGED <<notes, link, dev, btc, main, slot, boot, on, faults>>

\* All is sent and acknowledged.
PumpEnds ==
    /\ page.pump /\ link /\ ~page.error
    /\ page.sent = Size /\ page.acked >= Size
    /\ page' = [page EXCEPT !.pump = FALSE, !.ui = "over"]
    /\ air' = Append(air, End)
    /\ UNCHANGED <<notes, link, dev, btc, main, slot, boot, on, faults>>

PumpStops ==
    /\ page.pump /\ page.error
    /\ page' = [page EXCEPT !.pump = FALSE]
    /\ UNCHANGED <<air, notes, link, dev, btc, main, slot, boot, on, faults>>

\* abortOta().
AbortOta ==
    /\ page.ui = "active" /\ link /\ Fault
    /\ page' = [page EXCEPT !.ui = "over", !.error = TRUE]
    /\ air' = Append(air, Abort)
    /\ UNCHANGED <<notes, link, dev, btc, main, slot, boot, on>>

\* The connection drops, with any of the writes at its end and with all
\* notifications; setConnected(false) marks the transfer.
Disconnect ==
    /\ link /\ Fault
    /\ link' = FALSE
    /\ \E k \in 0..Len(air) : air' = Append(SubSeq(air, 1, k), Bye)
    /\ notes' = <<>>
    /\ page' = [page EXCEPT !.ui = IF @ = "active" THEN "over" ELSE @,
                            !.error = TRUE]
    /\ UNCHANGED <<dev, btc, main, slot, boot, on>>

Reconnect ==
    /\ on /\ ~link /\ air = <<>> /\ btc = Idle
    /\ link' = TRUE
    /\ UNCHANGED <<page, air, notes, dev, btc, main, slot, boot, on, faults>>

-----------------------------------------------------------------------------
(* Bluetooth's task: gatts_cb(). *)

Handling(op) == on /\ btc = Idle /\ air # <<>> /\ Op = op /\ air' = Tail(air)

\* ota_begin() up to esp_ota_begin() ...
OtaBegin ==
    /\ Handling("begin")
    /\ dev' = [NoTransfer EXCEPT !.size = Size, !.part = TRUE, !.age = dev.age]
    /\ slot' = IF dev.active THEN Close(slot, dev.handle) ELSE slot
    /\ btc' = [Idle EXCEPT !.at = "beginning"]
    /\ UNCHANGED <<page, notes, link, main, boot, on, faults>>

\* ... and what follows.
OtaBegun ==
    /\ btc.at = "beginning" /\ btc' = Idle
    /\ \/ LET h == slot.last + 1
          IN  /\ slot' = [open |-> slot.open \cup {h}, last |-> h,
                          chunks |-> [slot.chunks EXCEPT ![h] = 0]]
              /\ dev' = [dev EXCEPT !.active = TRUE, !.handle = h,
                                    !.recv = 0, !.acked = 0, !.age = 0]
              /\ Notify(Ready)
       \/ /\ Fault
          /\ notes' = IF link THEN Append(notes, Error) ELSE notes
          /\ UNCHANGED <<slot, dev>>
    /\ UNCHANGED <<page, air, link, main, boot, on>>

\* ota_data() up to esp_ota_write() ...
OtaData ==
    /\ Handling("data")
    /\ btc' = IF dev.active THEN [at |-> "writing", handle |-> dev.handle,
                                  chunk |-> Head(air).chunk]
              ELSE Idle
    /\ UNCHANGED <<page, notes, link, dev, main, slot, boot, on, faults>>

\* ... which may fail and, on a handle that was aborted under it, do anything.
OtaWritten ==
    /\ btc.at = "writing" /\ btc' = Idle
    /\ LET h      == btc.handle
           grown  == [slot.chunks EXCEPT
                        ![h] = IF @ = btc.chunk THEN @ + 1 ELSE Gap]
           recv   == dev.recv + 1
           acks   == Acks(recv, dev.acked, dev.size)
       IN  \/ /\ h # 0
              /\ slot' = IF h \in slot.open THEN [slot EXCEPT !.chunks = grown]
                         ELSE slot
              /\ dev' = [dev EXCEPT !.recv = recv, !.age = 0,
                                    !.acked = IF acks THEN recv ELSE @]
              /\ IF acks THEN Notify(Ack(recv)) ELSE Quietly
           \/ /\ IF h \in slot.open THEN Fault ELSE faults' = faults
              /\ notes' = IF link THEN Append(notes, Error) ELSE notes
              /\ Cleanup
    /\ UNCHANGED <<page, air, link, main, boot, on>>

\* ota_end() up to esp_ota_end(), which reads all of the image back ...
OtaEnd ==
    /\ Handling("end")
    /\ IF dev.active
       THEN btc' = [Idle EXCEPT !.at = "ending", !.handle = dev.handle] /\ Quietly
       ELSE btc' = Idle /\ Notify(Error)
    /\ UNCHANGED <<page, link, dev, main, slot, boot, on>>

\* ... and accepts it if it is whole; then otadata may fail to be written.
OtaEnded ==
    /\ btc.at = "ending"
    /\ LET h     == btc.handle
           whole == h \in slot.open /\ slot.chunks[h] = Size /\ dev.part
       IN  /\ slot' = Close(slot, h)
           /\ dev' = [dev EXCEPT !.active = FALSE, !.handle = 0]
           /\ \/ /\ whole
                 /\ boot' = "new"
                 /\ btc' = [Idle EXCEPT !.at = "restarting"]
                 /\ Notify(Done)
              \/ /\ boot' = boot /\ btc' = Idle
                 /\ IF whole
                    THEN Fault /\ notes' = IF link THEN Append(notes, Error)
                                          ELSE notes
                    ELSE Notify(Error)
    /\ UNCHANGED <<page, air, link, main, on>>

OtaAborted ==
    /\ Handling("abort") /\ Cleanup
    /\ UNCHANGED <<page, notes, link, btc, main, boot, on, faults>>

\* ESP_GATTS_DISCONNECT_EVT.
Disconnected ==
    /\ Handling("bye") /\ Cleanup
    /\ UNCHANGED <<page, notes, link, btc, main, boot, on, faults>>

Restart ==
    /\ btc.at = "restarting" /\ on
    /\ on' = FALSE /\ link' = FALSE /\ notes' = <<>>
    /\ page' = [page EXCEPT !.ui = "over", !.error = TRUE]
    /\ UNCHANGED <<air, dev, btc, main, slot, boot, faults>>

-----------------------------------------------------------------------------
(* The loop of run(). *)

\* The watchdog tells the page ...
WatchdogBites ==
    /\ on /\ main = "loop" /\ Stalled
    /\ main' = "abort"
    /\ Notify(Error)
    /\ UNCHANGED <<page, air, link, dev, btc, slot, boot, on>>

\* ... and calls ota_abort_cleanup(), statement by statement, on whatever is
\* the transfer by then.
Statement(here, there, d) ==
    /\ on /\ main = here /\ main' = there /\ dev' = d
    /\ UNCHANGED <<page, air, notes, link, btc, slot, boot, on, faults>>

WatchdogAborts ==
    /\ on /\ main = "abort" /\ main' = "active"
    /\ slot' = IF dev.active THEN Close(slot, dev.handle) ELSE slot
    /\ UNCHANGED <<page, air, notes, link, dev, btc, boot, on, faults>>

WatchdogClears ==
    \/ Statement("active", "handle", [dev EXCEPT !.active = FALSE])
    \/ Statement("handle", "part", [dev EXCEPT !.handle = 0])
    \/ Statement("part", "counters", [dev EXCEPT !.part = FALSE])
    \/ Statement("counters", "loop", [dev EXCEPT !.size = 0, !.recv = 0,
                                                 !.acked = 0])

\* The escapes: Start held on the controller, or five idle minutes.
Escape ==
    /\ on /\ main = "loop" /\ ~dev.active
    /\ on' = FALSE /\ link' = FALSE /\ notes' = <<>>
    /\ page' = [page EXCEPT !.ui = IF @ = "active" THEN "over" ELSE @,
                            !.error = TRUE]
    /\ UNCHANGED <<air, dev, btc, main, slot, boot, faults>>

\* Time since the last data passes while nobody has anything to do; or because
\* the page, the air or the flash is slow, which counts as a fault.
PumpRuns ==
    /\ page.pump /\ link /\ ~page.error
    /\ IF page.sent < Size THEN page.sent < page.acked + Window
       ELSE page.acked >= Size
TimePasses ==
    /\ on /\ dev.active /\ dev.age < Stall
    /\ IF InFlight \/ PumpRuns THEN Fault ELSE faults' = faults
    /\ dev' = [dev EXCEPT !.age = @ + 1]
    /\ UNCHANGED <<page, air, notes, link, btc, main, slot, boot, on>>

Pump     == PumpWrites \/ PumpEnds \/ PumpStops
Btc      == \/ OtaBegin \/ OtaBegun \/ OtaData \/ OtaWritten \/ OtaEnd
            \/ OtaEnded \/ OtaAborted \/ Disconnected \/ Restart
Watchdog == WatchdogBites \/ WatchdogAborts \/ WatchdogClears
User     == StartOta \/ AbortOta

OtaNext == \/ User \/ OnOtaStatus \/ Pump \/ Disconnect \/ Reconnect
           \/ Btc \/ Watchdog \/ Escape \/ TimePasses

OtaSpec == OtaInit /\ [][OtaNext]_vars

\* The browser, the tasks and the clock go on; the user need not do anything.
FairOta ==
    /\ OtaSpec
    /\ WF_vars(OnOtaStatus) /\ WF_vars(Pump) /\ WF_vars(Btc)
    /\ WF_vars(Watchdog) /\ WF_vars(TimePasses)

-----------------------------------------------------------------------------
OtaTypeOK ==
    /\ page \in [ui : {"idle", "active", "over"}, begins : 0..MaxBegins,
                 sent : 0..Size, acked : 0..Size, error : BOOLEAN,
                 pump : BOOLEAN]
    /\ air \in Seq([op : {"begin", "data", "end", "abort", "bye"},
                    chunk : 0..Size])
    /\ notes \in Seq([st : {"ready", "ack", "done", "error"}, upTo : 0..Size])
    /\ link \in BOOLEAN /\ on \in BOOLEAN
    /\ dev \in [active : BOOLEAN, handle : Handles, part : BOOLEAN,
                size : {0, Size}, recv : 0..Size, acked : 0..Size,
                age : 0..Stall]
    /\ btc \in [at : {"idle", "beginning", "writing", "ending", "restarting"},
                handle : Handles, chunk : 0..Size]
    /\ main \in {"loop", "abort", "active", "handle", "part", "counters"}
    /\ slot \in [open : SUBSET Handles, last : Handles,
                 chunks : [Handles -> 0..Gap]]
    /\ boot \in {"old", "new"} /\ faults \in 0..MaxFaults

\* What reaches the flash is the image from its start without a gap, in every
\* transfer ("Requires writes in continuous sequence, which the protocol
\* guarantees", bt_config.cpp:247): after a failed write, an abort from either
\* side, a lost connection and a watchdog that takes the transfer apart under
\* the data, nothing more is written to it.
InSequence == \A h \in slot.open : slot.chunks[h] # Gap

\* "a wedged transfer must never permanently disable the escapes"
\* (bt_config.cpp:761): whatever becomes of the page and of the link, and
\* wherever the next transfer's begin hits the watchdog's abort.
EscapesReturn == dev.active ~> ~dev.active \/ ~on

\* A transfer in which nothing goes wrong gets its image booted: the stick never
\* waits for data while the page waits for an acknowledgement.
Completes ==
    page.ui = "active" /\ faults = 0 ~> boot = "new" \/ faults > 0 \/ ~on
=============================================================================
