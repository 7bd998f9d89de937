# A model of the bluetooth-nes-advantage firmware

The repository turns an NES Advantage joystick into a Bluetooth controller: an
ESP32 reads the stick's shift registers, shapes what it reads (Select as a
shift key, hold gestures), and sends it over one of two transports. The
Classic one acts as a Switch Pro Controller on BTstack, the BLE one as two HID
gamepads on Bluedroid. A third boot mode serves a configuration page with
firmware update. This directory models the parts of it where order, timing and
several actors decide what happens, checks them with TLC and proves
their safety properties with TLAPS.

Source paths below are relative to `src/firmware/main/` unless they start with
`src/`. Which lines each definition stands for is in `PROJECT.json` ("map").
The firmware's own code is about 5000 lines in `main/` and the BTstack ports;
most of the rest of the tree is BTstack and cJSON as their authors ship them.

## 1. Inventory

| Component | State | Operations | Talks to |
|---|---|---|---|
| Chord layer (`app_main.cpp` 204-326, 566-587) | armed / fired / committed latch, pass-through and previous members, pulse end, last snapshot sent | sample, land, decide, release, player switch, send gate | the transport's `set_input` |
| Gestures, timers, boot (`app_main.cpp` 328-435, 484-616) | tracked gesture and its start, fired flag, start-wake latch, two idle clocks | detect, mask, run; sleep or reboot; boot | transport, settings, power |
| Classic link (`bt_pro_btstack.cpp` 78-113, 485-842) | link state, peer, bond flag, ACL flag, HID cid, kick timer with two budgets | stack up, kick, pairing, HID opened / failed / closed, ACL up / down | `hid_device.c`, L2CAP, link log |
| BTstack HID device and L2CAP (vendored, `src/firmware/components/btstack/upstream`) | one static HID device; the list of channels | incoming, opened, failed and closed channels; can-send-now | the link above |
| Classic send path (`bt_pro_btstack.cpp` 79, 268-310, 338-480, 844-994) | snapshot, pending flag, reply ring, send latch, stream timer | set input, nudge, subcommand, tick, can-send-now | app's task on one side, L2CAP on the other |
| BLE transport (`bt_ble.cpp`) | link state, a report for each player, advertising in three steps | advertise, connect, notify, player switch, forget | Bluedroid's task and the event loop's |
| Transport dispatch and bond clearing (`bt_transport.cpp`) | the chosen ops table | forwarders; clear both bond tables | settings |
| Settings and identity (`settings.cpp`) | NVS keys: transport, profile, windows, identity generation | read, write, rotate the address | boot, forget |
| Config mode and OTA (`bt_config.cpp`, `src/web/index.html`) | OTA handle, partition, counters, last-data time; the page's pump | begin, data, end, abort, watchdog; forget; console | the page over GATT |
| Link log (`linklog.cpp`) | event ring, persisted slot, write count | event, persist, dump | NVS |
| Sleep and wake (`power.cpp`, `board.cpp`) | the ULP's stored words, the sleeping flag and the board revision in RTC memory | arm, drain, sleep, poll, decide what woke | boot |
| Battery (`battery.cpp`) | ADC average, percentage, charger pin | sample, table | link, timers, sleep |
| Console (`console.cpp`) | inhibit flag, sleep request | bench commands | the loop |
| HCI and TLV ports (`src/firmware/components/btstack/port`) | byte ring of HCI packets, callback list, notification; NVS blobs | receive, post, deliver | controller's task, run loop |

How they interact. Input goes one way: poll, chord layer, send gate, the
transport's snapshot, and from there to the radio, on Classic from another
task. The link goes the other way: the stacks' events change the link's
statics, which the poll loop reads to blink and to decide on sleep. Two tasks
share the Classic transport, the app's poll (priority 1) and the BTstack run
loop (priority 5, same core); below the run loop is the controller's task, with
the ring between them. On BLE three tasks share the transport's statics, in
config mode two share the update's. The hosts and the page are further actors.
Every reboot (a gesture, a sleep, a forget) starts all statics afresh; only
NVS, RTC memory and the bonds survive.

What is hard, and what makes each part correct:

* **Chord layer.** One press of Select must come to exactly one of: a chord, a
  Minus that follows the finger, or a Minus pulse on release; in every order of
  Select, members, the window's end, a running pulse and the player switch. No
  button may change its role while it is held, and nothing may stick.
* **Gestures and timers.** Combinations pass through one another as fingers
  land and lift. A hold runs once; a chord may not become a forget; the hold
  that woke the stick may not put it to sleep; a lost stick must sleep.
* **Classic link.** The stick has one HID device and both sides may open
  channels. A kick can cross the host's own attempt, failures arrive late or
  not at all, and every retry hangs on a report of the previous one. The app
  must neither believe in a dead connection, nor tear down a live one, nor stop
  paging while it has a budget.
* **Classic send path.** Nudges, replies and ticks share one request for one
  packet. Nothing may be lost for ever, sent twice or sent on the wrong
  connection; the latch may not stick; the host must end with the player's
  input although the snapshot can be read half written.
* **BLE gamepads.** Two gamepads are fed from one stick, by a task that learns
  of the connection late. The one the slider has left must be let go of, and
  the host must show what is held, and nothing of an earlier connection.
* **Sleep and wake.** Two processors and two wake sources watch the same
  buttons, and what one stores the other decides by, a boot later. The hold of
  Start that puts the stick to sleep may not wake it, a Start that is held must,
  and nothing may make it go round in wakes.
* **Update.** The page writes without confirmation against a window; the
  watchdog takes the transfer apart from another task. No gap may be written,
  the escapes must come back, and an undisturbed transfer must complete.
* **Identity.** Two bond tables and a generation make up who the stick is, and
  no forget reaches all three at once. A forgotten host may not find the stick
  at its old address; a stored bond must be one its host honours.
* **HCI ring.** A byte ring of framed packets between two tasks. The frames must
  stay apart, and no packet may wait for the next one.

## 2. Modules

    Chords     <- AppLoop       (AppLoop's Turn contains Chords' Poll)
    Chords     <- BlePads       (BlePads' BlePoll contains Chords' Poll)
    ProLink
    Handoff    <- ProSend       (ProSend implements Handoff)
    RingBuffer <- VhciRing
    SleepWake
    Ota
    Identity
    ChordsProofs <- AppLoopProofs, BlePadsProofs
    ProLinkProofs, ProSendProofs, VhciProofs, OtaProofs: theorems
    SleepWake, Identity <- RestartProofs: theorems about both
    MC*: instances for TLC

Definitions named "Mutant" are plausible bugs: `PROJECT.json` names, for every
property of a passing run, the definition such a bug replaces, after which TLC
finds the property violated. They are used nowhere else.

### Chords

`Poll(d, sel, held, moved)` is one pass of the loop up to the send:
`NESController::read()`'s player switch and its callback, `read_input()`,
`apply_chords()` and the comparison with the last snapshot. `d` is the time
since the previous pass. `shift` holds the statics of the layer (deadlines as
time left), `prev` the members of the last sample, `out` the snapshot made,
`lastSent` the one compared with, `report` what the transport holds. A and B
pass through the layer unchanged and are left out. `window` is the chord window
of this boot's transport: `Off`, `Hold` (no time limit) or a length.
`press` is a history of the current press, used by properties only.

Properties: `DecidedOnce` (a press shows Minus or makes a chord, and shows it
once), `ChordIffFresh` (exactly the members that went down with or after Select
are shifted), `RoleStable` (no member changes between plain and shifted while it
and Select are held), `MinusLetsGo` (with Select up for good, Minus goes up).

### BlePads

`bt_ble.cpp` behind the chord layer. A poll pushes reports for one player, or
for both at a switch, and they reach the host only if `s_link` says connected
and the radio is. `radio` is what Bluedroid is at, `events` what its HID layer
has told the event loop and `hidd_cb()` has not yet handled, so that `link`
(`s_link`) follows the radio with a delay in both directions. Advertising is
asked for in three callbacks and may fail. `host` is what the host's two
gamepads show; a connection that ends takes them away.

Properties: `OneHand` and `HostFollows`. On BLE the firmware has no chord
window (`settings.cpp` 71-74). The model does not rely on it: every window is
run in front of the transport, which checks the chord layer and the transport
in one run.

### AppLoop

`Turn` is one pass of the whole loop: Chords' `Poll`, then the console's sleep
request, `check_gestures()`, `check_timers()`. A gesture that reboots, and any
sleep, ends the boot; `Boot(woken)` starts the next one with the statics at
their initial values, another transport's window, and the start-wake latch if
Start woke it. `WorldMoves` is what other tasks report: the link, the charger,
the bench's inhibit. `hold` and `ran` are histories.

Left out: the LED blinks inside the profile and direction gestures, which block
the loop for a moment. Changing either setting is no change of the snapshot, so
the host keeps the old mapping of held buttons until one of them moves; it is
listed as a hazard.

### ProLink

Every action is one event of the run loop, handled to its end, through both
files: `hid_device.c`'s reaction to a channel's event and, if that reports
something, `packet_handler()`'s reaction to the report.

* `app`: the statics of `bt_pro_btstack.cpp` (link state, peer, bond and ACL
  flags, `s_hid_cid # 0`, scan, the kick timer with its tier and budgets).
* `hid`: the one HID device; `chans`: L2CAP's channels; `acl`: baseband links.
* `draining`: an ACL has just ended and L2CAP reports its channels one at a
  time (`Drain`), before anything else; open and incoming ones are reported
  closed, the stick's own unfinished ones failed.
* Hosts in `Initiators` open the channels themselves, control first; others
  pair and wait. `Forgetful` ones may pair again. `Closers` may close a single
  channel. `keys` is the link-key database and survives.

The kick's delays are not counted: an armed kick may fire at any time, before
or after anything the host does. A page may fail, an open channel may be
refused, time out or be closed, an ACL may drop: each is a fault, `MaxFaults`
in all. `fast` and `slow` count without a limit of their own; that they keep to
the two budgets is `Budget`.

Assumed: `hid_device_connect()` starts its page. It can fail at once only when
the heap is spent; the code then logs the error (`bt_pro_btstack.cpp` 538-542),
nothing arms the kick again, and the stick waits for the host.

### Handoff and ProSend

`Handoff` is what the hand-off of the pad's input promises, with no task and no
queue: the app publishes snapshots, and the host is told what there is to see,
the current snapshot or, while it is being put up, its buttons over the stick
of the one before; never an older one. `ProSend` is the code. The app's task
publishes in four steps (the buttons, the stick, the exchange of
the pending flag, the posting of the callback), because the run loop preempts
it between any two. The buttons are a struct of several members in the code
(`bt_pro_btstack.cpp` 985) and one value here: a snapshot torn inside them is not
modelled. The run loop's handlers are one step each, except that
taking the callback off the list and calling it are two: its place in the list
and the pending flag change separately, and `PostedOnce` is about that:
"at most one callback is in flight" (846). (`btstack_linked_list_add_tail()` would
refuse a second, so breaking it would lose a nudge and not the list.) Frames
are abstracted to which snapshot or which reply they carry. A reply taken off
the ring while the interrupt channel is closed counts as sent, as in the code. `ring` keeps the
code's indices and its modulo; `owed` and `replied` are histories. Time is in
ticks of the stream timer.

The refinement maps the last published input to `cur`, the snapshot the run
loop reads to `shown`, and the host to itself (`HandedOff`); that a host which
can be told is told in the end is `Delivered`.

L2CAP answers a request inside the call when it has room for a packet. Every
handler makes its request last, so the answer is a step of its own that may
come at once or later. `hid_device.c` reports can-send-now for its request flag
even if it was the control channel that waited; `asked.user` is that flag and
`asked.waiting` says that a channel still owes an answer.

### RingBuffer and VhciRing

`RingBuffer` is `btstack_ring_buffer.c` as operators on a record: storage, two
indices and the flag that tells full from empty. `VhciRing` is both sides of
`hci_transport_esp32_vhci.c`. `Receive` is `host_recv_pkt_cb()` under its mutex,
with the check of the space as it is written, and the tag and the packet written
as two writes of which either may not fit. `Post` and `Ring` are the run loop's
callback list and the task notification; the loop's round (callbacks, timers,
wait) is `loop`. A byte is the packet it belongs to and its position in it.
`due` and `torn` are histories: the packets in the ring, and whether one of them
lacks a part. `Framed` says where packets start without a fold: there are cuts of
what a reader would get such that each packet's frame lies between two of them,
and the last cut is the end if no part is missing.

### SleepWake

`in` are the buttons and the charger, which move at any time. `cpu` is the main
processor: awake, waiting for Start to be released, flushing, asleep or booting.
`UlpPoll` is the ULP's program, which goes on while the SoC flushes and boots,
stores what it read, and wakes a sleeping one. `HandleWake` is a boot up to the
decision of `handle_wake()`; `board` is the revision with its copies in RTC
memory and NVS, on which the charger's pin depends. The times are counted in
polls of the ULP or reads of the wait, each by its own bound.

Two limits of the properties. A charger plugged in during the flush has
its pin low already when the wake is to be armed, so the code does not arm it
(`power.cpp` 152), and `ChargerWakes` does not speak of it. `hist.moved` runs from the first arming on: once an input
has moved and the stick has gone back to sleep, `WakesForCause` no longer rules
out another wake, and that those end is `Settles`.

AppLoop's `Boot` may be a wake of any kind at any time; what it takes for a wake
to come about, and that the hold that was released is not the one that wakes, is
this module's.

### Ota

The page (`startOta()`, `pumpOta()`, `abortOta()`), the writes and
notifications between the two, the GATT handlers on Bluetooth's task and the
stall watchdog on the task of `run()`. Bluetooth's task has the higher priority
and preempts the watchdog's `ota_abort_cleanup()` between any two statements, so
that is five steps; the other way round the loop gets a turn only where a
handler waits for the flash, so a handler is two. Sizes are counted in chunks.
`slot` keeps, for each handle, how much of the image was written in sequence.

Assumed: the user starts a new transfer only when nothing of the last one is
under way; the esp_ota functions behave as documented (a handle that was closed
under a write either fails or writes nothing).

### Identity

The two bond tables, the generation in flash, the address each boot derives from
it, and a forget from each of the three modes, one write at a time; the power
may go between any two (`Reboot`). A host may pair while a forget is under way.
BTstack's table is erased by the forget itself. Bluedroid only takes orders:
`esp_ble_remove_bond_device()` posts to its task, so `QueueRemovals` fills
`queued` and `RemoveBond` is Bluedroid's own step, in a BLE boot at any time
before or after the generation moves, for a connected host only after the
disconnect, or never: a restart empties `queued`. In config mode it is never.
There `do_forget()` is called from `gatts_cb()` (`bt_config.cpp` 335 and 511 from
672 and 673), which runs on that same task, and it restarts the stick without
returning to it. Where Bluedroid is not up it refuses, and nothing is queued.

`excused` holds, for each table, the bonds a forget left in it when it moved the
generation on (`LeftBehind`: Bluedroid's from a Classic boot, all from config
mode, those still queued from a BLE boot) and the bonds made while a forget was
under way; a new pairing or the removal ends the excuse.

The operation on the address byte is a constant, `XorOf`, of which
`XorAssumption` asks that it stay in the byte and be injective in the
generation; the run gives it the real exclusive or and checks that it is such an
operation.

Assumed: the two NVS writes of a forget, BTstack's erasing and the generation,
succeed.

## 3. Runs

`CHECK_DEADLOCK FALSE` stands in the configurations of the link and of the
update only: there the faults are bounded, and a connected stick has nothing
left to do, and an update ends in a restart.

| Run | Question | Bounds | Result |
|---|---|---|---|
| `chords` | Is every press decided once, does nothing stick, and does a BLE host see it? | three members, windows off / hold / 4 units, pulse 3, gaps of 1 or 2, every sample at every poll, a host that comes and goes | holds |
| `app_loop` | Do gestures run once, for what was held, never under a chord or a waking Start, and does an idle stick sleep? | two members, windows off / hold / 1, hold time and idle limits 3, boots without limit | holds |
| `link_hosts` | Does the app's view follow the device with two hosts that both open channels? | two hosts, four channels, two faults, budgets 2 and 1 | holds |
| `link_waiting` | With a host that waits to be paged: do the comments hold, and does the stick come back? | one host, seven channels, budgets 2 and 2, three faults | holds |
| `link_zombie` | "nonzero means connected" with a host that moves first | one host, three faults | violated |
| `link_passive` | "keep paging slowly instead of going passive" with a host that moves first | one host, three faults | violated |
| `pro_send` | Is the send path live, in order and current, and does it implement `Handoff`? | three inputs, ring of two, three subcommands, settle 1, keepalive 2 | holds |
| `vhci` | Do the frames stay apart, and is no packet left waiting? | ring of 11 bytes, packets of 3 and 4, three numbers | holds |
| `vhci_frames` | "dropping packet", never a part of one | as `vhci` | violated |
| `sleep_wake` | Does the stick wake for a cause only, never miss one, and come to rest? | both boards, boot of 3 polls, flush 2, debounce 2, drain 4 | holds |
| `ota` | Is flash written without a gap, do the escapes return, does a transfer complete? | five chunks, window of four, two transfers, two faults | holds |
| `identity` | Does a forgotten host stay out, and are stored bonds honoured? | two hosts, eight generations, factory byte 5, seven forgets | holds |

Why the bounds are enough. A gap of two units steps over the end of a window or
pulse as well as onto it. Three members cover one held before, one landing
with and one after Select. In `app_loop` a hold of three units lets a
combination be left and taken up again before it runs, and the idle limits of
three are reached while a hold is running as well as between two. Two fast and
one slow attempt cross the tier once and exhaust both; two hosts and four
channel ids allow a host's two channels beside the kick's, and one host's
interrupt channel beside another's control channel. `link_waiting` needs seven
ids so that none is missing in a run of three faults, and three faults are one
fewer than its four attempts: with as many faults as attempts the stick gives
up, as designed. A ring of two with three subcommands wraps round and
overflows. A keepalive of two ticks leaves a tick on which only changed buttons
are due. The three inputs differ in the button, the stick or both, so a torn
snapshot of either kind can be sent. Eleven bytes hold one frame of each length
exactly, or two of the shorter with one byte over, so every packet is met at
every offset, by a ring that is exactly full and by one that lacks one, two or
more bytes. A flush of two and a boot of three polls let a Start be tapped, held
or exchanged for another button between each pair of decisions. Five chunks are
one more than the window, an acknowledgement comes in the middle of it and at
the odd end; the second transfer is the one the watchdog's abort of the first
can hit. Eight generations with a factory byte of two set bits have the XOR's
carries-free change in every bit, and seven forgets stop before the wrap, after
which the first address is back.

Fairness. The poll loop runs (`WF` on `Rests`, `BleRests`, `LoopRests`): it is
an endless loop with a fixed delay, and goes on while nobody touches the stick;
fairness of the whole next-state relation would have made the player move again
and again. The run loop handles what is due and BTstack reports what has
happened (`WF` on the device's and L2CAP's progress); a page ends, one way or
the other, at its timeout. In `FairSend` the tick and the answer to a waiting
request are strongly fair: the run loop serves its callbacks, its timers and
its packets in every round, so a flood of nudges cannot keep the others out,
though between the two steps of a callback they are not enabled. In `FairVhci`
the controller's task finishes what it has begun and the run loop goes on with
its round, but no timer is counted on: there may be none. In `FairSleep` both
processors run and a level that wakes does so. In `FairOta` the browser, both
tasks and the clock go on; the user need not do anything. No host is fair, no
player is, and no fault has to stop except by its bound.

What the violated runs show:

* `link_zombie`: the kick sets the HID device up anew while the host has one
  channel open. If the kick's control channel is then refused its id stays in
  the device, and the end of the connection that completes around it is never
  reported: `s_hid_cid` stays nonzero with no link under it.
* `link_passive`: the host's control channel replaces the id of the kick's in
  the device and marks it incoming; neither failure is reported, and no timer
  is armed.
* `vhci_frames`: the check of the free space
  (`src/firmware/components/btstack/port/hci_transport_esp32_vhci.c` 145) leaves
  out the tag's two bytes. With just the packet's length free, or one byte more,
  the tag goes in and the packet does not, and the reader takes the next
  packet's bytes for this one's, until the ring runs empty. Host flow control is
  off, so nothing but the ring holds packets back
  (`src/firmware/components/btstack/include/btstack_config.h` 23-24).

Met on the way, with no run of their own:

* Holding a chord can forget the host after all if the player slider is moved
  under it: `check_gestures()` masks the gesture with `s_chord_fired`
  (`app_main.cpp` 370), which the switch clears (165), and Select stays down.
  `ChordKeepsPairing` speaks of the press on one player's line.
* A nudge can be absorbed by the request a reply made, and the reply uses it up
  (`bt_pro_btstack.cpp` 388, 453): the press waits for the next tick, or, for a
  move of the stick alone in simple mode, for the keepalive. `Prompt` excludes
  just that.
* A kick of a bonded boot can fire while a host is opening its channels,
  although the grace is said to let such hosts always win (`bt_pro_btstack.cpp`
  110), because the grace runs from the stack's start; pairing again arms a kick
  beside a page that is still running, against the comment at 543; and with two
  ACLs the end of either clears `s_acl_up`, so that the level may be raised on
  a live link, against 530. `link_waiting` checks the last two for a host that
  waits; section 4 says under which assumptions each is proved.
* A Start pressed in the moment between a wake by another button and the
  re-arming of the ULP becomes its baseline, and must be pressed again
  (`src/docs/MANUAL.md` 56 says to hold it). `StartWakes` speaks of a Start the
  baseline does not hold.
* A forget does not clear "BOTH" tables on every boot (`bt_transport.hpp`
  76-85). From Classic, Bluedroid is not up and refuses. From BLE, the bond of a
  host that is connected goes after the disconnect, which the restart may
  forestall. From config mode no bond goes at all, although the log says "remove
  BLE bonds" (`bt_config.cpp` 294): Classic's are not asked for, and the removal
  of BLE's waits for the task that `do_forget()` holds until the restart. The
  rotated address makes up for all of it until the generation wraps, after 256
  forgets (`ForgottenStaysOut` needs no bond to be gone); what stays are keys
  for an address that is gone, as for a host that pairs while a forget runs.
* On BLE a button held while the host connects shows only with the next change,
  and advertising that fails to start is not tried again.
* After END's write was lost the page may report a restart into new firmware
  that did not take place.
* `linklog.cpp`'s `persist()` runs on two tasks without a lock, and
  `src/docs/FIRMWARE.md` 190-194 gives its ring 96 events, which has 128
  (`linklog.cpp` 25), and its record 20 bytes, which has 26 (59).

## 4. Proofs

What is proved holds for every value of the constants under the assumptions the
modules name. None of the invariants below is inductive as it stands; each proof
module defines the strengthening, shows that every action keeps it, and derives
the properties from it.

`ChordsProofs` (any set of members, windows, pulse length and bound on the gap,
`ChordsAssumption`): `TypeOK`, `DecidedOnce`, `ChordIffFresh`, `ReportCurrent`
(the transport holds the last snapshot whenever the gate was passed) and
`RoleStable`. `DecidedOnce` speaks of the history of a press, which follows only
from how `armed`, `fired` and `committed` relate to it. The inductive invariant
`IInv` adds that relation (`HistoryAgrees`), that the snapshot is what the
layer's state and the sample resolve to (`OutAgrees`) and that the gate's copy
is the transport's (`SentAgrees`). One lemma per operator (`Land`, `Decide`,
`Release`, ...) says what it returns; the step is then split on the window and
on Select's edge.

`AppLoopProofs` builds on it: a turn contains a poll and a boot starts the layer
anew, so `IInv` holds of the whole loop (`DecidedInLoop`). `LoopInv` adds what
gestures need: what is tracked is what is held, and for no longer (`HoldInv`),
and a Start that has been down since the boot is still masked (`WakeInv`).
`RunsOnce`, `RunsOnlyHeld`, `ChordKeepsPairing` and `WakeHoldInert` follow, for
any hold time. `RunsOnce` needs that the two gestures whose mask can come and go
end the boot when they run, and that the others stay marked.

`BlePadsProofs` builds on it too: `OneHand` and `HostFollows`, for any members
and windows. `EventsInv` says what the unhandled events tell about the radio; it
keeps `s_link` from changing under a host that is being told, and with that a
host that cannot be told has been told nothing yet.

`ProLinkProofs` (any hosts of every kind, channel ids and budgets): `LinkTypeOK`,
`AppFollowsDevice`, `Findable`, `Budget`, and that no step violates
`NoKickWhenOpen`. The app's flag and the device's agree only because a device
that is not in use is not connected and remembers no channel, so that no late
event can complete a connection behind the app's back; that, a peer for every
device in use, and that no page is under way while an ACL's end is being
reported, is what the inductive invariant `LinkInv` adds. The handlers' effects
on the app's statics are stated once, as lemmas about `Good`, and cited by the
actions that end in them.

What the comments of `bt_pro_btstack.cpp` promise is not true of every
instance, as the violated runs show. Each of the four safety properties of
`link_waiting` is proved under the weakest assumption about the hosts that TLC
left standing:

* `CidMeansConnected` and `KeepsPaging`: no host opens channels itself
  (`HostsWait`). There may be any number of hosts, and they may lose keys, pair
  again and close channels. `WaitInv` adds that every channel is the stick's own
  and has a link under it (`OnAcl`), what the HID device remembers of its two
  channels (`HidChans`), and that with the kick off and a budget left all it
  remembers is still there, so that the end of the last arms the kick (`Armed`).
* `Level2OnFreshAcl`: there is one host (`OneHost`), whatever it does. `AclSeen`
  says that `s_acl_up` is set while the link is; a second host's disconnect
  would clear it.
* `NoStackedConnect`: one host, that waits and keeps its key (`KeysKept`). `Sole`
  says that an attempt under way is one the device remembers, hence the only
  one, and that the kick is armed only after it. A host that pairs again arms the
  kick beside a page, and a second host pages beside the first one's.

`ProSendProofs` (any inputs, ring length, settle and keepalive time):
`SendTypeOK`, `RepliesOwed`, `LatchLive`, `PostedOnce`, `Prompt`, and
`SendHandsOff`, that the send path implements `Handoff`. `SendInv` joins the
types and the replies with four relations: a latch that is set has an event
coming (`LinkInv`), where the copy of a snapshot has got to (`CopyInv`), in
which one place the callback is (`NudgeInv`), and that what the host lacks is
on its way (`PromptInv`). The lemmas about the ring say that a push appends to
what it reads as and a pop takes its head, modulo the length.

`VhciProofs` (any size and packet lengths): a write that fits appends its bytes
to what a reader would get and a read takes them from the front, across the end
of the storage (`WriteAppends`, `ReadTakesFront`); the ring's indices and the
rest of the state keep their types (`VhciTypes`); `NothingStranded`; `Framed`;
and `DeliveredInOrder`, that what the loop delivers is the oldest packet due,
until it comes to a torn one. The last two rest on an invariant over the cuts
between frames: a whole write adds a cut at the end, a torn one leaves them, a
read shifts all of them down by the frame it took.

`RestartProofs` is about what a boot finds. Of `SleepWake` (any boot, flush,
debounce and drain time): `SleepTypeOK` and `WakesForCause`. `SleepInv` relates
what the ULP has stored to what has moved since it was armed, and the wake cause
to both. Of `Identity` (any hosts, any size of the generation, any factory byte,
fewer forgets than generations): `IdentityTypeOK`, `ForgottenStaysOut` and
`BondsHonoured`. `IdentityInv` adds that the boot is at the address of its
generation (`AddrInv`), that what a host knows is the address of a generation
that was, before the last forget for an outcast (`KnowsInv`), and that a forget
under way answers for every bond still stored, as one that is queued for removal
or was made meanwhile (`ClearedInv`). It asks for no removal to have been made. That two generations have
two addresses is all that is used of the byte's arithmetic.

`OtaProofs` (any image, window and stall time, any number of transfers and
faults): `OtaTypeOK` and `InSequence`. The invariant says that the page, the
writes in the air, the handler and the open handle agree on the next chunk
(`PumpInv`, `AirInv`, `WriteInv`, `NextInv`), that nothing follows a begin before
its answer but what gives the transfer up (`BeginInv`), and that handles are not
used twice (`HandleInv`). The watchdog's five steps can leave the transfer's
statics at odds with one another under a handler that waits for the flash; the
agreement is therefore stated of a handle that is still open, and of the count
of chunks received only that the chunks to come are not earlier than it says.

Only model-checked: everything temporal (`MinusLetsGo`, `SleepsUnconnected`,
`SleepsUntouched`, `Rejoins`, `Delivered`, `Answered`, `Served`, `Settles`,
`StartWakes`, `ChargerWakes`, `EscapesReturn`, `Completes`), since liveness under
fairness is out of the proof system's reach. Every invariant and every action
property of a passing run has a theorem.

## 5. Plan

Done: all modules of section 2 with their runs, and the proofs of section 4.
Left:

1. The steps that the liveness properties rest on, as action properties: what a
   step may not undo of the progress made (a stored Start press until the wake,
   the statics of an aborted update until the escapes are back).
2. An abstract specification of the chord layer's decision for one press, with
   `Chords` shown to implement it.

## 6. Not modelled

The report layouts, the profiles' button maps, SDP and the GATT tables
(constant data); LED patterns, logging and the console's parsing; the strap
reads' electrical side and the ADC's average; sending over the HCI port (a call
into the controller) and the TLV port (one NVS blob per tag). The link log is
diagnostics that no other part reads back; its one concurrency hazard is listed.
The console's commands call the hooks that `AppLoop` has as inputs. The rest of
BTstack, Bluedroid, the controller and cJSON is third-party code; what the
firmware relies on is in the models as their environment, marked external in the
map. The status of every part is in `PROJECT.json` ("components").
