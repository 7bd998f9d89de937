------------------------------ MODULE BlePads -------------------------------
(***************************************************************************)
(* bt_ble.cpp behind the chord layer: two gamepads on one BLE connection,  *)
(* one for each position of the player slider, and the callbacks that say  *)
(* whether anybody is there to see them.                                   *)
(*                                                                         *)
(* Three tasks meet here.  The app's task polls, and pushes reports while  *)
(* s_link says connected; Bluedroid's task runs ble_gap_cb(); the event    *)
(* loop's task runs hidd_cb(), some time after the radio has connected or  *)
(* lost the host.  A poll is one step: of its pushes those made before     *)
(* s_link changes have no effect, whichever way it changes.                *)
(***************************************************************************)
EXTENDS Chords, Sequences

VARIABLES
    link,        \* s_link
    radio,       \* what Bluedroid is at: on its way to advertise, or there
    events,      \* HID events on their way to hidd_cb()
    pads,        \* s_report, one for each player
    host,        \* external: what the host's two gamepads show
    told         \* history: players reported to the host on this connection

bleVars == <<link, radio, events, pads, host, told>>
vars    == <<chordVars, bleVars>>

\* A report's buttons: which of them they are on the wire, the profile and the
\* directional mode say.
Report  == [minus : BOOLEAN, plain : SUBSET Members, chord : SUBSET Members]
Neutral == [minus |-> FALSE, plain |-> {}, chord |-> {}]
AllUp   == [p \in Players |-> Neutral]

Radios == {"off", "described", "named", "starting", "advertising", "up"}

-----------------------------------------------------------------------------
\* build_report(): every field from this snapshot, none from the last report.
Built(in) == [minus |-> in.minus, plain |-> in.plain, chord |-> in.chord]

\* Mutant: the gamepads are zeroed, and the next report is left to tell.
ClearedQuietly(moved) == {}

\* ble_clear_input(), which on_player_change() calls, pushes both gamepads.
Cleared(moved) == IF moved THEN Players ELSE {}

\* notify_report() does nothing unless s_link says connected; what is pushed
\* into a connection that is gone goes nowhere.
Seen == link = "connected" /\ radio = "up"

BleInit ==
    /\ Init
    /\ link = "idle" /\ radio = "off" /\ events = <<"start">>
    /\ pads = AllUp /\ host = AllUp /\ told = {}

\* A turn of the loop up to bt::set_input(), ble_set_input() with it.
BlePoll(d, sel, held, moved) ==
    /\ Poll(d, sel, held, moved)
    /\ LET sends  == NeedsSend(IF moved THEN None ELSE lastSent, out')
           pushes == Cleared(moved) \cup (IF sends THEN {player'} ELSE {})
           zeroed == IF moved THEN AllUp ELSE pads
       IN  /\ pads' = IF sends THEN [zeroed EXCEPT ![player'] = Built(out')]
                      ELSE zeroed
           /\ host' = IF Seen THEN [p \in Players |->
                                      IF p \in pushes THEN pads'[p] ELSE host[p]]
                      ELSE host
           /\ told' = IF Seen THEN told \cup pushes ELSE told
    /\ UNCHANGED <<link, radio, events>>

\* ble_gap_cb(): the description is set, then the name, then advertising is
\* asked for ...
AdvDataSet ==
    /\ \/ radio = "described" /\ radio' = "named"
       \/ radio = "named" /\ radio' = "starting"
    /\ UNCHANGED <<chordVars, link, events, pads, host, told>>

\* ... and has started, or has not, and nothing asks again.
AdvStarted(ok) ==
    /\ radio = "starting"
    /\ radio' = IF ok THEN "advertising" ELSE "off"
    /\ link' = IF ok THEN "advertising" ELSE link
    /\ UNCHANGED <<chordVars, events, pads, host, told>>

HostConnects(ok) ==
    /\ radio = "advertising"
    /\ radio' = "up"
    /\ events' = Append(events, IF ok THEN "connect" ELSE "refused")
    /\ UNCHANGED <<chordVars, link, pads, host, told>>

\* With the connection the host's gamepads go, and what they showed with them.
HostGoes ==
    /\ radio = "up"
    /\ radio' = "off"
    /\ events' = Append(events, "disconnect")
    /\ host' = AllUp /\ told' = {}
    /\ UNCHANGED <<chordVars, link, pads>>

\* hidd_cb() takes the next event.
Hidd ==
    /\ events # <<>>
    /\ events' = Tail(events)
    /\ LET event == Head(events)
       IN  /\ link' = CASE event = "connect" -> "connected"
                        [] event = "disconnect" -> "advertising"
                        [] OTHER -> link
           /\ radio' = CASE event = "start" -> "described"
                         [] event = "disconnect" -> "starting"
                         [] OTHER -> radio
    /\ UNCHANGED <<chordVars, pads, host, told>>

Polls == \E d \in 1..MaxGap, sel \in BOOLEAN, held \in SUBSET Members,
            moved \in BOOLEAN : BlePoll(d, sel, held, moved)

HostMoves == HostGoes \/ \E ok \in BOOLEAN : HostConnects(ok)

Bluedroid == AdvDataSet \/ Hidd \/ \E ok \in BOOLEAN : AdvStarted(ok)

BleNext == Polls \/ HostMoves \/ Bluedroid

\* The loop runs for ever, as in Chords.
BleRests == \E d \in 1..MaxGap : BlePoll(d, pad.sel, pad.held, FALSE)
BleSpec  == BleInit /\ [][BleNext]_vars /\ WF_vars(BleRests)

-----------------------------------------------------------------------------
\* Only the live player's gamepad ever has a button down, in the stick and at
\* the host: the one the slider has left is let go of, whatever was held at the
\* time and whatever the connection did meanwhile ("on a player switch the
\* just-vacated joystick returns to neutral on the host", bt_ble.cpp:472).
OneHand ==
    \A p \in Players \ {player} : pads[p] = Neutral /\ host[p] = Neutral

\* What the host shows for the live player is what the last poll came to, from
\* the first report of a connection on; until then it shows nothing pressed,
\* and nothing of an earlier connection.
HostFollows ==
    host[player] = IF player \in told THEN Built(out) ELSE Neutral
=============================================================================
