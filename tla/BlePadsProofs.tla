--------------------------- MODULE BlePadsProofs ----------------------------
(***************************************************************************)
(* Proofs about the two gamepads of a BLE connection, for every set of     *)
(* members, every window and any order of the host's coming and going      *)
(* against the callbacks that tell of it.                                  *)
(***************************************************************************)
EXTENDS BlePads, ChordsProofs, SequenceTheorems

\* The events still to be handled say how far the radio has got: none before a
\* host has connected, a refused or a fresh connection while it is up, and the
\* end of it afterwards.
EventsInv ==
    /\ link \in {"idle", "advertising", "connected"} /\ radio \in Radios
    /\ radio \in {"described", "named", "starting", "advertising"} =>
          events = <<>>
    /\ radio = "up" => events \in {<<>>, <<"connect">>, <<"refused">>}
    /\ radio = "off" => events \in {<<>>, <<"start">>, <<"disconnect">>,
                                    <<"connect", "disconnect">>,
                                    <<"refused", "disconnect">>}

\* What the transport has for each player; a host that cannot be told has
\* been told nothing yet.
PadsInv ==
    /\ pads \in [Players -> Report] /\ host \in [Players -> Report]
    /\ told \in SUBSET Players
    /\ ~Seen => told = {} /\ host = AllUp

BleInv == IInv /\ EventsInv /\ PadsInv /\ OneHand /\ HostFollows

-----------------------------------------------------------------------------
LEMMA BuiltOK ==
    ASSUME NEW s \in Snapshot
    PROVE  Built(s) \in Report
BY DEF Built, Report, Snapshot

LEMMA AllUpOK == /\ Neutral \in Report /\ AllUp \in [Players -> Report]
                 /\ \A p \in Players : AllUp[p] = Neutral
BY DEF AllUp, Neutral, Report

LEMMA BleInitInv == BleInit => BleInv
<1> SUFFICES ASSUME BleInit PROVE BleInv
    OBVIOUS
<1>1. IInv /\ player \in Players BY InvInit DEF BleInit, Init
<1>2. EventsInv BY DEF BleInit, EventsInv, Radios
<1>3. PadsInv BY <1>1, AllUpOK DEF BleInit, Init, PadsInv
<1>4. OneHand /\ HostFollows
    BY <1>1, AllUpOK DEF BleInit, OneHand, HostFollows
<1> QED BY <1>1, <1>2, <1>3, <1>4 DEF BleInv

-----------------------------------------------------------------------------
(* A poll. *)

LEMMA BlePollStep ==
    ASSUME BleInv, NEW d \in 1..MaxGap, NEW sel \in BOOLEAN,
           NEW held \in SUBSET Members, NEW moved \in BOOLEAN,
           BlePoll(d, sel, held, moved)
    PROVE  BleInv'
<1> DEFINE sends  == NeedsSend(IF moved THEN None ELSE lastSent, out')
           pushes == Cleared(moved) \cup (IF sends THEN {player'} ELSE {})
           zeroed == IF moved THEN AllUp ELSE pads
<1>1. Poll(d, sel, held, moved) /\ UNCHANGED <<link, radio, events>>
    BY DEF BlePoll
<1>2. IInv /\ IInv' /\ EventsInv' BY <1>1, InvStep DEF BleInv, EventsInv
<1>3. /\ TypeOK /\ TypeOK' /\ player \in Players /\ player' \in Players
      /\ out' \in Snapshot
    BY <1>2 DEF IInv, TypeOK
<1>4. ~moved => player' = player
  <2>1. TypeOK BY <1>3
  <2> QED BY <1>1, <2>1, PollFields
<1>5. moved => sends BY DEF NeedsSend
<1>6. ~sends => lastSent # None /\ lastSent = out'
  <2> SUFFICES ASSUME ~sends PROVE lastSent # None /\ lastSent = out'
      OBVIOUS
  <2>1. ~moved BY <1>5
  <2>2. lastSent # None /\ SameInput(out', lastSent) BY <2>1 DEF NeedsSend
  <2>3. lastSent \in Snapshot BY <1>3, <2>2 DEF TypeOK
  <2>4. lastSent = out' BY <1>3, <2>2, <2>3 DEF SameInput, Snapshot
  <2> QED BY <2>2, <2>4
<1>7. ~sends => out' = out
  <2>1. lastSent = report /\ (report # None => report = out)
      BY <1>2 DEF IInv, SentAgrees, ReportCurrent
  <2> QED BY <1>6, <2>1
<1>8. /\ pads' = IF sends THEN [zeroed EXCEPT ![player'] = Built(out')]
                 ELSE zeroed
      /\ host' = IF Seen THEN [p \in Players |->
                                 IF p \in pushes THEN pads'[p] ELSE host[p]]
                 ELSE host
      /\ told' = IF Seen THEN told \cup pushes ELSE told
      /\ Seen' = Seen
    BY <1>1, Zenon DEF BlePoll, Seen
<1>9. /\ sends \in BOOLEAN /\ pushes \in SUBSET Players
      /\ player' \in pushes <=> sends
      /\ moved => pushes = Players
      /\ ~moved => pushes \subseteq {player'}
  <2>1. Cleared(moved) = IF moved THEN Players ELSE {} BY DEF Cleared
  <2>2. sends \in BOOLEAN BY Zenon DEF NeedsSend, SameInput
  <2> HIDE DEF sends
  <2> QED BY <1>3, <1>5, <2>1, <2>2
<1>10. zeroed \in [Players -> Report] /\ Built(out') \in Report
    BY <1>3, BuiltOK, AllUpOK DEF BleInv, PadsInv
<1>11. \A p \in Players \ {player'} : zeroed[p] = Neutral
    BY <1>4, AllUpOK DEF BleInv, OneHand
<1> HIDE DEF sends, pushes, zeroed
<1>12. /\ pads' \in [Players -> Report]
       /\ sends => pads'[player'] = Built(out')
       /\ \A p \in Players \ {player'} : pads'[p] = Neutral
    BY <1>3, <1>8, <1>10, <1>11
<1>13. CASE ~Seen
  <2>1. host' = host /\ told' = told /\ ~Seen' BY <1>8, <1>13
  <2>2. told = {} /\ host = AllUp BY <1>13 DEF BleInv, PadsInv
  <2>3. PadsInv' BY <1>12, <2>1, <2>2, AllUpOK DEF PadsInv
  <2>4. OneHand' /\ HostFollows'
      BY <1>3, <1>12, <2>1, <2>2, AllUpOK DEF OneHand, HostFollows
  <2> QED BY <1>2, <2>3, <2>4 DEF BleInv
<1>14. CASE Seen
  <2>1. /\ host' = [p \in Players |-> IF p \in pushes THEN pads'[p] ELSE host[p]]
        /\ told' = told \cup pushes /\ Seen'
      BY <1>8, <1>14
  <2>2. /\ host \in [Players -> Report] /\ told \in SUBSET Players
        /\ \A p \in Players \ {player} : host[p] = Neutral
        /\ host[player] = IF player \in told THEN Built(out) ELSE Neutral
      BY DEF BleInv, PadsInv, OneHand, HostFollows
  <2>3. PadsInv' BY <1>9, <1>12, <2>1, <2>2 DEF PadsInv
  <2>4. \A p \in Players \ {player'} : host'[p] = Neutral
    <3>1. CASE moved BY <1>9, <1>12, <2>1, <3>1
    <3>2. CASE ~moved BY <1>4, <1>9, <1>12, <2>1, <2>2, <3>2
    <3> QED BY <3>1, <3>2
  <2>5. HostFollows'
    <3>1. CASE sends
      <4>1. player' \in told' /\ host'[player'] = Built(out')
          BY <1>3, <1>9, <1>12, <2>1, <3>1
      <4> QED BY <4>1 DEF HostFollows, Built
    <3>2. CASE ~sends
      <4>1. out' = out /\ player' = player /\ player' \notin pushes
          BY <1>4, <1>5, <1>7, <1>9, <3>2 DEF sends
      <4>2. host'[player'] = host[player] /\ (player' \in told' <=> player \in told)
          BY <1>3, <2>1, <4>1
      <4> QED BY <2>2, <4>1, <4>2 DEF HostFollows, Built
    <3> QED BY <1>9, <3>1, <3>2
  <2>6. OneHand' BY <1>12, <2>4 DEF OneHand
  <2> QED BY <1>2, <2>3, <2>5, <2>6 DEF BleInv
<1> QED BY <1>13, <1>14

-----------------------------------------------------------------------------
(* The host and the callbacks: none of them touches the gamepads but by *)
(* letting the host go.                                                  *)

LEMMA AsideStep ==
    ASSUME BleInv, EventsInv', UNCHANGED <<chordVars, pads, host, told>>,
           Seen => Seen'
    PROVE  BleInv'
<1>1. IInv'
    BY DEF BleInv, chordVars, IInv, TypeOK, HistoryAgrees, OutAgrees,
           ReportCurrent, SentAgrees, Resolved
<1>2. UNCHANGED <<player, out>> BY DEF chordVars
<1>3. PadsInv' BY DEF BleInv, PadsInv
<1>4. OneHand' /\ HostFollows'
    BY <1>2 DEF BleInv, OneHand, HostFollows, Built
<1> QED BY <1>1, <1>3, <1>4 DEF BleInv

\* A list of one and one more.
LEMMA AppendOne ==
    ASSUME NEW a, NEW b
    PROVE  Append(<<a>>, b) = <<a, b>>
<1> DEFINE s == Append(<<a>>, b)
           t == <<a, b>>
<1>1. <<a>> \in Seq({a, b}) /\ t \in Seq({a, b}) OBVIOUS
<1>2. s \in Seq({a, b}) /\ Len(s) = 2 /\ s[1] = a /\ s[2] = b
  <2>1. Len(<<a>>) = 1 /\ <<a>>[1] = a OBVIOUS
  <2> QED BY <1>1, <2>1, AppendProperties
<1>3. Len(t) = 2 /\ t[1] = a /\ t[2] = b OBVIOUS
<1> HIDE DEF s, t
<1>4. s = t BY <1>1, <1>2, <1>3, SeqEqual
<1> QED BY <1>4 DEF s, t

LEMMA EventsStep ==
    ASSUME EventsInv, HostMoves \/ Bluedroid
    PROVE  EventsInv'
<1> USE DEF EventsInv, Radios
<1>1. ASSUME NEW ok \in BOOLEAN, HostConnects(ok) PROVE EventsInv'
    BY <1>1 DEF HostConnects
<1>2. CASE HostGoes
  <2>1. radio = "up" /\ radio' = "off" /\ link' = link
        /\ events' = Append(events, "disconnect")
      BY <1>2 DEF HostGoes
  <2>2. events' \in {<<"disconnect">>, <<"connect", "disconnect">>,
                     <<"refused", "disconnect">>}
    <3>1. CASE events = <<>> BY <2>1, <3>1
    <3>2. CASE events = <<"connect">>
      <4>1. events' = Append(<<"connect">>, "disconnect") BY <2>1, <3>2
      <4> QED BY <4>1, AppendOne, Zenon
    <3>3. CASE events = <<"refused">>
      <4>1. events' = Append(<<"refused">>, "disconnect") BY <2>1, <3>3
      <4> QED BY <4>1, AppendOne, Zenon
    <3> QED BY <2>1, <3>1, <3>2, <3>3
  <2> QED BY <2>1, <2>2
<1>3. CASE AdvDataSet BY <1>3 DEF AdvDataSet
<1>4. ASSUME NEW ok \in BOOLEAN, AdvStarted(ok) PROVE EventsInv'
    BY <1>4 DEF AdvStarted
<1>5. CASE Hidd
  <2>1. /\ events # <<>> /\ events' = Tail(events)
        /\ link' = CASE Head(events) = "connect" -> "connected"
                     [] Head(events) = "disconnect" -> "advertising"
                     [] OTHER -> link
        /\ radio' = CASE Head(events) = "start" -> "described"
                      [] Head(events) = "disconnect" -> "starting"
                      [] OTHER -> radio
      BY <1>5, Zenon DEF Hidd
  <2>2. radio \in {"up", "off"} BY <2>1
  <2>3. CASE events = <<"connect">>
    <3>1. link' = "connected" /\ radio' = radio /\ events' = <<>>
        BY <2>1, <2>3
    <3> QED BY <2>2, <3>1
  <2>4. CASE events = <<"refused">>
    <3>1. link' = link /\ radio' = radio /\ events' = <<>> BY <2>1, <2>4
    <3> QED BY <2>2, <3>1
  <2>5. CASE events = <<"start">>
    <3>1. link' = link /\ radio' = "described" /\ events' = <<>>
        BY <2>1, <2>5
    <3> QED BY <3>1
  <2>6. CASE events = <<"disconnect">>
    <3>1. link' = "advertising" /\ radio' = "starting" /\ events' = <<>>
        BY <2>1, <2>6
    <3> QED BY <3>1
  <2>7. CASE events = <<"connect", "disconnect">>
    <3>1. link' = "connected" /\ radio' = radio /\ events' = <<"disconnect">>
        BY <2>1, <2>7
    <3>2. radio = "off" BY <2>2, <2>7
    <3> QED BY <3>1, <3>2
  <2>8. CASE events = <<"refused", "disconnect">>
    <3>1. link' = link /\ radio' = radio /\ events' = <<"disconnect">>
        BY <2>1, <2>8
    <3>2. radio = "off" BY <2>2, <2>8
    <3> QED BY <3>1, <3>2
  <2> QED BY <2>1, <2>2, <2>3, <2>4, <2>5, <2>6, <2>7, <2>8
<1> QED BY <1>1, <1>2, <1>3, <1>4, <1>5 DEF HostMoves, Bluedroid

\* The host goes, and what its gamepads showed with it.
LEMMA HostGoesStep ==
    ASSUME BleInv, HostGoes
    PROVE  BleInv'
<1>1. EventsInv' BY EventsStep DEF BleInv, HostMoves
<1>2. /\ UNCHANGED <<chordVars, link, pads>> /\ radio' = "off"
      /\ host' = AllUp /\ told' = {}
    BY DEF HostGoes
<1>3. IInv'
    BY <1>2 DEF BleInv, chordVars, IInv, TypeOK, HistoryAgrees, OutAgrees,
           ReportCurrent, SentAgrees, Resolved
<1>4. player' = player /\ player \in Players
    BY <1>2 DEF chordVars, BleInv, IInv, TypeOK
<1>5. PadsInv' BY <1>2, AllUpOK DEF BleInv, PadsInv
<1>6. OneHand' /\ HostFollows'
    BY <1>2, <1>4, AllUpOK DEF BleInv, OneHand, HostFollows
<1> QED BY <1>1, <1>3, <1>5, <1>6 DEF BleInv

LEMMA BleStep ==
    ASSUME BleInv, [BleNext]_vars
    PROVE  BleInv'
<1> USE DEF Seen
<1>0. EventsInv BY DEF BleInv
<1>1. CASE Polls BY <1>1, BlePollStep DEF Polls
<1>2. CASE HostGoes BY <1>2, HostGoesStep
<1>3. ASSUME NEW ok \in BOOLEAN, HostConnects(ok) PROVE BleInv'
  <2>1. EventsInv' BY <1>0, <1>3, EventsStep DEF HostMoves
  <2>2. UNCHANGED <<chordVars, pads, host, told>> /\ ~Seen
      BY <1>3 DEF HostConnects
  <2> QED BY <2>1, <2>2, AsideStep
<1>4. CASE AdvDataSet
  <2>1. EventsInv' BY <1>0, <1>4, EventsStep DEF Bluedroid
  <2>2. UNCHANGED <<chordVars, pads, host, told>> /\ ~Seen
      BY <1>4 DEF AdvDataSet
  <2> QED BY <2>1, <2>2, AsideStep
<1>5. ASSUME NEW ok \in BOOLEAN, AdvStarted(ok) PROVE BleInv'
  <2>1. EventsInv' BY <1>0, <1>5, EventsStep DEF Bluedroid
  <2>2. UNCHANGED <<chordVars, pads, host, told>> /\ ~Seen
      BY <1>5 DEF AdvStarted
  <2> QED BY <2>1, <2>2, AsideStep
<1>6. CASE Hidd
  <2>1. EventsInv' BY <1>0, <1>6, EventsStep DEF Bluedroid
  <2>2. UNCHANGED <<chordVars, pads, host, told>> BY <1>6 DEF Hidd
  <2>3. Seen => Seen'
    <3> SUFFICES ASSUME Seen PROVE Seen'
        OBVIOUS
    <3>1. events \in {<<"connect">>, <<"refused">>}
        BY <1>0, <1>6 DEF EventsInv, Hidd
    <3>2. Head(events) \in {"connect", "refused"} BY <3>1
    <3>3. /\ link' = CASE Head(events) = "connect" -> "connected"
                       [] Head(events) = "disconnect" -> "advertising"
                       [] OTHER -> link
          /\ radio' = CASE Head(events) = "start" -> "described"
                        [] Head(events) = "disconnect" -> "starting"
                        [] OTHER -> radio
        BY <1>6, Zenon DEF Hidd
    <3> QED BY <3>2, <3>3
  <2> QED BY <2>1, <2>2, <2>3, AsideStep
<1>7. CASE UNCHANGED vars
  <2>1. UNCHANGED <<chordVars, link, radio, events, pads, host, told>>
      BY <1>7 DEF vars, bleVars
  <2>2. EventsInv' BY <1>0, <2>1 DEF EventsInv
  <2> QED BY <2>1, <2>2, AsideStep
<1> QED BY <1>1, <1>2, <1>3, <1>4, <1>5, <1>6, <1>7
        DEF BleNext, HostMoves, Bluedroid

-----------------------------------------------------------------------------
(* The theorems. *)

\* Every state of the transport satisfies the inductive invariant.
THEOREM BleInvHolds == BleSpec => []BleInv
<1>1. BleInit => BleInv BY BleInitInv
<1>2. BleInv /\ [BleNext]_vars => BleInv' BY BleStep
<1> QED BY <1>1, <1>2, PTL DEF BleSpec

\* Only the live player's gamepad ever has a button down, in the stick and at
\* the host.
THEOREM OneHandHolds == BleSpec => []OneHand
<1>1. BleInv => OneHand BY DEF BleInv
<1> QED BY <1>1, BleInvHolds, PTL

\* The host shows what the last poll came to, or nothing before its first report.
THEOREM HostFollowsHolds == BleSpec => []HostFollows
<1>1. BleInv => HostFollows BY DEF BleInv
<1> QED BY <1>1, BleInvHolds, PTL
=============================================================================
