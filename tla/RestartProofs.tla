---------------------------- MODULE RestartProofs ----------------------------
(***************************************************************************)
(* Proofs about what outlives a restart: what SleepWake keeps through deep *)
(* sleep, for boots, flushes and debounces of any length, and the bonds    *)
(* and the identity that Identity keeps in flash, for any hosts, factory   *)
(* address and number of forgets.                                          *)
(***************************************************************************)
EXTENDS SleepWake, Identity, TLAPS

-----------------------------------------------------------------------------
(* SleepWake. *)

Down == {"flushing", "asleep", "booting"}

\* What is remembered of the revision is the revision; only a guess of 2.0 can
\* be wrong.
RevInv ==
    /\ board.rtc \in {"none", real} /\ board.nvs \in {"none", real}
    /\ board.rev = "2.1" => real = "2.1"

\* Until an input moves the ULP's copy is what the buttons are, and an armed
\* charger is out.
StillInv ==
    ~hist.moved => /\ cpu.at \in Down => ulp = in.buttons
                   /\ cpu.at = "asleep" /\ ext1 => ~in.charging

\* Until Start goes down anew it is up, to the eye and to the ULP.
FreshInv ==
    cpu.at \in Down /\ ~hist.fresh /\ ~hist.held
        => ~ulp.start /\ ~in.buttons.start

\* On its way down the stick has no reason to be on.
WokeInv == cpu.at \in Down \cup {"draining"} => woke = "none"

SleepInv == /\ SleepTypeOK /\ RevInv /\ StillInv /\ FreshInv /\ WokeInv
            /\ WakesForCause

-----------------------------------------------------------------------------
\* A probe finds the revision, remembers it, or guesses 2.0.
LEMMA ProbedOK ==
    ASSUME SleepTypeOK, NEW rtc \in {"none", real},
           board.nvs \in {"none", real}, board.rtc \in {"none", real}
    PROVE  LET b == Probed([board EXCEPT !.rtc = rtc])
           IN  /\ b \in [rev : Revs, rtc : Revs \cup {"none"}, nvs : Revs \cup {"none"}]
               /\ b.rtc \in {"none", real} /\ b.nvs \in {"none", real}
               /\ b.rev = "2.1" => real = "2.1"
BY DEF Probed, SleepTypeOK, Revs

LEMMA ProbedAsIs ==
    ASSUME SleepTypeOK
    PROVE  [board EXCEPT !.rtc = board.rtc] = board
BY DEF SleepTypeOK

LEMMA SleepInitInv == SleepInit => SleepInv
<1> SUFFICES ASSUME SleepInit PROVE SleepInv
    OBVIOUS
<1>1. /\ board \in [rev : Revs, rtc : Revs \cup {"none"}, nvs : Revs \cup {"none"}]
      /\ RevInv
    BY DEF SleepInit, Probed, RevInv, Revs
<1>2. cpu = [at |-> "awake", left |-> 0, released |-> 0] BY DEF SleepInit, At
<1>3. cpu \in [at : Places, left : Nat, released : 0..Debounce]
    BY <1>2, SleepAssumption DEF Places
<1>4. SleepTypeOK BY <1>1, <1>3 DEF SleepInit, SleepTypeOK, Pads
<1>5. StillInv /\ FreshInv /\ WokeInv /\ WakesForCause
    BY <1>2 DEF SleepInit, StillInv, FreshInv, WokeInv, WakesForCause, Down
<1> QED BY <1>1, <1>4, <1>5 DEF SleepInv

LEMMA SleepTypeStep ==
    ASSUME SleepInv, SleepNext
    PROVE  SleepTypeOK' /\ RevInv'
<1> USE DEF SleepInv, SleepTypeOK
<1>n. BootTicks \in Nat /\ FlushTicks \in Nat /\ DrainMax \in Nat
      /\ Debounce \in Nat /\ Debounce > 0
    BY SleepAssumption
<1>r. UNCHANGED <<real, board>> => RevInv' BY DEF RevInv
<1>a. \A n \in Nat : \A p \in Places : At(p, n) \in [at : Places, left : Nat, released : 0..Debounce]
    BY <1>n DEF At
<1>b. in.buttons \in Buttons BY DEF Pads
<1>1. ASSUME NEW b \in Buttons, MoveButtons(b) PROVE SleepTypeOK' /\ RevInv'
  <2>1. in' \in Pads BY <1>1 DEF MoveButtons, Pads
  <2>2. hist' \in [moved : BOOLEAN, fresh : BOOLEAN, held : BOOLEAN]
      BY <1>1, <1>b DEF MoveButtons, Buttons
  <2>3. UNCHANGED <<real, cpu, ulp, ext1, cause, board, woke>>
      BY <1>1 DEF MoveButtons
  <2> QED BY <1>r, <2>1, <2>2, <2>3
<1>2. CASE MoveCharger BY <1>2, <1>r DEF MoveCharger, Pads
<1>3. CASE EnterSleep
  <2>1. cpu' \in [at : Places, left : Nat, released : 0..Debounce]
      BY <1>3, <1>a, <1>n DEF EnterSleep, Places
  <2> QED BY <1>3, <1>r, <2>1 DEF EnterSleep
<1>4. CASE DrainRead
  <2>1. cpu' \in [at : Places, left : Nat, released : 0..Debounce]
    <3>1. CASE Drained(cpu, ~in.buttons.start)
        BY <1>4, <1>a, <1>n, <3>1 DEF DrainRead, Armed, Places
    <3>2. CASE ~Drained(cpu, ~in.buttons.start)
      <4>1. cpu' = [cpu EXCEPT !.left = IF @ > 0 THEN @ - 1 ELSE 0,
                               !.released = IF ~in.buttons.start THEN @ + 1 ELSE 0]
          BY <1>4, <3>2 DEF DrainRead
      <4>2. ~in.buttons.start => cpu.released + 1 < Debounce
          BY <1>n, <3>2 DEF Drained
      <4> DEFINE left     == IF cpu.left > 0 THEN cpu.left - 1 ELSE 0
                 released == IF ~in.buttons.start THEN cpu.released + 1 ELSE 0
      <4>3. cpu' = [at |-> cpu.at, left |-> left, released |-> released]
          BY <4>1
      <4>4. left \in Nat /\ released \in 0..Debounce
        <5>1. cpu.left \in Nat /\ cpu.released \in 0..Debounce OBVIOUS
        <5> QED BY <1>n, <4>2, <5>1
      <4> HIDE DEF left, released
      <4> QED BY <4>3, <4>4
    <3> QED BY <3>1, <3>2
  <2>2. ulp' \in Buttons /\ hist' \in [moved : BOOLEAN, fresh : BOOLEAN, held : BOOLEAN]
    <3>1. CASE Drained(cpu, ~in.buttons.start)
      <4>1. ulp' = in.buttons BY <1>4, <3>1 DEF DrainRead, Armed
      <4>2. hist' = [moved |-> FALSE, fresh |-> FALSE, held |-> cpu.left = 0]
          BY <1>4, <3>1 DEF DrainRead
      <4> QED BY <1>b, <4>1, <4>2, Zenon
    <3>2. CASE ~Drained(cpu, ~in.buttons.start)
        BY <1>4, <3>2 DEF DrainRead
    <3> QED BY <3>1, <3>2
  <2> QED BY <1>4, <1>r, <2>1, <2>2 DEF DrainRead
<1>5. CASE UlpPoll
  <2>1. cpu' \in [at : Places, left : Nat, released : 0..Debounce]
      BY <1>5, <1>a, <1>n DEF UlpPoll, Places
  <2> QED BY <1>5, <1>b, <1>r, <2>1 DEF UlpPoll, Published
<1>6. CASE DeepSleep
  <2>1. cpu' \in [at : Places, left : Nat, released : 0..Debounce]
      BY <1>6, <1>a DEF DeepSleep, Places
  <2>2. ext1' \in BOOLEAN BY <1>6 DEF DeepSleep, Arms, Capable
  <2> QED BY <1>6, <1>r, <2>1, <2>2 DEF DeepSleep
<1>7. CASE Ext1Wakes
  <2>1. cpu' \in [at : Places, left : Nat, released : 0..Debounce]
      BY <1>7, <1>a, <1>n DEF Ext1Wakes, Places
  <2> QED BY <1>7, <1>r, <2>1 DEF Ext1Wakes
<1>8. CASE HandleWake
  <2>1. cpu' \in [at : Places, left : Nat, released : 0..Debounce]
    <3>1. cpu' = At("awake", 0) \/ cpu' = At("flushing", FlushTicks)
        BY <1>8 DEF HandleWake, Armed
    <3>2. "awake" \in Places /\ "flushing" \in Places BY DEF Places
    <3>3. At("awake", 0) \in [at : Places, left : Nat, released : 0..Debounce]
        BY <1>a, <3>2
    <3>4. At("flushing", FlushTicks) \in [at : Places, left : Nat, released : 0..Debounce]
        BY <1>a, <1>n, <3>2
    <3> QED BY <3>1, <3>3, <3>4
  <2>2. /\ board' \in [rev : Revs, rtc : Revs \cup {"none"}, nvs : Revs \cup {"none"}]
        /\ RevInv'
    <3>1. board' = Probed([board EXCEPT !.rtc = board.rtc]) /\ real' = real
        BY <1>8, ProbedAsIs DEF HandleWake
    <3> QED BY <3>1, ProbedOK DEF RevInv
  <2>3. ulp' \in Buttons /\ woke' \in {"none", "reset", "start", "charger"}
      BY <1>8, <1>b DEF HandleWake, Armed
  <2> QED BY <1>8, <2>1, <2>2, <2>3 DEF HandleWake
<1>9. CASE ResetCpu
  <2>1. cpu' \in [at : Places, left : Nat, released : 0..Debounce]
      BY <1>9, <1>a DEF ResetCpu, Places
  <2>2. /\ board' \in [rev : Revs, rtc : Revs \cup {"none"}, nvs : Revs \cup {"none"}]
        /\ RevInv'
      BY <1>9, ProbedOK DEF ResetCpu, RevInv
  <2> QED BY <1>9, <2>1, <2>2 DEF ResetCpu
<1> QED BY <1>1, <1>2, <1>3, <1>4, <1>5, <1>6, <1>7, <1>8, <1>9
        DEF SleepNext, World, Asked, Soc

LEMMA SleepCauseStep ==
    ASSUME SleepInv, SleepNext
    PROVE  (StillInv /\ FreshInv /\ WokeInv /\ WakesForCause)'
<1> DEFINE Goal == StillInv /\ FreshInv /\ WokeInv /\ WakesForCause
<1> USE DEF SleepInv, SleepTypeOK, StillInv, FreshInv, WokeInv, WakesForCause, Down
<1>1. ASSUME NEW b \in Buttons, MoveButtons(b) PROVE Goal'
    BY <1>1 DEF MoveButtons, Pads, Buttons
<1>2. CASE MoveCharger BY <1>2 DEF MoveCharger, Pads
<1>3. CASE EnterSleep BY <1>3 DEF EnterSleep, At
<1>4. CASE DrainRead
  <2>1. CASE Drained(cpu, ~in.buttons.start)
    <3>1. /\ ulp' = in.buttons /\ cpu'.at = "flushing" /\ UNCHANGED <<in, woke>>
          /\ hist' = [moved |-> FALSE, fresh |-> FALSE, held |-> cpu.left = 0]
          /\ cpu.at = "draining"
        BY <1>4, <2>1 DEF DrainRead, Armed, At
    <3>2. cpu.left = 0 \/ ~in.buttons.start BY <2>1 DEF Drained
    <3>3. hist'.held <=> cpu.left = 0 BY <3>1
    <3> QED BY <3>1, <3>2, <3>3
  <2>2. CASE ~Drained(cpu, ~in.buttons.start)
    <3>1. /\ cpu'.at = "draining" /\ cpu.at = "draining"
          /\ UNCHANGED <<in, ulp, ext1, hist, woke>>
        BY <1>4, <2>2 DEF DrainRead
    <3> QED BY <3>1
  <2> QED BY <2>1, <2>2
<1>5. CASE UlpPoll
  <2>1. /\ ulp' = in.buttons /\ cpu.at \in Down
        /\ UNCHANGED <<in, ext1, woke, hist>>
      BY <1>5 DEF UlpPoll, Published
  <2>2. \/ cpu'.at = cpu.at
        \/ cpu'.at = "booting" /\ ulp # in.buttons
      BY <1>5 DEF UlpPoll, At
  <2> QED BY <2>1, <2>2
<1>6. CASE DeepSleep
  <2>1. /\ cpu.at = "flushing" /\ cpu'.at = "asleep" /\ ext1' = Arms(board)
        /\ UNCHANGED <<in, ulp, woke, hist>>
      BY <1>6 DEF DeepSleep, At
  <2>2. Arms(board) => ~in.charging BY DEF Arms, Capable, IsCharging, RevInv
  <2> QED BY <2>1, <2>2
<1>7. CASE Ext1Wakes
  <2>1. /\ cpu.at = "asleep" /\ cpu'.at = "booting" /\ ext1 /\ in.charging
        /\ UNCHANGED <<in, ulp, woke, hist, ext1>>
      BY <1>7 DEF Ext1Wakes, At
  <2> QED BY <2>1
<1>8. CASE HandleWake
  <2>1. cpu.at = "booting" /\ hist.moved /\ UNCHANGED <<in, hist>>
      BY <1>8 DEF HandleWake
  <2>2. CASE cpu'.at = "awake"
    <3>1. woke' = "start" => ulp.start
        BY <1>8, <2>1, <2>2 DEF HandleWake, Armed, At
    <3> QED BY <2>1, <2>2, <3>1
  <2>3. CASE cpu'.at # "awake"
    <3>1. cpu'.at = "flushing" /\ ulp' = in.buttons /\ woke' = woke
        BY <1>8, <2>3 DEF HandleWake, Armed, At
    <3> QED BY <2>1, <3>1
  <2> QED BY <2>2, <2>3
<1>9. CASE ResetCpu BY <1>9 DEF ResetCpu, At
<1> QED BY <1>1, <1>2, <1>3, <1>4, <1>5, <1>6, <1>7, <1>8, <1>9
        DEF SleepNext, World, Asked, Soc

LEMMA SleepInvStep == SleepInv /\ [SleepNext]_sleepVars => SleepInv'
<1>1. SleepInv /\ SleepNext => SleepInv'
    BY SleepTypeStep, SleepCauseStep DEF SleepInv
<1>2. SleepInv /\ UNCHANGED sleepVars => SleepInv'
    BY DEF sleepVars, SleepInv, SleepTypeOK, RevInv, StillInv, FreshInv, WokeInv, WakesForCause
<1> QED BY <1>1, <1>2

THEOREM SleepInvHolds == SleepSpec => []SleepInv
BY SleepInitInv, SleepInvStep, PTL DEF SleepSpec

\* Type correctness of the way to sleep and back.
THEOREM SleepTypes == SleepSpec => []SleepTypeOK
BY SleepInvHolds, PTL DEF SleepInv

\* No wake without a cause, whatever the lengths of boots and windows: neither
\* of itself nor for the hold that put the stick to sleep.
THEOREM WakeHasCause == SleepSpec => []WakesForCause
BY SleepInvHolds, PTL DEF SleepInv

-----------------------------------------------------------------------------
(* Identity. *)

\* The generation counts the forgets, and there is room for the one under way.
GenInv ==
    /\ flash.gen = used
    /\ forget \in {"btstack", "bluedroid", "bump"} => used < MaxForgets
    /\ forget = "restart" => used > 0

\* The boot is at the address of its generation, which a forget that is about
\* to restart has moved on from.
AddrInv == addr = Address(mode, IF forget = "restart" THEN used - 1 ELSE used)

\* A host knows an address of a generation that was; an outcast, of one before
\* the last forget.
KnowsInv ==
    /\ \A h \in Hosts : \A t \in Transports :
          \/ knows[h][t] = Nobody
          \/ \E g \in 0..used : knows[h][t] = Address(t, g)
    /\ \A t \in Transports : \A h \in outcast[t] :
          \E g \in 0..used : g < used /\ knows[h][t] = Address(t, g)

\* A forget under way leaves no bond it does not answer for: Classic's are
\* erased and BLE's asked for, but those of hosts that pair meanwhile.
ClearedInv ==
    /\ forget = "btstack" => mode # "config"
    /\ forget \in {"bluedroid", "bump"} /\ mode # "config"
            => bonds["classic"] \subseteq excused["classic"]
    /\ forget = "bump" /\ BluedroidUp
            => bonds["ble"] \subseteq queued \cup excused["ble"]

IdentityInv == /\ IdentityTypeOK /\ GenInv /\ AddrInv /\ KnowsInv
               /\ ClearedInv /\ BondsHonoured

-----------------------------------------------------------------------------
(* Addresses. *)

\* The two that is added for Classic does not bring addresses together.
LEMMA PlusTwo ==
    ASSUME NEW n \in Nat \ {0}, NEW x \in 0..(n - 1), NEW y \in 0..(n - 1),
           (x + 2) % n = (y + 2) % n
    PROVE  x = y
OBVIOUS

LEMMA GensOK ==
    /\ Gens \in Nat /\ Gens > 0 /\ Mac5 \in 0..(Gens - 1)
    /\ MaxForgets \in Nat /\ MaxForgets < Gens
BY IdentityAssumption

LEMMA RotatedOK ==
    ASSUME NEW g \in 0..(Gens - 1)
    PROVE  /\ Rotated(g) \in 0..(Gens - 1)
           /\ \A k \in 0..(Gens - 1) : Rotated(g) = Rotated(k) => g = k
BY XorAssumption, GensOK DEF Rotated

LEMMA AddressOK ==
    ASSUME NEW m \in Modes, NEW g \in 0..(Gens - 1)
    PROVE  Address(m, g) \in Addresses /\ Address(m, g) # Nobody
<1>1. Address(m, g).low \in 0..(Gens - 1) /\ Address(m, g).kind = m
  <2>1. Rotated(g) \in 0..(Gens - 1) BY RotatedOK
  <2>2. \A x \in Nat : (x + 2) % Gens \in 0..(Gens - 1) BY GensOK
  <2>3. Mac5 \in Nat /\ Rotated(g) \in Nat BY GensOK, <2>1
  <2> QED BY <2>1, <2>2, <2>3 DEF Address, Modes, Transports
<1>2. Address(m, g) = [kind |-> m, low |-> Address(m, g).low]
  <2> DEFINE l == CASE m = "classic" -> (Rotated(g) + 2) % Gens
                    [] m = "ble" -> Rotated(g)
                    [] m = "config" -> (Mac5 + 2) % Gens
  <2>1. Address(m, g) = [kind |-> m, low |-> l] BY DEF Address
  <2> HIDE DEF l
  <2> QED BY <2>1
<1>3. Address(m, g) \in [kind : Modes, low : 0..(Gens - 1)] BY <1>1, <1>2
<1>4. m # "none" BY DEF Modes, Transports
<1> QED BY <1>1, <1>3, <1>4 DEF Addresses, Nobody

\* No two generations share an address.
LEMMA AddressOnce ==
    ASSUME NEW t \in Transports, NEW g \in 0..(Gens - 1),
           NEW k \in 0..(Gens - 1), Address(t, g) = Address(t, k)
    PROVE  g = k
<1>1. Rotated(g) \in 0..(Gens - 1) /\ Rotated(k) \in 0..(Gens - 1)
    BY RotatedOK
<1>2. Address(t, g).low = Address(t, k).low OBVIOUS
<1>3. CASE t = "classic"
  <2>1. (Rotated(g) + 2) % Gens = (Rotated(k) + 2) % Gens
      BY <1>2, <1>3 DEF Address
  <2>2. Gens \in Nat \ {0} BY GensOK
  <2>3. Rotated(g) = Rotated(k) BY <1>1, <2>1, <2>2, PlusTwo
  <2> QED BY <2>3, RotatedOK
<1>4. CASE t = "ble"
  <2>1. Rotated(g) = Rotated(k) BY <1>2, <1>4 DEF Address
  <2> QED BY <2>1, RotatedOK
<1> QED BY <1>3, <1>4 DEF Transports

-----------------------------------------------------------------------------
(* The steps. *)

LEMMA IdentityInitInv ==
    ASSUME IdentityInit
    PROVE  IdentityInv
<1>1. /\ used = 0 /\ forget = "no" /\ mode = "classic" /\ mode \in Modes
      /\ 0 \in 0..(Gens - 1)
    BY GensOK DEF IdentityInit, Modes, Transports
<1>2. addr = Address(mode, 0) /\ flash = [transport |-> "classic", gen |-> 0]
    BY DEF IdentityInit
<1>3. /\ knows = [h \in Hosts |-> [t \in Transports |-> Nobody]]
      /\ bonds = [t \in Transports |-> {}]
      /\ outcast = [t \in Transports |-> {}] /\ queued = {}
      /\ excused = [t \in Transports |-> {}]
    BY DEF IdentityInit
<1>4. IdentityTypeOK
  <2>1. addr \in Addresses BY <1>1, <1>2, AddressOK
  <2>2. knows \in [Hosts -> [Transports -> Addresses]]
      BY <1>3 DEF Addresses
  <2>3. flash \in [transport : Transports, gen : 0..(Gens - 1)]
      BY <1>1, <1>2 DEF Transports
  <2>4. used \in 0..MaxForgets BY <1>1, GensOK
  <2> QED BY <1>1, <1>3, <2>1, <2>2, <2>3, <2>4 DEF IdentityTypeOK
<1>5. GenInv /\ AddrInv /\ ClearedInv BY <1>1, <1>2 DEF GenInv, AddrInv, ClearedInv
<1>6. KnowsInv /\ BondsHonoured BY <1>3 DEF KnowsInv, BondsHonoured
<1> QED BY <1>4, <1>5, <1>6 DEF IdentityInv

\* The address that goes with what is stored.
LEMMA StoredAddress ==
    ASSUME IdentityInv, NEW m \in Modes
    PROVE  /\ used \in 0..(Gens - 1) /\ flash.gen = used
           /\ Address(m, used) \in Addresses
<1>1. used \in 0..MaxForgets /\ flash.gen = used
    BY DEF IdentityInv, IdentityTypeOK, GenInv
<1>2. used \in 0..(Gens - 1) BY <1>1, GensOK
<1> QED BY <1>1, <1>2, AddressOK

LEMMA RestartedInv ==
    ASSUME IdentityInv, NEW m \in Modes, Restarted(m)
    PROVE  IdentityInv'
<1>1. /\ mode' = m /\ addr' = Address(m, flash.gen) /\ forget' = "no"
      /\ queued' = {}
      /\ UNCHANGED <<flash, bonds, knows, used, outcast, excused>>
    BY DEF Restarted
<1>2. addr' = Address(m, used) /\ addr' \in Addresses
    BY <1>1, StoredAddress
<1>3. IdentityTypeOK' BY <1>1, <1>2 DEF IdentityInv, IdentityTypeOK
<1>4. GenInv' /\ AddrInv' /\ ClearedInv'
    BY <1>1, <1>2 DEF IdentityInv, GenInv, AddrInv, ClearedInv
<1>5. KnowsInv' BY <1>1 DEF IdentityInv, KnowsInv
<1>6. BondsHonoured' BY <1>1 DEF IdentityInv, BondsHonoured
<1> QED BY <1>3, <1>4, <1>5, <1>6 DEF IdentityInv

LEMMA SetTransportInv ==
    ASSUME IdentityInv, NEW t \in Transports, SetTransport(t)
    PROVE  IdentityInv'
<1>1. /\ flash' = [flash EXCEPT !.transport = t]
      /\ UNCHANGED
            <<bonds, mode, addr, forget, queued, knows, used, outcast, excused>>
    BY DEF SetTransport
<1>2. /\ flash' \in [transport : Transports, gen : 0..(Gens - 1)]
      /\ flash'.gen = flash.gen
    BY <1>1 DEF IdentityInv, IdentityTypeOK
<1>3. IdentityTypeOK' BY <1>1, <1>2 DEF IdentityInv, IdentityTypeOK
<1>4. GenInv' /\ AddrInv' /\ ClearedInv' /\ KnowsInv'
    BY <1>1, <1>2 DEF IdentityInv, GenInv, AddrInv, ClearedInv, KnowsInv,
                      BluedroidUp
<1>5. BondsHonoured' BY <1>1, <1>2 DEF IdentityInv, BondsHonoured
<1> QED BY <1>3, <1>4, <1>5 DEF IdentityInv

\* The address of this boot is of a generation that was.
LEMMA AddrKnown ==
    ASSUME IdentityInv, mode \in Transports
    PROVE  /\ \E g \in 0..used : addr = Address(mode, g)
           /\ forget = "no" => addr = Address(mode, flash.gen)
<1>1. used \in Nat BY GensOK DEF IdentityInv, IdentityTypeOK
<1>2. CASE forget = "restart"
  <2>1. used - 1 \in 0..used /\ addr = Address(mode, used - 1)
      BY <1>1, <1>2 DEF IdentityInv, GenInv, AddrInv
  <2> QED BY <1>2, <2>1
<1>3. CASE forget # "restart"
  <2>1. used \in 0..used /\ addr = Address(mode, used) /\ flash.gen = used
      BY <1>1, <1>3 DEF IdentityInv, GenInv, AddrInv
  <2> QED BY <2>1
<1> QED BY <1>2, <1>3

LEMMA PairKeepsInv ==
    ASSUME IdentityInv, NEW h \in Hosts, Pair(h)
    PROVE  IdentityInv'
<1>1. /\ mode \in Transports
      /\ bonds' = [bonds EXCEPT ![mode] = @ \cup {h}]
      /\ knows' = [knows EXCEPT ![h][mode] = addr]
      /\ outcast' = [outcast EXCEPT ![mode] = @ \ {h}]
      /\ excused' = [excused EXCEPT
            ![mode] = IF forget = "no" THEN @ \ {h} ELSE @ \cup {h}]
      /\ UNCHANGED <<flash, mode, addr, forget, queued, used>>
    BY DEF Pair
<1>2. /\ bonds \in [Transports -> SUBSET Hosts]
      /\ knows \in [Hosts -> [Transports -> Addresses]]
      /\ outcast \in [Transports -> SUBSET Hosts] /\ addr \in Addresses
      /\ excused \in [Transports -> SUBSET Hosts] /\ queued \subseteq Hosts
    BY DEF IdentityInv, IdentityTypeOK
<1>3. /\ \A g \in Hosts : \A t \in Transports :
            knows'[g][t] = IF g = h /\ t = mode THEN addr ELSE knows[g][t]
      /\ \A t \in Transports :
            bonds'[t] = IF t = mode THEN bonds[t] \cup {h} ELSE bonds[t]
      /\ \A t \in Transports :
            outcast'[t] = IF t = mode THEN outcast[t] \ {h} ELSE outcast[t]
      /\ \A t \in Transports :
            excused'[t] = IF t # mode THEN excused[t]
                          ELSE IF forget = "no" THEN excused[t] \ {h}
                          ELSE excused[t] \cup {h}
    BY <1>1, <1>2
<1>4. IdentityTypeOK'
  <2>1. bonds' \in [Transports -> SUBSET Hosts] BY <1>1, <1>2
  <2>2. knows' \in [Hosts -> [Transports -> Addresses]] BY <1>1, <1>2
  <2>3. outcast' \in [Transports -> SUBSET Hosts] BY <1>1, <1>2
  <2>4. excused' \in [Transports -> SUBSET Hosts] BY <1>1, <1>2
  <2> QED BY <1>1, <2>1, <2>2, <2>3, <2>4 DEF IdentityInv, IdentityTypeOK
<1>5. GenInv' /\ AddrInv' BY <1>1 DEF IdentityInv, GenInv, AddrInv
<1>6. KnowsInv'
  <2>1. PICK k \in 0..used : addr = Address(mode, k) BY <1>1, AddrKnown
  <2>2. ASSUME NEW g \in Hosts, NEW t \in Transports
        PROVE  \/ knows'[g][t] = Nobody
               \/ \E i \in 0..used : knows'[g][t] = Address(t, i)
      BY <1>3, <2>1 DEF IdentityInv, KnowsInv
  <2>3. ASSUME NEW t \in Transports, NEW g \in outcast'[t]
        PROVE  \E i \in 0..used : i < used /\ knows'[g][t] = Address(t, i)
    <3>1. g \in outcast[t] /\ ~(g = h /\ t = mode) BY <1>3, <2>3
    <3>2. g \in Hosts BY <1>2, <3>1
    <3>3. knows'[g][t] = knows[g][t] BY <1>3, <3>1, <3>2
    <3> QED BY <3>1, <3>3 DEF IdentityInv, KnowsInv
  <2> QED BY <1>1, <2>2, <2>3 DEF KnowsInv
<1>7. ClearedInv'
  <2>1. ASSUME forget # "no", NEW t \in Transports, NEW S,
               bonds[t] \subseteq S \cup excused[t]
        PROVE  bonds'[t] \subseteq S \cup excused'[t]
      BY <1>3, <2>1
  <2>2. ASSUME forget # "no", NEW t \in Transports, bonds[t] \subseteq excused[t]
        PROVE  bonds'[t] \subseteq excused'[t]
      BY <1>3, <2>2
  <2>3. "classic" \in Transports /\ "ble" \in Transports BY DEF Transports
  <2> QED BY <1>1, <2>1, <2>2, <2>3 DEF IdentityInv, ClearedInv, BluedroidUp
<1>8. BondsHonoured'
  <2>1. ASSUME NEW t \in Transports, NEW g \in bonds'[t] \ excused'[t]
        PROVE  knows'[g][t] = Address(t, flash'.gen)
    <3>1. flash' = flash BY <1>1
    <3>2. CASE t = mode /\ g = h
      <4>1. knows'[g][t] = addr BY <1>3, <3>2
      <4>2. forget = "no" BY <1>3, <2>1, <3>2
      <4>3. addr = Address(mode, flash.gen) BY <1>1, <4>2, AddrKnown
      <4> QED BY <3>1, <3>2, <4>1, <4>3
    <3>3. CASE ~(t = mode /\ g = h)
      <4>1. g \in bonds[t] \ excused[t]
        <5>1. CASE t = mode
          <6>1. g \in bonds[t] BY <1>3, <2>1, <3>3, <5>1
          <6>2. g \notin excused[t] BY <1>3, <2>1, <3>3, <5>1
          <6> QED BY <6>1, <6>2
        <5>2. CASE t # mode BY <1>3, <2>1, <5>2
        <5> QED BY <5>1, <5>2
      <4>2. g \in Hosts BY <1>2, <4>1
      <4>3. knows'[g][t] = knows[g][t] BY <1>3, <3>3, <4>2
      <4> QED BY <3>1, <4>1, <4>3 DEF IdentityInv, BondsHonoured
    <3> QED BY <3>2, <3>3
  <2> QED BY <2>1 DEF BondsHonoured
<1> QED BY <1>4, <1>5, <1>6, <1>7, <1>8 DEF IdentityInv

LEMMA ForgetStepsInv ==
    ASSUME IdentityInv,
           \/ StartForget \/ ClearBTstack \/ QueueRemovals
           \/ \E h \in Hosts : RemoveBond(h)
    PROVE  IdentityInv'
<1>1. UNCHANGED <<flash, mode, addr, knows, used, outcast>>
    BY DEF StartForget, ClearBTstack, QueueRemovals, RemoveBond
<1>2. /\ bonds \in [Transports -> SUBSET Hosts]
      /\ excused \in [Transports -> SUBSET Hosts]
      /\ queued \subseteq Hosts
      /\ "classic" \in Transports /\ "ble" \in Transports
    BY DEF IdentityInv, IdentityTypeOK, Transports
<1> DEFINE Kept ==
      /\ bonds' \in [Transports -> SUBSET Hosts]
      /\ excused' \in [Transports -> SUBSET Hosts]
      /\ queued' \subseteq Hosts
      /\ \A t \in Transports :
            bonds'[t] \ excused'[t] \subseteq bonds[t] \ excused[t]
<1>k. Kept
  <2>1. CASE StartForget BY <1>2, <2>1 DEF StartForget
  <2>2. CASE ClearBTstack BY <1>2, <2>2 DEF ClearBTstack
  <2>3. CASE QueueRemovals BY <1>2, <2>3 DEF QueueRemovals
  <2>4. ASSUME NEW h \in Hosts, RemoveBond(h) PROVE Kept
      BY <1>2, <2>4 DEF RemoveBond
  <2> QED BY <2>1, <2>2, <2>3, <2>4
<1>3. IdentityTypeOK'
  <2>1. forget' \in {"no", "btstack", "bluedroid", "bump", "restart"}
      BY DEF StartForget, First, ClearBTstack, QueueRemovals, RemoveBond,
             IdentityInv, IdentityTypeOK
  <2> QED BY <1>1, <1>k, <2>1 DEF IdentityInv, IdentityTypeOK
<1>4. GenInv' /\ AddrInv'
  <2>1. /\ forget' = "restart" <=> forget = "restart"
        /\ \/ forget' = forget
           \/ used < MaxForgets
      BY DEF StartForget, First, ClearBTstack, QueueRemovals, RemoveBond,
             IdentityInv, GenInv
  <2>2. GenInv' BY <1>1, <2>1 DEF IdentityInv, GenInv
  <2>3. AddrInv' BY <1>1, <2>1 DEF IdentityInv, AddrInv
  <2> QED BY <2>2, <2>3
<1>5. KnowsInv' BY <1>1 DEF IdentityInv, KnowsInv
<1>6. ClearedInv'
  <2>1. CASE StartForget BY <2>1 DEF StartForget, First, ClearedInv
  <2>2. CASE ClearBTstack
    <3>1. bonds'["classic"] = {} BY <1>2, <2>2 DEF ClearBTstack
    <3> QED BY <2>2, <3>1 DEF ClearBTstack, ClearedInv
  <2>3. CASE QueueRemovals
      BY <2>3 DEF QueueRemovals, BluedroidUp, IdentityInv, ClearedInv
  <2>4. ASSUME NEW h \in Hosts, RemoveBond(h) PROVE ClearedInv'
    <3>1. /\ bonds'["classic"] = bonds["classic"]
          /\ excused'["classic"] = excused["classic"]
          /\ bonds'["ble"] = bonds["ble"] \ {h}
          /\ excused'["ble"] = excused["ble"] \ {h}
          /\ queued' = queued \ {h}
        BY <1>2, <2>4 DEF RemoveBond
    <3>2. mode' = mode /\ forget' = forget BY <2>4 DEF RemoveBond
    <3> QED BY <3>1, <3>2 DEF IdentityInv, ClearedInv, BluedroidUp
  <2> QED BY <2>1, <2>2, <2>3, <2>4
<1>7. BondsHonoured' BY <1>1, <1>k DEF IdentityInv, BondsHonoured
<1> QED BY <1>3, <1>4, <1>5, <1>6, <1>7 DEF IdentityInv

LEMMA BumpInv ==
    ASSUME IdentityInv, Bump
    PROVE  IdentityInv'
<1>1. /\ forget = "bump" /\ forget' = "restart"
      /\ flash' = [flash EXCEPT !.gen = (@ + 1) % Gens]
      /\ used' = used + 1
      /\ outcast' = [t \in Transports |-> {h \in Hosts : knows[h][t] # Nobody}]
      /\ excused' = [t \in Transports |-> excused[t] \cup LeftBehind(t)]
      /\ UNCHANGED <<bonds, mode, addr, queued, knows>>
    BY DEF Bump
<1>2. /\ used \in Nat /\ used < MaxForgets /\ flash.gen = used
      /\ flash \in [transport : Transports, gen : 0..(Gens - 1)]
      /\ mode \in Modes
    BY <1>1, GensOK DEF IdentityInv, IdentityTypeOK, GenInv
<1>3. used + 1 \in 0..MaxForgets /\ (used + 1) % Gens = used + 1
  <2>1. used + 1 \in Nat /\ used + 1 < Gens BY <1>2, GensOK
  <2>2. \A n \in Nat : \A m \in Nat : n < m => n % m = n OBVIOUS
  <2> QED BY <1>2, <2>1, <2>2, GensOK
<1>4. flash' = [flash EXCEPT !.gen = used + 1] /\ flash'.gen = used'
    BY <1>1, <1>2, <1>3
<1>5. /\ excused' \in [Transports -> SUBSET Hosts]
      /\ \A t \in Transports : bonds[t] \subseteq excused'[t]
  <2>1. /\ bonds \in [Transports -> SUBSET Hosts] /\ queued \subseteq Hosts
        /\ excused \in [Transports -> SUBSET Hosts]
      BY DEF IdentityInv, IdentityTypeOK
  <2>2. \A t \in Transports : LeftBehind(t) \subseteq Hosts
      BY <2>1 DEF LeftBehind, Transports
  <2>3. bonds["classic"] \subseteq excused["classic"] \cup LeftBehind("classic")
      BY <1>1, <1>2 DEF LeftBehind, IdentityInv, ClearedInv, Modes, Transports
  <2>4. bonds["ble"] \subseteq excused["ble"] \cup LeftBehind("ble")
      BY <1>1 DEF LeftBehind, IdentityInv, ClearedInv
  <2> QED BY <1>1, <2>1, <2>2, <2>3, <2>4 DEF Transports
<1>6. IdentityTypeOK'
  <2>1. used + 1 \in 0..(Gens - 1) BY <1>2, GensOK
  <2>2. flash' \in [transport : Transports, gen : 0..(Gens - 1)]
      BY <1>2, <1>4, <2>1
  <2>3. outcast' \in [Transports -> SUBSET Hosts] BY <1>1
  <2> QED BY <1>1, <1>3, <1>5, <2>2, <2>3 DEF IdentityInv, IdentityTypeOK
<1>7. GenInv' BY <1>1, <1>2, <1>4 DEF GenInv
<1>8. AddrInv'
  <2>1. addr' = Address(mode', used) BY <1>1 DEF IdentityInv, AddrInv
  <2>2. used' - 1 = used BY <1>1, <1>2
  <2> QED BY <1>1, <2>1, <2>2 DEF AddrInv
<1>9. KnowsInv'
  <2>1. \A g \in 0..used : g \in 0..used' /\ g < used' BY <1>1, <1>2
  <2>2. ASSUME NEW h \in Hosts, NEW t \in Transports, knows[h][t] # Nobody
        PROVE  \E g \in 0..used' : g < used' /\ knows'[h][t] = Address(t, g)
      BY <1>1, <2>1, <2>2 DEF IdentityInv, KnowsInv
  <2>3. ASSUME NEW t \in Transports, NEW h \in outcast'[t]
        PROVE  h \in Hosts /\ knows[h][t] # Nobody
      BY <1>1, <2>3
  <2> QED BY <1>1, <2>2, <2>3 DEF KnowsInv
<1>10. ClearedInv' BY <1>1 DEF ClearedInv
<1>11. BondsHonoured' BY <1>1, <1>5 DEF BondsHonoured
<1> QED BY <1>6, <1>7, <1>8, <1>9, <1>10, <1>11 DEF IdentityInv

LEMMA IdentityStep ==
    ASSUME IdentityInv, [IdentityNext]_identityVars
    PROVE  IdentityInv'
<1>1. flash.transport \in Modes
    BY DEF IdentityInv, IdentityTypeOK, Modes
<1>2. CASE Reboot BY <1>1, <1>2, RestartedInv DEF Reboot
<1>3. CASE EnterConfig
  <2>1. "config" \in Modes BY DEF Modes
  <2> QED BY <1>3, <2>1, RestartedInv DEF EnterConfig
<1>4. CASE Restart BY <1>1, <1>4, RestartedInv DEF Restart
<1>5. CASE Bump BY <1>5, BumpInv
<1>6. CASE \/ StartForget \/ ClearBTstack \/ QueueRemovals
           \/ \E h \in Hosts : RemoveBond(h)
    BY <1>6, ForgetStepsInv
<1>7. CASE \E t \in Transports : SetTransport(t) BY <1>7, SetTransportInv
<1>8. CASE \E h \in Hosts : Pair(h) BY <1>8, PairKeepsInv
<1>9. CASE UNCHANGED identityVars
    BY <1>9 DEF identityVars, IdentityInv, IdentityTypeOK, GenInv, AddrInv,
                KnowsInv, ClearedInv, BluedroidUp, BondsHonoured
<1> QED BY <1>2, <1>3, <1>4, <1>5, <1>6, <1>7, <1>8, <1>9
        DEF IdentityNext, Forget

\* What a boot is at, what its hosts know and what a forget has got at so far
\* stay together, through restarts at any point: between its erasing and its
\* bump a forget answers for every bond still in flash, as one it has asked
\* Bluedroid to remove or one made meanwhile (clear_all_bonds(), do_forget()).
THEOREM IdentityInvHolds == IdentitySpec => []IdentityInv
<1>1. IdentityInit => IdentityInv BY IdentityInitInv
<1>2. IdentityInv /\ [IdentityNext]_identityVars => IdentityInv'
    BY IdentityStep
<1> QED BY <1>1, <1>2, PTL DEF IdentitySpec

\* Every variable of Identity stays in its type: no boot is without an address
\* that Bluetooth can carry, however often the generation moves.
THEOREM IdentityTypes == IdentitySpec => []IdentityTypeOK
<1>1. IdentityInv => IdentityTypeOK BY DEF IdentityInv
<1> QED BY <1>1, IdentityInvHolds, PTL

\* A forgotten host never meets the address it was bonded to before it pairs
\* anew, for any number of hosts and of forgets short of a wrap, whatever the
\* power cuts short (do_forget(), bump_identity_generation()).
THEOREM ForgottenStaysOutHolds == IdentitySpec => []ForgottenStaysOut
<1>1. IdentityInv => ForgottenStaysOut
  <2> SUFFICES ASSUME IdentityInv, mode \in Transports, forget = "no",
                      NEW h \in outcast[mode], knows[h][mode] = addr
               PROVE  FALSE
      BY DEF ForgottenStaysOut
  <2>1. PICK g \in 0..used : g < used /\ addr = Address(mode, g)
      BY DEF IdentityInv, KnowsInv
  <2>2. addr = Address(mode, used) BY DEF IdentityInv, AddrInv
  <2>3. used \in 0..MaxForgets BY DEF IdentityInv, IdentityTypeOK
  <2>4. used \in 0..(Gens - 1) /\ g \in 0..(Gens - 1) /\ g # used
      BY <2>1, <2>3, GensOK
  <2> QED BY <2>1, <2>2, <2>4, AddressOnce
<1> QED BY <1>1, IdentityInvHolds, PTL

\* A bond in flash is one its host honours, but those a forget left behind at
\* its bump, config mode's all of them, and those made while it was under way
\* (clear_all_bonds(), do_forget(), bump_identity_generation()).
THEOREM BondsHonouredHolds == IdentitySpec => []BondsHonoured
<1>1. IdentityInv => BondsHonoured BY DEF IdentityInv
<1> QED BY <1>1, IdentityInvHolds, PTL
=============================================================================
