------------------------------ MODULE SleepWake ------------------------------
(***************************************************************************)
(* How the stick falls asleep and what wakes it: enter_sleep() and         *)
(* handle_wake() of app_main.cpp, the ULP's poll and the wake sources of   *)
(* power.cpp, and the board revision of board.cpp that decides whether the *)
(* charger is one of them.                                                 *)
(*                                                                         *)
(* Three things go on at once: the ULP polls the buttons every 30 ms from  *)
(* ulp_load() on, whether the SoC sleeps or not; the SoC flushes its log,  *)
(* sleeps, boots and decides; buttons and charger move when they like.     *)
(* Time is counted in polls of the ULP.                                    *)
(***************************************************************************)
EXTENDS Naturals

CONSTANTS
    BootTicks,    \* from a wake to handle_wake()
    FlushTicks,   \* the 120 ms between ulp_load() and deep_sleep()
    Debounce,     \* reads with Start up before the ULP is armed
    DrainMax      \* reads until it is armed anyway (3 s)

ASSUME SleepAssumption ==
    /\ BootTicks \in Nat /\ FlushTicks \in Nat
    /\ Debounce \in Nat \ {0} /\ DrainMax \in Nat

VARIABLES
    real,        \* the revision the board is of
    in,          \* the buttons, and whether the charger charges
    cpu,         \* what the SoC does; ticks and reads of it
    ulp,         \* the buttons as the ULP stored them, kAddrP1 and kAddrP2
    ext1,        \* the charger is armed as a wake source
    cause,       \* esp_sleep_get_wakeup_cause()
    board,       \* s_rev, s_rtc_rev and the boardRev of NVS
    woke,        \* why the stick is on
    hist         \* history, since the ULP was first armed: an input moved;
                 \* Start went down; the wait for its release was given up

sleepVars == <<real, in, cpu, ulp, ext1, cause, board, woke, hist>>

Revs    == {"2.0", "2.1"}
Buttons == [start : BOOLEAN, other : BOOLEAN]
Pads    == [buttons : Buttons, charging : BOOLEAN]
Places  == {"awake", "draining", "flushing", "asleep", "booting"}

At(p, n) == [at |-> p, left |-> n, released |-> 0]

-----------------------------------------------------------------------------
\* board::init(): the revision is known from RTC memory, or the one pin with a
\* pull-up tells; while the charger holds that pin low neither shows it, and
\* the guess is the last known answer or 2.0, and not kept.
Probed(b) ==
    IF b.rtc # "none" THEN [b EXCEPT !.rev = b.rtc]
    ELSE IF ~in.charging THEN [rev |-> real, rtc |-> real, nvs |-> real]
    ELSE [b EXCEPT !.rev = IF b.nvs = "none" THEN "2.0" ELSE b.nvs]

\* chg_wake_capable(), and battery::is_charging() on the pin of that revision:
\* the other one is pulled up.
Capable(b)    == b.rev = "2.1"
IsCharging(b) == in.charging /\ b.rev = real

\* deep_sleep(): ext1 is level-triggered, so it is armed with the charger out.
Arms(b) == Capable(b) /\ ~IsCharging(b)

\* Mutant: the buttons at the time the ULP was armed, not at its last poll.
PublishedNever(prev, now) == prev

\* The ULP stores what it read whenever it differs.
Published(prev, now) == now

\* Mutant: the sleeping hold arms the ULP at once.
DrainedAtOnce(c, up) == TRUE

\* Mutant: there is no deadline.
DrainedByUp(c, up) == up /\ c.released + 1 >= Debounce

\* enter_sleep() waits for Start to be up for Debounce reads, or gives up.
Drained(c, up) == (up /\ c.released + 1 >= Debounce) \/ c.left = 0

\* Mutant: the charger is known by the wake cause alone.
ChargerByCause(b) == cause = "ext1"

\* handle_wake(): either wake source may have been the one reported.
ChargerThere(b) == cause = "ext1" \/ (Capable(b) /\ IsCharging(b))

-----------------------------------------------------------------------------
SleepInit ==
    /\ real \in Revs
    /\ in \in Pads
    /\ cpu = At("awake", 0)
    /\ ulp = in.buttons /\ ext1 = FALSE /\ cause = "none"
    /\ board = Probed([rev |-> "2.0", rtc |-> "none", nvs |-> "none"])
    /\ woke = "reset"
    /\ hist = [moved |-> FALSE, fresh |-> FALSE, held |-> FALSE]

MoveButtons(b) ==
    /\ b # in.buttons
    /\ in' = [in EXCEPT !.buttons = b]
    /\ hist' = [hist EXCEPT !.moved = TRUE,
                            !.fresh = @ \/ (b.start /\ ~in.buttons.start)]
    /\ UNCHANGED <<real, cpu, ulp, ext1, cause, board, woke>>

MoveCharger ==
    /\ in' = [in EXCEPT !.charging = ~@]
    /\ hist' = [hist EXCEPT !.moved = TRUE]
    /\ UNCHANGED <<real, cpu, ulp, ext1, cause, board, woke>>

\* A gesture, a timer or the console calls enter_sleep().
EnterSleep ==
    /\ cpu.at = "awake"
    /\ cpu' = At("draining", DrainMax)
    /\ woke' = "none"
    /\ UNCHANGED <<real, in, ulp, ext1, cause, board, hist>>

\* ulp_load(): its immediate run stores the buttons as they are.
Armed == /\ ulp' = in.buttons
         /\ cpu' = At("flushing", FlushTicks)

\* One read of the wait for Start, and after the last one s_sleeping is set and
\* the ULP armed.
DrainRead ==
    /\ cpu.at = "draining"
    /\ LET up == ~in.buttons.start
       IN  IF Drained(cpu, up)
           THEN /\ Armed
                /\ hist' = [moved |-> FALSE, fresh |-> FALSE,
                            held |-> cpu.left = 0]
           ELSE /\ cpu' = [cpu EXCEPT !.left = IF @ > 0 THEN @ - 1 ELSE 0,
                                      !.released = IF up THEN @ + 1 ELSE 0]
                /\ UNCHANGED <<ulp, hist>>
    /\ UNCHANGED <<real, in, ext1, cause, board, woke>>

\* The ULP's timer: a change wakes the SoC if it sleeps; I_WAKE does nothing to
\* one that is still flushing or booting already, but the change is stored.
UlpPoll ==
    /\ \/ cpu.at = "asleep"
       \/ cpu.at \in {"flushing", "booting"} /\ cpu.left > 0
    /\ ulp' = Published(ulp, in.buttons)
    /\ LET wakes == cpu.at = "asleep" /\ ulp # in.buttons
       IN  /\ cpu' = IF wakes THEN At("booting", BootTicks)
                     ELSE IF cpu.at = "asleep" THEN cpu
                     ELSE [cpu EXCEPT !.left = @ - 1]
           /\ cause' = IF wakes THEN "ulp" ELSE cause
    /\ UNCHANGED <<real, in, ext1, board, woke, hist>>

\* deep_sleep().
DeepSleep ==
    /\ cpu.at = "flushing" /\ cpu.left = 0
    /\ cpu' = At("asleep", 0)
    /\ ext1' = Arms(board)
    /\ UNCHANGED <<real, in, ulp, cause, board, woke, hist>>

Ext1Wakes ==
    /\ cpu.at = "asleep" /\ ext1 /\ in.charging
    /\ cpu' = At("booting", BootTicks)
    /\ cause' = "ext1"
    /\ UNCHANGED <<real, in, ulp, ext1, board, woke, hist>>

\* app_main() up to the end of handle_wake(), s_sleeping being set: the charger
\* and a held Start let it go on, anything else sends it back to sleep.
HandleWake ==
    /\ cpu.at = "booting" /\ cpu.left = 0
    /\ board' = Probed(board)
    /\ LET charger == ChargerThere(Probed(board))
           start   == cause = "ulp" /\ ulp.start
       IN  \/ /\ charger \/ start
              /\ cpu' = At("awake", 0)
              /\ woke' = IF charger THEN "charger" ELSE "start"
              /\ UNCHANGED ulp
           \/ /\ ~charger /\ ~start
              /\ Armed
              /\ UNCHANGED woke
    /\ UNCHANGED <<real, in, ext1, cause, hist>>

\* Power is lost and comes back, or the stick restarts: RTC memory is set up
\* anew, so s_sleeping is not set and handle_wake() lets the boot go on.
ResetCpu ==
    /\ cpu' = At("awake", 0)
    /\ board' = Probed([board EXCEPT !.rtc = "none"])
    /\ ext1' = FALSE /\ cause' = "none" /\ woke' = "reset"
    /\ UNCHANGED <<real, in, ulp, hist>>

World  == (\E b \in Buttons : MoveButtons(b)) \/ MoveCharger
Asked  == EnterSleep \/ ResetCpu
Soc    == DrainRead \/ DeepSleep \/ HandleWake

SleepNext == World \/ Asked \/ Soc \/ UlpPoll \/ Ext1Wakes

SleepSpec == SleepInit /\ [][SleepNext]_sleepVars

\* Both processors run, and a wake source that stays on its level wakes.
FairSleep ==
    /\ SleepSpec
    /\ WF_sleepVars(Soc) /\ WF_sleepVars(UlpPoll) /\ WF_sleepVars(Ext1Wakes)

-----------------------------------------------------------------------------
SleepTypeOK ==
    /\ real \in Revs /\ in \in Pads /\ ulp \in Buttons
    /\ cpu \in [at : Places, left : Nat, released : 0..Debounce]
    /\ ext1 \in BOOLEAN /\ cause \in {"none", "ulp", "ext1"}
    /\ board \in [rev : Revs, rtc : Revs \cup {"none"},
                  nvs : Revs \cup {"none"}]
    /\ woke \in {"none", "reset", "start", "charger"}
    /\ hist \in [moved : BOOLEAN, fresh : BOOLEAN, held : BOOLEAN]

\* A sleeping stick does not wake of itself: an input has moved since it was
\* armed, and when Start turns it on it is not by the hold that put it to sleep
\* ("Start both sleeps AND wakes the device", app_main.cpp:102).  Start has gone
\* down since then, through however many wakes that went back to sleep; unless
\* the wait for its release was given up.
WakesForCause ==
    /\ cpu.at = "booting" => hist.moved
    /\ woke = "start" => hist.fresh \/ hist.held

\* With the inputs at rest the stick comes to rest too, on or asleep: no wake
\* goes round and round, and a stuck Start does not keep the way into sleep
\* from ending ("so a stuck/garbage read can't hang here forever").
Settles ==
    <>[](cpu.at \in {"awake", "asleep"}) \/ []<><<World \/ Asked>>_sleepVars

\* Start pressed on a sleeping stick and held turns it on, whatever else moves
\* meanwhile and whichever wake source is reported.
StartWakes ==
    cpu.at = "asleep" /\ ~ulp.start /\ in.buttons.start
        ~> cpu.at = "awake" \/ ~in.buttons.start

\* A charger that comes while the stick sleeps with the charger out, or boots
\* for a button just pressed, turns it on and is not lost to the other wake.
ChargerWakes ==
    cpu.at \in {"asleep", "booting"} /\ ext1 /\ in.charging
        ~> cpu.at = "awake" \/ ~in.charging
=============================================================================
