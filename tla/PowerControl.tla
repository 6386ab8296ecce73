---------------------------- MODULE PowerControl ----------------------------
(***************************************************************************)
(* sleep_control_task and common_duty_task: when the device may sleep and  *)
(* when it restarts.                                                       *)
(*                                                                         *)
(* alive_timer keeps the device awake for a while after a press of the     *)
(* wake-up pin; a timed sleep waits for it, SLEEP_TASK_DEEP_SLEEP does     *)
(* not.  Before it sleeps the task asks common_duty_task to save and waits *)
(* 300 ms.  common_duty_task works in rounds of DUTY_TASK_PERIOD_MS: it    *)
(* takes its notification, shows what there is to show once a second,      *)
(* saves, and restarts TIME_FOR_PREPARE_RESET_MS after PREPARE_TO_RESET.   *)
(***************************************************************************)
EXTENDS Integers, FiniteSets

CONSTANTS
  AliveInit, AliveLong,  \* rounds of ALIVE_DEFAULT_S and of ALIVE_LONG_S
  Seconds,               \* values of the register sleep_time
  Morse,                 \* the build option MORSE
  PrepareTime,           \* rounds of TIME_FOR_PREPARE_RESET_MS
  TimeMod,               \* task_get_time_ms is a u32; rounds until it is 0 again
  SecondRounds,          \* rounds of a second
  MaxAsks                \* bound on notifications and presses

VARIABLES
  \* sleep_control_task
  phase,        \* "boot", "loop", "timed" and "deep" during the 300 ms, "asleep", "gone"
  pin,          \* EXT_WAKEUP_PIN is high
  alive,        \* alive_timer
  bits,         \* its notification value: bits, and in "n" the upper half
  inProcess,    \* signal_in_process
  sleepTime,    \* sleep_time
  behind,       \* task_timer, uninitialised, is not yet the time of the last round
  quiet,        \* history: periods since the pin was seen high, up to AliveInit
  stopWifi,     \* WIRELESS_TASK_STOP_WIFI was sent
  asks,         \* notifications and presses so far
  \* common_duty_task
  duty,         \* "run", "restarted", "gone"
  notes,        \* its notification value
  now,          \* task_get_time_ms in rounds
  prepare,      \* prepare_time
  dtick,        \* task_tick
  udp, shown,   \* udp_bradcast_msg_received, and a message was on the display
  saveAsked,    \* ASYNC_INIT_SET_VALUE_FROM_BKRAM_TO_FLASH with all tables
  zeroAsk       \* history: a reset was notified at the time 0

sleepVars == <<phase, pin, alive, bits, inProcess, sleepTime, behind, quiet, stopWifi, asks>>
dutyVars == <<duty, notes, now, prepare, dtick, udp, shown, zeroAsk>>
powerVars == <<sleepVars, dutyVars, saveAsked>>

NoSeconds == 0
Kinds == {"120", "n", "deep"}

PowerTypeOK ==
  /\ phase \in {"boot", "loop", "timed", "deep", "asleep", "gone"} /\ alive \in 0 .. AliveLong
  /\ inProcess \subseteq Kinds /\ sleepTime \in Seconds \cup {120}
  /\ duty \in {"run", "restarted", "gone"} /\ prepare \in 0 .. TimeMod - 1 /\ dtick \in 0 .. SecondRounds - 1

NoBits == [set |-> {}, n |-> NoSeconds]

PowerInit ==
  /\ phase = "boot" /\ pin \in BOOLEAN /\ alive = 0 /\ bits = NoBits /\ inProcess = {} /\ sleepTime = 0
  /\ behind = TRUE /\ quiet = AliveInit /\ stopWifi = FALSE /\ asks = 0
  /\ duty = "run" /\ notes = {} /\ now \in 0 .. TimeMod - 1 /\ prepare = 0 /\ dtick = 0
  /\ udp = FALSE /\ shown = FALSE /\ saveAsked = FALSE /\ zeroAsk = FALSE

-----------------------------------------------------------------------------
(* sleep_control_task                                                       *)

\* wake_up_control: after a wake up by the pin, the pin must still be high.
WakeUp(byPin) ==
  /\ phase = "boot" /\ phase' = "loop"
  /\ IF byPin /\ ~pin THEN alive' = 0 /\ inProcess' = (IF Morse THEN {"deep"} ELSE {})
                      ELSE alive' = AliveLong /\ inProcess' = {}
  /\ UNCHANGED <<pin, bits, sleepTime, behind, quiet, stopWifi, asks, dutyVars, saveAsked>>

\* What the requests leave in sleep_time: N seconds come after 120.
Asked(b) == IF "n" \in b.set THEN b.n ELSE IF "120" \in b.set THEN 120 ELSE sleepTime

\* The request that alive_timer = 0 takes away, whether it leads to a sleep or not.
Taken(p) == IF "n" \in p THEN p \ {"n"} ELSE p \ {"120"}

AliveNextOnce(p) == IF pin /\ alive <= 1 THEN AliveInit ELSE IF alive = 0 THEN 0 ELSE alive - 1  \* mutant: a running timer is kept
AliveNext(p) == IF pin THEN AliveInit ELSE IF alive = 0 THEN 0 ELSE alive - 1

\* Both ways to sleep: Wi-Fi is told to stop, a save of all tables is asked for.
Prepare(how) == phase' = how /\ stopWifi' = TRUE /\ saveAsked' = TRUE

\* One round up to the first delay, begun by vTaskDelayUntil: it returns at once until
\* task_timer, whatever it was, has caught up, from then on after the period.
SleepRound ==
  LET p == inProcess \cup (bits.set \cap Kinds)
      q == IF alive = 0 THEN Taken(p) ELSE p IN
  /\ phase = "loop" /\ "end" \notin bits.set
  /\ behind' \in {behind, FALSE} /\ bits' = NoBits /\ sleepTime' = Asked(bits)
  /\ \/ /\ alive = 0 /\ sleepTime' # 0 /\ inProcess' = q /\ Prepare("timed")
        /\ UNCHANGED <<alive, quiet>>
     \/ /\ ~(alive = 0 /\ sleepTime' # 0) /\ "deep" \in q /\ inProcess' = q \ {"deep"} /\ Prepare("deep")
        /\ UNCHANGED quiet /\ alive' = IF alive = 0 THEN 0 ELSE alive - 1
     \/ /\ ~(alive = 0 /\ sleepTime' # 0) /\ "deep" \notin q /\ inProcess' = q
        /\ alive' = AliveNext(p)
        /\ quiet' = IF pin /\ ~behind' THEN 0 ELSE IF quiet = AliveInit THEN quiet ELSE quiet + 1
        /\ UNCHANGED <<phase, stopWifi, saveAsked>>
  /\ UNCHANGED <<pin, asks, dutyVars>>

\* esp_deep_sleep_start after the delay, the wake-up sources and the display.
FallAsleep ==
  /\ phase \in {"timed", "deep"} /\ phase' = "asleep"
  /\ UNCHANGED <<pin, alive, bits, inProcess, sleepTime, behind, quiet, stopWifi, asks, dutyVars, saveAsked>>

SleepEnds ==
  /\ phase = "loop" /\ "end" \in bits.set /\ phase' = "gone" /\ bits' = NoBits
  /\ UNCHANGED <<pin, alive, inProcess, sleepTime, behind, quiet, stopWifi, asks, dutyVars, saveAsked>>

\* handle_os_command and the user tasks.  task_notify_send sets bits: two values of N
\* are ored, here one of them or their sum.
Or(a, b) == {a, b, a + b} \cap Seconds
AskSleep(kind, seconds) ==
  /\ phase \notin {"asleep", "gone"} /\ asks < MaxAsks /\ asks' = asks + 1
  /\ \E n \in Or(bits.n, seconds) :
       bits' = [set |-> bits.set \cup {kind}, n |-> IF kind = "n" THEN n ELSE bits.n]
  /\ UNCHANGED <<phase, pin, alive, inProcess, sleepTime, behind, quiet, stopWifi, dutyVars, saveAsked>>

PinMoves ==
  /\ phase \in {"boot", "loop"} /\ asks < MaxAsks /\ asks' = asks + 1 /\ pin' = ~pin
  /\ UNCHANGED <<phase, alive, bits, inProcess, sleepTime, behind, quiet, stopWifi, dutyVars, saveAsked>>

-----------------------------------------------------------------------------
(* common_duty_task                                                         *)

Awake == phase # "asleep" /\ duty = "run"

\* The notification value, in the order of the else ifs.
ResetTaken == "end" \notin notes /\ "reset" \in notes
UdpTaken == notes \cap {"end", "reset"} = {} /\ "udp" \in notes

\* display_update once a second: a new message is shown until the next second.
Shows ==
  IF dtick = 0 THEN shown' = (udp \/ UdpTaken) /\ udp' = FALSE
               ELSE udp' = (udp \/ UdpTaken) /\ UNCHANGED shown

Due(t, p) == p # 0 /\ (t - p + TimeMod) % TimeMod > PrepareTime

\* A round is as long as its wait, which a notification cuts short.
DutyRound ==
  /\ Awake /\ "end" \notin notes /\ notes' = {}
  /\ now' \in {(now + 1) % TimeMod} \cup (IF notes = {} THEN {} ELSE {now})
  /\ Shows /\ dtick' = (dtick + 1) % SecondRounds
  /\ saveAsked' = FALSE
  /\ prepare' = IF ResetTaken THEN now' ELSE prepare
  /\ zeroAsk' = (zeroAsk \/ (ResetTaken /\ now' = 0))
  /\ duty' = IF Due(now', prepare') THEN "restarted" ELSE duty
  /\ UNCHANGED sleepVars

DutyEnds ==
  /\ Awake /\ "end" \in notes /\ notes' = {} /\ duty' = "gone"
  /\ UNCHANGED <<sleepVars, now, prepare, dtick, udp, shown, saveAsked, zeroAsk>>

NotifyDuty(n) ==
  /\ Awake /\ asks < MaxAsks /\ asks' = asks + 1 /\ notes' = notes \cup {n}
  /\ UNCHANGED <<phase, pin, alive, bits, inProcess, sleepTime, behind, quiet, stopWifi,
                 duty, now, prepare, dtick, udp, shown, saveAsked, zeroAsk>>

SleepTurn == (\E b \in BOOLEAN : WakeUp(b)) \/ SleepRound \/ FallAsleep \/ SleepEnds
DutyTurn == DutyRound \/ DutyEnds

PowerNext ==
  \/ duty # "restarted" /\ (SleepTurn \/ PinMoves)
  \/ duty # "restarted" /\ \E k \in Kinds \cup {"end"} : \E n \in Seconds : AskSleep(k, n)
  \/ DutyTurn \/ \E n \in {"end", "reset", "udp"} : NotifyDuty(n)
-----------------------------------------------------------------------------
(* Properties                                                               *)

Over == phase = "asleep" \/ duty # "run"

\* A press of the wake-up pin that is seen once task_timer has caught up keeps the device
\* from a timed sleep until the pin was low for the whole of ALIVE_DEFAULT_S, however presses
\* and requests come together.
TimedSleepQuiet == [][phase' = "timed" /\ phase = "loop" => quiet = AliveInit]_powerVars

\* A sleep that was asked for comes, unless the pin is pressed, a request for 0 seconds
\* takes it back, or the device restarts or its task ends before.
SleepComes ==
  (phase = "loop" /\ sleepTime # 0 /\ ~pin) ~> (Over \/ phase = "gone" \/ pin \/ sleepTime = 0)

\* PREPARE_TO_RESET restarts the device, also when the clock wraps in between, unless it
\* was taken at the time 0, which stands for "no reset".
ResetComes == ("reset" \in notes) ~> (Over \/ zeroAsk)

\* A notified broadcast is shown, unless a reset that came with it, or a sleep, comes first.
UdpShown == ("udp" \in notes) ~> (shown \/ Over \/ zeroAsk)

=============================================================================
