------------------------------- MODULE Feeder -------------------------------
(***************************************************************************)
(* feeder_task: it feeds in every minute that is a multiple of             *)
(* feeder_interval and lets the device sleep in between.  A sleep ends in  *)
(* a restart, which forgets feeded_minute; it is counted from the moment   *)
(* it begins, and booting takes its time.                                  *)
(*                                                                         *)
(* Time passes in rounds of FEEDER_TASK_PERIOD; the clock is kept modulo a *)
(* multiple of the intervals.  sleep_control_task is seen from outside:    *)
(* after a start it waits for alive_timer, then it sleeps, for the time of *)
(* the last request, whatever the feeder is doing.                         *)
(*                                                                         *)
(* The motor, the second half of the module, is looked at on its own:      *)
(* run_feeder turns it for feeder_time_sec in three transmissions of the   *)
(* RMT channel, a ramp up, the constant part and a ramp down, then holds   *)
(* it for the same time.  A client may write feeder_time_sec between the   *)
(* three places where the turn reads it.  A symbol is the pause before a   *)
(* step; the step itself takes 100 ticks.                                  *)
(***************************************************************************)
EXTENDS Integers, Sequences, SequencesExt

CONSTANTS
  Intervals,   \* values of feeder_interval
  MinuteMod,   \* a common multiple of them
  Rounds,      \* rounds of a minute
  FeedRounds,  \* rounds of feeder_time_sec
  MinWork,     \* MIN_WORK_TIME_MINUTE
  MaxSleep,    \* MAX_SLEEP_TIME_MINUTE
  BootRounds,  \* rounds from the end of the sleep to the first round
  AliveLong,   \* rounds of ALIVE_LONG_S
  AliveInit,   \* rounds of ALIVE_DEFAULT_S
  MaxNotices,  \* bound on notifications and presses
  Times,       \* feeder_time_sec in tenths of a second, within its limits
  Average,     \* AVERAGE_STEPS_PER_SECOND, for a tenth of a second
  SpeedSteps,  \* SPEED_STEPS
  MinSpeed, MaxSpeed,  \* MIN_STEPS_PER_SECOND, MAX_STEPS_PER_SECOND
  MaxFaults,   \* bound on the calls of the driver that fail
  MaxTurns     \* bound on the turns

VARIABLES
  interval,      \* the register feeder_interval
  clock,         \* gettimeofday in rounds
  mode,          \* "off", "on", "due" and "command" while the motor is on, "asleep", "ended"
  feededMinute,  \* feeded_minute
  request,       \* minutes of the last SLEEP_TASK_DEEP_SLEEP_FOR_N_SEC, 0 for none
  alive,         \* alive_timer
  notice,        \* its notification value
  asked,         \* notifications and presses so far
  feeds,         \* history: due feeds in this minute since the start, up to 2
  fed,           \* history: the last step ended a feed that succeeded
  time,          \* the register feeder_time_sec
  motor,         \* "off", "idle", "on", "up", "constant", "down", "hold", "ended"
  turnSteps,     \* n of the turn
  rmt,           \* tx_chan: "none", "made", "enabled"
  encoder,       \* copy_encoder exists
  buffers,       \* symbol arrays on the heap
  driver,        \* EN and SLEEP are active
  played,        \* history: the symbols of the turn
  result,        \* rmt_result and the result of the last turn: "none", "ok", "failed"
  counter,       \* feeder_counter
  flaws, turns

feederVars == <<interval, clock, mode, feededMinute, request, alive, notice, asked, feeds, fed>>

Unfed == -1
Minute == clock \div Rounds
After(n) == (clock + n) % (MinuteMod * Rounds)

\* n rounds pass; f feeds are counted for the minute
Pass(n, f) ==
  /\ clock' = After(n) /\ alive' = IF alive > n THEN alive - n ELSE 0
  /\ feeds' = IF After(n) \div Rounds # Minute /\ f < 2 THEN 0 ELSE f

FeederInit ==
  /\ interval \in Intervals /\ clock \in 0 .. MinuteMod * Rounds - 1 /\ mode = "off" /\ feededMinute = Unfed
  /\ request = 0 /\ alive = 0 /\ notice = {} /\ asked = 0 /\ feeds = 0 /\ fed = FALSE

\* feeder_init: the table, the pins with the motor off, the RMT channel and its encoder
Start ==
  /\ mode = "off" /\ mode' = "on" /\ feededMinute' = Unfed /\ alive' = AliveLong
  /\ request' = 0 /\ notice' = {}  /\ feeds' = 0 /\ fed' = FALSE
  /\ UNCHANGED <<interval, asked, clock>>

Running == mode \in {"on", "due", "command"}

Notify(b) ==
  /\ Running /\ asked < MaxNotices /\ asked' = asked + 1 /\ notice' = notice \cup {b} /\ fed' = FALSE
  /\ UNCHANGED <<interval, clock, mode, feededMinute, request, alive, feeds>>

Press ==
  /\ Running /\ asked < MaxNotices /\ asked' = asked + 1 /\ alive' = AliveInit /\ fed' = FALSE
  /\ UNCHANGED <<interval, clock, mode, feededMinute, request, notice, feeds>>

\* handle_feeding
Due == Minute % interval = 0 /\ feededMinute # Minute

\* handle_sleeping: the minutes it asks for, 0 for none
SleepMinutes ==
  LET left == interval - (Minute % interval)
  IN IF interval > MinWork /\ Minute % interval >= MinWork THEN (IF left > MaxSleep THEN MaxSleep ELSE left) ELSE 0

StaysUp(n) == request = 0 \/ alive > n

\* a round that feeds nobody
Round ==
  /\ mode = "on" /\ StaysUp(0) /\ notice = {} /\ ~Due
  /\ request' = IF SleepMinutes > 0 THEN SleepMinutes ELSE request
  /\ Pass(1, feeds) /\ fed' = FALSE
  /\ UNCHANGED <<interval, asked, mode, feededMinute, notice>>

\* run_feeder: the motor is switched on, for the notification or for the minute
Feed ==
  /\ mode = "on" /\ StaysUp(0) /\ "stop" \notin notice
  /\ \/ "feed" \in notice /\ mode' = "command" /\ notice' = {} /\ UNCHANGED feededMinute
     \/ notice = {} /\ Due /\ mode' = "due" /\ feededMinute' = Minute /\ UNCHANGED notice
  /\ fed' = FALSE
  /\ UNCHANGED <<interval, asked, clock, request, alive, feeds>>

\* ... the three transmissions and feeder_time_sec are over, the motor is switched off;
\* a transmission may have failed, and a feed that failed is not repeated
Fed(ok) ==
  /\ mode \in {"due", "command"} /\ StaysUp(FeedRounds) /\ mode' = "on" /\ fed' = ok
  /\ Pass(FeedRounds, IF mode = "due" /\ ok THEN feeds + 1 ELSE feeds)
  /\ UNCHANGED <<interval, asked, feededMinute, request, notice>>

\* feeder_deinit
Stop ==
  /\ mode = "on" /\ "stop" \in notice /\ mode' = "ended" /\ fed' = FALSE
  /\ UNCHANGED <<interval, asked, clock, feededMinute, request, alive, notice, feeds>>

\* sleep_control_task, also in the middle of a feed
Sleep ==
  /\ Running /\ ~StaysUp(IF mode = "on" THEN 0 ELSE FeedRounds)
  /\ Pass(alive, feeds) /\ mode' = "asleep" /\ fed' = FALSE
  /\ UNCHANGED <<interval, asked, feededMinute, request, notice>>

Wake ==
  /\ mode = "asleep" /\ Pass(request * Rounds + BootRounds, 0) /\ mode' = "off"
  /\ fed' = FALSE
  /\ UNCHANGED <<interval, asked, feededMinute, request, notice>>

FeederNext ==
  \/ Start \/ Press \/ Round \/ Feed \/ Stop \/ Sleep \/ Wake
  \/ \E b \in {"stop", "feed"} : Notify(b)
  \/ \E ok \in BOOLEAN : Fed(ok)

\* the task keeps running, and not every transmission fails
FeederTurn == Start \/ Round \/ Feed \/ Fed(FALSE) \/ Stop \/ Sleep \/ Wake

-----------------------------------------------------------------------------
(* The motor.                                                              *)

motorVars == <<time, motor, turnSteps, rmt, encoder, buffers, driver, played, result, counter, flaws, turns>>

\* helper_smootherstep for the i-th of the steps, with the cast that drops the fraction
Cube(i) == i * i * i
SmootherStep(i) ==
  MinSpeed + (Cube(i) * (i * (6 * i - 15 * SpeedSteps) + 10 * SpeedSteps * SpeedSteps) * (MaxSpeed - MinSpeed))
               \div (SpeedSteps * SpeedSteps * Cube(SpeedSteps))

\* helper_speed_to_duration and helper_fill_rmt_items: 15 bits hold the pause
Duration(speed) == ((1000000 + speed \div 2) \div speed) % 65536
Pause(speed) == IF Duration(speed) <= 100 THEN 100 ELSE Duration(speed) % 32768

SpeedUp == [i \in 1 .. SpeedSteps |-> Pause(SmootherStep(i - 1))]
SpeedDown == [i \in 1 .. SpeedSteps |-> Pause(MaxSpeed + MinSpeed - SmootherStep(i - 1))]
LoopHalfRamps(n) == [i \in 1 .. n - SpeedSteps |-> Pause(MaxSpeed)]  \* mutant: the ramps counted once
Loop(n) == [i \in 1 .. n - 2 * SpeedSteps |-> Pause(MaxSpeed)]
TooFew(n) == n <= 2 * SpeedSteps

MotorInit ==
  /\ time \in Times /\ motor = "off" /\ turnSteps = 0 /\ rmt = "none" /\ encoder = FALSE /\ buffers = 0
  /\ driver = FALSE /\ played = <<>> /\ result = "none" /\ counter = 0 /\ flaws = 0 /\ turns = 0

WriteTime(t) ==
  /\ t # time /\ time' = t
  /\ UNCHANGED <<motor, turnSteps, rmt, encoder, buffers, driver, played, result, counter, flaws, turns>>

Fails == flaws < MaxFaults /\ flaws' = flaws + 1

\* step_motor_create_rmt; a failure is undone, then ESP_ERROR_CHECK restarts the device
CreateRmt ==
  /\ motor = "off"
  /\ \/ rmt' = "enabled" /\ encoder' = TRUE /\ motor' = "idle" /\ UNCHANGED flaws
     \/ Fails /\ UNCHANGED <<rmt, encoder, motor>>
  /\ UNCHANGED <<time, turnSteps, buffers, driver, played, result, counter, turns>>

\* run_feeder switches the driver on and reads the time
SwitchOn ==
  /\ motor = "idle" /\ turns < MaxTurns /\ turns' = turns + 1
  /\ motor' = "on" /\ driver' = TRUE /\ turnSteps' = time * Average /\ played' = <<>> /\ result' = "none"
  /\ UNCHANGED <<time, rmt, encoder, buffers, counter, flaws>>

\* rmt_step_motor_smoothstep refuses a turn that is all ramp
Refuse ==
  /\ motor = "on" /\ TooFew(turnSteps) /\ motor' = "hold" /\ result' = "failed"
  /\ UNCHANGED <<time, turnSteps, rmt, encoder, buffers, driver, played, counter, flaws, turns>>

\* rmt_transmit and rmt_tx_wait_all_done of the symbols
Transmit(symbols, next) == played' = played \o symbols /\ motor' = next /\ UNCHANGED <<flaws, result>>
TransmitFails == Fails /\ motor' = "hold" /\ result' = "failed" /\ UNCHANGED played

RampUp ==
  /\ motor = "on" /\ ~TooFew(turnSteps) /\ (Transmit(SpeedUp, "up") \/ TransmitFails)
  /\ UNCHANGED <<time, turnSteps, rmt, encoder, buffers, driver, counter, turns>>

AllocLoop ==
  /\ motor = "up"
  /\ \/ buffers' = buffers + 1 /\ motor' = "constant" /\ UNCHANGED <<flaws, result, played>>
     \/ TransmitFails /\ UNCHANGED buffers                                  \* ESP_ERR_NO_MEM
  /\ UNCHANGED <<time, turnSteps, rmt, encoder, driver, counter, turns>>

\* ... freed before the result is looked at
PlayLoop ==
  /\ motor = "constant" /\ buffers' = buffers - 1 /\ (Transmit(Loop(turnSteps), "down") \/ TransmitFails)
  /\ UNCHANGED <<time, turnSteps, rmt, encoder, driver, counter, turns>>

RampDown ==
  /\ motor = "down"
  /\ \/ played' = played \o SpeedDown /\ motor' = "hold" /\ result' = "ok" /\ UNCHANGED flaws
     \/ TransmitFails
  /\ UNCHANGED <<time, turnSteps, rmt, encoder, buffers, driver, counter, turns>>

\* the delay reads the time again; then the driver is switched off and a turn is counted
SwitchOff ==
  /\ motor = "hold" /\ motor' = "idle" /\ driver' = FALSE
  /\ counter' = IF result = "ok" /\ time > 0 THEN counter + 1 ELSE counter
  /\ UNCHANGED <<time, turnSteps, rmt, encoder, buffers, played, result, flaws, turns>>

\* step_motor_delete_rmt
DeleteRmt ==
  /\ motor = "idle" /\ motor' = "ended" /\ driver' = FALSE
  /\ \/ rmt' = "none" /\ encoder' = FALSE /\ UNCHANGED flaws
     \/ Fails /\ rmt' = "made" /\ encoder' = TRUE                       \* rmt_del_encoder
     \/ Fails /\ rmt' = "made" /\ encoder' = FALSE                      \* rmt_del_channel
  /\ UNCHANGED <<time, turnSteps, buffers, played, result, counter, turns>>

MotorNext ==
  \/ CreateRmt \/ SwitchOn \/ Refuse \/ RampUp \/ AllocLoop \/ PlayLoop \/ RampDown \/ SwitchOff \/ DeleteRmt
  \/ \E t \in Times : WriteTime(t)

(***************************************************************************)
(* Properties.                                                             *)
(***************************************************************************)

FeederTypeOK ==
  /\ clock \in 0 .. MinuteMod * Rounds - 1 /\ feededMinute \in -1 .. MinuteMod - 1 /\ feeds \in 0 .. 2
  /\ mode \in {"off", "on", "due", "command", "asleep", "ended"} /\ request \in 0 .. MaxSleep

(* A minute is fed once: between two starts the schedule never feeds twice *)
(* in the same minute, however short a feed is and however many rounds the *)
(* minute has.                                                             *)
OncePerMinute == feeds < 2

(* The animal is fed again and again: unless the task is stopped or its    *)
(* notifications never end, the sleeps, which may cut a feed,              *)
(* and the restarts they end in do not step over the due minutes forever,  *)
(* also when an interval takes several sleeps and booting shifts the clock *)
(* each time.                                                              *)
FedAgain == []<>fed \/ <>(mode = "ended")

MotorTypeOK ==
  /\ time \in Times /\ turnSteps \in 0 .. MaxSpeed * 60 /\ rmt \in {"none", "made", "enabled"}
  /\ motor \in {"off", "on", "up", "constant", "down", "hold", "idle", "ended"}
  /\ buffers \in 0 .. 1 /\ counter \in 0 .. turns /\ \A i \in DOMAIN played : played[i] \in 100 .. 32767

(* A turn that is counted made exactly the steps that were asked for when  *)
(* it began, whatever a client wrote to feeder_time_sec meanwhile.         *)
StepsAsAsked == result = "ok" => Len(played) = turnSteps

\* Two pauses that follow each other smoothly.
Near(a, b) == a - b < b \div 6 /\ b - a < a \div 6

(* The motor is never made to jump: it starts and ends near the smallest   *)
(* speed, from one step to the next the pause changes by less than a       *)
(* sixth, and it speeds  up before it slows down, also in a turn that a    *)
(* failed transmission cuts.  The two ramps mirror each other through an   *)
(* integer cast and a rounded quotient.                                    *)
RunsSmoothly ==
  /\ \A i \in 1 .. Len(played) - 1 : Near(played[i], played[i + 1])
  /\ \A i, j, k \in DOMAIN played : i < j /\ j < k => played[j] <= played[i] \/ played[j] <= played[k]
  /\ played # <<>> => Near(played[1], Pause(MinSpeed))
  /\ result = "ok" => Near(Last(played), Pause(MinSpeed))

(* Between two turns nothing is left of the last one, whichever step of it *)
(* failed: no symbols on the heap, the driver off, the channel ready.      *)
NothingLeft == motor = "idle" => buffers = 0 /\ ~driver /\ rmt = "enabled" /\ encoder
=============================================================================
