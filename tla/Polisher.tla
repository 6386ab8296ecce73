------------------------------ MODULE Polisher ------------------------------
(***************************************************************************)
(* polisher_task: in every round it copies polisher_speed and              *)
(* polisher_direction and makes the stepper follow them through an RMT     *)
(* channel that repeats one pulse until it is disabled.  Each call of the  *)
(* RMT driver may fail; a call that fails changes nothing, and disabling a *)
(* channel that is not enabled fails.                                      *)
(***************************************************************************)
EXTENDS Integers

CONSTANTS
  Speeds,     \* values of polisher_speed, 0 stops
  MaxFaults   \* bound on calls that fail

VARIABLES
  wanted,    \* the register polisher_speed
  reversed,  \* the register polisher_direction
  at,        \* "off", "wait", "step" after the pins are set, "stop" in deinit, "ended"
  speed,     \* the local copy of the speed
  powered,   \* the pins EN and SLEEP are at their active levels
  turning,   \* the pin DIR0
  channel,   \* "none", "enabled", "disabled"
  playing,   \* duration0 of the pulse the channel repeats, in microseconds, 0 for none
  status,    \* "stopped", "unlimited"
  current,   \* current_speed
  halt,      \* STOP_CHILD_PROCCES is pending
  faults,    \* calls that failed
  silenced   \* history: the speed still noted when a new pulse was refused, 0 for none

polisherVars ==
  <<wanted, reversed, at, speed, powered, turning, channel, playing, status, current, halt, faults, silenced>>
rmt == <<channel, playing, status, current, faults, silenced>>
registers == <<wanted, reversed, halt>>

PolisherInit ==
  /\ wanted \in Speeds /\ reversed \in BOOLEAN /\ at = "off" /\ speed = 0 /\ powered = FALSE /\ turning = FALSE
  /\ channel = "none" /\ playing = 0 /\ status = "stopped" /\ current = 0 /\ halt = FALSE
  /\ faults = 0 /\ silenced = 0

WriteRegister ==
  /\ \/ \E s \in Speeds : wanted' = s /\ UNCHANGED reversed
     \/ reversed' = ~reversed /\ UNCHANGED wanted
  /\ UNCHANGED <<at, speed, powered, turning, rmt, halt>>

AskStop == halt' = TRUE /\ UNCHANGED <<wanted, reversed, at, speed, powered, turning, rmt>>

\* polisher_init with step_motor_create_rmt: a call that fails aborts, and the device starts again
PolisherStart ==
  /\ at = "off"
  /\ \/ at' = "wait" /\ channel' = "enabled" /\ UNCHANGED faults
     \/ faults < MaxFaults /\ faults' = faults + 1 /\ UNCHANGED <<at, channel>>
  /\ powered' = FALSE /\ turning' = FALSE
  /\ UNCHANGED <<registers, speed, playing, status, current, silenced>>

\* the round copies the registers and sets the pins
Pins(s) == powered' = (s # 0)

RoundPins ==
  /\ at = "wait" /\ ~halt /\ at' = "step" /\ speed' = wanted
  /\ Pins(wanted) /\ turning' = IF wanted # 0 THEN reversed ELSE turning
  /\ UNCHANGED <<registers, rmt>>

\* rmt_disable or the rmt_enable after it fails
RestartFails ==
  /\ UNCHANGED <<status, current, silenced>>
  /\ \/ channel = "disabled" /\ UNCHANGED <<channel, playing, faults>>
     \/ /\ channel = "enabled" /\ faults < MaxFaults /\ faults' = faults + 1
        /\ \/ UNCHANGED <<channel, playing>>
           \/ channel' = "disabled" /\ playing' = 0

\* helper_speed_to_duration: 10^6 / speed, rounded, in a u16.  What a quotient that does not
\* fit becomes is undefined; the build converts to 32 bits and keeps the lower half.  No
\* speed has the 1 or 0 that rmt_step_motor_step would refuse.
Duration(s) == ((2 * 1000000 + s) \div (2 * s)) % 2^16
\* helper_fill_rmt_items: duration0 has 15 bits; 100 is the shortest
Pulse(s) == IF Duration(s) <= 100 THEN 100 ELSE Duration(s) % 2^15

\* rmt_transmit of the endless pulse into the channel that was just stopped
Transmit ==
  \/ /\ Duration(speed) > 1 /\ playing' = Pulse(speed)
     /\ status' = "unlimited" /\ current' = speed /\ silenced' = 0 /\ UNCHANGED faults
  \/ playing' = 0 /\ faults < MaxFaults /\ faults' = faults + 1 /\ silenced' = current /\ UNCHANGED <<status, current>>

Change == (channel = "enabled" /\ UNCHANGED channel /\ Transmit) \/ RestartFails

\* rmt_step_motor_step(UINT32_MAX, speed)
Forever == IF status = "unlimited" /\ current = speed THEN UNCHANGED rmt ELSE Change

\* rmt_step_motor_step(0, 0)
Forget == status' = "stopped" /\ current' = 0 /\ silenced' = 0

Break ==
  IF status = "unlimited"
  THEN (channel = "enabled" /\ playing' = 0 /\ UNCHANGED <<channel, faults>> /\ Forget) \/ RestartFails
  ELSE Forget /\ UNCHANGED <<channel, playing, faults>>

RoundStep ==
  /\ at = "step" /\ at' = "wait"
  /\ IF speed # 0 THEN Forever ELSE Break
  /\ UNCHANGED <<registers, speed, powered, turning>>

\* polisher_deinit: the pins, then step_motor_delete_rmt, which waits for a transmission it
\* does not know to be endless
PolisherStop == at = "wait" /\ halt /\ at' = "stop" /\ powered' = FALSE /\ UNCHANGED <<registers, speed, turning, rmt>>

DeleteRmt ==
  /\ at = "stop" /\ (status = "unlimited" \/ playing = 0)
  /\ at' = "ended"
  /\ \/ channel' = "none" /\ playing' = 0 /\ status' = "stopped" /\ current' = 0 /\ UNCHANGED faults
     \/ /\ faults < MaxFaults /\ faults' = faults + 1      \* rmt_disable or a deletion fails
        /\ playing' \in {0, playing} /\ channel' \in {channel, "disabled"} /\ UNCHANGED <<status, current>>
  /\ silenced' = 0
  /\ UNCHANGED <<registers, speed, powered, turning>>

PolisherTurn == PolisherStart \/ RoundPins \/ RoundStep \/ PolisherStop \/ DeleteRmt
PolisherNext == WriteRegister \/ AskStop \/ PolisherTurn

(***************************************************************************)
(* Properties.                                                             *)
(***************************************************************************)

PolisherTypeOK ==
  /\ at \in {"off", "wait", "step", "stop", "ended"} /\ channel \in {"none", "enabled", "disabled"}
  /\ status \in {"stopped", "unlimited"} /\ {speed, current} \subseteq Speeds \cup {0}
  /\ playing \in 0 .. 2^15 - 1

(* Zero stops the motor: whatever calls of the RMT driver failed before,   *)
(* once polisher_speed stays 0 the driver stage is switched off for good.  *)
MotorOff == <>[](wanted = 0) => <>[](~powered)

\* the pulse whose length is nearest to that of the speed, or the fastest there is
Turns(s) ==
  IF 201 * s >= 2 * 1000000 THEN playing = 100
  ELSE LET d == playing * s - 1000000 IN -s <= 2 * d /\ 2 * d <= s
Considerable == {s \in Speeds : 1000000 < s * 2^15}

(* When polisher_speed keeps a value whose pulse a symbol of the channel   *)
(* can hold, the motor turns with it in the end, through every change of   *)
(* speed and every failed call before, but for the two cases the driver    *)
(* state cannot leave: the channel was disabled and not enabled again, or  *)
(* the register is back at the speed that was noted when the pulse of      *)
(* another one was refused.                                                *)
SpeedFollows ==
  \A s \in Considerable :
    [](~halt) /\ <>[](wanted = s) => <>[](Turns(s) \/ channel = "disabled" \/ silenced = s)

(* A stop request ends the task: it never waits for the end of an endless  *)
(* pulse it has forgotten, also when stopping the channel failed before.   *)
PolisherStops == halt ~> at = "ended"
============================================================================
