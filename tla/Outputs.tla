------------------------------ MODULE Outputs ------------------------------
(***************************************************************************)
(* Two tasks that drive outputs from registers, each on its own: the LED   *)
(* strip and the PWM outputs.                                              *)
(***************************************************************************)
EXTENDS Integers, Sequences

-----------------------------------------------------------------------------
(***************************************************************************)
(* led_strip_task: every round copies the registers and, by mode, sends a  *)
(* frame with the brightness of every LED.  RUN moves a light along the    *)
(* strip, with smooth_number neighbours that fade on both sides; FULL      *)
(* sends one frame per change; BRIM sends one every round.  Colours are    *)
(* left out.  u32, u16 and u8 arithmetic wraps as in the code.             *)
(***************************************************************************)

CONSTANTS
  MaxLeds,   \* LED_STRIP_MAX_LEDS
  Settings,  \* values of the registers: [mode, last, smooth, bright], bright in 0 .. 31
  LedMod,    \* the range of led_number, 2^16 in the code
  Garbage    \* what a division by zero may leave

VARIABLES
  regs,    \* the registers mode, led_number, smooth_number, led_brightness
  led,     \* the local led_number, the place of the light
  xoring,  \* the sum last sent in mode FULL
  frame,   \* the brightness of each LED in the last frame, <<>> before it
  lamp,    \* the (clamped) led_number of the last frame, -1 if it was not a RUN frame
  from,    \* history: the registers of the last frame
  runs     \* the task runs

ledVars == <<regs, led, xoring, frame, lamp, from, runs>>

U32 == 2 ^ 20  \* u32, cut to a multiple of 2^16 far above every value
U16 == 2 ^ 16
Bits5 == 32    \* what led[0] keeps of a u8

Last(n) == IF n > MaxLeds - 1 THEN MaxLeds - 1 ELSE n

\* led_strip_send_run: the fading window
MinLed(l, last, s) == IF l >= s THEN l - s ELSE (last - (s - l)) % U32
MaxLed(l, last, s) == IF l + s <= last THEN l + s ELSE (s - (last - l)) % U32
Gap(a, b) == IF a >= b THEN a - b ELSE b - a
Diff(i, l, last, s) ==
  LET min == MinLed(l, last, s)
      max == MaxLed(l, last, s)
  IN IF max >= min THEN Gap(i, l)
     ELSE IF i > min THEN Gap(i - min, s) ELSE Gap((max - i) % U32, s) % U16
Inside(i, l, last, s) ==
  LET min == MinLed(l, last, s)
      max == MaxLed(l, last, s)
  IN (i >= min /\ i <= max) \/ (max < min /\ (i >= min \/ i <= max))

Dimmed(d, b, s) == (b - (d * b) \div s) % Bits5

Light(i, l, last, s, b, g) ==
  IF ~Inside(i, l, last, s) THEN 0
  ELSE IF s = 0 THEN g ELSE Dimmed(Diff(i, l, last, s), b, s)

LedInit ==
  /\ regs \in Settings /\ led = 0 /\ xoring = 0 /\ frame = <<>> /\ lamp = -1 /\ from = regs /\ runs = TRUE

WriteSettings ==
  /\ runs /\ regs' \in Settings /\ regs' # regs
  /\ UNCHANGED <<led, xoring, frame, lamp, from, runs>>

StopLeds == runs /\ runs' = FALSE /\ UNCHANGED <<regs, led, xoring, frame, lamp, from>>

\* led_number = ++led_number > last_led_number ? 0 : led_number, with the register as it is
Advance == led' = IF (led + 1) % LedMod > regs.last THEN 0 ELSE (led + 1) % LedMod

SendRun ==
  /\ runs /\ regs.mode = "run"
  /\ LET last == Last(regs.last)
         l == Last(led)
     IN \E g \in Garbage :
          /\ frame' = [i \in 1 .. last + 1 |-> Light(i - 1, l, last, regs.smooth, regs.bright, g)]
          /\ lamp' = l
  /\ from' = regs /\ Advance /\ UNCHANGED <<regs, xoring, runs>>

Even == [i \in 1 .. Last(regs.last) + 1 |-> regs.bright]

\* only when the sum of the registers differs from the one sent before
Sum == regs.last + regs.bright + 1
SendFull ==
  /\ runs /\ regs.mode = "full" /\ xoring' = Sum
  /\ IF xoring # Sum THEN frame' = Even /\ lamp' = -1 /\ from' = regs ELSE UNCHANGED <<frame, lamp, from>>
  /\ UNCHANGED <<regs, led, runs>>

SendBrim ==
  /\ runs /\ regs.mode = "brim" /\ frame' = Even /\ lamp' = -1 /\ from' = regs
  /\ UNCHANGED <<regs, led, xoring, runs>>

LedTurn == SendRun \/ SendFull \/ SendBrim
LedNext == LedTurn \/ WriteSettings \/ StopLeds

(* Properties.                                                             *)

LedTypeOK == led \in 0 .. LedMod - 1 /\ regs \in Settings /\ lamp \in -1 .. MaxLeds - 1

(* Whatever a client writes to led_number, no LED is written behind the    *)
(* buffer of the frame, which holds LED_STRIP_MAX_LEDS of them.            *)
FrameFits == Len(frame) <= MaxLeds

(* Where the window of the light does not pass an end of the strip, the    *)
(* light is at full brightness, each side fades as the other does, and     *)
(* everything outside of the window is dark.                               *)
WindowFades ==
  LET s == from.smooth
      at(d) == frame[lamp + d + 1]
  IN lamp >= s /\ s > 0 /\ lamp + s < Len(frame) =>
       /\ at(0) = from.bright /\ at(s) = 0
       /\ \A d \in 1 .. s : at(d) = at(-d) /\ at(d) <= at(d - 1)
       /\ \A i \in 1 .. Len(frame) : Gap(i - 1, lamp) > s => frame[i] = 0

(* The light comes to every LED of the strip, again and again, while the   *)
(* registers stay the same, at both ends too where the window passes them. *)
(* This needs a strip longer than the window: with 2 * smooth_number >=    *)
(* led_number the two ends of a window that wraps meet, and the light goes *)
(* dark there.                                                             *)
EveryLedLit ==
  \A r \in Settings : r.mode = "run" /\ r.smooth > 0 /\ 2 * r.smooth < r.last /\ r.last < MaxLeds =>
    (<>[](regs = r /\ runs) => \A i \in 0 .. r.last : []<>(lamp = i /\ i < Len(frame) /\ frame[i + 1] = r.bright))

-----------------------------------------------------------------------------
(***************************************************************************)
(* pwm_control_task.  On an ESP32-C3 it repeats one RMT symbol, a pulse    *)
(* and a pause, made from test_pwm_value and config; on an ESP32 it sets   *)
(* the two comparators of an MCPWM pair from two servo registers.  A       *)
(* driver call that fails aborts the program.  STOP_CHILD_PROCCES is taken *)
(* and ignored.                                                            *)
(***************************************************************************)

CONSTANTS
  Values,      \* values of test_pwm_value, clamped to 0 .. 100 by the table
  ArmRounds,   \* rounds in which the value is taken as 0
  Duties,      \* values of the servo registers, in parts of the tolerance
  Tolerance,   \* 0.01 in those parts
  FullDuty,    \* 100.0 in those parts
  PeriodTicks  \* the period of the timer

VARIABLES
  value, config,   \* the registers test_pwm_value and config
  pwmRound,        \* counter, up to ArmRounds
  pwmLast,         \* pwm_value_last
  symbol,          \* the symbol that is repeated: [value, config, high, low]
  want,            \* the two servo registers of a pair
  servo,           \* servo0, servo1: the duties last set
  ticks            \* the comparators

pwmVars == <<value, config, pwmRound, pwmLast, symbol, want, servo, ticks>>

NoValue == 65535
NoSymbol == [value |-> 0, config |-> 0, high |-> 0, low |-> 0]

\* pwm_test_duty_to_ticks
DutyToTicks(d) == IF d <= 0 THEN 0 ELSE IF d >= FullDuty THEN PeriodTicks ELSE (d * PeriodTicks) \div FullDuty

PwmInit ==
  /\ value \in Values /\ config \in 0 .. 1 /\ pwmRound = -1 /\ pwmLast = NoValue /\ symbol = NoSymbol
  /\ want \in [1 .. 2 -> Duties] /\ servo = [k \in 1 .. 2 |-> 0] /\ ticks = [k \in 1 .. 2 |-> 0]

WriteValue ==
  /\ \/ value' \in Values /\ UNCHANGED <<config, want>>
     \/ config' \in 0 .. 1 /\ UNCHANGED <<value, want>>
     \/ \E k \in 1 .. 2 : \E d \in Duties : want' = [want EXCEPT ![k] = d] /\ UNCHANGED <<value, config>>
  /\ UNCHANGED <<pwmRound, pwmLast, symbol, servo, ticks>>

\* pwm_test_init: the table, the pair with the restored duties
PwmStart ==
  /\ pwmRound = -1 /\ pwmRound' = 0 /\ pwmLast' = NoValue /\ symbol' = NoSymbol
  /\ servo' = want /\ ticks' = [k \in 1 .. 2 |-> DutyToTicks(want[k])]
  /\ UNCHANGED <<value, config, want>>

\* compare_float_value
Near(a, b) == a > b - Tolerance /\ a < b + Tolerance

\* pwm_test_set_pair when one of the duties has changed
SetPair ==
  IF \E k \in 1 .. 2 : ~Near(servo[k], want[k])
  THEN servo' = want /\ ticks' = [k \in 1 .. 2 |-> DutyToTicks(want[k])]
  ELSE UNCHANGED <<servo, ticks>>

Pulse(v, c) ==
  LET high == IF c = 1 THEN 1000 + (v * 1000) \div 100 ELSE v
  IN [value |-> v, config |-> c, high |-> high, low |-> (IF c = 1 THEN 20000 ELSE 100) - high]

TakenEarly == value  \* mutant: before it is armed
Taken == IF pwmRound < ArmRounds THEN 0 ELSE value

\* the symbol is made and sent when the value has changed
SendSymbol ==
  IF Taken # pwmLast
  THEN pwmLast' = Taken /\ symbol' = Pulse(Taken, config)
  ELSE UNCHANGED <<pwmLast, symbol>>

PwmTurn ==
  /\ pwmRound >= 0 /\ pwmRound' = IF pwmRound < ArmRounds THEN pwmRound + 1 ELSE pwmRound
  /\ SetPair /\ SendSymbol /\ UNCHANGED <<value, config, want>>

\* an abort or a power loss: the registers are restored from the store
PwmCrash ==
  /\ pwmRound >= 0 /\ pwmRound' = -1 /\ symbol' = NoSymbol /\ ticks' = [k \in 1 .. 2 |-> 0]
  /\ UNCHANGED <<value, config, want, servo, pwmLast>>

PwmNext == WriteValue \/ PwmStart \/ PwmTurn \/ PwmCrash

(* Properties.                                                             *)

PwmTypeOK == pwmRound \in -1 .. ArmRounds /\ symbol.high >= 0 /\ symbol.low >= 0 /\ ticks \in [1 .. 2 -> 0 .. PeriodTicks]

(* A restored test_pwm_value never drives the motor before the ESC is      *)
(* armed: from each start, after a crash too, every frame of the first     *)
(* rounds has the value 0.                                                 *)
ArmedFirst == pwmRound < ArmRounds => symbol.value = 0

(* The output comes to the value the register keeps.                       *)
ValueFollows == \A v \in Values : <>[](value = v /\ pwmRound >= 0) => <>[](symbol.value = v)

(* A servo comes to within the tolerance of its register, also when the    *)
(* register got there in steps each too small to be set.                   *)
ServoFollows ==
  \A k \in 1 .. 2, d \in Duties :
    <>[](want[k] = d /\ pwmRound >= 0) => <>[](\E n \in Duties : Near(n, d) /\ ticks[k] = DutyToTicks(n))
============================================================================
