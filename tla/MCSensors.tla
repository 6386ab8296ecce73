----------------------------- MODULE MCSensors ------------------------------
(* The LED strip, the PWM outputs, the sensor of the air with its reports,  *)
(* the sonar, the timer of the device and the measurement of a slave's      *)
(* clock, each on its own: part says which one runs.                        *)
EXTENDS Integers, Sequences, FiniteSets

VARIABLES
  part,
  regs, led, xoring, frame, lamp, from, runs,                                        \* Outputs, LED strip
  value, config, pwmRound, pwmLast, symbol, want, servo, ticks,                      \* Outputs, PWM
  tgAt, tgNotice, taken, attempts, messages,                                         \* Sensors, telegram
  sleepActive, scd, captured, sample, index, ring, copy, askedSleep, scdStop, kept,  \* Sensors, air
  level, pending, now, rising, falling, risingOld, notice, sensor, readTime, between,
  preview, filtered, lap, echo, spans,                                               \* Sensors, sonar
  duty, timer, armed, late, count, notified, timerTask, regsMutex, sysTick, wrote,   \* SysTick, timer
  memcpy, offset, samples, deviation, syncActive, measure, hadM, agree, hadA, clean  \* SysTick, clock of a slave

ledV == <<regs, led, xoring, frame, lamp, from, runs>>
pwmV == <<value, config, pwmRound, pwmLast, symbol, want, servo, ticks>>
scdV == <<tgAt, tgNotice, taken, attempts, messages,
          sleepActive, scd, captured, sample, index, ring, copy, askedSleep, scdStop, kept>>
sr04V == <<level, pending, now, rising, falling, risingOld, notice, sensor, readTime, between,
           preview, filtered, lap, echo, spans>>
tickV == <<duty, timer, armed, late, count, notified, timerTask, regsMutex, sysTick, wrote>>
syncV == <<memcpy, offset, samples, deviation, syncActive, measure, hadM, agree, hadA, clean>>
vars == <<part, ledV, pwmV, scdV, sr04V, tickV, syncV>>

S(m, last, smooth, bright) == [mode |-> m, last |-> last, smooth |-> smooth, bright |-> bright]
LedSettings ==
  {S("run", 5, 2, 31), S("run", 4, 2, 31), S("run", 3, 1, 10), S("run", 9, 1, 7), S("run", 2, 0, 9),
   S("run", 5, 9, 9), S("full", 3, 1, 10), S("full", 2, 1, 11), S("brim", 9, 1, 3)}
Out == INSTANCE Outputs WITH
  MaxLeds <- 6, LedMod <- 16, Garbage <- {0, 10}, Settings <- LedSettings,
  Values <- {0, 50, 100}, ArmRounds <- 2, Duties <- {0, 1, 2}, Tolerance <- 2, FullDuty <- 2, PeriodTicks <- 8

Sense == INSTANCE Sensors WITH
  Attempts <- 2, Reports <- {"array", "level"}, ArraySize <- 2, MaxSamples <- 3,  \* air
  MaxTime <- 7, LapLimit <- 5                                                     \* sonar
Time == INSTANCE SysTick WITH
  Scale <- 2, MaxLate <- 3, CountMod <- 4,  \* timer
  Size <- 4, Expel <- 3, MaxTrip <- 2, Threshold <- 2, Offsets <- {2}, Stale <- {9}, PeerDevs <- {-1, 3},
  copy <- memcpy  \* clock of a slave

\* The parts that do not run start in one state.
Init ==
  /\ part \in {"leds", "pwm", "air", "sonar", "tick", "sync"}
  /\ Out!LedInit /\ (part = "leds" \/ regs.mode = "brim")
  /\ Out!PwmInit /\ (part = "pwm" \/ (value = 0 /\ config = 0 /\ want = <<0, 0>>))
  /\ Sense!Scd41Init /\ (part = "air" \/ ~sleepActive)
  /\ Sense!Sr04Init /\ Time!TickInit
  /\ Time!SyncInit /\ (part = "sync" \/ memcpy = "moves")

only(p, others) == part = p /\ UNCHANGED <<part, others>>
LedsRun == only("leds", <<pwmV, scdV, sr04V, tickV, syncV>>)
PwmRuns == only("pwm", <<ledV, scdV, sr04V, tickV, syncV>>)
AirRuns == only("air", <<ledV, pwmV, sr04V, tickV, syncV>>)
TickRuns == only("tick", <<ledV, pwmV, scdV, sr04V, syncV>>)
Next ==
  \/ (LedsRun /\ Out!LedNext) \/ (PwmRuns /\ Out!PwmNext) \/ (AirRuns /\ Sense!Scd41Next)
  \/ (only("sonar", <<ledV, pwmV, scdV, tickV, syncV>>) /\ Sense!Sr04Next)
  \/ (TickRuns /\ Time!TickNext)
  \/ (only("sync", <<ledV, pwmV, scdV, sr04V, tickV>>) /\ Time!SyncNext)

\* Each task keeps running, and a measurement that is tried again and again succeeds once in a while.
Fairness ==
  /\ WF_vars(TickRuns /\ Time!Tick) /\ WF_vars(TickRuns /\ Time!OtherGives)
  /\ WF_vars(TickRuns /\ Time!Alarm) /\ WF_vars(TickRuns /\ (Time!Notified \/ Time!CopyCount))
  /\ SF_vars(TickRuns /\ Time!TakeMutex)
  /\ WF_vars(LedsRun /\ Out!LedTurn)
  /\ WF_vars(PwmRuns /\ Out!PwmStart) /\ WF_vars(PwmRuns /\ Out!PwmTurn)
  /\ WF_vars(AirRuns /\ Sense!ScdTurn) /\ SF_vars(AirRuns /\ Sense!Reading) /\ WF_vars(AirRuns /\ Sense!TgTurn)
Spec == Init /\ [][Next]_vars /\ Fairness

\* What a part says of itself is looked at while it runs: the others stand still.
(* A frame of the strip stays inside its array, the window fades to both   *)
(* sides and every LED is lit in its turn.  The motor is driven only once  *)
(* it is armed, and the outputs follow the values asked for.               *)
OutputsRight ==
  /\ [](part = "leds" => Out!LedTypeOK /\ Out!FrameFits /\ Out!WindowFades)
  /\ [](part = "pwm" => Out!PwmTypeOK /\ Out!ArmedFirst)
  /\ part = "leds" => Out!EveryLedLit
  /\ part = "pwm" => Out!ValueFollows /\ Out!ServoFollows

(* The ring of samples is reported in the order it was measured in, each   *)
(* ring once and in one message, a full ring is reported as long as the    *)
(* device stays awake, and attempts end.                                   *)
AirReported ==
  /\ [](part = "air" => Sense!ScdTypeOK /\ Sense!TelegramTypeOK /\ Sense!OneMessage /\ Sense!RingInOrder)
  /\ part = "air" => Sense!RingReported /\ Sense!TelegramStops

(* A lap of the sonar is one a sound really took, a failed timer leaves    *)
(* nothing enabled behind, and the clock in the registers keeps being      *)
(* refreshed while clients hold their mutex again and again.  The clock of *)
(* a slave is measured without its largest deviations, and is called       *)
(* synchronized only after that.                                           *)
TimesReal ==
  /\ [](part = "sonar" => Sense!Sr04TypeOK /\ Sense!LapReal)
  /\ [](part = "tick" => Time!TickTypeOK /\ Time!TimerUndone)
  /\ [](part = "sync" => Time!SyncTypeOK /\ Time!LargestLeftOut /\ Time!DeviationTrue)
  /\ Time!ActiveStays
  /\ part = "tick" => Time!TickRefreshed
============================================================================
