------------------------------ MODULE SysTick -------------------------------
(***************************************************************************)
(* The timer of the device: common_duty_init starts common_timer_task and  *)
(* the hardware timer, timer_group_isr_callback sets the next alarm and    *)
(* notifies the task, which copies the timer to the register               *)
(* sys_tick_counter under regs_access_mutex.                               *)
(*                                                                         *)
(* The handler of the alarm may be late; an alarm set to a time that has   *)
(* passed comes at once.                                                   *)
(***************************************************************************)
EXTENDS Integers, Sequences, FiniteSets, FiniteSetsExt

CONSTANTS
  Scale,    \* TIMER_SCALE
  MaxLate,  \* bound on the ticks from an alarm to its handler
  CountMod  \* the timer is kept modulo this

VARIABLES
  duty,       \* common_duty_init: "start", "task" when the task exists, "done", "failed"
  timer,      \* s_gptimer: "none", "made", "enabled", "started"
  armed,      \* an alarm is set
  late,       \* ticks since its time, negative before
  count,      \* the timer
  notified,   \* the notification of common_timer_task
  timerTask,  \* "none", "wait", "take", "hold"
  regsMutex,  \* regs_access_mutex: "free", "task", "client"
  sysTick,    \* the register sys_tick_counter
  wrote       \* history: the last step wrote it

tickVars == <<duty, timer, armed, late, count, notified, timerTask, regsMutex, sysTick, wrote>>

TickInit ==
  /\ duty = "start" /\ timer = "none" /\ armed = FALSE /\ late = -Scale /\ count = 0 /\ notified = FALSE
  /\ timerTask = "none" /\ regsMutex = "free" /\ sysTick = 0 /\ wrote = FALSE

\* common_duty_init: task_create, and common_timer_init only if that succeeded
CreateTask(ok) ==
  /\ duty = "start" /\ duty' = IF ok THEN "task" ELSE "failed"
  /\ timerTask' = IF ok THEN "wait" ELSE "none"
  /\ UNCHANGED <<timer, armed, late, count, notified, regsMutex, sysTick, wrote>>

\* the timer when a step of common_timer_init fails, and what the step undoes;
\* a timer that is enabled cannot be deleted
Reached(step) ==
  CASE step = "new" -> "none" [] step = "start" -> "enabled" [] OTHER -> "made"
Disable(t) == IF t = "enabled" THEN "made" ELSE t
Delete(t) == IF t = "enabled" THEN t ELSE "none"
Undone(step) == IF step = "start" THEN Delete(Disable(Reached(step))) ELSE Delete(Reached(step))

TimerInit ==
  /\ duty = "task" /\ duty' = "done" /\ timer' = "started" /\ armed' = TRUE /\ late' = -Scale /\ count' = 0
  /\ UNCHANGED <<notified, timerTask, regsMutex, sysTick, wrote>>

TimerFails(step) ==
  /\ duty = "task" /\ duty' = "failed" /\ timer' = Undone(step)
  /\ UNCHANGED <<armed, late, count, notified, timerTask, regsMutex, sysTick, wrote>>

Tick ==
  /\ timer = "started" /\ (armed => late < MaxLate)
  /\ count' = (count + 1) % CountMod /\ wrote' = FALSE
  /\ late' = IF armed THEN late + 1 ELSE late
  /\ UNCHANGED <<duty, timer, armed, notified, timerTask, regsMutex, sysTick>>

\* timer_group_isr_callback: the next alarm is counted from the last one
NoNext == armed' = FALSE /\ late' = -Scale  \* mutant: the timer goes off once
NextAlarm == armed' = TRUE /\ late' = late - Scale
Alarm ==
  /\ timer = "started" /\ armed /\ late >= 0 /\ NextAlarm
  /\ notified' = (timerTask # "none") /\ wrote' = FALSE
  /\ UNCHANGED <<duty, timer, count, timerTask, regsMutex, sysTick>>

\* common_timer_task
Notified ==
  /\ timerTask = "wait" /\ notified /\ notified' = FALSE /\ timerTask' = "take" /\ wrote' = FALSE
  /\ UNCHANGED <<duty, timer, armed, late, count, regsMutex, sysTick>>

TakeMutex ==
  /\ timerTask = "take" /\ regsMutex = "free" /\ regsMutex' = "task" /\ timerTask' = "hold" /\ wrote' = FALSE
  /\ UNCHANGED <<duty, timer, armed, late, count, notified, sysTick>>

CopyCount ==
  /\ timerTask = "hold" /\ sysTick' = count /\ wrote' = TRUE /\ regsMutex' = "free" /\ timerTask' = "wait"
  /\ UNCHANGED <<duty, timer, armed, late, count, notified>>

\* any other task that holds regs_access_mutex for a while
OtherTakes ==
  /\ regsMutex = "free" /\ regsMutex' = "client" /\ wrote' = FALSE
  /\ UNCHANGED <<duty, timer, armed, late, count, notified, timerTask, sysTick>>
OtherGives ==
  /\ regsMutex = "client" /\ regsMutex' = "free" /\ wrote' = FALSE
  /\ UNCHANGED <<duty, timer, armed, late, count, notified, timerTask, sysTick>>

TickNext ==
  \/ TimerInit \/ Tick \/ Alarm \/ Notified \/ TakeMutex \/ CopyCount \/ OtherTakes \/ OtherGives
  \/ \E ok \in BOOLEAN : CreateTask(ok)
  \/ \E step \in {"new", "alarm", "callbacks", "enable", "start"} : TimerFails(step)

(***************************************************************************)
(* Properties of the timer.                                                *)
(***************************************************************************)

TickTypeOK ==
  /\ late \in -Scale .. MaxLate /\ count \in 0 .. CountMod - 1 /\ sysTick \in 0 .. CountMod - 1
  /\ timer \in {"none", "made", "enabled", "started"} /\ (regsMutex = "task" <=> timerTask = "hold")

(* Whichever of the five calls that set up the timer fails, nothing of the *)
(* timer is left behind.                                                   *)
TimerUndone == duty = "failed" => timer = "none"

(* Once the timer runs, sys_tick_counter is refreshed again and again: a   *)
(* handler that is so late that the next alarm has passed does not end the *)
(* chain of alarms, a notification that overwrites an unread one loses     *)
(* nothing, and other users of regs_access_mutex delay it only.            *)
TickRefreshed == duty = "done" ~> []<>wrote

-----------------------------------------------------------------------------
(***************************************************************************)
(* The measurement of the clock of a slave, inside                         *)
(* modbus_tcp_client_connection_task: one task reads the slave's           *)
(* sys_tick_counter again and again and averages the deviations it finds,  *)
(* without the largest of them; another reads what the slave measured      *)
(* itself and says in sync_active whether the clocks agree.  Both change   *)
(* sync_active, and read it and write it under separate locks.             *)
(*                                                                         *)
(* The largest deviations are moved up by a memcpy whose areas overlap,    *)
(* which is undefined: the words are moved, or the first of them is spread *)
(* over all.                                                               *)
(***************************************************************************)
CONSTANTS
  Size,       \* TIME_SYNC_BUFFER_SIZE, 100 in the code
  Expel,      \* TIME_SYNC_EXPEL_BUFFER_SIZE, 10 in the code
  MaxTrip,    \* MAX_TRANSMISSION_TIME
  Threshold,  \* TIME_SYNC_DEVIATION_THRESHOLD
  Offsets,    \* differences of the clocks: slave minus own
  Stale,      \* differences that an old tick of the slave pretends
  PeerDevs    \* what the slave finds: cli_sys_tick_dev

VARIABLES
  copy,            \* what the overlapping memcpy does: "moves", "spreads"
  offset,          \* the difference of the clocks
  samples,         \* time_sync_buffer, up to time_sync_buffer_index
  deviation,       \* the register sync_sys_tick_dev
  syncActive,      \* the register sync_active: a set of "active", "syncronized"
  measure, hadM,   \* the measuring task: "poll", "average", "read", "write"; its copy of sync_active
  agree, hadA,     \* the comparing task: "poll", "compare", "write"; its copy
  clean            \* history: no sample so far is a stale one

syncVars == <<copy, offset, samples, deviation, syncActive, measure, hadM, agree, hadA, clean>>
measureV == <<measure, hadM, samples, deviation, clean>>
agreeV == <<agree, hadA>>

SyncTypeOK ==
  /\ samples \in Seq(Int) /\ Len(samples) <= Size /\ deviation \in Int
  /\ {syncActive, hadM, hadA} \subseteq SUBSET {"active", "syncronized"}
  /\ measure \in {"poll", "average", "read", "write"} /\ agree \in {"poll", "compare", "write"}

SyncInit ==
  /\ copy \in {"moves", "spreads"} /\ offset \in Offsets
  /\ samples = <<>> /\ deviation = 0 /\ syncActive = {} /\ clean = TRUE
  /\ measure = "poll" /\ hadM = {} /\ agree = "poll" /\ hadA = {}

-----------------------------------------------------------------------------
(* The measuring task                                                       *)

\* The tick of the slave is taken there ticks after the own one, the answer takes back ticks.
Sampled(there, back, apart) == back - apart - (there + back) \div 2

\* An answer that took too long is not used.  An exception counts as an answer, the tick of
\* the slave is then an old one.
Measure(there, back, fresh, apart) ==
  /\ measure = "poll" /\ (fresh => apart = offset)
  /\ there + back < MaxTrip
  /\ samples' = Append(samples, Sampled(there, back, apart))
  /\ clean' = (clean /\ fresh)
  /\ measure' = IF Len(samples') >= Size THEN "average" ELSE "poll"
  /\ UNCHANGED <<copy, offset, deviation, syncActive, hadM, agreeV>>

Abs(n) == IF n < 0 THEN -n ELSE n

\* a deviation goes before the first one that is smaller, the last one drops out
Inserted(m, d) ==
  LET smaller == {k \in 1 .. Expel : Abs(d) > Abs(m[k])}
      j == Min(smaller) IN
  IF smaller = {} THEN m
  ELSE [k \in 1 .. Expel |-> IF k < j THEN m[k] ELSE IF k = j THEN d ELSE IF copy = "moves" THEN m[k - 1] ELSE m[j]]

\* maximum_values_in_buffer after the first i samples
Maxima ==
  LET m[i \in 0 .. Size] == IF i = 0 THEN [k \in 1 .. Expel |-> 0] ELSE Inserted(m[i - 1], samples[i])
  IN  m[Size]

Total(s, indices) == MapThenSumSet(LAMBDA i : s[i], indices)
Divided(n, d) == IF n < 0 THEN -((-n) \div d) ELSE n \div d

Average ==
  /\ measure = "average" /\ measure' = "read"
  /\ deviation' = Divided(Total(samples, 1 .. Size) - Total(Maxima, 1 .. Expel), Size - Expel)
  /\ UNCHANGED <<copy, offset, samples, syncActive, hadM, agreeV, clean>>

ReadActive ==
  /\ measure = "read" /\ measure' = "write" /\ hadM' = syncActive
  /\ UNCHANGED <<copy, offset, samples, deviation, syncActive, agreeV, clean>>

WriteActive ==
  /\ measure = "write" /\ measure' = "poll" /\ hadM' = {}
  /\ syncActive' = hadM \cup {"active"} /\ samples' = <<>> /\ clean' = TRUE
  /\ UNCHANGED <<copy, offset, deviation, agreeV>>

-----------------------------------------------------------------------------
(* The comparing task                                                       *)

AgreeRead ==
  /\ agree = "poll" /\ "active" \in syncActive
  /\ agree' = "compare" /\ hadA' = syncActive
  /\ UNCHANGED <<copy, offset, syncActive, measureV>>

\* The sum is compared with its sign.
Compare(peer) ==
  /\ agree = "compare"
  /\ IF deviation + peer < Threshold THEN agree' = "write" /\ UNCHANGED hadA ELSE agree' = "poll" /\ hadA' = {}
  /\ UNCHANGED <<copy, offset, syncActive, measureV>>

AgreeWrite ==
  /\ agree = "write" /\ agree' = "poll" /\ hadA' = {}
  /\ syncActive' = hadA \cup {"syncronized"}
  /\ UNCHANGED <<copy, offset, measureV>>

SyncNext ==
  \/ \E there, back \in 0 .. MaxTrip + 1, fresh \in BOOLEAN, apart \in Offsets \cup Stale :
       Measure(there, back, fresh, apart)
  \/ Average \/ ReadActive \/ WriteActive \/ AgreeRead \/ AgreeWrite
  \/ \E peer \in PeerDevs : Compare(peer)

-----------------------------------------------------------------------------
(* Properties of the measurement                                            *)

(* What is averaged is all of the buffer but Expel samples, none of which  *)
(* is smaller than one that stays.  Where memcpy moves its words: where it *)
(* spreads them, one large deviation is subtracted several times.          *)
LargestLeftOut ==
  copy = "moves" /\ measure = "read" =>
    \E out \in kSubset(Expel, 1 .. Size) :
      /\ \A i \in out, j \in (1 .. Size) \ out : Abs(samples[i]) >= Abs(samples[j])
      /\ deviation = Divided(Total(samples, (1 .. Size) \ out), Size - Expel)

(* Measured without stale ticks the deviation is that of the clocks, but   *)
(* for half of the longest trip: modbus_tcp_client.c:280 bounds it.        *)
DeviationTrue ==
  copy = "moves" /\ measure = "read" /\ clean => Abs(deviation + offset) <= MaxTrip \div 2

(* The clocks are never called synchronized before a first average, and a  *)
(* measurement once active stays so: neither task writes back a value of   *)
(* sync_active older than the other's first write.                         *)
ActiveStays ==
  /\ [](("syncronized" \in syncActive) => ("active" \in syncActive))
  /\ [][("active" \in syncActive) => ("active" \in syncActive')]_syncVars
=============================================================================
