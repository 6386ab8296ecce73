------------------------------ MODULE Sensors -------------------------------
(***************************************************************************)
(* Two sensors, which have no state in common: that of the air, with the   *)
(* telegram task that sends its reports, and the sonar.                    *)
(*                                                                         *)
(* scd41_task: every cycle measures, keeps the level in a ring of saved    *)
(* registers and asks for a report when the ring is full or the air is     *)
(* bad.  With SLEEP_IS_ACTIVE it then asks for the sleep that ends in a    *)
(* restart.  Before each report it waits 35 s for the network; the ring is *)
(* written after that.                                                     *)
(*                                                                         *)
(* telegram_task: a notification names registers to send; the task tries   *)
(* up to ten times to connect and to write one message.  Notifications     *)
(* that meet in the value of the task are ORed: their register numbers are *)
(* mixed.  The TLS connection may fail at each of its calls.               *)
(*                                                                         *)
(* The ultrasonic distance sensor: gpio_isr_handler takes the times of the *)
(* edges of the echo, sr04_task turns a pair of them into a distance.      *)
(*                                                                         *)
(* An edge makes the interrupt pending, the handler runs later and looks   *)
(* at the level of that moment: edges that come meanwhile are one call.    *)
(* The critical section of the task does not keep the handler away from    *)
(* the other core; C does not say which of the two times is read first,    *)
(* and between the two reads there is time for one call of the handler.    *)
(* A distance is counted in ticks of the timer.                            *)
(***************************************************************************)
EXTENDS Integers, Sequences, FiniteSets

CONSTANTS
  Attempts,    \* 10
  Reports,     \* what other tasks ask to be sent
  ArraySize,   \* SCD41_ARRAY_SIZE
  MaxSamples,  \* the samples are numbered modulo this
  MaxTime,     \* bound on the timer
  LapLimit     \* 15.5 cm in ticks

VARIABLES
  \* the air and its reports
  tgAt,        \* "wait", "try", "ended"
  tgNotice,    \* the notification value: reports and "stop"
  taken,       \* signal_value, as far as it is looked at again: {} or {"stop"}
  attempts,
  messages,    \* history: messages written for the signal taken, up to 2
  sleepActive, \* SLEEP_IS_ACTIVE, fixed by the build
  scd,         \* "start", "measured", "ring" and "air" before their 35 s, "write", "index" between the
             \* two writes, "cycle", "ended"
  captured,    \* co2_level_captured
  sample,      \* the number of the sample in hand
  index,       \* scd41_index_in_array
  ring,        \* scd41_co2_array, as numbers of samples; NoSample at first
  copy,        \* the local copy of the ring
  askedSleep,  \* SLEEP_TASK_DEEP_SLEEP_FOR_N_SEC was sent since the start
  scdStop,     \* SLEEP_TASK_STOP_CHILD_PROCCES is pending
  kept,        \* history: the samples stored, the last one first, up to ArraySize
  \* the sonar
  level, pending,   \* the pin of the echo and its interrupt
  now,              \* the timer
  rising, falling,  \* time_rising_edge, time_faling_edge
  risingOld,        \* rising_edge_old
  notice,           \* the notification value: "none", "echo", "stop"
  sensor,           \* "wait", "falling" and "rising": that time has been read, "ended"
  readTime,         \* the time that was read first
  between,          \* the handler ran between the two reads
  preview, filtered, lap,  \* preview_distance, distance_filtered, lap_distance
  echo,             \* history: the last call of the handler saw the echo
  spans             \* history: the times from a call that saw the echo to the next, that saw its end

tgVars == <<tgAt, tgNotice, taken, attempts, messages>>

TelegramInit ==
  tgAt = "wait" /\ tgNotice = {} /\ taken = {} /\ attempts = 0 /\ messages = 0

TgNotify(r) ==
  /\ tgNotice' = IF tgAt = "ended" THEN tgNotice ELSE tgNotice \cup {r}
  /\ UNCHANGED <<tgAt, taken, attempts, messages>>

\* task_notify_wait clears the whole value
Take ==
  /\ tgAt = "wait" /\ tgNotice # {} /\ taken' = tgNotice \cap {"stop"} /\ tgNotice' = {}
  /\ messages' = 0
  /\ IF tgNotice \cap Reports # {} THEN tgAt' = "try" /\ attempts' = Attempts
     ELSE tgAt' = "ended" /\ UNCHANGED attempts

\* what follows the attempts: the task ends if the same value asked it to
AfterTries == IF "stop" \in taken THEN "ended" ELSE "wait"
GoOn == tgAt' = AfterTries /\ taken' = {}

Written == messages' = (IF messages < 2 THEN messages + 1 ELSE 2)

\* the message is written, which ends the attempts
Sent == tgAt = "try" /\ Written /\ attempts' = 0 /\ GoOn /\ UNCHANGED tgNotice

\* no TLS structure, no connection, or nothing was written
TryFails ==
  /\ tgAt = "try" /\ attempts' = attempts - 1
  /\ IF attempts = 1 THEN GoOn ELSE UNCHANGED <<tgAt, taken>>
  /\ UNCHANGED <<tgNotice, messages>>

TelegramTurn == Take \/ Sent \/ TryFails

-----------------------------------------------------------------------------
scdVars == <<scd, captured, sample, index, ring, copy, askedSleep, scdStop, kept>>
scd41Vars == <<sleepActive, scdVars, tgVars>>
NoSample == -1
Next1(n) == (n + 1) % MaxSamples

Scd41Init ==
  /\ TelegramInit /\ sleepActive \in BOOLEAN /\ scd = "start" /\ captured = FALSE /\ sample = 0 /\ index = 0
  /\ ring = [i \in 0 .. ArraySize - 1 |-> NoSample] /\ copy = ring
  /\ askedSleep = FALSE /\ scdStop = FALSE /\ kept = <<>>

\* start, 5 s, read: the bus or the sensor may fail
Measure ==
  /\ scd = "start" /\ scd' = "measured" /\ sample' = Next1(sample)
  /\ UNCHANGED <<captured, index, ring, copy, askedSleep, scdStop, kept, tgVars>>

MeasureFails ==
  /\ scd = "start" /\ scd' = "cycle"
  /\ UNCHANGED <<captured, sample, index, ring, copy, askedSleep, scdStop, kept, tgVars>>

\* handle_scd_data of a level that was captured before only updates the level registers
Known ==
  /\ scd = "measured" /\ captured /\ scd' = "cycle"
  /\ UNCHANGED <<captured, sample, index, ring, copy, askedSleep, scdStop, kept, tgVars>>

\* store_array_of_co2_levels: the copy, and 35 s when the ring is full
Wrap(i) == IF i + 1 >= ArraySize THEN 0 ELSE i + 1

FullStrict(i) == i + 1 > ArraySize  \* mutant: never reached
Full(i) == i + 1 >= ArraySize
Copy == copy' = [ring EXCEPT ![index] = sample]

Store ==
  /\ scd = "measured" /\ ~captured /\ Copy
  /\ scd' = IF Full(index) THEN "ring" ELSE "write"
  /\ UNCHANGED <<captured, sample, index, ring, askedSleep, scdStop, kept, tgVars>>

ReportRing ==
  /\ scd = "ring" /\ scd' = "write" /\ TgNotify("array")
  /\ UNCHANGED <<captured, sample, index, ring, copy, askedSleep, scdStop, kept>>

\* regs_description_write_value_by_address, the index and then the array
WriteIndex ==
  /\ scd = "write" /\ scd' = "index" /\ index' = Wrap(index)
  /\ UNCHANGED <<captured, sample, ring, copy, askedSleep, scdStop, kept, tgVars>>

WriteArray(bad) ==
  /\ scd = "index" /\ ring' = copy
  /\ kept' = SubSeq(<<sample>> \o kept, 1, IF Len(kept) < ArraySize THEN Len(kept) + 1 ELSE ArraySize)
  /\ IF bad THEN scd' = "air" /\ UNCHANGED captured ELSE scd' = "cycle" /\ captured' = TRUE
  /\ copy' = [i \in DOMAIN copy |-> NoSample] /\ UNCHANGED <<sample, index, askedSleep, scdStop, tgVars>>

ReportAir ==
  /\ scd = "air" /\ scd' = "cycle" /\ captured' = TRUE /\ TgNotify("level")
  /\ UNCHANGED <<sample, index, ring, copy, askedSleep, scdStop, kept>>

\* handle_sleeping, then the wait for a signal; without sleep every cycle captures
Cycle(sleeps) ==
  /\ scd = "cycle" /\ scd' = (IF scdStop THEN "ended" ELSE "start")
  /\ askedSleep' = (askedSleep \/ (sleepActive /\ sleeps))
  /\ captured' = (captured /\ sleepActive)
  /\ UNCHANGED <<sample, index, ring, copy, scdStop, kept, tgVars>>

StopScd == scdStop' = TRUE /\ ~scdStop /\ UNCHANGED <<scd, captured, sample, index, ring, copy, askedSleep, kept, tgVars>>

\* the sleep control lets both tasks go, wherever they are; the saved registers come back
Restart ==
  /\ askedSleep /\ scd' = "start" /\ captured' = FALSE /\ askedSleep' = FALSE /\ scdStop' = FALSE
  /\ tgAt' = "wait" /\ tgNotice' = {} /\ taken' = {} /\ attempts' = 0 /\ messages' = 0
  /\ kept' = IF scd = "index" THEN <<>> ELSE kept
  /\ copy' = [i \in DOMAIN copy |-> NoSample] /\ UNCHANGED <<sample, index, ring>>

Reading == Measure /\ UNCHANGED sleepActive
ScdTurn ==
  /\ UNCHANGED sleepActive
  /\ \/ Measure \/ Known \/ Store \/ ReportRing \/ WriteIndex \/ ReportAir
     \/ \E b \in BOOLEAN : WriteArray(b) \/ Cycle(b)
TgTurn == TelegramTurn /\ UNCHANGED <<sleepActive, scdVars>>
StopTg == tgAt # "ended" /\ "stop" \notin tgNotice /\ TgNotify("stop") /\ UNCHANGED scdVars
Scd41Next == ScdTurn \/ TgTurn \/ (UNCHANGED sleepActive /\ (MeasureFails \/ StopScd \/ Restart \/ StopTg))

-----------------------------------------------------------------------------
(* Properties of the air sensor and of the telegram task                    *)

TelegramTypeOK ==
  /\ tgAt \in {"wait", "try", "ended"} /\ tgNotice \subseteq Reports \cup {"stop"} /\ attempts \in 0 .. Attempts

(* The attempts are retries of one message: for a signal taken at most one *)
(* message is written, however the attempts before it failed.              *)
OneMessage == messages < 2

(* A stop request ends the task although the network never works, unless   *)
(* a restart takes the request away.                                       *)
TelegramStops == "stop" \in tgNotice ~> (tgAt = "ended" \/ "stop" \notin tgNotice \cup taken)

ScdTypeOK ==
  /\ TelegramTypeOK /\ index \in 0 .. ArraySize - 1
  /\ scd \in {"start", "measured", "ring", "write", "index", "air", "cycle", "ended"}

(* The ring of saved registers, read backwards from the index, is the      *)
(* samples that were stored, the last one first, through failed            *)
(* measurements, restarts and the waits for the network.  (A restart that  *)
(* falls between the write of the index and that of the array leaves one   *)
(* stale entry: from there the order is taken anew.)                       *)
RingInOrder ==
  scd # "index" => \A j \in 1 .. Len(kept) : ring[(index - j + ArraySize) % ArraySize] = kept[j]

(* Without sleep a full ring is asked to be reported, again and again, as  *)
(* long as the sensor answers now and then and nobody stops the tasks.     *)
RingReported == sleepActive \/ []<>("array" \in tgNotice) \/ <>[](scd = "ended" \/ tgAt = "ended")

-----------------------------------------------------------------------------
(* The sonar                                                                *)

sr04Vars == <<level, pending, now, rising, falling, risingOld, notice, sensor, readTime, between,
              preview, filtered, lap, echo, spans>>

NoLap == -1
Huge == MaxTime + 1      \* an unsigned difference below zero, as a float

Sr04Init ==
  /\ level = 0 /\ pending = FALSE /\ now = 1 /\ rising = 0 /\ falling = 0 /\ risingOld = 0 /\ notice = "none"
  /\ sensor = "wait" /\ readTime = 0 /\ between = FALSE
  /\ preview = 0 /\ filtered = 0 /\ lap = NoLap /\ echo = FALSE /\ spans = {}

task == <<sensor, readTime, preview, filtered, lap>>

Tick ==
  /\ now < MaxTime /\ now' = now + 1
  /\ UNCHANGED <<level, pending, rising, falling, risingOld, notice, task, between, echo, spans>>

\* the pin does not change twice in a tick
Edge ==
  /\ now < MaxTime /\ now' = now + 1 /\ level' = 1 - level /\ pending' = TRUE
  /\ UNCHANGED <<rising, falling, risingOld, notice, task, between, echo, spans>>

\* gpio_isr_handler
NewEcho == risingOld # rising
IsrRising == level = 1 /\ rising' = now /\ UNCHANGED <<falling, risingOld, notice, spans>>
IsrFalling ==
  /\ level = 0 /\ risingOld' = rising
  /\ IF NewEcho THEN falling' = now /\ notice' = "echo" ELSE UNCHANGED <<falling, notice>>
  /\ spans' = IF echo THEN spans \cup {now - rising} ELSE spans
  /\ UNCHANGED rising
Isr ==
  /\ pending /\ (sensor \in {"rising", "falling"} => ~between)
  /\ pending' = FALSE /\ between' = (sensor \in {"rising", "falling"})
  /\ IsrRising \/ IsrFalling
  /\ echo' = (level = 1)
  /\ UNCHANGED <<level, now, task>>

\* stop_user_task; the notification of the handler overwrites it
AskStop ==
  /\ notice' = "stop" /\ sensor # "ended"
  /\ UNCHANGED <<level, pending, now, rising, falling, risingOld, task, between, echo, spans>>

\* sr04_task: a signal, or sr04_trigger after 5 ms without one
StopSr04 ==
  /\ sensor = "wait" /\ notice = "stop" /\ sensor' = "ended" /\ notice' = "none"
  /\ UNCHANGED <<level, pending, now, rising, falling, risingOld, readTime, between, preview, filtered, lap, echo, spans>>

ReadOne(which) ==
  /\ sensor = "wait" /\ notice = "echo" /\ notice' = "none" /\ sensor' = which
  /\ readTime' = IF which = "rising" THEN rising ELSE falling
  /\ between' = FALSE
  /\ UNCHANGED <<level, pending, now, rising, falling, risingOld, preview, filtered, lap, echo, spans>>

\* distance_is_in_range
InRange(a, b) == a - b < 1 /\ b - a < 1
Distance(f, r) == IF f >= r THEN f - r ELSE Huge
MeasureDistance ==
  LET d == IF sensor = "rising" THEN Distance(falling, readTime) ELSE Distance(readTime, rising) IN
  /\ sensor \in {"rising", "falling"} /\ sensor' = "wait"
  /\ lap' = IF d < LapLimit THEN d ELSE lap
  /\ filtered' = IF InRange(d, preview) THEN d ELSE filtered
  /\ preview' = d
  /\ UNCHANGED <<level, pending, now, rising, falling, risingOld, notice, readTime, between, echo, spans>>

Sr04Next == Tick \/ Edge \/ Isr \/ AskStop \/ StopSr04 \/ MeasureDistance \/ \E w \in {"rising", "falling"} : ReadOne(w)

-----------------------------------------------------------------------------
(* Properties of the sonar                                                  *)

Sr04TypeOK ==
  /\ level \in 0 .. 1 /\ now \in 1 .. MaxTime /\ rising \in 0 .. now /\ falling \in 0 .. now
  /\ risingOld \in 0 .. now /\ notice \in {"none", "echo", "stop"}
  /\ sensor \in {"wait", "rising", "falling", "ended"} /\ preview \in 0 .. Huge /\ filtered \in 0 .. Huge
  /\ lap \in NoLap .. LapLimit - 1 /\ spans \subseteq 0 .. MaxTime

(* A lap is stored for a real echo: its distance is the time between two   *)
(* calls of the handler of which one saw the echo and the next one its     *)
(* end.  Edges that fall together, the end of a second echo that was       *)
(* never seen to begin, and a call between the two reads of the task do    *)
(* not pair times of different echoes.                                     *)
LapReal == lap # NoLap => lap \in spans
=============================================================================
