----------------------------- MODULE UserTasks ------------------------------
(***************************************************************************)
(* The life of the user tasks: user_tasks_start creates them one after the *)
(* other, all of one priority; each marks itself in current_state[0], runs *)
(* its rounds and takes its mark back when it is stopped.  The marks are   *)
(* set and cleared by |= and &= on a register all tasks share, without a   *)
(* lock: a load and a store, between which another task may run.           *)
(*                                                                         *)
(* Of the tasks "di" copies its input pins to a register under             *)
(* regs_access_mutex and has no mark; "step" drives a stepper; the others  *)
(* have empty rounds.  A client of the registers takes the mutex too.      *)
(***************************************************************************)
EXTENDS Integers, FiniteSets

CONSTANTS
  Order,    \* the tasks in the order they are created
  PinSets   \* sets of input pins that may be low

VARIABLES
  life,      \* per task: "none", "ready", "marking", "run", "clearing", "ended"
  loaded,    \* per task: current_state[0] as it loaded it
  marks,     \* current_state[0]
  overlapped,\* history: two updates of the marks met
  created,   \* tasks created so far
  stopping,  \* tasks with STOP_CHILD_PROCCES pending
  low,       \* the input pins that are low
  pinState,  \* pin_state
  mutex,     \* regs_access_mutex: "free", "di", "client"
  seen,      \* the pins as di read them before it waited for the mutex
  stepper    \* [en, pulse]: GPIO_OUTPUT_STEP_MOTOR_EN is active, the level of STEP0 and STEP1

userVars == <<life, loaded, marks, overlapped, created, stopping, low, pinState, mutex, seen, stepper>>

Tasks == {Order[i] : i \in DOMAIN Order}
Marked == Tasks \ {"di"}
Nothing == {"nothing"}

UserInit ==
  /\ life = [t \in Tasks |-> "none"] /\ loaded = [t \in Tasks |-> {}] /\ marks = {} /\ overlapped = FALSE
  /\ created = 0 /\ stopping = {} /\ low \in PinSets /\ pinState = {} /\ mutex = "free" /\ seen = Nothing
  /\ stepper = [en |-> FALSE, pulse |-> FALSE]

\* user_tasks_start: a task that cannot be created is only logged
Create(ok) ==
  /\ created < Cardinality(DOMAIN Order) /\ created' = created + 1
  /\ life' = IF ok THEN [life EXCEPT ![Order[created + 1]] = "ready"] ELSE life
  /\ UNCHANGED <<loaded, marks, overlapped, stopping, low, pinState, mutex, seen, stepper>>

Updating == {t \in Tasks : life[t] \in {"marking", "clearing"}}
Load(t, at) ==
  /\ life' = [life EXCEPT ![t] = at] /\ loaded' = [loaded EXCEPT ![t] = marks]
  /\ overlapped' = (overlapped \/ Updating # {})

\* *_init
StartTask(t) ==
  /\ life[t] = "ready"
  /\ IF t \in Marked THEN Load(t, "marking") ELSE life' = [life EXCEPT ![t] = "run"] /\ UNCHANGED <<loaded, overlapped>>
  /\ stepper' = IF t = "step" THEN [stepper EXCEPT !.en = FALSE] ELSE stepper
  /\ UNCHANGED <<marks, created, stopping, low, pinState, mutex, seen>>

Mark(t) ==
  /\ life[t] = "marking" /\ marks' = loaded[t] \cup {t} /\ life' = [life EXCEPT ![t] = "run"]
  /\ stepper' = IF t = "step" THEN [stepper EXCEPT !.en = TRUE] ELSE stepper
  /\ UNCHANGED <<loaded, overlapped, created, stopping, low, pinState, mutex, seen>>

AskTask(t) ==
  /\ life[t] # "none" /\ stopping' = stopping \cup {t}
  /\ UNCHANGED <<life, loaded, marks, overlapped, created, low, pinState, mutex, seen, stepper>>

\* *_deinit
StopTask(t) ==
  /\ life[t] = "run" /\ t \in stopping /\ (t = "di" => seen = Nothing)
  /\ IF t \in Marked THEN Load(t, "clearing") ELSE life' = [life EXCEPT ![t] = "ended"] /\ UNCHANGED <<loaded, overlapped>>
  /\ stepper' = IF t = "step" THEN [stepper EXCEPT !.en = FALSE] ELSE stepper
  /\ UNCHANGED <<marks, created, stopping, low, pinState, mutex, seen>>

Clear(t) == marks' = loaded[t] \ {t}

Unmark(t) ==
  /\ life[t] = "clearing" /\ Clear(t) /\ life' = [life EXCEPT ![t] = "ended"]
  /\ UNCHANGED <<loaded, overlapped, created, stopping, low, pinState, mutex, seen, stepper>>

StepRound ==
  /\ "step" \in Tasks /\ life["step"] = "run" /\ "step" \notin stopping /\ stepper' = [stepper EXCEPT !.pulse = ~@]
  /\ UNCHANGED <<life, loaded, marks, overlapped, created, stopping, low, pinState, mutex, seen>>

\* di_handle_task: the pins are read, then the mutex is waited for; it inverts the levels
DiRead ==
  /\ life["di"] = "run" /\ "di" \notin stopping /\ seen = Nothing /\ seen' = low
  /\ UNCHANGED <<life, loaded, marks, overlapped, created, stopping, low, pinState, mutex, stepper>>

DiTake ==
  /\ seen # Nothing /\ mutex = "free" /\ mutex' = "di" /\ pinState' = seen
  /\ UNCHANGED <<life, loaded, marks, overlapped, created, stopping, low, seen, stepper>>

DiGiveHeld == UNCHANGED mutex  \* mutant: the mutex is kept
DiGive == mutex' = "free"

DiRelease ==
  /\ mutex = "di" /\ seen # Nothing /\ DiGive /\ seen' = Nothing
  /\ UNCHANGED <<life, loaded, marks, overlapped, created, stopping, low, pinState, stepper>>

Client ==
  /\ mutex \in {"free", "client"} /\ mutex' = IF mutex = "free" THEN "client" ELSE "free"
  /\ UNCHANGED <<life, loaded, marks, overlapped, created, stopping, low, pinState, seen, stepper>>

PinsChange ==
  /\ low' \in PinSets /\ low' # low
  /\ UNCHANGED <<life, loaded, marks, overlapped, created, stopping, pinState, mutex, seen, stepper>>

UserNext ==
  \/ \E ok \in BOOLEAN : Create(ok)
  \/ \E t \in Tasks : StartTask(t) \/ Mark(t) \/ AskTask(t) \/ StopTask(t) \/ Unmark(t)
  \/ StepRound \/ DiRead \/ DiTake \/ DiRelease \/ Client \/ PinsChange

ClientGives == mutex = "client" /\ Client

(***************************************************************************)
(* Properties.                                                             *)
(***************************************************************************)

UserTypeOK ==
  /\ life \in [Tasks -> {"none", "ready", "marking", "run", "clearing", "ended"}]
  /\ marks \subseteq Marked /\ mutex \in {"free", "di", "client"} /\ pinState \in PinSets \cup {{}}

Shown == marks = {t \in Marked : life[t] = "run"}

(* current_state[0] shows the tasks that run, whatever order they start    *)
(* and end in, as long as no two of them change it at the same time.       *)
MarksTrue == ~overlapped /\ Updating = {} => Shown

(* pin_state comes to what the pins keep, although a client may hold the   *)
(* mutex whenever the task wants it.                                       *)
PinsFollow ==
  \A p \in PinSets : <>[](low = p /\ life["di"] = "run" /\ "di" \notin stopping) => <>[](pinState = p)
============================================================================
