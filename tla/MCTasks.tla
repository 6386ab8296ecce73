------------------------------ MODULE MCTasks -------------------------------
(* The tables the tasks register, the life of the tasks, the feeder with    *)
(* its motor, the polisher, the display, and the helpers for CRCs, URI      *)
(* parameters and texts, each on its own: part says which one runs.         *)
EXTENDS RegsLookup

VARIABLES
  part,
  life, loaded, marks, overlapped, created, stopping, low, pinState, mutex, seen, stepper,  \* UserTasks
  interval, clock, mode, feededMinute, request, alive, notice, asked, feeds, fed,           \* Feeder
  wanted, reversed, polAt, speed, powered, turning, channel, playing, status, current,      \* Polisher
  halt, faults, silenced,
  time, motor, turnSteps, rmt, encoder, buffers, driver, played, result, counter, flaws, turns,  \* Feeder, motor
  bus, pins, draw, row, buffer, link, links, selected, panel, line, mutexAt, message, position, logAt,
  own, blink, keys,  \* Display
  frame, flips,  \* Crc
  asSent, uri, pair, names, values,  \* RegsText, URI
  value, lock, writing, writes, webAt, insert, webRead,
  nameText, room, word, tempAt, temp, tempLen, top, tempRead, answer  \* RegsText, values

userV == <<life, loaded, marks, overlapped, created, stopping, low, pinState, mutex, seen, stepper>>
feederV == <<interval, clock, mode, feededMinute, request, alive, notice, asked, feeds, fed>>
polisherV == <<wanted, reversed, polAt, speed, powered, turning, channel, playing, status, current,
               halt, faults, silenced>>
motorV == <<time, motor, turnSteps, rmt, encoder, buffers, driver, played, result, counter, flaws, turns>>
displayV == <<bus, pins, draw, row, buffer, link, links, selected, panel, line, mutexAt, message, position,
              logAt, own, blink, keys>>
crcV == <<frame, flips>>
uriV == <<asSent, uri, pair, names, values>>
textV == <<value, lock, writing, writes, webAt, insert, webRead,
           nameText, room, word, tempAt, temp, tempLen, top, tempRead, answer>>
taskVars == <<part, vars, userV, feederV, polisherV, motorV, displayV, crcV, uriV, textV>>

\* A global table with registers of odd sizes, and three tables of tasks.
R(name, guid, addr, bytes, mdb) ==
  [name |-> name, guid |-> guid, addr |-> addr, bytes |-> bytes, fn |-> 3, mdb |-> mdb]
MCDesc ==
  [t \in Tables |->
     CASE t = "global" -> <<R("mdb_addr", 1, 10, 2, 0), R("wifi_name", 2, 12, 5, 1),
                            R("wifi_password", 3, 17, 3, 3), R("reset_num", 4, 20, 4, 5),
                            R("table_version", 5, 24, 4, 7)>>
       [] t = "feeder" -> <<R("feeder_counter", 20, 50, 4, 20), R("table_version", 21, 54, 4, 22)>>
       [] t = "morse"  -> <<R("morse_text", 30, 30, 3, 30), R("morse_unit", 31, 33, 4, 31),
                            R("table_version", 32, 37, 4, 33)>>
       [] OTHER        -> <<R("di_state", 40, 70, 2, 40)>>]

PinSets == {{}, {"p12", "p13"}}
User == INSTANCE UserTasks WITH Order <- <<"di", "step", "morse">>

Feed == INSTANCE Feeder WITH
  Intervals <- {1, 3, 4}, MinuteMod <- 12, Rounds <- 3, FeedRounds <- 1, MinWork <- 1, MaxSleep <- 3,
  BootRounds <- 1, AliveLong <- 6, AliveInit <- 3, MaxNotices <- 2,
  Times <- {1, 2, 3}, Average <- 12, SpeedSteps <- 10, MinSpeed <- 480, MaxSpeed <- 960,
  MaxFaults <- 2, MaxTurns <- 2

Polish == INSTANCE Polisher WITH Speeds <- {0, 7, 31, 20000}, MaxFaults <- 2, at <- polAt

Show == INSTANCE Display WITH Buses <- {"i2c", "spi"}, LinesNum <- 2, Letters <- {"x", "y"}, MaxKeys <- 2

\* a frame of two bytes and a longer one
Check == INSTANCE Crc WITH Payloads <- {<<{0, 7}, {}>>, <<{1}, {0, 2}, 0 .. 7, {3}>>}, MaxFlips <- 2

\* values 1 and 2 in one word each, with texts of one and two letters; torn ones are 0 and 3
ShownAs(v) == IF v = <<1, 0>> THEN <<"1">> ELSE IF v = <<0, 1>> THEN <<"6", "5">> ELSE <<"x", "x", "x">>
Text == INSTANCE RegsText WITH
  Size <- 3, Written <- {<<1, 0>>, <<0, 1>>}, Shown <- ShownAs,
  Names <- {<<"n", ":">>, <<"n", "n", "n", "n", "n", "n", "n", "n", ":">>},
  TempSize <- 8, BufferSizes <- {3, 7, 20}, MaxWrites <- 1, mutex <- lock, name <- nameText,
  MaxParams <- 2, Texts <- UNION {[1 .. n -> {"a", "&", "=", " "}] : n \in 0 .. 5}

\* The parts that do not run start in one state.
TasksInit ==
  /\ part \in {"tables", "user", "feeder", "polisher", "motor", "display", "crc", "uri", "text"}
  /\ Init
  /\ User!UserInit /\ (part = "user" \/ low = {})
  /\ Feed!FeederInit /\ (part = "feeder" \/ (interval = 1 /\ clock = 0))
  /\ Polish!PolisherInit /\ (part = "polisher" \/ (wanted = 0 /\ ~reversed))
  /\ Feed!MotorInit /\ (part = "motor" \/ time = 1)
  /\ Show!DisplayInit /\ (part = "display" \/ bus = "i2c")
  /\ Check!CrcInit /\ (part = "crc" \/ Len(frame.modbus) = 4)
  /\ Text!UriInit /\ (part = "uri" \/ uri = <<>>)
  /\ Text!TextInit /\ (part = "text" \/ (value = [i \in 1 .. 3 |-> <<1, 0>>] /\ Len(nameText) = 2 /\ room = 3))

\* the variables of one part change, those of the others do not
only(p, others) == part = p /\ UNCHANGED <<part, others>>
UserRuns == only("user", <<vars, feederV, polisherV, motorV, displayV, crcV, uriV, textV>>)
FeederRuns == only("feeder", <<vars, userV, polisherV, motorV, displayV, crcV, uriV, textV>>)
PolisherRuns == only("polisher", <<vars, userV, feederV, motorV, displayV, crcV, uriV, textV>>)
tasksV == <<vars, userV, feederV, polisherV>>

TasksNext ==
  \/ only("tables", <<userV, feederV, polisherV, motorV, displayV, crcV, uriV, textV>>) /\ Next
  \/ UserRuns /\ User!UserNext
  \/ FeederRuns /\ Feed!FeederNext
  \/ PolisherRuns /\ Polish!PolisherNext
  \/ only("motor", <<tasksV, displayV, crcV, uriV, textV>>) /\ Feed!MotorNext
  \/ only("display", <<tasksV, motorV, crcV, uriV, textV>>) /\ Show!DisplayNext
  \/ only("crc", <<tasksV, motorV, displayV, uriV, textV>>) /\ Check!CrcNext
  \/ only("uri", <<tasksV, motorV, displayV, crcV, textV>>) /\ Text!UriNext
  \/ only("text", <<tasksV, motorV, displayV, crcV, uriV>>) /\ Text!TextNext

\* Each task keeps running; a client gives the mutex back and does not keep the task from it for
\* ever; a feed that is tried again and again succeeds once in a while.
Fairness ==
  /\ WF_taskVars(UserRuns /\ User!DiRead) /\ SF_taskVars(UserRuns /\ User!DiTake)
  /\ WF_taskVars(UserRuns /\ User!DiRelease) /\ WF_taskVars(UserRuns /\ User!ClientGives)
  /\ WF_taskVars(FeederRuns /\ Feed!FeederTurn) /\ SF_taskVars(FeederRuns /\ Feed!Fed(TRUE))
  /\ WF_taskVars(PolisherRuns /\ Polish!PolisherTurn)
TasksSpec == TasksInit /\ [][TasksNext]_taskVars /\ Fairness

\* What a part says of itself is looked at while it runs: the others stand still.
(* A table has a slot of its own while it registers with others in between *)
(* and keeps its index; every search finds what the tables hold, a Modbus  *)
(* word is one of a register, and an index leads back to its register.     *)
TablesRight ==
  /\ [](part = "tables" => TypeOK)
  /\ [](OwnSlot /\ UserVarsCounted /\ SearchesFind /\ WordsInside /\ IndexLeadsBack)
  /\ IndicesStay

(* Marks of saved registers are those of the tables.  A feed happens once  *)
(* in its minute, the motor turns by the steps asked for and speeds up and *)
(* down evenly, and nothing is left allocated.  The panel shows what was   *)
(* drawn, whole rows of it, and a failed bus leaves no link behind.        *)
TasksKept ==
  /\ part = "user" => User!UserTypeOK /\ User!MarksTrue
  /\ part = "feeder" => Feed!FeederTypeOK /\ Feed!OncePerMinute
  /\ part = "polisher" => Polish!PolisherTypeOK
  /\ part = "motor" => Feed!MotorTypeOK /\ Feed!StepsAsAsked /\ Feed!RunsSmoothly /\ Feed!NothingLeft
  /\ part = "display" => Show!DisplayTypeOK /\ Show!PanelIsBuffer /\ Show!RowsWhole /\ Show!NoLinkLeft

(* A page shows whole values and a message the beginning of their text,    *)
(* put together inside its buffer; the parameters of a URI are cut apart   *)
(* where they end, and a damaged frame is found.                           *)
TextsRight ==
  /\ part = "text" => Text!TextTypeOK /\ Text!SsiWhole /\ Text!InsideTemp /\ Text!TextIsPrefix
  /\ part = "uri" => Text!UriTypeOK /\ Text!ParamsSplit
  /\ part = "crc" => Check!CrcTypeOK /\ Check!DamageFound

(* The registers of the inputs follow the pins, the feeder feeds again,    *)
(* and the polisher runs at the speed asked for, stands still when it is   *)
(* off and stops after its time.                                           *)
TasksFollow ==
  /\ part = "user" => User!PinsFollow
  /\ part = "feeder" => Feed!FedAgain
  /\ part = "polisher" => Polish!MotorOff /\ Polish!SpeedFollows /\ Polish!PolisherStops
============================================================================
