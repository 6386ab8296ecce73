----------------------------- MODULE RegsStore -----------------------------
(***************************************************************************)
(* The saved registers of the firmware and their way to flash.             *)
(*                                                                         *)
(* A register marked &save lives in three places: in RAM (regs_main and    *)
(* the structures of the user tasks), in the RAM mirror of its table (the  *)
(* saved_regs_buffer, closed by a CRC) and in an NVS blob.  Tasks write    *)
(* the register and then its mirror (regs_set, regs_description_write_     *)
(* value, mirror_access_write) and ask for a save by a bit of              *)
(* table_to_save; common_duty_task collects the bits once per period and   *)
(* writes the mirrors to NVS.  Two binary semaphores are involved:         *)
(* regs_access_mutex and global_vars_mirror_mutex.  A mirror is compared   *)
(* with, and copied from, the register WITHOUT regs_access_mutex, so a     *)
(* mirror can be filled while another task is in the middle of a memcpy    *)
(* into that register; registers are therefore made of cells, copied one   *)
(* by one.                                                                 *)
(*                                                                         *)
(* A critical section is one action, except where it reads a register that *)
(* the semaphore does not protect.  A CRC is modelled by the content it    *)
(* was computed from: it matches exactly when the content is the same.     *)
(***************************************************************************)
EXTENDS Naturals, FiniteSets

CONSTANTS
  Table,       \* indices of regs_description_list, 0 is the global table
  Reg,         \* the saved registers of all the tables
  Cell,        \* the pieces in which a memcpy moves a register
  TableOf,     \* [Reg -> Table]
  RegOf,       \* [Cell -> Reg]
  Default,     \* [Cell -> Nat]: p_default, or 0 where it is NULL
  Task,        \* the tasks that write registers
  NoTask,      \* no holder of a semaphore
  Lwip,        \* the one that executes the commands of the clients
  Writable,    \* the saved registers that are written through the register API
  ResetCell,   \* reset_num
  FlashWrites, \* flash_write_number, incremented in place by the save
  Val,         \* the values clients and user tasks write
  Factory,     \* the NVS contents the device may be switched on with
  FlashWriteMax,                  \* 0xffffffff in the code
  MaxWrites, MaxCommands, MaxCuts, MaxFaults \* bounds on the environment

Home(c) == TableOf[RegOf[c]]

BlobStates == {"none",  \* nothing stored, or a blob of another size
               "old",   \* another table_version
               "bad",   \* this version, wifi settings that regs_init refuses
               "cur"}

ASSUME Structure ==
  /\ Table \subseteq Nat /\ 0 \in Table
  /\ TableOf \in [Reg -> Table]
  /\ RegOf \in [Cell -> Reg]
  /\ Default \in [Cell -> Nat]
  /\ Lwip \in Task /\ NoTask \notin Task
  /\ Writable \subseteq Reg
  /\ ResetCell \in Cell /\ Home(ResetCell) = 0
  /\ FlashWrites \in Cell /\ RegOf[FlashWrites] \notin Writable
  /\ RegOf[FlashWrites] # RegOf[ResetCell]
  /\ \A c \in Cell : RegOf[c] = RegOf[FlashWrites] => c = FlashWrites
  /\ Val \subseteq Nat
  /\ Factory \subseteq [flash : [Cell -> Nat], blob : [Table -> BlobStates]]
  /\ \A f \in Factory : \A t \in Table : f.blob[t] = "bad" => t = 0
  /\ FlashWriteMax \in Nat
  /\ {MaxWrites, MaxCommands, MaxCuts, MaxFaults} \subseteq Nat

VARIABLES
  ram, mirror, crc,     \* [Cell -> Nat]; crc: the content the CRC was computed from
  flash, flashCrc,      \* the same two for the NVS blobs
  blob,                 \* [Table -> state of the blob]
  up,                   \* tables registered and preinitialised since the boot
  regsMutex,            \* holder of regs_access_mutex across actions, or NoTask
  mirrorMutex,          \* holder of global_vars_mirror_mutex across actions
  source, uncopied,     \* memcpy into the registers by the holder of regsMutex
  tableToSave, asyncFlag,
  pc, reg,              \* [Task -> ...] the write a task is executing
  defTable, uninit,     \* SET_DEFAULT_VALUES_COMM: its table, registers not yet mirrored
  dutyPc, dutySet,      \* common_duty_task and its local table_to_save
  notified, armed,      \* PREPARE_TO_RESET pending; prepare_time # 0
  writes, commands, cuts, faults,   \* environment counters
  failed,  \* history: tables whose last transfer from or to NVS failed
  wiped,   \* history: tables whose request was cleared by set_regs_def_values(0)
  owed,    \* history: tables with defaults in the mirror that are not in flash
  sentFor, promised  \* history: owed tables behind the notification / the armed reset

content  == <<ram, mirror, crc>>
nvs      == <<flash, flashCrc, blob>>
requests == <<tableToSave, asyncFlag>>
locks    == <<regsMutex, mirrorMutex>>
copying  == <<source, uncopied>>
writer   == <<pc, reg>>
defaults == <<defTable, uninit>>
duty     == <<dutyPc, dutySet>>
reset    == <<notified, armed>>
env      == <<writes, commands, cuts, faults>>
history  == <<failed, wiped, owed, sentFor, promised>>
vars     == <<content, nvs, up, requests, locks, copying, writer, defaults,
              duty, reset, env, history>>

CellsOf(t) == {c \in Cell : Home(c) = t}
RegsOf(t)  == {r \in Reg : TableOf[r] = t}

TypeOK ==
  /\ ram \in [Cell -> Nat] /\ mirror \in [Cell -> Nat] /\ crc \in [Cell -> Nat]
  /\ flash \in [Cell -> Nat] /\ flashCrc \in [Cell -> Nat]
  /\ blob \in [Table -> BlobStates]
  /\ up \subseteq Table
  /\ regsMutex \in Task \cup {NoTask} /\ mirrorMutex \in Task \cup {NoTask}
  /\ source \in [Cell -> Nat] /\ uncopied \subseteq Cell
  /\ tableToSave \subseteq Table /\ asyncFlag \in BOOLEAN
  /\ pc \in [Task -> {"idle", "ram", "mirror", "copy", "request",
                      "defram", "definit", "defrequest", "defnotify"}]
  /\ reg \in [Task -> Reg]
  /\ defTable \in Table /\ uninit \subseteq Reg
  /\ dutyPc \in {"wait", "take", "save"} /\ dutySet \subseteq Table
  /\ notified \in BOOLEAN /\ armed \in BOOLEAN
  /\ writes \in Nat /\ commands \in Nat /\ cuts \in Nat /\ faults \in Nat
  /\ failed \subseteq Table /\ wiped \subseteq Table
  /\ owed \subseteq Table /\ sentFor \subseteq Table /\ promised \subseteq Table

-----------------------------------------------------------------------------
(* Boot: restoring the mirrors from NVS.                                    *)

\* The blob passes the size check and the CRC check.
Restorable(t) ==
  /\ blob[t] \in {"cur", "bad", "old"}
  /\ \A c \in CellsOf(t) : flash[c] = flashCrc[c]

\* What preinit_table_vars leaves in register and mirror when NVS can be read.
Durable(c) ==
  IF Restorable(Home(c)) /\ blob[Home(c)] # "old" THEN flash[c] ELSE Default[c]

Restored(c, readable) == IF readable THEN Durable(c) ELSE Default[c]

\* All the volatile state: what it is after a reset, before app_main runs.
PowerUp ==
  /\ ram' = Default /\ mirror' = Default /\ crc' = Default
  /\ up' = {}
  /\ tableToSave' = {} /\ asyncFlag' = FALSE
  /\ regsMutex' = NoTask /\ mirrorMutex' = NoTask
  /\ source' = Default /\ uncopied' = {}
  /\ pc' = [w \in Task |-> "idle"]
  /\ defTable' = 0 /\ uninit' = {}
  /\ dutyPc' = "wait" /\ dutySet' = {}
  /\ notified' = FALSE /\ armed' = FALSE
  /\ reg' = [w \in Task |-> RegOf[ResetCell]]
  /\ owed' = {} /\ sentFor' = {} /\ promised' = {} /\ wiped' = {}

Init ==
  /\ ram = Default /\ mirror = Default /\ crc = Default
  /\ \E f \in Factory : flash = f.flash /\ flashCrc = f.flash /\ blob = f.blob
  /\ up = {}
  /\ tableToSave = {} /\ asyncFlag = FALSE
  /\ regsMutex = NoTask /\ mirrorMutex = NoTask
  /\ source = Default /\ uncopied = {}
  /\ pc = [w \in Task |-> "idle"]
  /\ reg = [w \in Task |-> RegOf[ResetCell]]
  /\ defTable = 0 /\ uninit = {}
  /\ dutyPc = "wait" /\ dutySet = {}
  /\ notified = FALSE /\ armed = FALSE
  /\ writes = 0 /\ commands = 0 /\ cuts = 0 /\ faults = 0
  /\ failed = {} /\ wiped = {} /\ owed = {} /\ sentFor = {} /\ promised = {}

\* NVS works, or it fails once more.
NvsWorks(ok) ==
  /\ ok \/ faults < MaxFaults
  /\ faults' = IF ok THEN faults ELSE faults + 1

\* regs_init: the global table is restored; refused wifi settings bring all of
\* it back to the defaults, reset_num excepted; reset_num is incremented and
\* its mirror written, which requests a save.
RegsInit(readable) ==
  LET refused == readable /\ Restorable(0) /\ blob[0] = "bad"
      global == [c \in CellsOf(0) |->
                   CASE c = ResetCell -> Restored(c, readable) + 1
                     [] c # ResetCell /\ refused -> Default[c]
                     [] OTHER -> Restored(c, readable)]
      Loaded(old) == [c \in Cell |-> IF Home(c) = 0 THEN global[c] ELSE old[c]]
  IN
  /\ up = {}
  /\ NvsWorks(readable)
  /\ ram' = Loaded(ram) /\ mirror' = Loaded(mirror) /\ crc' = Loaded(crc)
  /\ up' = {0}
  /\ tableToSave' = tableToSave \cup {0} /\ asyncFlag' = TRUE
  /\ failed' = IF readable THEN failed \ {0} ELSE failed \cup {0}
  /\ UNCHANGED <<nvs, locks, copying, writer, defaults, duty, reset,
                 writes, commands, cuts, wiped, owed, sentFor, promised>>

\* regs_description_list_add_new and preinit_table_vars of a user task.  A table
\* that starts from its defaults is not saved.
PreinitTableVars(t, readable) ==
  LET Loaded(old) == [c \in Cell |-> IF Home(c) = t THEN Restored(c, readable) ELSE old[c]]
  IN
  /\ 0 \in up /\ t \notin up
  /\ NvsWorks(readable)
  /\ ram' = Loaded(ram) /\ mirror' = Loaded(mirror) /\ crc' = Loaded(crc)
  /\ up' = up \cup {t}
  /\ failed' = IF readable THEN failed \ {t} ELSE failed \cup {t}
  /\ UNCHANGED <<nvs, requests, locks, copying, writer, defaults, duty, reset,
                 writes, commands, cuts, wiped, owed, sentFor, promised>>

-----------------------------------------------------------------------------
(* A task writes a saved register: regs_set on the lwIP thread (Modbus,     *)
(* HTTP), regs_description_write_value in a user task.                      *)

\* semaphore_take(regs_access_mutex) and the start of the memcpy of value.
WriteRegister(w, r, value) ==
  /\ pc[w] = "idle" /\ r \in Writable /\ TableOf[r] \in up
  /\ writes < MaxWrites
  /\ regsMutex = NoTask
  /\ regsMutex' = w
  /\ source' = [c \in Cell |-> IF RegOf[c] = r THEN value[c] ELSE Default[c]]
  /\ uncopied' = {c \in Cell : RegOf[c] = r}
  /\ pc' = [pc EXCEPT ![w] = "ram"]
  /\ reg' = [reg EXCEPT ![w] = r]
  /\ writes' = writes + 1
  /\ UNCHANGED <<content, nvs, up, requests, mirrorMutex, defaults, duty, reset,
                 commands, cuts, faults, history>>

\* regs_set refuses the value (regs_write_value_check) and still goes through
\* regs_hadle_sets, that is through mirror_access_write.
RefusedWrite(w, r) ==
  /\ pc[w] = "idle" /\ r \in Writable /\ TableOf[r] \in up
  /\ writes < MaxWrites
  /\ pc' = [pc EXCEPT ![w] = "mirror"]
  /\ reg' = [reg EXCEPT ![w] = r]
  /\ writes' = writes + 1
  /\ UNCHANGED <<content, nvs, up, requests, locks, copying, defaults, duty, reset,
                 commands, cuts, faults, history>>

\* One piece of a memcpy under regs_access_mutex, of a write or of the defaults.
CopyCell(w, c) ==
  /\ regsMutex = w /\ c \in uncopied
  /\ ram' = [ram EXCEPT ![c] = source[c]]
  /\ uncopied' = uncopied \ {c}
  /\ UNCHANGED <<mirror, crc, nvs, up, requests, locks, source, writer, defaults,
                 duty, reset, env, history>>

\* The memcpy is complete: semaphore_release(regs_access_mutex).
WriteDone(w) ==
  /\ pc[w] = "ram" /\ uncopied = {}
  /\ regsMutex' = NoTask
  /\ source' = Default
  /\ pc' = [pc EXCEPT ![w] = "mirror"]
  /\ UNCHANGED <<content, nvs, up, requests, mirrorMutex, uncopied, reg, defaults,
                 duty, reset, env, history>>

\* memcmp of the mirror with the register, read without regs_access_mutex.
SameAsMirrorAnywhere(r) ==   \* mutant: one piece compared
  \E c \in Cell : RegOf[c] = r /\ mirror[c] = ram[c]
SameAsMirror(r) == \A c \in Cell : RegOf[c] = r => mirror[c] = ram[c]

\* memcpy of the register into the mirror.
Mirrored(r) == [c \in Cell |-> IF RegOf[c] = r THEN ram[c] ELSE mirror[c]]

\* mirror_recalc_crc_unlocked of table t, for mirrors m.
SealForgotten(t, m) == crc  \* mutant: the CRC is left as it was
Sealed(t, m) == [c \in Cell |-> IF Home(c) = t THEN m[c] ELSE crc[c]]

\* mirror_access_write takes the mirror semaphore and compares ...
MirrorCompare(w) ==
  /\ pc[w] = "mirror" /\ mirrorMutex = NoTask
  /\ \/ /\ SameAsMirror(reg[w])
        /\ pc' = [pc EXCEPT ![w] = "idle"]
        /\ UNCHANGED mirrorMutex
     \/ /\ ~SameAsMirror(reg[w])
        /\ pc' = [pc EXCEPT ![w] = "copy"]
        /\ mirrorMutex' = w
  /\ UNCHANGED <<content, nvs, up, requests, regsMutex, copying, reg, defaults,
                 duty, reset, env, history>>

\* ... and copies what the register holds by then, recomputes the CRC of the
\* table and releases the semaphore.
MirrorCopy(w) ==
  /\ pc[w] = "copy"
  /\ mirror' = Mirrored(reg[w])
  /\ crc' = Sealed(TableOf[reg[w]], Mirrored(reg[w]))
  /\ mirrorMutex' = NoTask
  /\ pc' = [pc EXCEPT ![w] = "request"]
  /\ UNCHANGED <<ram, nvs, up, requests, regsMutex, copying, reg, defaults,
                 duty, reset, env, history>>

\* mirror_request_flash_save
AddRequestOverwriting(t) ==  \* mutant: table_to_save = BIT(table_ind)
  regsMutex = NoTask /\ tableToSave' = {t} /\ asyncFlag' = TRUE
AddRequestUnflagged(t) ==    \* mutant: async_flags forgotten
  regsMutex = NoTask /\ tableToSave' = tableToSave \cup {t} /\ UNCHANGED asyncFlag
AddRequest(t) ==
  /\ regsMutex = NoTask
  /\ tableToSave' = tableToSave \cup {t}
  /\ asyncFlag' = TRUE

RequestSave(w) ==
  /\ pc[w] = "request"
  /\ AddRequest(TableOf[reg[w]])
  /\ pc' = [pc EXCEPT ![w] = "idle"]
  /\ UNCHANGED <<content, nvs, up, locks, copying, reg, defaults, duty, reset,
                 env, history>>

-----------------------------------------------------------------------------
(* Commands of the clients: execute_main_command, on the lwIP thread.       *)

\* SW_RESET_COMM; ENTER_UPDATER_COMM ends in the same notification.
ResetCommand ==
  /\ pc[Lwip] = "idle" /\ 0 \in up
  /\ commands < MaxCommands
  /\ commands' = commands + 1
  /\ notified' = TRUE
  /\ UNCHANGED <<content, nvs, up, requests, locks, copying, writer, defaults, duty,
                 armed, writes, cuts, faults, history>>

\* SET_DEFAULT_VALUES_COMM: set_regs_def_values takes regs_access_mutex and
\* copies the defaults over every register of the table.
SetDefaults(t) ==
  /\ pc[Lwip] = "idle" /\ t \in up
  /\ commands < MaxCommands
  /\ regsMutex = NoTask
  /\ regsMutex' = Lwip
  /\ source' = Default /\ uncopied' = CellsOf(t)
  /\ pc' = [pc EXCEPT ![Lwip] = "defram"]
  /\ defTable' = t
  /\ commands' = commands + 1
  /\ UNCHANGED <<content, nvs, up, requests, mirrorMutex, reg, uninit, duty, reset,
                 writes, cuts, faults, history>>

\* The registers of the global table include table_to_save and async_flags:
\* their default is zero, and every request that is pending goes with them.
DefaultsDone ==
  /\ pc[Lwip] = "defram" /\ uncopied = {}
  /\ regsMutex' = NoTask
  /\ IF defTable = 0
       THEN /\ tableToSave' = {} /\ asyncFlag' = FALSE
            /\ wiped' = wiped \cup tableToSave
       ELSE UNCHANGED <<requests, wiped>>
  /\ uninit' = RegsOf(defTable)
  /\ pc' = [pc EXCEPT ![Lwip] = "definit"]
  /\ UNCHANGED <<content, nvs, up, mirrorMutex, copying, reg, defTable, duty, reset,
                 env, failed, owed, sentFor, promised>>

\* mirror_access_init_buffer: one critical section for each register ...
InitBuffer(r) ==
  /\ pc[Lwip] = "definit" /\ r \in uninit /\ mirrorMutex = NoTask
  /\ mirror' = Mirrored(r)
  /\ uninit' = uninit \ {r}
  /\ UNCHANGED <<ram, crc, nvs, up, requests, locks, copying, writer, defTable,
                 duty, reset, env, history>>

\* ... and one for the CRC.
InitBufferCrc ==
  /\ pc[Lwip] = "definit" /\ uninit = {} /\ mirrorMutex = NoTask
  /\ crc' = Sealed(defTable, mirror)
  /\ pc' = [pc EXCEPT ![Lwip] = "defrequest"]
  /\ owed' = owed \cup {defTable}
  /\ UNCHANGED <<ram, mirror, nvs, up, requests, locks, copying, reg, defaults,
                 duty, reset, env, failed, wiped, sentFor, promised>>

DefaultsRequestMissing ==  \* mutant: reset notified without the save request
  /\ pc[Lwip] = "defrequest"
  /\ pc' = [pc EXCEPT ![Lwip] = "defnotify"]
  /\ UNCHANGED <<content, nvs, up, requests, locks, copying, reg, defaults, duty,
                 reset, env, history>>
DefaultsRequest ==
  /\ pc[Lwip] = "defrequest"
  /\ AddRequest(defTable)
  /\ pc' = [pc EXCEPT ![Lwip] = "defnotify"]
  /\ UNCHANGED <<content, nvs, up, locks, copying, reg, defaults, duty, reset,
                 env, history>>

DefaultsNotify ==
  /\ pc[Lwip] = "defnotify"
  /\ notified' = TRUE
  /\ sentFor' = sentFor \cup ({defTable} \cap owed)
  /\ pc' = [pc EXCEPT ![Lwip] = "idle"]
  /\ UNCHANGED <<content, nvs, up, requests, locks, copying, reg, defaults, duty,
                 armed, env, failed, wiped, owed, promised>>

-----------------------------------------------------------------------------
(* common_duty_task                                                         *)

\* The notification is consumed; PREPARE_TO_RESET (re)starts the reset timer.
PrepareTimeForgotten == notified  \* mutant: prepare_time reset every period
PrepareTime == armed \/ notified

DutyWait ==
  /\ 0 \in up /\ dutyPc = "wait"
  /\ armed' = PrepareTime
  /\ notified' = FALSE
  /\ promised' = promised \cup sentFor /\ sentFor' = {}
  /\ dutyPc' = "take"
  /\ UNCHANGED <<content, nvs, up, requests, locks, copying, writer, defaults,
                 dutySet, env, failed, wiped, owed>>

DutyTake ==
  /\ dutyPc = "take" /\ regsMutex = NoTask
  /\ IF asyncFlag
       THEN /\ dutySet' = tableToSave
            /\ tableToSave' = {} /\ asyncFlag' = FALSE
       ELSE UNCHANGED <<dutySet, requests>>
  /\ dutyPc' = "save"
  /\ UNCHANGED <<content, nvs, up, locks, copying, writer, defaults, reset, env,
                 history>>

\* internal_flash_save_mirror_to_flash of the lowest table left.  A failure is
\* reported to the log only, and the result of nvs_set_blob not even there.
\* ~ok also stands for the save that is skipped because, with no blob stored, the
\* mirror is compared with an uninitialised buffer that happens to be equal.
DutySave(ok) ==
  \E t \in dutySet :
    /\ dutyPc = "save" /\ \A u \in dutySet : t <= u
    /\ mirrorMutex = NoTask
    /\ NvsWorks(ok)
    /\ ram' = [ram EXCEPT ![FlashWrites] = IF @ < FlashWriteMax THEN @ + 1 ELSE @]
    /\ IF ok
         THEN /\ flash' = [c \in Cell |-> IF Home(c) = t THEN mirror[c] ELSE flash[c]]
              /\ flashCrc' = [c \in Cell |-> IF Home(c) = t THEN crc[c] ELSE flashCrc[c]]
              /\ blob' = [blob EXCEPT ![t] = "cur"]
              /\ failed' = failed \ {t} /\ wiped' = wiped \ {t}
         ELSE /\ failed' = failed \cup {t}
              /\ UNCHANGED <<nvs, wiped>>
    /\ dutySet' = dutySet \ {t}
    /\ owed' = owed \ {t} /\ sentFor' = sentFor \ {t} /\ promised' = promised \ {t}
    /\ UNCHANGED <<mirror, crc, up, requests, locks, copying, writer, defaults, dutyPc,
                   reset, writes, commands, cuts>>

\* The end of a period: no reset, or TIME_FOR_PREPARE_RESET_MS not over.
DutyEnd ==
  /\ dutyPc = "save" /\ dutySet = {}
  /\ dutyPc' = "wait"
  /\ UNCHANGED <<content, nvs, up, requests, locks, copying, writer, defaults,
                 dutySet, reset, env, history>>

\* esp_restart
DutyRestart ==
  /\ dutyPc = "save" /\ dutySet = {} /\ armed
  /\ PowerUp
  /\ UNCHANGED <<nvs, env, failed>>

PowerCut ==
  /\ up # {} /\ cuts < MaxCuts
  /\ cuts' = cuts + 1
  /\ PowerUp
  /\ UNCHANGED <<nvs, writes, commands, faults, failed>>

-----------------------------------------------------------------------------
\* What a task does on its own: starting a write is up to its environment.
WriteStep(w) ==
  \/ \E c \in Cell : CopyCell(w, c)
  \/ WriteDone(w)
  \/ MirrorCompare(w)
  \/ MirrorCopy(w)
  \/ RequestSave(w)

StartWrite(w) ==
  \E r \in Reg :
    \/ \E value \in [{c \in Cell : RegOf[c] = r} -> Val] : WriteRegister(w, r, value)
    \/ RefusedWrite(w, r)

CommandStep ==
  \/ DefaultsDone
  \/ \E r \in Reg : InitBuffer(r)
  \/ InitBufferCrc
  \/ DefaultsRequest
  \/ DefaultsNotify

StartCommand ==
  \/ ResetCommand
  \/ \E t \in Table : SetDefaults(t)

DutyStep ==
  \/ DutyWait
  \/ DutyTake
  \/ \E ok \in BOOLEAN : DutySave(ok)
  \/ DutyEnd

Boot ==
  \E readable \in BOOLEAN :
    \/ RegsInit(readable)
    \/ \E t \in Table : PreinitTableVars(t, readable)

Next ==
  \/ \E w \in Task : WriteStep(w) \/ StartWrite(w)
  \/ CommandStep
  \/ StartCommand
  \/ DutyStep
  \/ DutyRestart
  \/ PowerCut
  \/ Boot

Spec == Init /\ [][Next]_vars

\* Every task is scheduled again and again (equal priorities, time slices), and a
\* task that waits for a semaphore gets it although others take it in between.
\* The periods of the duty task outlast TIME_FOR_PREPARE_RESET_MS in the end.
\* Clients, commands and power cuts owe nothing.
Fairness ==
  /\ \A w \in Task : SF_vars(WriteStep(w))
  /\ SF_vars(CommandStep)
  /\ SF_vars(DutyStep)
  /\ SF_vars(DutyRestart)
  /\ WF_vars(Boot)

FairSpec == Spec /\ Fairness

-----------------------------------------------------------------------------
(* Properties                                                               *)

\* Somebody will still take the mirror of t to flash: a bit of table_to_save is
\* set, the duty task holds it, or the task that changed the mirror has not yet
\* reached mirror_request_flash_save.
SavePending(t) ==
  \/ t \in tableToSave \/ t \in dutySet
  \/ \E w \in Task : pc[w] = "request" /\ TableOf[reg[w]] = t
  \/ pc[Lwip] \in {"definit", "defrequest"} /\ defTable = t

\* A task will still bring the mirror of cell c up to date with the register.
MirrorPending(c) ==
  \/ \E w \in Task : pc[w] \in {"ram", "mirror", "copy"} /\ reg[w] = RegOf[c]
  \/ pc[Lwip] = "defram" /\ defTable = Home(c)
  \/ pc[Lwip] = "definit" /\ RegOf[c] \in uninit

\* No update of a mirror is lost: unless a save is still to come, a restart would
\* restore what the mirror holds.  The two ways out are recorded in failed (NVS
\* error, which the code does not retry) and wiped (requests of other tables that
\* set_regs_def_values(0) clears).  About mirror_access_write, mirror_request_flash_save
\* and the flag handling of common_duty_task.
NoLostSave ==
  \A c \in Cell :
    Home(c) \in up \ (failed \cup wiped) /\ ~SavePending(Home(c)) => mirror[c] = Durable(c)

\* The mirror follows the register although it is filled without the mutex of the
\* register and two tasks may write the same one: whatever torn value a copy picks
\* up, some task is still on its way to correct it.  About mirror_access_write and
\* mirror_access_init_buffer.  (flash_write_number is never mirrored:
\* internal_flash_save_mirror_to_flash increments it in place.)
MirrorFollows ==
  \A c \in Cell \ {FlashWrites} :
    Home(c) \in up /\ ~MirrorPending(c) => mirror[c] = ram[c]

\* The CRC in a mirror matches its content, except while mirror_access_init_buffer
\* is between its critical sections: a save at any other moment stores a blob that
\* mirror_check_crc accepts at the next boot.
MirrorSealed ==
  \A c \in Cell :
    Home(c) \in up /\ ~(pc[Lwip] = "definit" /\ defTable = Home(c)) => crc[c] = mirror[c]

\* The reset that SET_DEFAULT_VALUES_COMM asks for never overtakes the save of the
\* defaults: when common_duty_task decides about the restart, every table the
\* armed reset was requested for has been through internal_flash_save_mirror_to_flash,
\* unless its request was wiped.
RestartAfterSave ==
  dutyPc = "save" /\ dutySet = {} => promised \subseteq wiped

\* Once the writers rest, every table reaches flash: register, mirror and blob
\* agree for good (NVS failures and wiped requests aside).  Needs the whole chain
\* regs_set, mirror_access_write, common_duty_task.
EventuallyDurable ==
  <>[](\A c \in Cell \ {FlashWrites} :
         Home(c) \in up \ (failed \cup wiped) => ram[c] = mirror[c] /\ mirror[c] = Durable(c))

\* A requested reset happens: PREPARE_TO_RESET is not lost between the lwIP thread
\* and common_duty_task, saves in between notwithstanding.
ResetHappens == notified ~> up = {}

\* The promise of &save to the user: a setting nobody is working on any more comes
\* back unchanged after a reset or a power cut at this moment.  Follows from the
\* properties above; about the whole way from regs_set to preinit_table_vars.
SettingsSurviveReset ==
  \A c \in Cell \ {FlashWrites} :
    /\ Home(c) \in up \ (failed \cup wiped)
    /\ ~SavePending(Home(c)) /\ ~MirrorPending(c)
    => Durable(c) = ram[c]

\* What a start without a failure of NVS makes of cell c: preinit_table_vars, and regs_init
\* for wifi settings it refuses.
Booted(c) ==
  IF Home(c) = 0 /\ Restorable(0) /\ blob[0] = "bad" /\ c # ResetCell THEN Default[c] ELSE Durable(c)

\* The settings as SavedSettings sees them: before its table is up a setting is what the
\* start will make of it.
Settings == Cell \ {FlashWrites}
Resting(c) ==
  Home(c) \in up => Home(c) \notin failed \cup wiped /\ ~SavePending(Home(c)) /\ ~MirrorPending(c)
Settled == {c \in Settings : Resting(c)}
AtBoot == [c \in Settings |-> Booted(c)]
Visible == [c \in Settings |-> IF Home(c) \in up THEN ram[c] ELSE Booted(c)]
Kept == INSTANCE SavedSettings WITH
  Setting <- Settings, TableOf <- [c \in Settings |-> Home(c)], Counter <- ResetCell,
  value <- Visible, kept <- AtBoot, settled <- Settled

\* The way through mirror, requests, duty task and NVS implements the promise of
\* SavedSettings: a setting changes only while somebody works on it, a save touches no
\* setting that rests, and a reset at any moment brings back the last value at rest.  A
\* failed or wiped save leaves the settings of its table in work until one succeeds.
SettingsKept == Kept!KeptSpec

\* regs.h:215 "&save- will have saved in bkram" without the exception for wiped
\* requests: a saved register whose mirror changed gets to flash.  Violated, see
\* DefaultsDone.
EverySaveServed ==
  \A c \in Cell :
    Home(c) \in up \ failed /\ ~SavePending(Home(c)) => mirror[c] = Durable(c)

-----------------------------------------------------------------------------
(* The inductive invariant of the proofs in RegsStoreProofs.                *)

\* Who holds a semaphore across steps is where the semaphore says.
Locking ==
  /\ \A w \in Task : pc[w] \in {"ram", "defram"} <=> regsMutex = w
  /\ \A w \in Task : pc[w] = "copy" <=> mirrorMutex = w
  /\ \A w \in Task : pc[w] \in {"defram", "definit", "defrequest", "defnotify"} => w = Lwip

\* A memcpy in progress stays inside what its task is known to work on.
Copying ==
  /\ regsMutex = NoTask => uncopied = {}
  /\ \A w \in Task : \A c \in uncopied : pc[w] = "ram" => RegOf[c] = reg[w]
  /\ \A c \in uncopied : pc[Lwip] = "defram" => Home(c) = defTable
  /\ pc[Lwip] = "definit" => uninit \subseteq RegsOf(defTable)

\* The duty task carries tables only while it saves; flag and bits agree.
Carrying ==
  /\ dutyPc # "save" => dutySet = {}
  /\ ~asyncFlag => tableToSave = {}

\* A reset that is notified or armed has the saves it was asked with in front of it.
Promise ==
  /\ sentFor \cup promised \subseteq wiped \cup tableToSave \cup dutySet
  /\ pc[Lwip] = "defnotify" /\ defTable \in owed => defTable \in wiped \cup tableToSave \cup dutySet
  /\ dutyPc = "save" => promised \subseteq wiped \cup dutySet

\* Work in progress belongs to tables that are up.
Awake ==
  /\ tableToSave \subseteq up /\ dutySet \subseteq up
  /\ \A w \in Task : pc[w] \in {"ram", "mirror", "copy", "request"} => TableOf[reg[w]] \in up
  /\ pc[Lwip] \in {"defram", "definit", "defrequest", "defnotify"} => defTable \in up

\* Refused wifi settings are replaced in flash by the save regs_init asks for.
RefusedReplaced ==
  0 \in up \ (failed \cup wiped) /\ ~SavePending(0) => blob[0] # "bad"

IInv ==
  /\ TypeOK /\ Locking /\ Copying /\ Carrying /\ Promise
  /\ MirrorSealed /\ MirrorFollows /\ NoLostSave
  /\ Awake /\ RefusedReplaced
============================================================================
