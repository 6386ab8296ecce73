-------------------------- MODULE RegsStoreProofs --------------------------
(* Proofs about RegsStore, for every set of tables, registers, cells and    *)
(* tasks and every bound.                                                   *)
EXTENDS RegsStore, TLAPS

(* Every cell belongs to a table. *)
LEMMA HomeType == \A c \in Cell : Home(c) \in Table /\ RegOf[c] \in Reg
  BY Structure DEF Home

(* The initial states are well typed. *)
LEMMA InitType == Init => TypeOK
<1> SUFFICES ASSUME Init PROVE TypeOK
  OBVIOUS
<1>1. ram \in [Cell -> Nat] /\ mirror \in [Cell -> Nat] /\ crc \in [Cell -> Nat] /\ source \in [Cell -> Nat]
  BY Structure DEF Init
<1>2. flash \in [Cell -> Nat] /\ flashCrc \in [Cell -> Nat] /\ blob \in [Table -> BlobStates]
  BY Structure DEF Init
<1>3. /\ pc \in [Task -> {"idle", "ram", "mirror", "copy", "request", "defram", "definit", "defrequest", "defnotify"}]
      /\ reg \in [Task -> Reg]
  BY Structure DEF Init
<1>4. defTable \in Table /\ uninit \subseteq Reg /\ dutyPc \in {"wait", "take", "save"} /\ dutySet \subseteq Table
  BY Structure DEF Init
<1> QED
  BY <1>1, <1>2, <1>3, <1>4 DEF Init, TypeOK

(* A restored value is a number, whatever NVS holds. *)
LEMMA RestoredType ==
  ASSUME TypeOK, NEW c \in Cell, NEW b \in BOOLEAN
  PROVE  Durable(c) \in Nat /\ Restored(c, b) \in Nat
  BY Structure DEF TypeOK, Durable, Restored

(* What regs_init leaves in registers, mirror and CRC of the global table. *)
LEMMA RegsInitContent ==
  ASSUME TypeOK, NEW b \in BOOLEAN, RegsInit(b)
  PROVE  /\ ram' \in [Cell -> Nat] /\ mirror' \in [Cell -> Nat] /\ crc' \in [Cell -> Nat]
         /\ \A c \in Cell : Home(c) = 0 => ram'[c] = mirror'[c] /\ crc'[c] = mirror'[c]
<1> DEFINE refused == b /\ Restorable(0) /\ blob[0] = "bad"
           Global(c) == CASE c = ResetCell -> Restored(c, b) + 1
                          [] c # ResetCell /\ refused -> Default[c]
                          [] OTHER -> Restored(c, b)
           global == [c \in CellsOf(0) |-> Global(c)]
           Loaded(old) == [c \in Cell |-> IF Home(c) = 0 THEN global[c] ELSE old[c]]
<1>1. \A c \in Cell : Restored(c, b) \in Nat
  BY RestoredType
<1>2. \A c \in Cell : Global(c) \in Nat
  BY <1>1, Structure
<1>3. global \in [CellsOf(0) -> Nat]
  BY <1>2 DEF CellsOf
<1>4. ram' = Loaded(ram) /\ mirror' = Loaded(mirror) /\ crc' = Loaded(crc)
  BY DEF RegsInit
<1> HIDE DEF global
<1>5. QED
  BY <1>3, <1>4 DEF TypeOK, CellsOf

(* Every step preserves the type invariant, by one step per action. *)
LEMMA NextType == TypeOK /\ [Next]_vars => TypeOK'
<1> SUFFICES ASSUME TypeOK, [Next]_vars PROVE TypeOK'
  OBVIOUS
<1> USE DEF TypeOK
<1>1. ASSUME NEW w \in Task, NEW r \in Reg,
             NEW value \in [{c \in Cell : RegOf[c] = r} -> Val], WriteRegister(w, r, value)
      PROVE TypeOK'
  <2>1. \A c \in Cell : RegOf[c] = r => value[c] \in Nat
    BY Structure
  <2>2. source' \in [Cell -> Nat]
    BY <1>1, <2>1, Structure DEF WriteRegister
  <2>3. QED
    BY <1>1, <2>2 DEF WriteRegister, content, nvs, requests, defaults, duty, reset, history
<1>2. ASSUME NEW w \in Task, NEW r \in Reg, RefusedWrite(w, r) PROVE TypeOK'
  BY <1>2 DEF RefusedWrite, content, nvs, requests, locks, copying, defaults, duty, reset, history
<1>3. ASSUME NEW w \in Task, NEW c \in Cell, CopyCell(w, c) PROVE TypeOK'
  BY <1>3 DEF CopyCell, nvs, requests, locks, writer, defaults, duty, reset, env, history
<1>4. ASSUME NEW w \in Task, WriteDone(w) PROVE TypeOK'
  BY <1>4, Structure DEF WriteDone, content, nvs, requests, defaults, duty, reset, env, history
<1>5. ASSUME NEW w \in Task, MirrorCompare(w) PROVE TypeOK'
  BY <1>5 DEF MirrorCompare, content, nvs, requests, copying, defaults, duty, reset, env, history
<1>6. ASSUME NEW w \in Task, MirrorCopy(w) PROVE TypeOK'
  <2>1. Mirrored(reg[w]) \in [Cell -> Nat]
    BY DEF Mirrored
  <2>2. Sealed(TableOf[reg[w]], Mirrored(reg[w])) \in [Cell -> Nat]
    BY <2>1 DEF Sealed
  <2>3. QED
    BY <1>6, <2>1, <2>2 DEF MirrorCopy, nvs, requests, copying, defaults, duty, reset, env, history
<1>7. ASSUME NEW w \in Task, RequestSave(w) PROVE TypeOK'
  <2>1. TableOf[reg[w]] \in Table
    BY Structure
  <2>2. QED
    BY <1>7, <2>1 DEF RequestSave, AddRequest, content, nvs, locks, copying, defaults, duty, reset, env, history
<1>8. ASSUME ResetCommand PROVE TypeOK'
  BY <1>8 DEF ResetCommand, content, nvs, requests, locks, copying, writer, defaults, duty, history
<1>9. ASSUME NEW t \in Table, SetDefaults(t) PROVE TypeOK'
  BY <1>9, Structure DEF SetDefaults, CellsOf, content, nvs, requests, duty, reset, history
<1>10. ASSUME DefaultsDone PROVE TypeOK'
  BY <1>10, Structure DEF DefaultsDone, RegsOf, content, nvs, requests, copying, duty, reset, env
<1>11. ASSUME NEW r \in Reg, InitBuffer(r) PROVE TypeOK'
  BY <1>11 DEF InitBuffer, Mirrored, nvs, requests, locks, copying, writer, duty, reset, env, history
<1>12. ASSUME InitBufferCrc PROVE TypeOK'
  BY <1>12, Structure DEF InitBufferCrc, Sealed, nvs, requests, locks, copying, defaults, duty, reset, env
<1>13. ASSUME DefaultsRequest PROVE TypeOK'
  BY <1>13, Structure DEF DefaultsRequest, AddRequest, content, nvs, locks, copying, defaults, duty, reset, env, history
<1>14. ASSUME DefaultsNotify PROVE TypeOK'
  BY <1>14, Structure DEF DefaultsNotify, content, nvs, requests, locks, copying, defaults, duty, env
<1>15. ASSUME DutyWait PROVE TypeOK'
  BY <1>15 DEF DutyWait, PrepareTime, content, nvs, requests, locks, copying, writer, defaults, env
<1>16. ASSUME DutyTake PROVE TypeOK'
  BY <1>16 DEF DutyTake, content, nvs, requests, locks, copying, writer, defaults, reset, env, history
<1>17. ASSUME NEW ok \in BOOLEAN, DutySave(ok) PROVE TypeOK'
  <2>1. ram' \in [Cell -> Nat]
    BY <1>17, Structure DEF DutySave
  <2>2. flash' \in [Cell -> Nat] /\ flashCrc' \in [Cell -> Nat] /\ blob' \in [Table -> BlobStates]
    BY <1>17 DEF DutySave, BlobStates, nvs
  <2>3. faults' \in Nat
    BY <1>17 DEF DutySave, NvsWorks
  <2>4. /\ dutySet' \subseteq Table /\ failed' \subseteq Table /\ wiped' \subseteq Table
        /\ owed' \subseteq Table /\ sentFor' \subseteq Table /\ promised' \subseteq Table
    BY <1>17 DEF DutySave
  <2>5. QED
    BY <1>17, <2>1, <2>2, <2>3, <2>4 DEF DutySave, requests, locks, copying, writer, defaults, reset
<1>18. ASSUME DutyEnd PROVE TypeOK'
  BY <1>18 DEF DutyEnd, content, nvs, requests, locks, copying, writer, defaults, reset, env, history
<1>19. ASSUME DutyRestart \/ PowerCut PROVE TypeOK'
  <2>1. PowerUp /\ UNCHANGED <<nvs, failed, faults, writes, commands>> /\ cuts' \in Nat
    BY <1>19 DEF DutyRestart, PowerCut, env
  <2>2. Default \in [Cell -> Nat] /\ 0 \in Table /\ RegOf[ResetCell] \in Reg
    BY Structure
  <2>3. QED
    BY <2>1, <2>2 DEF PowerUp, nvs
<1>20. ASSUME NEW b \in BOOLEAN, RegsInit(b) PROVE TypeOK'
  <2>2. ram' \in [Cell -> Nat] /\ mirror' \in [Cell -> Nat] /\ crc' \in [Cell -> Nat]
    BY <1>20, RegsInitContent
  <2>3. 0 \in Table
    BY Structure
  <2>4. /\ up' = {0} /\ tableToSave' = tableToSave \cup {0} /\ asyncFlag' = TRUE
        /\ failed' = IF b THEN failed \ {0} ELSE failed \cup {0}
        /\ NvsWorks(b)
        /\ UNCHANGED <<nvs, locks, copying, writer, defaults, duty, reset,
                       writes, commands, cuts, wiped, owed, sentFor, promised>>
    BY <1>20 DEF RegsInit
  <2>5. QED
    BY <2>2, <2>3, <2>4 DEF NvsWorks, nvs, locks, copying, writer, defaults, duty, reset
<1>21. ASSUME NEW t \in Table, NEW b \in BOOLEAN, PreinitTableVars(t, b) PROVE TypeOK'
  <2>1. \A c \in Cell : Restored(c, b) \in Nat
    BY RestoredType
  <2>2. QED
    BY <1>21, <2>1 DEF PreinitTableVars, NvsWorks, nvs, requests, locks, copying, writer, defaults, duty, reset
<1>22. ASSUME UNCHANGED vars PROVE TypeOK'
  BY <1>22 DEF vars, content, nvs, requests, locks, copying, writer, defaults, duty, reset, env, history
<1>23. QED
  BY <1>1, <1>2, <1>3, <1>4, <1>5, <1>6, <1>7, <1>8, <1>9, <1>10, <1>11, <1>12, <1>13, <1>14,
     <1>15, <1>16, <1>17, <1>18, <1>19, <1>20, <1>21, <1>22
     DEF Next, WriteStep, StartWrite, CommandStep, StartCommand, DutyStep, Boot

(* A semaphore is held by the task whose program counter says so: no step breaks it. *)
LEMMA LockingStep ==
  TypeOK /\ Locking /\ [Next]_vars => Locking'
<1> SUFFICES ASSUME TypeOK, Locking, [Next]_vars PROVE Locking'
  OBVIOUS
<1> USE DEF Locking, TypeOK, content, nvs, requests, locks, copying, writer, defaults, duty, reset, env, history
<1>1. ASSUME NEW w \in Task, NEW r \in Reg,
             NEW value \in [{c \in Cell : RegOf[c] = r} -> Val], WriteRegister(w, r, value) PROVE Locking'
  BY <1>1, Structure DEF WriteRegister
<1>2. ASSUME NEW w \in Task, NEW r \in Reg, RefusedWrite(w, r) PROVE Locking'
  BY <1>2, Structure DEF RefusedWrite
<1>3. ASSUME NEW w \in Task, NEW d \in Cell, CopyCell(w, d) PROVE Locking'
  BY <1>3, Structure DEF CopyCell
<1>4. ASSUME NEW w \in Task, WriteDone(w) PROVE Locking'
  BY <1>4, Structure DEF WriteDone
<1>5. ASSUME NEW w \in Task, MirrorCompare(w) PROVE Locking'
  BY <1>5, Structure DEF MirrorCompare
<1>6. ASSUME NEW w \in Task, MirrorCopy(w) PROVE Locking'
  BY <1>6, Structure DEF MirrorCopy
<1>7. ASSUME NEW w \in Task, RequestSave(w) PROVE Locking'
  BY <1>7, Structure DEF RequestSave, AddRequest
<1>8. ASSUME ResetCommand PROVE Locking'
  BY <1>8, Structure DEF ResetCommand
<1>9. ASSUME NEW t \in Table, SetDefaults(t) PROVE Locking'
  BY <1>9, Structure DEF SetDefaults, CellsOf
<1>10. ASSUME DefaultsDone PROVE Locking'
  BY <1>10, Structure DEF DefaultsDone, RegsOf
<1>11. ASSUME NEW r \in Reg, InitBuffer(r) PROVE Locking'
  BY <1>11, Structure DEF InitBuffer
<1>12. ASSUME InitBufferCrc PROVE Locking'
  BY <1>12, Structure DEF InitBufferCrc
<1>13. ASSUME DefaultsRequest PROVE Locking'
  BY <1>13, Structure DEF DefaultsRequest, AddRequest
<1>14. ASSUME DefaultsNotify PROVE Locking'
  BY <1>14, Structure DEF DefaultsNotify
<1>15. ASSUME DutyWait PROVE Locking'
  BY <1>15, Structure DEF DutyWait
<1>16. ASSUME DutyTake PROVE Locking'
  BY <1>16, Structure DEF DutyTake
<1>17. ASSUME NEW ok \in BOOLEAN, DutySave(ok) PROVE Locking'
  BY <1>17, Structure DEF DutySave
<1>18. ASSUME DutyEnd PROVE Locking'
  BY <1>18, Structure DEF DutyEnd
<1>19. ASSUME DutyRestart \/ PowerCut PROVE Locking'
  BY <1>19, Structure DEF DutyRestart, PowerCut, PowerUp
<1>20. ASSUME NEW b \in BOOLEAN, RegsInit(b) PROVE Locking'
  BY <1>20, Structure DEF RegsInit
<1>21. ASSUME NEW t \in Table, NEW b \in BOOLEAN, PreinitTableVars(t, b) PROVE Locking'
  BY <1>21, Structure DEF PreinitTableVars
<1>22. ASSUME UNCHANGED vars PROVE Locking'
  BY <1>22, Structure DEF vars
<1> HIDE DEF Locking, TypeOK, content, nvs, requests, locks, copying, writer, defaults, duty, reset, env, history
<1>23. QED
  BY <1>1, <1>2, <1>3, <1>4, <1>5, <1>6, <1>7, <1>8, <1>9, <1>10, <1>11, <1>12, <1>13, <1>14,
     <1>15, <1>16, <1>17, <1>18, <1>19, <1>20, <1>21, <1>22
     DEF Next, WriteStep, StartWrite, CommandStep, StartCommand, DutyStep, Boot

(* A memcpy in progress stays within its register or its table. *)
LEMMA CopyingStep ==
  TypeOK /\ Locking /\ Copying /\ [Next]_vars => Copying'
<1> SUFFICES ASSUME TypeOK, Locking, Copying, [Next]_vars PROVE Copying'
  OBVIOUS
<1> USE DEF Copying, Locking, TypeOK, content, nvs, requests, locks, copying, writer, defaults, duty, reset, env, history
<1>1. ASSUME NEW w \in Task, NEW r \in Reg,
             NEW value \in [{c \in Cell : RegOf[c] = r} -> Val], WriteRegister(w, r, value) PROVE Copying'
  BY <1>1, Structure DEF WriteRegister
<1>2. ASSUME NEW w \in Task, NEW r \in Reg, RefusedWrite(w, r) PROVE Copying'
  BY <1>2, Structure DEF RefusedWrite
<1>3. ASSUME NEW w \in Task, NEW d \in Cell, CopyCell(w, d) PROVE Copying'
  BY <1>3, Structure DEF CopyCell
<1>4. ASSUME NEW w \in Task, WriteDone(w) PROVE Copying'
  BY <1>4, Structure DEF WriteDone
<1>5. ASSUME NEW w \in Task, MirrorCompare(w) PROVE Copying'
  BY <1>5, Structure DEF MirrorCompare
<1>6. ASSUME NEW w \in Task, MirrorCopy(w) PROVE Copying'
  BY <1>6, Structure DEF MirrorCopy
<1>7. ASSUME NEW w \in Task, RequestSave(w) PROVE Copying'
  BY <1>7, Structure DEF RequestSave, AddRequest
<1>8. ASSUME ResetCommand PROVE Copying'
  BY <1>8, Structure DEF ResetCommand
<1>9. ASSUME NEW t \in Table, SetDefaults(t) PROVE Copying'
  BY <1>9, Structure DEF SetDefaults, CellsOf
<1>10. ASSUME DefaultsDone PROVE Copying'
  BY <1>10, Structure DEF DefaultsDone, RegsOf
<1>11. ASSUME NEW r \in Reg, InitBuffer(r) PROVE Copying'
  BY <1>11, Structure DEF InitBuffer
<1>12. ASSUME InitBufferCrc PROVE Copying'
  BY <1>12, Structure DEF InitBufferCrc
<1>13. ASSUME DefaultsRequest PROVE Copying'
  BY <1>13, Structure DEF DefaultsRequest, AddRequest
<1>14. ASSUME DefaultsNotify PROVE Copying'
  BY <1>14, Structure DEF DefaultsNotify
<1>15. ASSUME DutyWait PROVE Copying'
  BY <1>15, Structure DEF DutyWait
<1>16. ASSUME DutyTake PROVE Copying'
  BY <1>16, Structure DEF DutyTake
<1>17. ASSUME NEW ok \in BOOLEAN, DutySave(ok) PROVE Copying'
  BY <1>17, Structure DEF DutySave
<1>18. ASSUME DutyEnd PROVE Copying'
  BY <1>18, Structure DEF DutyEnd
<1>19. ASSUME DutyRestart \/ PowerCut PROVE Copying'
  BY <1>19, Structure DEF DutyRestart, PowerCut, PowerUp
<1>20. ASSUME NEW b \in BOOLEAN, RegsInit(b) PROVE Copying'
  BY <1>20, Structure DEF RegsInit
<1>21. ASSUME NEW t \in Table, NEW b \in BOOLEAN, PreinitTableVars(t, b) PROVE Copying'
  BY <1>21, Structure DEF PreinitTableVars
<1>22. ASSUME UNCHANGED vars PROVE Copying'
  BY <1>22, Structure DEF vars
<1> HIDE DEF Copying, Locking, TypeOK, content, nvs, requests, locks, copying, writer, defaults, duty, reset, env, history
<1>23. QED
  BY <1>1, <1>2, <1>3, <1>4, <1>5, <1>6, <1>7, <1>8, <1>9, <1>10, <1>11, <1>12, <1>13, <1>14,
     <1>15, <1>16, <1>17, <1>18, <1>19, <1>20, <1>21, <1>22
     DEF Next, WriteStep, StartWrite, CommandStep, StartCommand, DutyStep, Boot

(* The duty task carries tables only while it saves, and bits imply the flag. *)
LEMMA CarryingStep ==
  TypeOK /\ Carrying /\ [Next]_vars => Carrying'
<1> SUFFICES ASSUME TypeOK, Carrying, [Next]_vars PROVE Carrying'
  OBVIOUS
<1> USE DEF Carrying, TypeOK, content, nvs, requests, locks, copying, writer, defaults, duty, reset, env, history
<1>1. ASSUME NEW w \in Task, NEW r \in Reg,
             NEW value \in [{c \in Cell : RegOf[c] = r} -> Val], WriteRegister(w, r, value) PROVE Carrying'
  BY <1>1 DEF WriteRegister
<1>2. ASSUME NEW w \in Task, NEW r \in Reg, RefusedWrite(w, r) PROVE Carrying'
  BY <1>2 DEF RefusedWrite
<1>3. ASSUME NEW w \in Task, NEW d \in Cell, CopyCell(w, d) PROVE Carrying'
  BY <1>3 DEF CopyCell
<1>4. ASSUME NEW w \in Task, WriteDone(w) PROVE Carrying'
  BY <1>4 DEF WriteDone
<1>5. ASSUME NEW w \in Task, MirrorCompare(w) PROVE Carrying'
  BY <1>5 DEF MirrorCompare
<1>6. ASSUME NEW w \in Task, MirrorCopy(w) PROVE Carrying'
  BY <1>6 DEF MirrorCopy
<1>7. ASSUME NEW w \in Task, RequestSave(w) PROVE Carrying'
  BY <1>7 DEF RequestSave, AddRequest
<1>8. ASSUME ResetCommand PROVE Carrying'
  BY <1>8 DEF ResetCommand
<1>9. ASSUME NEW t \in Table, SetDefaults(t) PROVE Carrying'
  BY <1>9 DEF SetDefaults, CellsOf
<1>10. ASSUME DefaultsDone PROVE Carrying'
  BY <1>10 DEF DefaultsDone, RegsOf
<1>11. ASSUME NEW r \in Reg, InitBuffer(r) PROVE Carrying'
  BY <1>11 DEF InitBuffer
<1>12. ASSUME InitBufferCrc PROVE Carrying'
  BY <1>12 DEF InitBufferCrc
<1>13. ASSUME DefaultsRequest PROVE Carrying'
  BY <1>13 DEF DefaultsRequest, AddRequest
<1>14. ASSUME DefaultsNotify PROVE Carrying'
  BY <1>14 DEF DefaultsNotify
<1>15. ASSUME DutyWait PROVE Carrying'
  BY <1>15 DEF DutyWait
<1>16. ASSUME DutyTake PROVE Carrying'
  BY <1>16 DEF DutyTake
<1>17. ASSUME NEW ok \in BOOLEAN, DutySave(ok) PROVE Carrying'
  BY <1>17 DEF DutySave
<1>18. ASSUME DutyEnd PROVE Carrying'
  BY <1>18 DEF DutyEnd
<1>19. ASSUME DutyRestart \/ PowerCut PROVE Carrying'
  BY <1>19 DEF DutyRestart, PowerCut, PowerUp
<1>20. ASSUME NEW b \in BOOLEAN, RegsInit(b) PROVE Carrying'
  BY <1>20 DEF RegsInit
<1>21. ASSUME NEW t \in Table, NEW b \in BOOLEAN, PreinitTableVars(t, b) PROVE Carrying'
  BY <1>21 DEF PreinitTableVars
<1>22. ASSUME UNCHANGED vars PROVE Carrying'
  BY <1>22 DEF vars
<1> HIDE DEF Carrying, TypeOK, content, nvs, requests, locks, copying, writer, defaults, duty, reset, env, history
<1>23. QED
  BY <1>1, <1>2, <1>3, <1>4, <1>5, <1>6, <1>7, <1>8, <1>9, <1>10, <1>11, <1>12, <1>13, <1>14,
     <1>15, <1>16, <1>17, <1>18, <1>19, <1>20, <1>21, <1>22
     DEF Next, WriteStep, StartWrite, CommandStep, StartCommand, DutyStep, Boot

(* A notified or armed reset keeps the saves it was asked with in front of it. *)
LEMMA PromiseStep ==
  TypeOK /\ Locking /\ Carrying /\ Promise /\ [Next]_vars => Promise'
<1> SUFFICES ASSUME TypeOK, Locking, Carrying, Promise, [Next]_vars PROVE Promise'
  OBVIOUS
<1> USE DEF Promise, Carrying, Locking, TypeOK, content, nvs, requests, locks, copying, writer, defaults, duty, reset, env, history
<1>1. ASSUME NEW w \in Task, NEW r \in Reg,
             NEW value \in [{c \in Cell : RegOf[c] = r} -> Val], WriteRegister(w, r, value) PROVE Promise'
  BY <1>1, Structure DEF WriteRegister
<1>2. ASSUME NEW w \in Task, NEW r \in Reg, RefusedWrite(w, r) PROVE Promise'
  BY <1>2, Structure DEF RefusedWrite
<1>3. ASSUME NEW w \in Task, NEW d \in Cell, CopyCell(w, d) PROVE Promise'
  BY <1>3, Structure DEF CopyCell
<1>4. ASSUME NEW w \in Task, WriteDone(w) PROVE Promise'
  BY <1>4, Structure DEF WriteDone
<1>5. ASSUME NEW w \in Task, MirrorCompare(w) PROVE Promise'
  BY <1>5, Structure DEF MirrorCompare
<1>6. ASSUME NEW w \in Task, MirrorCopy(w) PROVE Promise'
  BY <1>6, Structure DEF MirrorCopy
<1>7. ASSUME NEW w \in Task, RequestSave(w) PROVE Promise'
  BY <1>7, Structure DEF RequestSave, AddRequest
<1>8. ASSUME ResetCommand PROVE Promise'
  BY <1>8, Structure DEF ResetCommand
<1>9. ASSUME NEW t \in Table, SetDefaults(t) PROVE Promise'
  BY <1>9, Structure DEF SetDefaults, CellsOf
<1>10. ASSUME DefaultsDone PROVE Promise'
  BY <1>10, Structure DEF DefaultsDone, RegsOf
<1>11. ASSUME NEW r \in Reg, InitBuffer(r) PROVE Promise'
  BY <1>11, Structure DEF InitBuffer
<1>12. ASSUME InitBufferCrc PROVE Promise'
  BY <1>12, Structure DEF InitBufferCrc
<1>13. ASSUME DefaultsRequest PROVE Promise'
  BY <1>13, Structure DEF DefaultsRequest, AddRequest
<1>14. ASSUME DefaultsNotify PROVE Promise'
  BY <1>14, Structure DEF DefaultsNotify
<1>15. ASSUME DutyWait PROVE Promise'
  BY <1>15, Structure DEF DutyWait
<1>16. ASSUME DutyTake PROVE Promise'
  BY <1>16, Structure DEF DutyTake
<1>17. ASSUME NEW ok \in BOOLEAN, DutySave(ok) PROVE Promise'
  BY <1>17, Structure DEF DutySave
<1>18. ASSUME DutyEnd PROVE Promise'
  BY <1>18, Structure DEF DutyEnd
<1>19. ASSUME DutyRestart \/ PowerCut PROVE Promise'
  BY <1>19, Structure DEF DutyRestart, PowerCut, PowerUp
<1>20. ASSUME NEW b \in BOOLEAN, RegsInit(b) PROVE Promise'
  BY <1>20, Structure DEF RegsInit
<1>21. ASSUME NEW t \in Table, NEW b \in BOOLEAN, PreinitTableVars(t, b) PROVE Promise'
  BY <1>21, Structure DEF PreinitTableVars
<1>22. ASSUME UNCHANGED vars PROVE Promise'
  BY <1>22, Structure DEF vars
<1> HIDE DEF Promise, Carrying, Locking, TypeOK, content, nvs, requests, locks, copying, writer, defaults, duty, reset, env, history
<1>23. QED
  BY <1>1, <1>2, <1>3, <1>4, <1>5, <1>6, <1>7, <1>8, <1>9, <1>10, <1>11, <1>12, <1>13, <1>14,
     <1>15, <1>16, <1>17, <1>18, <1>19, <1>20, <1>21, <1>22
     DEF Next, WriteStep, StartWrite, CommandStep, StartCommand, DutyStep, Boot

(* The CRC of a mirror is broken only inside mirror_access_init_buffer. *)
LEMMA SealedStep ==
  TypeOK /\ Locking /\ Copying /\ MirrorSealed /\ [Next]_vars => MirrorSealed'
<1> SUFFICES ASSUME TypeOK, Locking, Copying, MirrorSealed, [Next]_vars PROVE MirrorSealed'
  OBVIOUS
<1> USE DEF MirrorSealed, Locking, Copying, TypeOK, Home, Mirrored, Sealed, RegsOf, content, nvs, requests, locks, copying, writer, defaults, duty, reset, env, history
<1>1. ASSUME NEW w \in Task, NEW r \in Reg,
             NEW value \in [{c \in Cell : RegOf[c] = r} -> Val], WriteRegister(w, r, value) PROVE MirrorSealed'
  BY <1>1, Structure DEF WriteRegister
<1>2. ASSUME NEW w \in Task, NEW r \in Reg, RefusedWrite(w, r) PROVE MirrorSealed'
  BY <1>2, Structure DEF RefusedWrite
<1>3. ASSUME NEW w \in Task, NEW d \in Cell, CopyCell(w, d) PROVE MirrorSealed'
  BY <1>3, Structure DEF CopyCell
<1>4. ASSUME NEW w \in Task, WriteDone(w) PROVE MirrorSealed'
  BY <1>4, Structure DEF WriteDone
<1>5. ASSUME NEW w \in Task, MirrorCompare(w) PROVE MirrorSealed'
  BY <1>5, Structure DEF MirrorCompare
<1>6. ASSUME NEW w \in Task, MirrorCopy(w) PROVE MirrorSealed'
  BY <1>6, Structure DEF MirrorCopy
<1>7. ASSUME NEW w \in Task, RequestSave(w) PROVE MirrorSealed'
  BY <1>7, Structure DEF RequestSave, AddRequest
<1>8. ASSUME ResetCommand PROVE MirrorSealed'
  BY <1>8, Structure DEF ResetCommand
<1>9. ASSUME NEW t \in Table, SetDefaults(t) PROVE MirrorSealed'
  BY <1>9, Structure DEF SetDefaults, CellsOf
<1>10. ASSUME DefaultsDone PROVE MirrorSealed'
  BY <1>10, Structure DEF DefaultsDone, RegsOf
<1>11. ASSUME NEW r \in Reg, InitBuffer(r) PROVE MirrorSealed'
  BY <1>11, Structure DEF InitBuffer
<1>12. ASSUME InitBufferCrc PROVE MirrorSealed'
  BY <1>12, Structure DEF InitBufferCrc
<1>13. ASSUME DefaultsRequest PROVE MirrorSealed'
  BY <1>13, Structure DEF DefaultsRequest, AddRequest
<1>14. ASSUME DefaultsNotify PROVE MirrorSealed'
  BY <1>14, Structure DEF DefaultsNotify
<1>15. ASSUME DutyWait PROVE MirrorSealed'
  BY <1>15, Structure DEF DutyWait
<1>16. ASSUME DutyTake PROVE MirrorSealed'
  BY <1>16, Structure DEF DutyTake
<1>17. ASSUME NEW ok \in BOOLEAN, DutySave(ok) PROVE MirrorSealed'
  BY <1>17, Structure DEF DutySave
<1>18. ASSUME DutyEnd PROVE MirrorSealed'
  BY <1>18, Structure DEF DutyEnd
<1>19. ASSUME DutyRestart \/ PowerCut PROVE MirrorSealed'
  BY <1>19, Structure DEF DutyRestart, PowerCut, PowerUp
<1>20. ASSUME NEW b \in BOOLEAN, RegsInit(b) PROVE MirrorSealed'
  BY <1>20, RegsInitContent DEF RegsInit
<1>21. ASSUME NEW t \in Table, NEW b \in BOOLEAN, PreinitTableVars(t, b) PROVE MirrorSealed'
  BY <1>21, Structure DEF PreinitTableVars
<1>22. ASSUME UNCHANGED vars PROVE MirrorSealed'
  BY <1>22, Structure DEF vars
<1> HIDE DEF MirrorSealed, Locking, Copying, TypeOK, Home, Mirrored, Sealed, RegsOf, content, nvs, requests, locks, copying, writer, defaults, duty, reset, env, history
<1>23. QED
  BY <1>1, <1>2, <1>3, <1>4, <1>5, <1>6, <1>7, <1>8, <1>9, <1>10, <1>11, <1>12, <1>13, <1>14,
     <1>15, <1>16, <1>17, <1>18, <1>19, <1>20, <1>21, <1>22
     DEF Next, WriteStep, StartWrite, CommandStep, StartCommand, DutyStep, Boot

(* Whoever makes register and mirror differ is on its way to make them agree. *)
LEMMA FollowsStep ==
  TypeOK /\ Locking /\ Copying /\ MirrorFollows /\ [Next]_vars => MirrorFollows'
<1> SUFFICES ASSUME TypeOK, Locking, Copying, MirrorFollows, [Next]_vars PROVE MirrorFollows'
  OBVIOUS
<1> USE DEF MirrorFollows, MirrorPending, Locking, Copying, TypeOK, Home, Mirrored, SameAsMirror, RegsOf, content, nvs, requests, locks, copying, writer, defaults, duty, reset, env, history
<1>1. ASSUME NEW w \in Task, NEW r \in Reg,
             NEW value \in [{c \in Cell : RegOf[c] = r} -> Val], WriteRegister(w, r, value) PROVE MirrorFollows'
  BY <1>1, Structure DEF WriteRegister
<1>2. ASSUME NEW w \in Task, NEW r \in Reg, RefusedWrite(w, r) PROVE MirrorFollows'
  BY <1>2, Structure DEF RefusedWrite
<1>3. ASSUME NEW w \in Task, NEW d \in Cell, CopyCell(w, d) PROVE MirrorFollows'
  BY <1>3, Structure DEF CopyCell
<1>4. ASSUME NEW w \in Task, WriteDone(w) PROVE MirrorFollows'
  BY <1>4, Structure DEF WriteDone
<1>5. ASSUME NEW w \in Task, MirrorCompare(w) PROVE MirrorFollows'
  BY <1>5, Structure DEF MirrorCompare
<1>6. ASSUME NEW w \in Task, MirrorCopy(w) PROVE MirrorFollows'
  BY <1>6, Structure DEF MirrorCopy
<1>7. ASSUME NEW w \in Task, RequestSave(w) PROVE MirrorFollows'
  BY <1>7, Structure DEF RequestSave, AddRequest
<1>8. ASSUME ResetCommand PROVE MirrorFollows'
  BY <1>8, Structure DEF ResetCommand
<1>9. ASSUME NEW t \in Table, SetDefaults(t) PROVE MirrorFollows'
  BY <1>9, Structure DEF SetDefaults, CellsOf
<1>10. ASSUME DefaultsDone PROVE MirrorFollows'
  BY <1>10, Structure DEF DefaultsDone, RegsOf
<1>11. ASSUME NEW r \in Reg, InitBuffer(r) PROVE MirrorFollows'
  BY <1>11, Structure DEF InitBuffer
<1>12. ASSUME InitBufferCrc PROVE MirrorFollows'
  BY <1>12, Structure DEF InitBufferCrc
<1>13. ASSUME DefaultsRequest PROVE MirrorFollows'
  BY <1>13, Structure DEF DefaultsRequest, AddRequest
<1>14. ASSUME DefaultsNotify PROVE MirrorFollows'
  BY <1>14, Structure DEF DefaultsNotify
<1>15. ASSUME DutyWait PROVE MirrorFollows'
  BY <1>15, Structure DEF DutyWait
<1>16. ASSUME DutyTake PROVE MirrorFollows'
  BY <1>16, Structure DEF DutyTake
<1>17. ASSUME NEW ok \in BOOLEAN, DutySave(ok) PROVE MirrorFollows'
  BY <1>17, Structure DEF DutySave
<1>18. ASSUME DutyEnd PROVE MirrorFollows'
  BY <1>18, Structure DEF DutyEnd
<1>19. ASSUME DutyRestart \/ PowerCut PROVE MirrorFollows'
  BY <1>19, Structure DEF DutyRestart, PowerCut, PowerUp
<1>20. ASSUME NEW b \in BOOLEAN, RegsInit(b) PROVE MirrorFollows'
  BY <1>20, RegsInitContent DEF RegsInit
<1>21. ASSUME NEW t \in Table, NEW b \in BOOLEAN, PreinitTableVars(t, b) PROVE MirrorFollows'
  BY <1>21, Structure DEF PreinitTableVars
<1>22. ASSUME UNCHANGED vars PROVE MirrorFollows'
  BY <1>22, Structure DEF vars
<1> HIDE DEF MirrorFollows, MirrorPending, Locking, Copying, TypeOK, Home, Mirrored, SameAsMirror, RegsOf, content, nvs, requests, locks, copying, writer, defaults, duty, reset, env, history
<1>23. QED
  BY <1>1, <1>2, <1>3, <1>4, <1>5, <1>6, <1>7, <1>8, <1>9, <1>10, <1>11, <1>12, <1>13, <1>14,
     <1>15, <1>16, <1>17, <1>18, <1>19, <1>20, <1>21, <1>22
     DEF Next, WriteStep, StartWrite, CommandStep, StartCommand, DutyStep, Boot

(* What a restart would restore depends on the blob of the table only. *)
LEMMA DurableFrame ==
  ASSUME UNCHANGED nvs, NEW c \in Cell
  PROVE  Durable(c)' = Durable(c)
  BY DEF Durable, Restorable, nvs

(* internal_flash_save_mirror_to_flash: a sealed mirror is what a restart restores,
   other tables are not touched. *)
LEMMA DutySaveDurable ==
  ASSUME TypeOK, DutySave(TRUE), NEW c \in Cell
  PROVE  \E t \in dutySet :
           /\ dutySet' = dutySet \ {t} /\ failed' = failed \ {t} /\ wiped' = wiped \ {t}
           /\ Home(c) # t => Durable(c)' = Durable(c)
           /\ Home(c) = t /\ (\A d \in CellsOf(t) : crc[d] = mirror[d]) => Durable(c)' = mirror[c]
<1>1. PICK t \in dutySet :
        /\ flash' = [d \in Cell |-> IF Home(d) = t THEN mirror[d] ELSE flash[d]]
        /\ flashCrc' = [d \in Cell |-> IF Home(d) = t THEN crc[d] ELSE flashCrc[d]]
        /\ blob' = [blob EXCEPT ![t] = "cur"]
        /\ dutySet' = dutySet \ {t} /\ failed' = failed \ {t} /\ wiped' = wiped \ {t}
  BY DEF DutySave
<1>2. t \in Table /\ Home(c) \in Table
  BY HomeType DEF TypeOK
<1>3. CASE Home(c) # t
  <2>1. blob'[Home(c)] = blob[Home(c)]
    BY <1>1, <1>2, <1>3 DEF TypeOK
  <2>2. \A d \in CellsOf(Home(c)) : flash'[d] = flash[d] /\ flashCrc'[d] = flashCrc[d]
    BY <1>1, <1>3 DEF CellsOf, TypeOK
  <2>3. Durable(c)' = Durable(c)
    BY <2>1, <2>2 DEF Durable, Restorable, CellsOf
  <2>4. QED
    BY <1>1, <1>3, <2>3
<1>4. CASE Home(c) = t
  <2>1. blob'[t] = "cur"
    BY <1>1, <1>2 DEF TypeOK
  <2>2. \A d \in CellsOf(t) : flash'[d] = mirror[d] /\ flashCrc'[d] = crc[d]
    BY <1>1 DEF CellsOf
  <2>3. (\A d \in CellsOf(t) : crc[d] = mirror[d]) => Durable(c)' = mirror[c]
    BY <1>4, <2>1, <2>2 DEF Durable, Restorable, CellsOf
  <2>4. QED
    BY <1>1, <1>4, <2>3
<1>5. QED
  BY <1>3, <1>4

(* No step loses the update of a mirror. *)
LEMMA NoLostSaveStep ==
  TypeOK /\ Locking /\ Copying /\ Carrying /\ MirrorSealed /\ NoLostSave /\ [Next]_vars => NoLostSave'
<1> SUFFICES ASSUME TypeOK, Locking, Copying, Carrying, MirrorSealed, NoLostSave, [Next]_vars PROVE NoLostSave'
  OBVIOUS
<1> USE DEF NoLostSave, SavePending, Locking, Carrying, TypeOK, Home, Mirrored, RegsOf, content, nvs, requests, locks, copying, writer, defaults, duty, reset, env, history
<1>1. ASSUME NEW w \in Task, NEW r \in Reg,
             NEW value \in [{c \in Cell : RegOf[c] = r} -> Val], WriteRegister(w, r, value) PROVE NoLostSave'
  BY <1>1, DurableFrame, Structure DEF WriteRegister
<1>2. ASSUME NEW w \in Task, NEW r \in Reg, RefusedWrite(w, r) PROVE NoLostSave'
  BY <1>2, DurableFrame, Structure DEF RefusedWrite
<1>3. ASSUME NEW w \in Task, NEW d \in Cell, CopyCell(w, d) PROVE NoLostSave'
  BY <1>3, DurableFrame, Structure DEF CopyCell
<1>4. ASSUME NEW w \in Task, WriteDone(w) PROVE NoLostSave'
  BY <1>4, DurableFrame, Structure DEF WriteDone
<1>5. ASSUME NEW w \in Task, MirrorCompare(w) PROVE NoLostSave'
  BY <1>5, DurableFrame, Structure DEF MirrorCompare
<1>6. ASSUME NEW w \in Task, MirrorCopy(w) PROVE NoLostSave'
  BY <1>6, DurableFrame, Structure DEF MirrorCopy
<1>7. ASSUME NEW w \in Task, RequestSave(w) PROVE NoLostSave'
  BY <1>7, DurableFrame, Structure DEF RequestSave, AddRequest
<1>8. ASSUME ResetCommand PROVE NoLostSave'
  BY <1>8, DurableFrame, Structure DEF ResetCommand
<1>9. ASSUME NEW t \in Table, SetDefaults(t) PROVE NoLostSave'
  BY <1>9, DurableFrame, Structure DEF SetDefaults, CellsOf
<1>10. ASSUME DefaultsDone PROVE NoLostSave'
  BY <1>10, DurableFrame, Structure DEF DefaultsDone, RegsOf
<1>11. ASSUME NEW r \in Reg, InitBuffer(r) PROVE NoLostSave'
  BY <1>11, DurableFrame, Structure DEF InitBuffer, Copying
<1>12. ASSUME InitBufferCrc PROVE NoLostSave'
  BY <1>12, DurableFrame, Structure DEF InitBufferCrc
<1>13. ASSUME DefaultsRequest PROVE NoLostSave'
  BY <1>13, DurableFrame, Structure DEF DefaultsRequest, AddRequest
<1>14. ASSUME DefaultsNotify PROVE NoLostSave'
  BY <1>14, DurableFrame, Structure DEF DefaultsNotify
<1>15. ASSUME DutyWait PROVE NoLostSave'
  BY <1>15, DurableFrame, Structure DEF DutyWait
<1>16. ASSUME DutyTake PROVE NoLostSave'
  BY <1>16, DurableFrame, Structure DEF DutyTake
<1>17. ASSUME NEW ok \in BOOLEAN, DutySave(ok) PROVE NoLostSave'
  <2>1. CASE ok
    <3> SUFFICES ASSUME NEW c \in Cell, Home(c) \in up' \ (failed' \cup wiped'), ~SavePending(Home(c))'
                 PROVE  mirror'[c] = Durable(c)'
      OBVIOUS
    <3>1. DutySave(TRUE)
      BY <1>17, <2>1
    <3>2. PICK t \in dutySet :
            /\ dutySet' = dutySet \ {t} /\ failed' = failed \ {t} /\ wiped' = wiped \ {t}
            /\ Home(c) # t => Durable(c)' = Durable(c)
            /\ Home(c) = t /\ (\A d \in CellsOf(t) : crc[d] = mirror[d]) => Durable(c)' = mirror[c]
      BY <3>1, DutySaveDurable
    <3>3. UNCHANGED <<mirror, crc, up, tableToSave, pc, reg, defTable>>
      BY <1>17 DEF DutySave
    <3>4. CASE Home(c) # t
      BY <3>2, <3>3, <3>4
    <3>5. CASE Home(c) = t
      BY <3>2, <3>3, <3>5 DEF MirrorSealed, CellsOf
    <3>6. QED
      BY <3>4, <3>5
  <2>2. CASE ~ok
    BY <1>17, <2>2, DurableFrame DEF DutySave
  <2>3. QED
    BY <2>1, <2>2
<1>18. ASSUME DutyEnd PROVE NoLostSave'
  BY <1>18, DurableFrame, Structure DEF DutyEnd
<1>19. ASSUME DutyRestart \/ PowerCut PROVE NoLostSave'
  BY <1>19, DurableFrame, Structure DEF DutyRestart, PowerCut, PowerUp
<1>20. ASSUME NEW b \in BOOLEAN, RegsInit(b) PROVE NoLostSave'
  BY <1>20, DurableFrame, HomeType DEF RegsInit
<1>21. ASSUME NEW t \in Table, NEW b \in BOOLEAN, PreinitTableVars(t, b) PROVE NoLostSave'
  <2> SUFFICES ASSUME NEW c \in Cell, Home(c) \in up' \ (failed' \cup wiped'), ~SavePending(Home(c))'
               PROVE  mirror'[c] = Durable(c)'
    OBVIOUS
  <2>1. Durable(c)' = Durable(c)
    BY <1>21, DurableFrame DEF PreinitTableVars
  <2>2. QED
    BY <1>21, <2>1 DEF PreinitTableVars, Restored
<1>22. ASSUME UNCHANGED vars PROVE NoLostSave'
  BY <1>22, DurableFrame, Structure DEF vars
<1> HIDE DEF NoLostSave, SavePending, Locking, Carrying, TypeOK, Home, Mirrored, RegsOf, content, nvs, requests, locks, copying, writer, defaults, duty, reset, env, history
<1>23. QED
  BY <1>1, <1>2, <1>3, <1>4, <1>5, <1>6, <1>7, <1>8, <1>9, <1>10, <1>11, <1>12, <1>13, <1>14,
     <1>15, <1>16, <1>17, <1>18, <1>19, <1>20, <1>21, <1>22
     DEF Next, WriteStep, StartWrite, CommandStep, StartCommand, DutyStep, Boot

(* Work in progress belongs to tables that are up. *)
LEMMA AwakeStep ==
  TypeOK /\ Locking /\ Awake /\ [Next]_vars => Awake'
<1> SUFFICES ASSUME TypeOK, Locking, Awake, [Next]_vars PROVE Awake'
  OBVIOUS
<1> USE DEF Awake, Locking, TypeOK, content, nvs, requests, locks, copying, writer, defaults, duty, reset, env, history
<1>1. ASSUME NEW w \in Task, NEW r \in Reg,
             NEW value \in [{c \in Cell : RegOf[c] = r} -> Val], WriteRegister(w, r, value) PROVE Awake'
  BY <1>1, Structure DEF WriteRegister
<1>2. ASSUME NEW w \in Task, NEW r \in Reg, RefusedWrite(w, r) PROVE Awake'
  BY <1>2, Structure DEF RefusedWrite
<1>3. ASSUME NEW w \in Task, NEW d \in Cell, CopyCell(w, d) PROVE Awake'
  BY <1>3, Structure DEF CopyCell
<1>4. ASSUME NEW w \in Task, WriteDone(w) PROVE Awake'
  BY <1>4, Structure DEF WriteDone
<1>5. ASSUME NEW w \in Task, MirrorCompare(w) PROVE Awake'
  BY <1>5, Structure DEF MirrorCompare
<1>6. ASSUME NEW w \in Task, MirrorCopy(w) PROVE Awake'
  BY <1>6, Structure DEF MirrorCopy
<1>7. ASSUME NEW w \in Task, RequestSave(w) PROVE Awake'
  <2>1. tableToSave' = tableToSave \cup {TableOf[reg[w]]} /\ TableOf[reg[w]] \in up
    BY <1>7 DEF RequestSave, AddRequest
  <2>2. pc' = [pc EXCEPT ![w] = "idle"] /\ UNCHANGED <<up, reg, dutySet, defTable>>
    BY <1>7 DEF RequestSave
  <2>3. \A v \in Task : pc'[v] = pc[v] \/ pc'[v] = "idle"
    BY <2>2
  <2> QED
    BY <2>1, <2>2, <2>3, Structure
<1>8. ASSUME ResetCommand PROVE Awake'
  BY <1>8, Structure DEF ResetCommand
<1>9. ASSUME NEW t \in Table, SetDefaults(t) PROVE Awake'
  BY <1>9, Structure DEF SetDefaults
<1>10. ASSUME DefaultsDone PROVE Awake'
  BY <1>10, Structure DEF DefaultsDone
<1>11. ASSUME NEW r \in Reg, InitBuffer(r) PROVE Awake'
  BY <1>11, Structure DEF InitBuffer
<1>12. ASSUME InitBufferCrc PROVE Awake'
  BY <1>12, Structure DEF InitBufferCrc
<1>13. ASSUME DefaultsRequest PROVE Awake'
  BY <1>13, Structure DEF DefaultsRequest, AddRequest
<1>14. ASSUME DefaultsNotify PROVE Awake'
  BY <1>14, Structure DEF DefaultsNotify
<1>15. ASSUME DutyWait PROVE Awake'
  BY <1>15, Structure DEF DutyWait
<1>16. ASSUME DutyTake PROVE Awake'
  BY <1>16, Structure DEF DutyTake
<1>17. ASSUME NEW ok \in BOOLEAN, DutySave(ok) PROVE Awake'
  BY <1>17, Structure DEF DutySave
<1>18. ASSUME DutyEnd PROVE Awake'
  BY <1>18, Structure DEF DutyEnd
<1>19. ASSUME DutyRestart \/ PowerCut PROVE Awake'
  BY <1>19, Structure DEF DutyRestart, PowerCut, PowerUp
<1>20. ASSUME NEW b \in BOOLEAN, RegsInit(b) PROVE Awake'
  BY <1>20, Structure DEF RegsInit
<1>21. ASSUME NEW t \in Table, NEW b \in BOOLEAN, PreinitTableVars(t, b) PROVE Awake'
  BY <1>21, Structure DEF PreinitTableVars
<1>22. ASSUME UNCHANGED vars PROVE Awake'
  BY <1>22, Structure DEF vars
<1> HIDE DEF Awake, Locking, TypeOK, content, nvs, requests, locks, copying, writer, defaults, duty, reset, env, history
<1>23. QED
  BY <1>1, <1>2, <1>3, <1>4, <1>5, <1>6, <1>7, <1>8, <1>9, <1>10, <1>11, <1>12, <1>13, <1>14,
     <1>15, <1>16, <1>17, <1>18, <1>19, <1>20, <1>21, <1>22
     DEF Next, WriteStep, StartWrite, CommandStep, StartCommand, DutyStep, Boot

(* Refused wifi settings do not stay in flash unnoticed. *)
LEMMA RefusedStep ==
  TypeOK /\ Locking /\ Carrying /\ RefusedReplaced /\ [Next]_vars => RefusedReplaced'
<1> SUFFICES ASSUME TypeOK, Locking, Carrying, RefusedReplaced, [Next]_vars PROVE RefusedReplaced'
  OBVIOUS
<1> USE DEF RefusedReplaced, SavePending, Locking, Carrying, TypeOK, content, nvs, requests, locks, copying, writer, defaults, duty, reset, env, history
<1>1. ASSUME NEW w \in Task, NEW r \in Reg,
             NEW value \in [{c \in Cell : RegOf[c] = r} -> Val], WriteRegister(w, r, value) PROVE RefusedReplaced'
  BY <1>1, Structure DEF WriteRegister
<1>2. ASSUME NEW w \in Task, NEW r \in Reg, RefusedWrite(w, r) PROVE RefusedReplaced'
  BY <1>2, Structure DEF RefusedWrite
<1>3. ASSUME NEW w \in Task, NEW d \in Cell, CopyCell(w, d) PROVE RefusedReplaced'
  BY <1>3, Structure DEF CopyCell
<1>4. ASSUME NEW w \in Task, WriteDone(w) PROVE RefusedReplaced'
  BY <1>4, Structure DEF WriteDone
<1>5. ASSUME NEW w \in Task, MirrorCompare(w) PROVE RefusedReplaced'
  BY <1>5, Structure DEF MirrorCompare
<1>6. ASSUME NEW w \in Task, MirrorCopy(w) PROVE RefusedReplaced'
  BY <1>6, Structure DEF MirrorCopy
<1>7. ASSUME NEW w \in Task, RequestSave(w) PROVE RefusedReplaced'
  BY <1>7, Structure DEF RequestSave, AddRequest
<1>8. ASSUME ResetCommand PROVE RefusedReplaced'
  BY <1>8, Structure DEF ResetCommand
<1>9. ASSUME NEW t \in Table, SetDefaults(t) PROVE RefusedReplaced'
  BY <1>9, Structure DEF SetDefaults
<1>10. ASSUME DefaultsDone PROVE RefusedReplaced'
  BY <1>10, Structure DEF DefaultsDone
<1>11. ASSUME NEW r \in Reg, InitBuffer(r) PROVE RefusedReplaced'
  BY <1>11, Structure DEF InitBuffer
<1>12. ASSUME InitBufferCrc PROVE RefusedReplaced'
  BY <1>12, Structure DEF InitBufferCrc
<1>13. ASSUME DefaultsRequest PROVE RefusedReplaced'
  BY <1>13, Structure DEF DefaultsRequest, AddRequest
<1>14. ASSUME DefaultsNotify PROVE RefusedReplaced'
  BY <1>14, Structure DEF DefaultsNotify
<1>15. ASSUME DutyWait PROVE RefusedReplaced'
  BY <1>15, Structure DEF DutyWait
<1>16. ASSUME DutyTake PROVE RefusedReplaced'
  BY <1>16, Structure DEF DutyTake
<1>17. ASSUME NEW ok \in BOOLEAN, DutySave(ok) PROVE RefusedReplaced'
  BY <1>17, Structure DEF DutySave
<1>18. ASSUME DutyEnd PROVE RefusedReplaced'
  BY <1>18, Structure DEF DutyEnd
<1>19. ASSUME DutyRestart \/ PowerCut PROVE RefusedReplaced'
  BY <1>19, Structure DEF DutyRestart, PowerCut, PowerUp
<1>20. ASSUME NEW b \in BOOLEAN, RegsInit(b) PROVE RefusedReplaced'
  BY <1>20, Structure DEF RegsInit
<1>21. ASSUME NEW t \in Table, NEW b \in BOOLEAN, PreinitTableVars(t, b) PROVE RefusedReplaced'
  BY <1>21, Structure DEF PreinitTableVars
<1>22. ASSUME UNCHANGED vars PROVE RefusedReplaced'
  BY <1>22, Structure DEF vars
<1> HIDE DEF RefusedReplaced, SavePending, Locking, Carrying, TypeOK, content, nvs, requests, locks, copying, writer, defaults, duty, reset, env, history
<1>23. QED
  BY <1>1, <1>2, <1>3, <1>4, <1>5, <1>6, <1>7, <1>8, <1>9, <1>10, <1>11, <1>12, <1>13, <1>14,
     <1>15, <1>16, <1>17, <1>18, <1>19, <1>20, <1>21, <1>22
     DEF Next, WriteStep, StartWrite, CommandStep, StartCommand, DutyStep, Boot

(* The variables of RegsStore keep their types in every behaviour. *)
THEOREM TypeCorrect == Spec => []TypeOK
  BY InitType, NextType, PTL DEF Spec

(* All parts of the inductive invariant hold at power-on: no table is up. *)
LEMMA InitIInv == Init => IInv
<1> SUFFICES ASSUME Init PROVE IInv
  OBVIOUS
<1>1. TypeOK
  BY InitType
<1>2. Locking /\ Copying /\ Carrying /\ Promise
  BY Structure DEF Init, Locking, Copying, Carrying, Promise
<1>3. MirrorSealed /\ MirrorFollows /\ NoLostSave
  BY DEF Init, MirrorSealed, MirrorFollows, NoLostSave
<1>4. Awake /\ RefusedReplaced
  BY Structure DEF Init, Awake, RefusedReplaced
<1>5. QED
  BY <1>1, <1>2, <1>3, <1>4 DEF IInv

(* The inductive invariant: semaphores, memcpys in progress, the local set of the
   duty task and the promises of a reset, together with the three properties. *)
THEOREM Invariance == Spec => []IInv
<1>1. IInv /\ [Next]_vars => IInv'
  BY NextType, LockingStep, CopyingStep, CarryingStep, PromiseStep, SealedStep,
     FollowsStep, NoLostSaveStep, AwakeStep, RefusedStep DEF IInv
<1>2. QED
  BY InitIInv, <1>1, PTL DEF Spec

(* No update of a mirror is lost on its way to flash, whatever the interleaving of
   writers, commands, duty task, NVS failures and power cuts: NoLostSave. *)
THEOREM NoLostSaveHolds == Spec => []NoLostSave
<1>1. IInv => NoLostSave
  BY DEF IInv
<1>2. QED
  BY Invariance, <1>1, PTL

(* Mirrors follow registers although they are copied without their mutex. *)
THEOREM MirrorFollowsHolds == Spec => []MirrorFollows
<1>1. IInv => MirrorFollows
  BY DEF IInv
<1>2. QED
  BY Invariance, <1>1, PTL

(* A saved blob has a valid CRC unless the save hits mirror_access_init_buffer. *)
THEOREM MirrorSealedHolds == Spec => []MirrorSealed
<1>1. IInv => MirrorSealed
  BY DEF IInv
<1>2. QED
  BY Invariance, <1>1, PTL

(* The reset asked for by SET_DEFAULT_VALUES_COMM comes after the save. *)
THEOREM RestartAfterSaveHolds == Spec => []RestartAfterSave
<1>1. IInv => RestartAfterSave
  BY DEF IInv, Promise, RestartAfterSave
<1>2. QED
  BY Invariance, <1>1, PTL

(* A setting nobody is working on comes back unchanged after a restart. *)
THEOREM SettingsSurviveResetHolds == Spec => []SettingsSurviveReset
<1>1. IInv => SettingsSurviveReset
  BY DEF IInv, NoLostSave, MirrorFollows, SettingsSurviveReset
<1>2. QED
  BY Invariance, <1>1, PTL

-----------------------------------------------------------------------------
(* What SavedSettings sees of a step.                                       *)

Serves == [Kept!KeptNext]_(Kept!settingVars)

Rest == \A c \in Settled : Visible[c] = AtBoot[c]

(* A setting that rests is what a reset would bring back. *)
LEMMA RestIsKept == IInv => Rest
<1> SUFFICES ASSUME IInv, NEW c \in Settled PROVE Visible[c] = AtBoot[c]
  BY DEF Rest
<1>1. c \in Cell /\ c # FlashWrites /\ c \in Settings /\ Resting(c)
  BY DEF Settled, Settings
<1>2. CASE Home(c) \notin up
  BY <1>1, <1>2 DEF Visible, AtBoot
<1>3. CASE Home(c) \in up
  <2>1. mirror[c] = ram[c] /\ mirror[c] = Durable(c)
    BY <1>1, <1>3 DEF Resting, IInv, NoLostSave, MirrorFollows
  <2>2. Home(c) = 0 => blob[0] # "bad"
    BY <1>1, <1>3 DEF Resting, IInv, RefusedReplaced
  <2> QED
    BY <1>1, <1>3, <2>1, <2>2 DEF Visible, AtBoot, Booted
<1> QED
  BY <1>2, <1>3

(* What a start would bring back depends on NVS only. *)
LEMMA BootFrame == ASSUME UNCHANGED nvs PROVE AtBoot' = AtBoot
<1>1. \A c \in Cell : Booted(c)' = Booted(c)
  BY DurableFrame DEF Booted, Restorable, nvs
<1> QED
  BY <1>1 DEF AtBoot, Settings

(* A step that changes neither registers nor NVS begins work, or ends it. *)
LEMMA QuietServes ==
  ASSUME Rest', UNCHANGED nvs, up' = up, ram' = ram, Settled' \subseteq Settled \/ Settled \subseteq Settled'
  PROVE  Serves
<1>1. AtBoot' = AtBoot
  BY BootFrame
<1>2. Visible' = Visible
  <2>1. \A c \in Settings : Booted(c)' = Booted(c)
    BY <1>1 DEF AtBoot
  <2> QED
    BY <2>1 DEF Visible, Settings
<1>3. CASE Settled' \subseteq Settled
  <2>1. Kept!Begin
    BY <1>1, <1>2, <1>3 DEF Kept!Begin
  <2> QED
    BY <2>1 DEF Serves, Kept!KeptNext
<1>4. CASE Settled \subseteq Settled'
  <2>1. \A c \in Settled' : AtBoot'[c] = Visible[c]
    BY <1>2 DEF Rest
  <2>2. 0 \in Table
    BY Structure
  <2>3. Kept!Save(0)
    BY <1>1, <1>2, <1>4, <2>1 DEF Kept!Save
  <2> QED
    BY <2>2, <2>3 DEF Serves, Kept!KeptNext
<1> QED
  BY <1>3, <1>4

(* A step of the duty task's save, for the table it takes. *)
LEMMA SaveServes ==
  ASSUME IInv, Rest', NEW ok \in BOOLEAN, DutySave(ok)
  PROVE  Serves
<1>1. PICK t \in dutySet :
        /\ ram' = [ram EXCEPT ![FlashWrites] = IF @ < FlashWriteMax THEN @ + 1 ELSE @]
        /\ IF ok
             THEN /\ flash' = [c \in Cell |-> IF Home(c) = t THEN mirror[c] ELSE flash[c]]
                  /\ flashCrc' = [c \in Cell |-> IF Home(c) = t THEN crc[c] ELSE flashCrc[c]]
                  /\ blob' = [blob EXCEPT ![t] = "cur"]
                  /\ failed' = failed \ {t} /\ wiped' = wiped \ {t}
             ELSE failed' = failed \cup {t} /\ UNCHANGED <<nvs, wiped>>
        /\ dutySet' = dutySet \ {t}
  BY DEF DutySave
<1>2. UNCHANGED <<up, tableToSave, pc, reg, defTable, uninit>>
  BY DEF DutySave, requests, writer, defaults
<1>3. t \in Table /\ t \in up /\ 0 \in Table
  BY Structure DEF IInv, TypeOK, Awake
<1>4. \A c \in Settings : Home(c) # t => Booted(c)' = Booted(c)
  <2> SUFFICES ASSUME NEW c \in Settings, Home(c) # t PROVE Booted(c)' = Booted(c)
    OBVIOUS
  <2>1. CASE ok
    <3>1. Home(c) \in Table /\ blob' = [blob EXCEPT ![t] = "cur"] /\ blob \in [Table -> BlobStates]
      BY <1>1, <2>1, HomeType DEF Settings, IInv, TypeOK
    <3>2. blob'[Home(c)] = blob[Home(c)]
      BY <3>1
    <3>3. \A d \in CellsOf(Home(c)) : flash'[d] = flash[d] /\ flashCrc'[d] = flashCrc[d]
      BY <1>1, <2>1 DEF CellsOf, IInv, TypeOK
    <3>4. Restorable(Home(c))' <=> Restorable(Home(c))
      BY <3>2, <3>3 DEF Restorable, CellsOf
    <3>5. Durable(c)' = Durable(c)
      BY <3>2, <3>3, <3>4 DEF Durable, CellsOf, Settings
    <3>6. QED
      BY <3>2, <3>4, <3>5 DEF Booted
  <2>2. CASE ~ok
    <3>1. UNCHANGED nvs
      BY <1>1, <2>2
    <3>2. AtBoot' = AtBoot
      BY <3>1, BootFrame
    <3> QED
      BY <3>2 DEF AtBoot
  <2> QED
    BY <2>1, <2>2
<1>5. \A c \in Settings : Home(c) = t => c \notin Settled
  BY <1>1, <1>3 DEF Settled, Resting, SavePending
<1>6. Visible' = Visible
  <2>1. \A c \in Settings : ram'[c] = ram[c]
    BY <1>1 DEF Settings, IInv, TypeOK
  <2>2. \A c \in Settings : Home(c) \notin up => Booted(c)' = Booted(c)
    BY <1>3, <1>4
  <2> QED
    BY <2>1, <2>2, <1>2 DEF Visible, Settings
<1>7. Settled \subseteq Settled'
  <2> SUFFICES ASSUME NEW c \in Settings, Resting(c) , Home(c) # t PROVE Resting(c)'
    BY <1>5 DEF Settled
  <2>1. Home(c) \in up => Home(c) \notin failed' \cup wiped'
    BY <1>1 DEF Resting
  <2>2. SavePending(Home(c))' => SavePending(Home(c))
    BY <1>1, <1>2 DEF SavePending
  <2>3. MirrorPending(c)' => MirrorPending(c)
    BY <1>2 DEF MirrorPending
  <2> QED
    BY <1>2, <2>1, <2>2, <2>3 DEF Resting
<1>8. Kept!Save(t)
  <2>1. \A c \in Settings : AtBoot'[c] # AtBoot[c] => Home(c) = t /\ c \notin Settled
    BY <1>4, <1>5 DEF AtBoot
  <2>2. \A c \in Settled' : AtBoot'[c] = Visible[c]
    BY <1>6 DEF Rest
  <2> QED
    BY <1>6, <1>7, <2>1, <2>2 DEF Kept!Save, Kept!Of
<1> QED
  BY <1>3, <1>8 DEF Serves, Kept!KeptNext

(* A piece of a memcpy changes a setting its task is known to work on. *)
LEMMA CopyServes ==
  ASSUME IInv, NEW w \in Task, NEW d \in Cell, CopyCell(w, d)
  PROVE  Serves
<1>1. ram' = [ram EXCEPT ![d] = source[d]] /\ source[d] \in Nat /\ d \in uncopied /\ regsMutex = w
  BY DEF CopyCell, IInv, TypeOK
<1>2. UNCHANGED <<nvs, up, tableToSave, dutySet, pc, reg, defTable, uninit, failed, wiped>>
  BY DEF CopyCell, requests, duty, writer, defaults, history
<1>3. AtBoot' = AtBoot
  BY <1>2, BootFrame
<1>4. Settled' = Settled
  BY <1>2 DEF Settled, Resting, SavePending, MirrorPending
<1>5. MirrorPending(d)
  BY <1>1 DEF IInv, Locking, Copying, MirrorPending
<1>6. CASE d \in Settings /\ Home(d) \in up
  <2>1. d \notin Settled
    BY <1>5, <1>6 DEF Settled, Resting
  <2>2. \A c \in Settings : Booted(c)' = Booted(c)
    BY <1>3 DEF AtBoot
  <2>3. Visible' = [Visible EXCEPT ![d] = Visible'[d]] /\ Visible'[d] \in Nat
    BY <1>1, <1>2, <1>6, <2>2 DEF Visible, Settings, IInv, TypeOK
  <2>4. Kept!Change(d)
    BY <1>3, <1>4, <2>1, <2>3 DEF Kept!Change
  <2> QED
    BY <1>6, <2>4 DEF Serves, Kept!KeptNext
<1>7. CASE ~(d \in Settings /\ Home(d) \in up)
  <2>1. \A c \in Settings : Booted(c)' = Booted(c)
    BY <1>3 DEF AtBoot
  <2>2. Visible' = Visible
    BY <1>1, <1>2, <1>7, <2>1 DEF Visible, Settings, IInv, TypeOK
  <2> QED
    BY <1>3, <1>4, <2>2 DEF Serves, Kept!settingVars
<1> QED
  BY <1>6, <1>7

(* A reset: what is seen of every setting is what its start will bring back. *)
LEMMA ResetServes ==
  ASSUME DutyRestart \/ PowerCut
  PROVE  Serves
<1>1. UNCHANGED nvs /\ up' = {}
  BY DEF DutyRestart, PowerCut, PowerUp
<1>2. AtBoot' = AtBoot
  BY <1>1, BootFrame
<1>3. Visible' = AtBoot'
  BY <1>1 DEF Visible, AtBoot
<1>4. Settled' = Settings
  BY <1>1 DEF Settled, Resting
<1>5. Kept!Reset
  BY <1>2, <1>3, <1>4 DEF Kept!Reset
<1> QED
  BY <1>5 DEF Serves, Kept!KeptNext

(* The start of the global table counts itself, and makes of refused wifi settings what    *)
(* Booted says; without NVS the table starts from its defaults.                            *)
LEMMA RegsInitServes ==
  ASSUME IInv, NEW b \in BOOLEAN, RegsInit(b)
  PROVE  Serves
<1>1. up = {} /\ up' = {0} /\ UNCHANGED nvs
  BY DEF RegsInit
<1>2. AtBoot' = AtBoot
  BY <1>1, BootFrame
<1>3. \A c \in Settings : Booted(c)' = Booted(c)
  BY <1>2 DEF AtBoot
<1>4. Visible = AtBoot /\ Settled = Settings
  BY <1>1 DEF Visible, AtBoot, Settled, Resting
<1>5. Settled' = Settled \ {c \in Settings : Home(c) = 0}
  <2>1. tableToSave' = tableToSave \cup {0}
    BY DEF RegsInit
  <2> QED
    BY <1>1, <1>4, <2>1 DEF Settled, Resting, SavePending
<1>6. ResetCell \in Settings /\ Home(ResetCell) = 0 /\ 0 \in Table
  BY Structure DEF Settings
<1>7. \A c \in Settings : Home(c) = 0 =>
        ram'[c] = CASE c = ResetCell -> Restored(c, b) + 1
                    [] c # ResetCell /\ b /\ Restorable(0) /\ blob[0] = "bad" -> Default[c]
                    [] OTHER -> Restored(c, b)
  BY DEF RegsInit, CellsOf, Settings
<1>8. CASE b
  <2>1. \A c \in Settings : Home(c) = 0 => ram'[c] = IF c = ResetCell THEN Booted(c) + 1 ELSE Booted(c)
    BY <1>7, <1>8 DEF Restored, Booted
  <2>2. Visible' = [Visible EXCEPT ![ResetCell] = @ + 1]
    BY <1>1, <1>3, <1>4, <1>6, <2>1 DEF Visible, AtBoot
  <2>3. Kept!Count
    BY <1>2, <1>5, <1>6, <2>2 DEF Kept!Count, Kept!Of
  <2> QED
    BY <2>3 DEF Serves, Kept!KeptNext
<1>9. CASE ~b
  <2>1. \A c \in Settings : Home(c) = 0 => ram'[c] = IF c = ResetCell THEN Default[c] + 1 ELSE Default[c]
    BY <1>7, <1>9 DEF Restored
  <2>2. Visible' = [c \in Settings |-> IF Home(c) # 0 THEN Visible[c]
                                     ELSE IF c = ResetCell THEN Default[c] + 1 ELSE Default[c]]
    BY <1>1, <1>3, <1>4, <2>1 DEF Visible, AtBoot
  <2>3. Kept!Lose(0)
    BY <1>2, <1>5, <2>2 DEF Kept!Lose, Kept!Of
  <2> QED
    BY <1>6, <2>3 DEF Serves, Kept!KeptNext
<1> QED
  BY <1>8, <1>9

(* The start of a user table shows nothing new, unless NVS cannot be read. *)
LEMMA PreinitServes ==
  ASSUME IInv, Rest', NEW t \in Table, NEW b \in BOOLEAN, PreinitTableVars(t, b)
  PROVE  Serves
<1>1. 0 \in up /\ t \notin up /\ t # 0 /\ up' = up \cup {t} /\ UNCHANGED nvs
  BY DEF PreinitTableVars
<1>2. AtBoot' = AtBoot
  BY <1>1, BootFrame
<1>3. \A c \in Settings : Booted(c)' = Booted(c)
  BY <1>2 DEF AtBoot
<1>4. \A c \in Cell : ram'[c] = IF Home(c) = t THEN Restored(c, b) ELSE ram[c]
  BY DEF PreinitTableVars
<1>5. UNCHANGED <<tableToSave, dutySet, pc, reg, defTable, uninit, wiped>>
  BY DEF PreinitTableVars, requests, duty, writer, defaults
<1>6. \A c \in Settings : (SavePending(Home(c))' <=> SavePending(Home(c))) /\ (MirrorPending(c)' <=> MirrorPending(c))
  BY <1>5 DEF SavePending, MirrorPending
<1>7. CASE b
  <2>1. failed' = failed \ {t}
    BY <1>7 DEF PreinitTableVars
  <2>2. Settled' \subseteq Settled
    BY <1>1, <1>5, <1>6, <2>1 DEF Settled, Resting
  <2>3. \A c \in Settings : Home(c) = t => ram'[c] = Booted(c)
    BY <1>1, <1>4, <1>7 DEF Settings, Restored, Booted
  <2>4. \A c \in Settings : Home(c) # t => ram'[c] = ram[c]
    BY <1>4 DEF Settings
  <2>5. Visible' = Visible
    BY <1>1, <1>3, <2>3, <2>4 DEF Visible
  <2>6. Kept!Begin
    BY <1>2, <2>2, <2>5 DEF Kept!Begin
  <2> QED
    BY <2>6 DEF Serves, Kept!KeptNext
<1>8. CASE ~b
  <2>1. failed' = failed \cup {t}
    BY <1>8 DEF PreinitTableVars
  <2>2. Settled' = Settled \ {c \in Settings : Home(c) = t}
    BY <1>1, <1>5, <1>6, <2>1 DEF Settled, Resting
  <2>3. \A c \in Settings : Home(c) = t => c # ResetCell /\ ram'[c] = Default[c]
    BY <1>1, <1>4, <1>8, Structure DEF Settings, Restored
  <2>4. \A c \in Settings : Home(c) # t => ram'[c] = ram[c]
    BY <1>4 DEF Settings
  <2>5. Visible' = [c \in Settings |-> IF Home(c) # t THEN Visible[c]
                                     ELSE IF c = ResetCell THEN Default[c] + 1 ELSE Default[c]]
    BY <1>1, <1>3, <2>3, <2>4 DEF Visible
  <2>6. Kept!Lose(t)
    BY <1>2, <2>2, <2>5 DEF Kept!Lose, Kept!Of
  <2> QED
    BY <2>6 DEF Serves, Kept!KeptNext
<1> QED
  BY <1>7, <1>8

(* Every step is one of SavedSettings, or it sees nothing of it.  What is quiet begins work  *)
(* or goes on with it: a setting stays in work through every handover from a writer to its *)
(* mirror, to the bits of table_to_save and to the duty task.                              *)
LEMMA ServesStep == IInv /\ Rest' /\ [Next]_vars => Serves
<1> SUFFICES ASSUME IInv, Rest', [Next]_vars PROVE Serves
  OBVIOUS
<1>0. TypeOK /\ Locking /\ Copying /\ Carrying
  BY DEF IInv
<1>1. ASSUME NEW w \in Task, NEW r \in Reg,
             NEW value \in [{c \in Cell : RegOf[c] = r} -> Val], WriteRegister(w, r, value) PROVE Serves
  <2>1. UNCHANGED nvs /\ up' = up /\ ram' = ram
    BY <1>1 DEF WriteRegister, content
  <2>2. ASSUME NEW c \in Settings, Resting(c)' PROVE Resting(c)
    BY <1>0, <1>1, <2>2, Structure DEF WriteRegister, Resting, SavePending, MirrorPending, Settings, Home,
       TypeOK, Locking, Copying, Carrying, RegsOf, content, nvs, requests, locks, copying, writer, defaults, duty, reset, env, history
  <2> QED
    BY <2>1, <2>2, QuietServes DEF Settled
<1>2. ASSUME NEW w \in Task, NEW r \in Reg, RefusedWrite(w, r) PROVE Serves
  <2>1. UNCHANGED nvs /\ up' = up /\ ram' = ram
    BY <1>2 DEF RefusedWrite, content
  <2>2. ASSUME NEW c \in Settings, Resting(c)' PROVE Resting(c)
    BY <1>0, <1>2, <2>2, Structure DEF RefusedWrite, Resting, SavePending, MirrorPending, Settings, Home,
       TypeOK, Locking, Copying, Carrying, RegsOf, content, nvs, requests, locks, copying, writer, defaults, duty, reset, env, history
  <2> QED
    BY <2>1, <2>2, QuietServes DEF Settled
<1>3. ASSUME NEW w \in Task, NEW d \in Cell, CopyCell(w, d) PROVE Serves
  BY <1>3, CopyServes
<1>4. ASSUME NEW w \in Task, WriteDone(w) PROVE Serves
  <2>1. UNCHANGED nvs /\ up' = up /\ ram' = ram
    BY <1>4 DEF WriteDone, content
  <2>2. ASSUME NEW c \in Settings, Resting(c)' PROVE Resting(c)
    BY <1>0, <1>4, <2>2, Structure DEF WriteDone, Resting, SavePending, MirrorPending, Settings, Home,
       TypeOK, Locking, Copying, Carrying, RegsOf, content, nvs, requests, locks, copying, writer, defaults, duty, reset, env, history
  <2> QED
    BY <2>1, <2>2, QuietServes DEF Settled
<1>5. ASSUME NEW w \in Task, MirrorCompare(w) PROVE Serves
  <2>1. UNCHANGED nvs /\ up' = up /\ ram' = ram
    BY <1>5 DEF MirrorCompare, content
  <2>2. ASSUME NEW c \in Settings, Resting(c) PROVE Resting(c)'
    BY <1>0, <1>5, <2>2, Structure DEF MirrorCompare, Resting, SavePending, MirrorPending, Settings, Home,
       TypeOK, Locking, Copying, Carrying, RegsOf, content, nvs, requests, locks, copying, writer, defaults, duty, reset, env, history
  <2> QED
    BY <2>1, <2>2, QuietServes DEF Settled
<1>6. ASSUME NEW w \in Task, MirrorCopy(w) PROVE Serves
  <2>1. UNCHANGED nvs /\ up' = up /\ ram' = ram
    BY <1>6 DEF MirrorCopy, content
  <2>2. ASSUME NEW c \in Settings, Resting(c)' PROVE Resting(c)
    BY <1>0, <1>6, <2>2, Structure DEF MirrorCopy, Resting, SavePending, MirrorPending, Settings, Home,
       TypeOK, Locking, Copying, Carrying, RegsOf, content, nvs, requests, locks, copying, writer, defaults, duty, reset, env, history
  <2> QED
    BY <2>1, <2>2, QuietServes DEF Settled
<1>7. ASSUME NEW w \in Task, RequestSave(w) PROVE Serves
  <2>1. UNCHANGED nvs /\ up' = up /\ ram' = ram
    BY <1>7 DEF RequestSave, AddRequest, content
  <2>2. ASSUME NEW c \in Settings, Resting(c)' PROVE Resting(c)
    BY <1>0, <1>7, <2>2, Structure DEF RequestSave, AddRequest, Resting, SavePending, MirrorPending, Settings, Home,
       TypeOK, Locking, Copying, Carrying, RegsOf, content, nvs, requests, locks, copying, writer, defaults, duty, reset, env, history
  <2> QED
    BY <2>1, <2>2, QuietServes DEF Settled
<1>8. ASSUME ResetCommand PROVE Serves
  <2>1. UNCHANGED nvs /\ up' = up /\ ram' = ram
    BY <1>8 DEF ResetCommand, content
  <2>2. ASSUME NEW c \in Settings, Resting(c)' PROVE Resting(c)
    BY <1>0, <1>8, <2>2, Structure DEF ResetCommand, Resting, SavePending, MirrorPending, Settings, Home,
       TypeOK, Locking, Copying, Carrying, RegsOf, content, nvs, requests, locks, copying, writer, defaults, duty, reset, env, history
  <2> QED
    BY <2>1, <2>2, QuietServes DEF Settled
<1>9. ASSUME NEW t \in Table, SetDefaults(t) PROVE Serves
  <2>1. UNCHANGED nvs /\ up' = up /\ ram' = ram
    BY <1>9 DEF SetDefaults, content
  <2>2. ASSUME NEW c \in Settings, Resting(c)' PROVE Resting(c)
    BY <1>0, <1>9, <2>2, Structure DEF SetDefaults, Resting, SavePending, MirrorPending, Settings, Home,
       TypeOK, Locking, Copying, Carrying, RegsOf, content, nvs, requests, locks, copying, writer, defaults, duty, reset, env, history
  <2> QED
    BY <2>1, <2>2, QuietServes DEF Settled
<1>10. ASSUME DefaultsDone PROVE Serves
  <2>1. UNCHANGED nvs /\ up' = up /\ ram' = ram
    BY <1>10 DEF DefaultsDone, content
  <2>2. ASSUME NEW c \in Settings, Resting(c)' PROVE Resting(c)
    BY <1>0, <1>10, <2>2, Structure DEF DefaultsDone, Resting, SavePending, MirrorPending, Settings, Home,
       TypeOK, Locking, Copying, Carrying, RegsOf, content, nvs, requests, locks, copying, writer, defaults, duty, reset, env, history
  <2> QED
    BY <2>1, <2>2, QuietServes DEF Settled
<1>11. ASSUME NEW r \in Reg, InitBuffer(r) PROVE Serves
  <2>1. UNCHANGED nvs /\ up' = up /\ ram' = ram
    BY <1>11 DEF InitBuffer, content
  <2>2. ASSUME NEW c \in Settings, Resting(c)' PROVE Resting(c)
    BY <1>0, <1>11, <2>2, Structure DEF InitBuffer, Resting, SavePending, MirrorPending, Settings, Home,
       TypeOK, Locking, Copying, Carrying, RegsOf, content, nvs, requests, locks, copying, writer, defaults, duty, reset, env, history
  <2> QED
    BY <2>1, <2>2, QuietServes DEF Settled
<1>12. ASSUME InitBufferCrc PROVE Serves
  <2>1. UNCHANGED nvs /\ up' = up /\ ram' = ram
    BY <1>12 DEF InitBufferCrc, content
  <2>2. ASSUME NEW c \in Settings, Resting(c)' PROVE Resting(c)
    BY <1>0, <1>12, <2>2, Structure DEF InitBufferCrc, Resting, SavePending, MirrorPending, Settings, Home,
       TypeOK, Locking, Copying, Carrying, RegsOf, content, nvs, requests, locks, copying, writer, defaults, duty, reset, env, history
  <2> QED
    BY <2>1, <2>2, QuietServes DEF Settled
<1>13. ASSUME DefaultsRequest PROVE Serves
  <2>1. UNCHANGED nvs /\ up' = up /\ ram' = ram
    BY <1>13 DEF DefaultsRequest, AddRequest, content
  <2>2. ASSUME NEW c \in Settings, Resting(c)' PROVE Resting(c)
    BY <1>0, <1>13, <2>2, Structure DEF DefaultsRequest, AddRequest, Resting, SavePending, MirrorPending, Settings, Home,
       TypeOK, Locking, Copying, Carrying, RegsOf, content, nvs, requests, locks, copying, writer, defaults, duty, reset, env, history
  <2> QED
    BY <2>1, <2>2, QuietServes DEF Settled
<1>14. ASSUME DefaultsNotify PROVE Serves
  <2>1. UNCHANGED nvs /\ up' = up /\ ram' = ram
    BY <1>14 DEF DefaultsNotify, content
  <2>2. ASSUME NEW c \in Settings, Resting(c)' PROVE Resting(c)
    BY <1>0, <1>14, <2>2, Structure DEF DefaultsNotify, Resting, SavePending, MirrorPending, Settings, Home,
       TypeOK, Locking, Copying, Carrying, RegsOf, content, nvs, requests, locks, copying, writer, defaults, duty, reset, env, history
  <2> QED
    BY <2>1, <2>2, QuietServes DEF Settled
<1>15. ASSUME DutyWait PROVE Serves
  <2>1. UNCHANGED nvs /\ up' = up /\ ram' = ram
    BY <1>15 DEF DutyWait, content
  <2>2. ASSUME NEW c \in Settings, Resting(c)' PROVE Resting(c)
    BY <1>0, <1>15, <2>2, Structure DEF DutyWait, Resting, SavePending, MirrorPending, Settings, Home,
       TypeOK, Locking, Copying, Carrying, RegsOf, content, nvs, requests, locks, copying, writer, defaults, duty, reset, env, history
  <2> QED
    BY <2>1, <2>2, QuietServes DEF Settled
<1>16. ASSUME DutyTake PROVE Serves
  <2>1. UNCHANGED nvs /\ up' = up /\ ram' = ram
    BY <1>16 DEF DutyTake, content
  <2>2. ASSUME NEW c \in Settings, Resting(c)' PROVE Resting(c)
    BY <1>0, <1>16, <2>2, Structure DEF DutyTake, Resting, SavePending, MirrorPending, Settings, Home,
       TypeOK, Locking, Copying, Carrying, RegsOf, content, nvs, requests, locks, copying, writer, defaults, duty, reset, env, history
  <2> QED
    BY <2>1, <2>2, QuietServes DEF Settled
<1>17. ASSUME NEW ok \in BOOLEAN, DutySave(ok) PROVE Serves
  BY <1>17, SaveServes
<1>18. ASSUME DutyEnd PROVE Serves
  <2>1. UNCHANGED nvs /\ up' = up /\ ram' = ram
    BY <1>18 DEF DutyEnd, content
  <2>2. ASSUME NEW c \in Settings, Resting(c)' PROVE Resting(c)
    BY <1>0, <1>18, <2>2, Structure DEF DutyEnd, Resting, SavePending, MirrorPending, Settings, Home,
       TypeOK, Locking, Copying, Carrying, RegsOf, content, nvs, requests, locks, copying, writer, defaults, duty, reset, env, history
  <2> QED
    BY <2>1, <2>2, QuietServes DEF Settled
<1>19. ASSUME DutyRestart \/ PowerCut PROVE Serves
  BY <1>19, ResetServes
<1>20. ASSUME NEW b \in BOOLEAN, RegsInit(b) PROVE Serves
  BY <1>20, RegsInitServes
<1>21. ASSUME NEW t \in Table, NEW b \in BOOLEAN, PreinitTableVars(t, b) PROVE Serves
  BY <1>21, PreinitServes
<1>22. ASSUME UNCHANGED vars PROVE Serves
  <2>1. UNCHANGED <<nvs, up, ram, tableToSave, dutySet, pc, reg, defTable, uninit, failed, wiped>>
    BY <1>22 DEF vars, content, requests, duty, writer, defaults, history
  <2>2. Settled' = Settled
    BY <2>1 DEF Settled, Resting, SavePending, MirrorPending
  <2> QED
    BY <2>1, <2>2, QuietServes
<1>23. QED
  BY <1>1, <1>2, <1>3, <1>4, <1>5, <1>6, <1>7, <1>8, <1>9, <1>10, <1>11, <1>12, <1>13, <1>14,
     <1>15, <1>16, <1>17, <1>18, <1>19, <1>20, <1>21, <1>22
     DEF Next, WriteStep, StartWrite, CommandStep, StartCommand, DutyStep, Boot

(* The registers, their mirrors, the requests and the blobs together keep the promise of    *)
(* the flag &save: SettingsKept.                                                           *)
THEOREM SettingsKeptHolds == Spec => SettingsKept
<1>1. Init => Kept!KeptInit
  <2> SUFFICES ASSUME Init PROVE Kept!KeptInit
    OBVIOUS
  <2>1. TypeOK /\ up = {}
    BY InitType DEF Init
  <2>2. \A c \in Settings : Booted(c) \in Nat
    BY <2>1, RestoredType, Structure DEF Booted, Settings
  <2>3. Visible = AtBoot /\ Visible \in [Settings -> Nat] /\ Settled = Settings
    BY <2>1, <2>2 DEF Visible, AtBoot, Settled, Resting
  <2> QED
    BY <2>3 DEF Kept!KeptInit
<1>2. IInv /\ IInv' /\ [Next]_vars => Serves
  <2>1. IInv' => Rest'
    BY RestIsKept, PTL
  <2> QED
    BY <2>1, ServesStep
<1>3. Serves => [Kept!KeptNext]_(Kept!settingVars)
  BY DEF Serves
<1> QED
  BY <1>1, <1>2, <1>3, Invariance, PTL DEF Spec, SettingsKept, Kept!KeptSpec
============================================================================
