----------------------------- MODULE RegsLookup -----------------------------
(***************************************************************************)
(* The list of register tables (regs_description_list): tasks add their    *)
(* tables while clients look registers up by name, guid, address, index    *)
(* and Modbus address.                                                     *)
(*                                                                         *)
(* regs_description_list_add_new has no lock of its own and waits for      *)
(* regs_access_mutex in its middle (regs_copy_safe), so that the start of  *)
(* one task can fall into the registration of another.  Every access to    *)
(* the list is a step here; a slot is filled in two (the struct is copied  *)
(* word by word).  A lookup is an operator on the current list.            *)
(***************************************************************************)
EXTENDS Naturals, Integers, Sequences, FiniteSets, FiniteSetsExt

CONSTANTS
  Tables,    \* the tables that are added
  Global,    \* regs_table_global, added by regs_init before any task starts
  Desc,      \* [Tables -> Seq(Register)]: their descriptions
  MaxTables, \* LIST_DESCRIPTIONS_SIZE, 32 in the code
  None       \* NULL, -1: nothing found, no table

\* What the lookups need of a regs_description_t; bytes is size * regs_size_in_byte.
Register == [name : STRING, guid : Nat, addr : Nat, bytes : Nat \ {0}, fn : Nat, mdb : Nat]

ASSUME Descriptions ==
  /\ Global \in Tables /\ None \notin Tables /\ MaxTables \in Nat \ {0}
  /\ DOMAIN Desc = Tables
  /\ \A t \in Tables : Len(Desc[t]) > 0 /\ \A j \in DOMAIN Desc[t] : Desc[t][j] \in Register
  \* the generator sorts a table by guid, address and Modbus address
  /\ \A t \in Tables : \A j, k \in DOMAIN Desc[t] : j < k =>
       LET q == Desc[t][j] r == Desc[t][k] IN
       q.guid < r.guid /\ q.addr + q.bytes <= r.addr /\ q.mdb + q.bytes \div 2 <= r.mdb /\ q.mdb < r.mdb

VARIABLES
  desc, num,   \* the fields description and num_of_regs of the slots
  count,       \* num_of_list_descriptions
  userVars,    \* num_user_tasks_vars
  userVarsReg, \* the register user_task_num_of_vars
  pc, at,      \* where a task is in regs_description_list_add_new, its slot
  index,       \* what it returned
  overlap      \* history: a registration began inside another one

vars == <<desc, num, count, userVars, userVarsReg, pc, at, index, overlap>>

Slots == 0 .. (MaxTables - 1)

TypeOK ==
  /\ desc \in [Slots -> Tables \cup {None}] /\ num \in [Slots -> Nat]
  /\ count \in 0 .. Cardinality(Tables) /\ userVars \in Nat /\ userVarsReg \in Nat
  /\ pc \in [Tables -> {"idle", "desc", "num", "sum", "copy", "index", "count", "done", "full"}]
  /\ at \in [Tables -> Nat] /\ index \in [Tables -> Nat \cup {None}]
  /\ overlap \in BOOLEAN

Init ==
  /\ desc = [i \in Slots |-> None] /\ num = [i \in Slots |-> 0]
  /\ count = 0 /\ userVars = 0 /\ userVarsReg = 0
  /\ pc = [t \in Tables |-> "idle"] /\ at = [t \in Tables |-> 0]
  /\ index = [t \in Tables |-> None] /\ overlap = FALSE

-----------------------------------------------------------------------------
(* regs_description_list_add_new, step by step                              *)

Adding == {t \in Tables : pc[t] \notin {"idle", "done", "full"}}

Go(t, from, to) == pc[t] = from /\ pc' = [pc EXCEPT ![t] = to]

\* regs_init returns before the tasks are started.
MayStart(t) == t = Global \/ pc[Global] \in {"done", "full"}

Fits == count < MaxTables

Begin(t) ==
  /\ MayStart(t)
  /\ Go(t, "idle", IF Fits THEN "desc" ELSE "full")
  /\ overlap' = (overlap \/ (Adding # {} /\ Fits))
  /\ UNCHANGED <<desc, num, count, userVars, userVarsReg, at, index>>

\* After an overlap the list may be full by now: the store would go behind it.
StoreDesc(t) ==
  /\ Go(t, "desc", "num")
  /\ at' = [at EXCEPT ![t] = count]
  /\ desc' = [i \in Slots |-> IF i = count THEN t ELSE desc[i]]
  /\ UNCHANGED <<num, count, userVars, userVarsReg, index, overlap>>

StoreNum(t) ==
  /\ Go(t, "num", "sum")
  /\ num' = [i \in Slots |-> IF i = at[t] THEN Len(Desc[t]) ELSE num[i]]
  /\ UNCHANGED <<desc, count, userVars, userVarsReg, at, index, overlap>>

\* The first table is the global one: its registers are not those of the tasks.
SumVars(t) ==
  /\ Go(t, "sum", IF count = 0 THEN "index" ELSE "copy")
  /\ userVars' = IF count \in Slots \ {0} THEN userVars + num[count] ELSE userVars
  /\ UNCHANGED <<desc, num, count, userVarsReg, at, index, overlap>>

\* regs_copy_safe, which may have to wait for regs_access_mutex first.
CopyVars(t) ==
  /\ Go(t, "copy", "index")
  /\ userVarsReg' = userVars
  /\ UNCHANGED <<desc, num, count, userVars, at, index, overlap>>

TakeIndex(t) ==
  /\ Go(t, "index", "count")
  /\ index' = [index EXCEPT ![t] = count]
  /\ UNCHANGED <<desc, num, count, userVars, userVarsReg, at, overlap>>

StoreCountKept(t) ==  \* mutant: the count stays
  /\ Go(t, "count", "done")
  /\ UNCHANGED <<desc, num, count, userVars, userVarsReg, at, index, overlap>>
StoreCount(t) ==
  /\ Go(t, "count", "done")
  /\ count' = index[t] + 1
  /\ UNCHANGED <<desc, num, userVars, userVarsReg, at, index, overlap>>

AddNew(t) ==
  \/ Begin(t) \/ StoreDesc(t) \/ StoreNum(t) \/ SumVars(t)
  \/ CopyVars(t) \/ TakeIndex(t) \/ StoreCount(t)

Next == \E t \in Tables : AddNew(t)

Spec == Init /\ [][Next]_vars

-----------------------------------------------------------------------------
(* The lookups.  A register is found at <<slot, position>>, positions from 0. *)

Reg(i, j) == Desc[desc[i]][j + 1]

\* The first slot for which In(i) finds something, of the slots before end.
FirstFound(In(_), end) ==
  LET hits == {i \in 0 .. (end - 1) : In(i) # None}
  IN IF hits = {} THEN None ELSE <<Min(hits), In(Min(hits))>>

\* Most searches end at the first empty slot, whatever the count.
End == Min({i \in Slots : desc[i] = None} \cup {MaxTables})

\* The positions of slot i with P.  (After an overlap num may be that of another table;
\* what is read behind a table is left out.)
Hits(i, P(_)) == {j \in 0 .. (num[i] - 1) : j < Len(Desc[desc[i]]) /\ P(Reg(i, j))}
Linear(i, P(_)) == IF Hits(i, P) = {} THEN None ELSE Min(Hits(i, P))

\* One round of the binary search between q.l and q.r: a position of hits ends it, from one
\* of above it goes on behind.
Middle(q) == (q.l + q.r) \div 2
Ended(q, hits) == q.l > q.r \/ Middle(q) \in hits
Halved(q, hits, above) ==
  IF Ended(q, hits) THEN q
  ELSE IF Middle(q) \in above THEN [q EXCEPT !.l = Middle(q) + 1] ELSE [q EXCEPT !.r = Middle(q) - 1]

\* The binary search of the three bin_search functions over n registers, which n rounds end.
Bisect(n, hits, above) ==
  LET Round[k \in 0 .. n] ==
        IF k = 0 THEN [l |-> 0, r |-> n - 1] ELSE Halved(Round[k - 1], hits, above)
  IN IF Round[n].l > Round[n].r THEN None ELSE Middle(Round[n])

ByName(n) == FirstFound(LAMBDA i : Linear(i, LAMBDA r : r.name = n), End)

AboveGuid(g, r) == g > r.guid
ByGuid(g) ==
  FirstFound(LAMBDA i : Bisect(num[i], Hits(i, LAMBDA r : r.guid = g), Hits(i, LAMBDA r : AboveGuid(g, r))), End)

HoldsAddr(a, r) == r.addr <= a /\ a < r.addr + r.bytes
ByAddress(a) ==
  FirstFound(LAMBDA i : Bisect(num[i], Hits(i, LAMBDA r : HoldsAddr(a, r)), Hits(i, LAMBDA r : a > r.addr)), End)

\* The last byte of an odd register has no address: its word belongs to the next one.
HoldsWord(f, m, r) == f = r.fn /\ (m = r.mdb \/ (m > r.mdb /\ m < r.mdb + r.bytes \div 2))

\* The pointer for a Modbus address: these searches go up to the count.
PointerIn(i, f, m) ==
  LET j == Bisect(num[i], Hits(i, LAMBDA r : HoldsWord(f, m, r)), Hits(i, LAMBDA r : m > r.mdb))
  IN IF j = None THEN None ELSE Reg(i, j).addr + 2 * (m - Reg(i, j).mdb)

Counted == IF count < MaxTables THEN count ELSE MaxTables

PointerByModbus(m, f) ==
  LET found == FirstFound(LAMBDA i : PointerIn(i, f, m), Counted)
  IN IF found = None THEN None ELSE found[2]

\* The registers in front of slot i.
NumBefore(i) == MapThenSumSet(LAMBDA k : num[k], 0 .. (i - 1))

\* The slot and position of the k-th register of all tables.
ByIndex(k) ==
  LET in == {i \in 0 .. (Counted - 1) : k < NumBefore(i + 1)}
  IN IF in = {} THEN None ELSE <<Min(in), k - NumBefore(Min(in))>>

IndexOf(found) == IF found = None THEN None ELSE NumBefore(found[1]) + found[2]
IndexByName(n) == IndexOf(ByName(n))
IndexByAddress(a) == IndexOf(FirstFound(LAMBDA i : Linear(i, LAMBDA r : HoldsAddr(a, r)), Counted))

-----------------------------------------------------------------------------
(* Properties.  With overlapping registrations two tasks can get the same   *)
(* slot, and nothing is claimed.                                            *)

Registered == {t \in Tables : pc[t] = "done"}
Regs(t) == {Desc[t][j] : j \in DOMAIN Desc[t]}

\* Without overlap every table that was added has a slot of its own, the one its task
\* was told, and the tables fill the list without a gap; a refused table met a full
\* list.  About regs_description_list_add_new.
OwnSlot ==
  ~overlap =>
    /\ \A t \in Registered : index[t] \in Slots /\ desc[index[t]] = t /\ num[index[t]] = Len(Desc[t])
    /\ Adding = {} => count = Cardinality(Registered)
    /\ \A t \in Tables : pc[t] = "full" => Cardinality(Registered) = MaxTables

\* user_task_num_of_vars is the number of registers of the tasks' tables.
UserVarsCounted ==
  ~overlap /\ Adding = {} =>
    userVarsReg = MapThenSumSet(LAMBDA t : Len(Desc[t]), Registered \ {Global})

\* Every register of a table that was added is found by its guid, by each of its
\* bytes and by its Modbus address, also while another table is being added; and a
\* search finds nothing that does not belong to the key.  About the binary searches.
SearchesFind ==
  ~overlap =>
    /\ \A t \in Registered : \A r \in Regs(t) :
         /\ LET f == ByGuid(r.guid) IN f # None /\ Reg(f[1], f[2]) = r
         /\ \A b \in 0 .. (r.bytes - 1) :
              LET f == ByAddress(r.addr + b) IN f # None /\ Reg(f[1], f[2]) = r
         /\ PointerByModbus(r.mdb, r.fn) = r.addr
    /\ \A t \in Tables \ Registered : \A r \in Regs(t) :
         LET f == ByAddress(r.addr) IN f = None \/ Reg(f[1], f[2]) = r

\* A word found by Modbus lies inside one register, whatever the odd sizes in front.
WordsInside ==
  ~overlap =>
    \A m \in 0 .. Max({r.mdb + r.bytes : r \in UNION {Regs(t) : t \in Tables}}) :
      LET p == PointerByModbus(m, 3) IN
      p # None => \E t \in Tables : \E r \in Regs(t) :
        r.addr <= p /\ p + 1 < r.addr + r.bytes

\* The index a client gets for a register (get_index_by_address, by_name) leads back to
\* that register with get_by_index.  A user's table_version has the name of another
\* register: by name it is never found.
IndexLeadsBack ==
  ~overlap =>
    \A t \in Registered : \A r \in Regs(t) :
      /\ LET f == ByIndex(IndexByAddress(r.addr)) IN f # None /\ f[2] < num[f[1]] /\ Reg(f[1], f[2]) = r
      /\ LET f == ByIndex(IndexByName(r.name)) IN f # None /\ Reg(f[1], f[2]).name = r.name

\* An index stays valid while further tables are added: web clients keep it.
IndicesStay ==
  [][~overlap' => \A t \in Registered : \A r \in Regs(t) :
        IndexByAddress(r.addr)' = IndexByAddress(r.addr)]_vars

-----------------------------------------------------------------------------
(* The inductive invariant behind OwnSlot                                   *)

Stored(t) == desc[count] = t /\ at[t] = count
\* While no two registrations meet there is one at most, at the end of the list.
OneAdds ==
  /\ \A t, u \in Adding : t = u
  /\ \A t \in Adding :
       /\ count < MaxTables
       /\ pc[t] # "desc" => Stored(t)
       /\ pc[t] \notin {"desc", "num"} => num[count] = Len(Desc[t])
       /\ pc[t] = "count" => index[t] = count
AddedBefore ==
  /\ count \in 0 .. MaxTables /\ IsFiniteSet(Registered) /\ count = Cardinality(Registered)
  /\ \A t \in Registered :
       index[t] \in 0 .. count - 1 /\ desc[index[t]] = t /\ num[index[t]] = Len(Desc[t])
  /\ \A t \in Tables : pc[t] = "full" => count = MaxTables
ListTypes ==
  /\ DOMAIN desc = Slots /\ DOMAIN num = Slots /\ desc = [i \in Slots |-> desc[i]] /\ num = [i \in Slots |-> num[i]]
  /\ pc \in [Tables -> {"idle", "desc", "num", "sum", "copy", "index", "count", "done", "full"}]
  /\ DOMAIN at = Tables /\ DOMAIN index = Tables
ListIInv == ~overlap => ListTypes /\ OneAdds /\ AddedBefore
============================================================================
