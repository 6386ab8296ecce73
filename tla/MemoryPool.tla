----------------------------- MODULE MemoryPool -----------------------------
(***************************************************************************)
(* The memory pool of memory_handle.c, and the dynamic Modbus address      *)
(* spaces that live in one (dinamic_address).                              *)
(***************************************************************************)
EXTENDS Integers, FiniteSets

CONSTANTS
  PoolSz,       \* pool_sz
  Addrs, SpaceLens,  \* of the address spaces
  Commands, AllCmd

ASSUME PoolNumbers == PoolSz \in Nat \ {0} /\ Addrs \cup SpaceLens \subseteq Nat

VARIABLES
  there,        \* os_pool_create has made the pool
  markers, current,
  space,        \* what is in a block: an address space, or NoSpace
  failed        \* the last allocation returned NULL

poolVars == <<there, markers, current, space, failed>>

Blocks == 0 .. PoolSz - 1
NoSpace == [address |-> 0, len |-> 0, command |-> 0]

PoolTypeOK ==
  /\ there \in BOOLEAN /\ markers \in [Blocks -> {0, 1}] /\ current \in Blocks
  /\ space \in [Blocks -> [address : Addrs \cup {0}, len : SpaceLens \cup {0}, command : Commands \cup {AllCmd, 0}]]

PoolInit ==
  /\ there = FALSE /\ markers = [i \in Blocks |-> 0] /\ current = 0
  /\ space = [i \in Blocks |-> NoSpace] /\ failed = FALSE

\* os_pool_create: when an allocation fails the others are freed and there is no pool.
Create ==
  /\ ~ there /\ there' = TRUE /\ markers' = [i \in Blocks |-> 0] /\ current' = 0
  /\ space' = [i \in Blocks |-> NoSpace] /\ UNCHANGED failed

\* os_pool_delete
Delete == there /\ there' = FALSE /\ UNCHANGED <<markers, current, space, failed>>

Index(i) == IF current + i >= PoolSz THEN 0 ELSE current + i
FreeTriesTaken == {i \in Blocks : TRUE}  \* mutant: the marker is not looked at
\* os_pool_alloc: the tries whose block is free. Past the end every try is block 0.
FreeTries == {i \in Blocks : markers[Index(i)] = 0}
Allocated(b) ==
  \E i \in FreeTries : (\A j \in FreeTries : i <= j) /\ b = Index(i)

\* os_pool_calloc: the block is cleared.
Alloc ==
  /\ there
  /\ \/ /\ FreeTries = {} /\ failed' = TRUE /\ UNCHANGED <<markers, current, space>>
     \/ \E b \in Blocks :
          /\ Allocated(b)
          /\ markers' = [markers EXCEPT ![b] = 1] /\ current' = b
          /\ space' = [space EXCEPT ![b] = NoSpace] /\ failed' = FALSE
  /\ UNCHANGED there

\* os_pool_free of a block's address; any other address is refused.
Free(b) ==
  /\ there /\ markers' = [markers EXCEPT ![b] = 0]
  /\ UNCHANGED <<there, current, space, failed>>

-----------------------------------------------------------------------------
(* modbus_bind_address_space_by_command, modbus_dinamic_addr_check          *)

Found(addr, command, len) ==
  {i \in Blocks :
     /\ markers[i] = 1 /\ addr >= space[i].address
     /\ addr + len <= space[i].address + space[i].len
     /\ space[i].command \in {command, AllCmd}}

Bind(addr, command, len) ==
  /\ there /\ Found(addr, command, len) = {}
  /\ \/ /\ FreeTries = {} /\ failed' = TRUE /\ UNCHANGED <<markers, current, space>>
     \/ \E b \in Blocks :
          /\ Allocated(b)
          /\ markers' = [markers EXCEPT ![b] = 1] /\ current' = b
          /\ space' = [space EXCEPT ![b] = [address |-> addr, len |-> len, command |-> command]]
          /\ failed' = FALSE
  /\ UNCHANGED there

PoolNext ==
  \/ Create \/ Delete \/ Alloc \/ \E b \in Blocks : Free(b)
  \/ \E addr \in Addrs, command \in Commands \cup {AllCmd}, len \in SpaceLens : Bind(addr, command, len)

PoolSpec == PoolInit /\ [][PoolNext]_poolVars

-----------------------------------------------------------------------------
(* Properties                                                               *)

\* What is in a block changes only when the block is handed out anew: two users never
\* share one, whatever was freed between.
BlocksApart ==
  [][\A b \in Blocks : there /\ there' /\ markers[b] = 1 /\ markers'[b] = 1 => space'[b] = space[b]]_poolVars

\* No space is bound twice for one command: its second block would never be found, and
\* the data behind it never be served.
NoTwins ==
  there => \A i, j \in Blocks :
    markers[i] = 1 /\ markers[j] = 1 /\ space[i] = space[j] /\ space[i] # NoSpace => i = j

\* A command is stored once, and what is stored or freed leaves the other commands of the
\* pool where and as they were.
PoolApart == [](PoolTypeOK /\ NoTwins) /\ BlocksApart
============================================================================
