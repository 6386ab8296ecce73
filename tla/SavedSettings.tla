--------------------------- MODULE SavedSettings ----------------------------
(***************************************************************************)
(* What the flag &save promises of a register, whatever lies between the   *)
(* register and the flash: it has one value, which a reset brings back     *)
(* unless somebody is working on it.  Work on a setting begins, changes it *)
(* and ends when what a reset would bring back is the value again.         *)
(* RegsStore implements it.                                                *)
(***************************************************************************)
EXTENDS Naturals

CONSTANTS
  Table, Setting,
  TableOf,   \* [Setting -> Table]
  Default,   \* what a setting is when nothing is kept for it
  Counter    \* the setting that counts the resets

VARIABLES
  value,     \* [Setting -> Nat]
  kept,      \* what a reset brings back
  settled    \* the settings nobody is working on

settingVars == <<value, kept, settled>>

Of(t) == {c \in Setting : TableOf[c] = t}

KeptInit == value \in [Setting -> Nat] /\ kept = value /\ settled = Setting

\* Work on some of the settings begins.
Begin == settled' \subseteq settled /\ UNCHANGED <<value, kept>>

\* A setting changes, one that is worked on.
Change(c) ==
  /\ c \notin settled /\ value'[c] \in Nat
  /\ value' = [value EXCEPT ![c] = value'[c]]
  /\ UNCHANGED <<kept, settled>>

\* Table t is saved: what is kept changes for settings that are worked on, and work ends
\* where it is the value. It ends too where it already was.
Save(t) ==
  /\ \A c \in Setting : kept'[c] # kept[c] => c \in Of(t) \ settled
  /\ settled \subseteq settled' /\ \A c \in settled' : kept'[c] = value[c]
  /\ UNCHANGED value

\* A reset at any moment: everything is what was kept.
Reset == value' = kept /\ settled' = Setting /\ UNCHANGED kept

\* Each start counts itself.
Count ==
  /\ value' = [value EXCEPT ![Counter] = @ + 1]
  /\ settled' = settled \ Of(TableOf[Counter]) /\ UNCHANGED kept

\* What is kept of table t cannot be read: its settings start from their defaults.
Lose(t) ==
  /\ value' = [c \in Setting |-> IF c \notin Of(t) THEN value[c] ELSE IF c = Counter THEN Default[c] + 1 ELSE Default[c]]
  /\ settled' = settled \ Of(t) /\ UNCHANGED kept

KeptNext ==
  \/ Begin \/ Reset \/ Count
  \/ \E c \in Setting : Change(c)
  \/ \E t \in Table : Save(t) \/ Lose(t)

KeptSpec == KeptInit /\ [][KeptNext]_settingVars
============================================================================
