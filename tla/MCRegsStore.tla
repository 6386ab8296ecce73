---------------------------- MODULE MCRegsStore ----------------------------
(* Two tables: the global one with reset_num, flash_write_number and a      *)
(* setting of one cell, and a user table with a setting of two cells.       *)
EXTENDS RegsStore, TLC

MCTableOf == "reset_num" :> 0 @@ "flash_write_number" :> 0 @@ "user" :> 1
MCRegOf == 1 :> "reset_num" @@ 2 :> "flash_write_number" @@ 3 :> "user" @@ 4 :> "user"
MCDefault == [c \in Cell |-> 0]
MCFactory ==
  {[flash |-> [c \in Cell |-> 0], blob |-> [t \in Table |-> "none"]],
   [flash |-> [c \in Cell |-> IF c > 2 THEN 1 ELSE 0],
    blob |-> [t \in Table |-> IF t = 0 THEN "bad" ELSE "cur"]]}
MCFactoryFresh == {f \in MCFactory : f.blob[0] = "none"}
============================================================================
