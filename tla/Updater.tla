------------------------------ MODULE Updater -------------------------------
(***************************************************************************)
(* The updater application and the way into it and out of it: the main     *)
(* application switches the boot partition to the updater and resets; the  *)
(* updater takes an image into ota_1 chunk by chunk and boots it when it   *)
(* was validated.  One request is handled at a time.  Power may fail at    *)
(* any moment, clients may vanish, and writes to flash may fail.           *)
(*                                                                         *)
(* An image that is cut short may still look valid to esp_image_verify,    *)
(* which knows the image and not the length of the upload.                 *)
(***************************************************************************)
EXTENDS Integers

CONSTANTS
  Sizes,       \* content lengths of uploads, in chunks
  PartSize,    \* chunks that fit into ota_1
  MaxUploads   \* bound on uploads

ASSUME UploadNumbers == Sizes \subseteq Nat /\ PartSize \in Nat /\ MaxUploads \in Nat

VARIABLES
  running,   \* "main", "updater", "reset" while nothing runs
  boot,      \* the boot partition: "factory", "updater", "ota_1"
  updaterOk, \* the updater image verifies
  image,     \* what ota_1 holds: "none", "cut", "whole"
  looksOk,   \* esp_image_verify accepts it
  target,    \* s_target_partition is set
  otaOk,     \* s_ota_ok
  left,      \* remaining chunks of the upload, -1 when there is none
  uploads

updaterVars == <<running, boot, updaterOk, image, looksOk, target, otaOk, left, uploads>>

UpdaterInit ==
  /\ running = "main" /\ boot = "factory" /\ updaterOk \in BOOLEAN /\ image = "none" /\ looksOk = FALSE
  /\ target = FALSE /\ otaOk = FALSE /\ left = -1 /\ uploads = 0

\* command_processing_handler, ENTER_UPDATER_COMM: found, verified, set, and the reset asked for
Enter ==
  /\ running = "main" /\ updaterOk /\ boot' = "updater" /\ running' = "reset"
  /\ UNCHANGED <<updaterOk, image, looksOk, target, otaOk, left, uploads>>

\* the boot loader falls back to another image when the chosen one does not verify
PowerUp ==
  /\ running = "reset"
  /\ running' = IF boot = "updater" /\ updaterOk THEN "updater" ELSE "main"
  /\ target' = FALSE /\ otaOk' = FALSE /\ left' = -1
  /\ UNCHANGED <<boot, updaterOk, image, looksOk, uploads>>

PowerFails ==
  /\ running # "reset" /\ running' = "reset"
  /\ UNCHANGED <<boot, updaterOk, image, looksOk, target, otaOk, left, uploads>>

\* upload_post_handler up to esp_ota_begin, which erases the partition
ForgetOk == otaOk' = FALSE

Upload(n) ==
  /\ running = "updater" /\ left = -1 /\ uploads < MaxUploads /\ uploads' = uploads + 1
  /\ ForgetOk /\ target' = TRUE
  /\ \/ n \in 1 .. PartSize /\ left' = n /\ image' = "cut" /\ looksOk' = FALSE
     \/ UNCHANGED <<left, image, looksOk>>    \* the size does not fit, or esp_ota_begin fails
  /\ UNCHANGED <<running, boot, updaterOk>>

\* a chunk is received and written
Chunk ==
  /\ running = "updater" /\ left > 0 /\ left' = left - 1
  /\ image' = IF left = 1 THEN "whole" ELSE "cut"
  /\ looksOk' \in BOOLEAN
  /\ UNCHANGED <<running, boot, updaterOk, target, otaOk, uploads>>

\* the client is gone or a write fails: esp_ota_abort; a receive that times out is repeated
Abort ==
  /\ running = "updater" /\ left > 0 /\ left' = -1
  /\ UNCHANGED <<running, boot, updaterOk, image, looksOk, target, otaOk, uploads>>

\* esp_ota_end validates
Finish ==
  /\ running = "updater" /\ left = 0 /\ left' = -1 /\ otaOk' = looksOk
  /\ UNCHANGED <<running, boot, updaterOk, image, looksOk, target, uploads>>

\* boot_post_handler: esp_ota_set_boot_partition verifies the image again
Boot ==
  /\ running = "updater" /\ left = -1 /\ otaOk /\ target /\ looksOk
  /\ boot' = "ota_1" /\ running' = "reset"
  /\ UNCHANGED <<updaterOk, image, looksOk, target, otaOk, left, uploads>>

UpdaterNext ==
  \/ Enter \/ PowerUp \/ PowerFails \/ Chunk \/ Abort \/ Finish \/ Boot
  \/ \E n \in Sizes : Upload(n)

UpdaterSpec == UpdaterInit /\ [][UpdaterNext]_updaterVars

(***************************************************************************)
(* Properties.                                                             *)
(***************************************************************************)

UpdaterTypeOK ==
  /\ running \in {"main", "updater", "reset"} /\ boot \in {"factory", "updater", "ota_1"}
  /\ left \in -1 .. PartSize

(* The device is only ever switched to an upload that arrived whole and    *)
(* was validated: not to what an upload that broke off left behind after   *)
(* one that had succeeded, and not because of a loss of power.             *)
BootsWhole == boot = "ota_1" => image = "whole" /\ looksOk

\* Why it is so: the updater runs from its own partition only, so that nobody boots what it is
\* erasing, and what it has validated is whole and stays until the next upload begins.
UpdaterIInv ==
  /\ UpdaterTypeOK /\ BootsWhole
  /\ running = "updater" => boot = "updater"
  /\ running = "updater" /\ left >= 0 => ~ otaOk
  /\ running = "updater" /\ left = 0 => image = "whole"
  /\ running = "updater" /\ otaOk => image = "whole" /\ looksOk
============================================================================
