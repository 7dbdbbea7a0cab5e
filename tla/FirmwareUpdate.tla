--------------------------- MODULE FirmwareUpdate ---------------------------
(***************************************************************************)
(* Firmware updates: POST /api/update (application/src/web/update.rs),     *)
(* which streams an image into the DFU partition and marks it, and the     *)
(* bootloader (bootloader/src/main.rs), which exchanges the ACTIVE and the *)
(* DFU partition at the next restart. Any web task may serve an upload.    *)
(*                                                                         *)
(* A step of a web task is what it does from one chunk of the body to the  *)
(* next: the flash driver is a blocking one, so writing a chunk, and after *)
(* the last one marking the update, is one poll. A restart may cut it off. *)
(*                                                                         *)
(* embassy-boot is external and modelled as its users see it: writing is   *)
(* refused while an update is marked or awaits confirmation; the exchange  *)
(* of the partitions can be interrupted and is taken up again; a restart   *)
(* after it takes the exchange back unless mark_booted was called, which   *)
(* the application never does.                                             *)
(***************************************************************************)
EXTENDS Naturals

CONSTANTS
  WebTasks,     \* the web tasks
  Uploads,      \* the uploads of a behaviour, each sent at most once
  EraseSize,    \* bytes of an erase block, 4096 in the code
  ActivePages,  \* erase blocks of ACTIVE, 80 in the code; DFU has one more
  Factory,      \* the image flashed at the desk
  None,         \* no upload
  MaxResets     \* bound: restarts in a behaviour, other than after an update

ActiveSize == ActivePages * EraseSize

\* An upload: whether its sender is an admin, its Content-Length, and what
\* tells its image from others.
Upload == [id : Nat, admin : BOOLEAN, length : Nat]

ASSUME SizesAssumption ==
  EraseSize \in Nat \ {0} /\ ActivePages \in Nat \ {0} /\ MaxResets \in Nat
ASSUME UploadsAssumption ==
  Uploads \subseteq Upload /\ Factory \notin Uploads /\ None \notin Uploads

VARIABLES
  mode,      \* what runs: "bootloader" or "app"
  state,     \* BOOTLOADER_STATE: "boot", "swap" or "revert"
  swapped,   \* BOOTLOADER_STATE: the exchange is complete
  active,    \* the pages of ACTIVE
  dfu,       \* the pages of DFU
  pc,        \* where each web task is
  cur,       \* the upload each web task serves, or None
  off,       \* the page it writes next (`offset` in erase blocks)
  outcome,   \* history: what has become of each upload
  label,     \* history: the image each partition is meant to hold
  spoiled,   \* history: uploads another one overwrote before they ended
  resets     \* restarts so far, other than after an update

flash == <<state, swapped, active, dfu>>
task == <<pc, cur, off>>
history == <<outcome, label, spoiled>>
vars == <<mode, flash, task, history, resets>>

Pages == 0 .. ActivePages - 1

(***************************************************************************)
(* A page holds a block of an image (padded with erased bytes), is erased, *)
(* or is torn by a restart while it was written.                           *)
(***************************************************************************)
Images == Uploads \cup {Factory}

Block(image, n) == [image |-> image, n |-> n]

Erased == [image |-> None, n |-> 0]
Torn == [image |-> None, n |-> 1]

Page == [image : Images, n : Pages] \cup {Erased, Torn}

(***************************************************************************)
(* Chunks of a body: full ones and one for the remainder.                  *)
(***************************************************************************)
ChunksWithoutRemainder(u) == u.length \div EraseSize

Chunks(u) == (u.length + EraseSize - 1) \div EraseSize

AcceptableInDfu(u) ==
  u.admin /\ u.length > 0 /\ u.length <= ActiveSize + EraseSize

Acceptable(u) == u.admin /\ u.length > 0 /\ u.length <= ActiveSize

-----------------------------------------------------------------------------
Init ==
  /\ mode = "bootloader"
  /\ state = "boot" /\ swapped = FALSE
  /\ active = [p \in Pages |-> Block(Factory, p)]
  /\ dfu = [p \in 0 .. ActivePages |-> Erased]
  /\ pc = [t \in WebTasks |-> "idle"]
  /\ cur = [t \in WebTasks |-> None]
  /\ off = [t \in WebTasks |-> 0]
  /\ outcome = [u \in Uploads |-> "new"]
  /\ label = [active |-> Factory, dfu |-> None]
  /\ spoiled = {}
  /\ resets = 0

Idle(t) ==
  /\ pc' = [pc EXCEPT ![t] = "idle"]
  /\ cur' = [cur EXCEPT ![t] = None]
  /\ off' = [off EXCEPT ![t] = 0]

(***************************************************************************)
(* The start of the handler: AdminUser, then the size.                     *)
(***************************************************************************)
Refuse(t, u) ==
  /\ mode = "app" /\ pc[t] = "idle" /\ outcome[u] = "new"
  /\ ~Acceptable(u)
  /\ outcome' = [outcome EXCEPT ![u] = "refused"]
  /\ UNCHANGED <<mode, flash, task, label, spoiled, resets>>

Accept(t, u) ==
  /\ mode = "app" /\ pc[t] = "idle" /\ outcome[u] = "new"
  /\ Acceptable(u)
  /\ outcome' = [outcome EXCEPT ![u] = "uploading"]
  /\ pc' = [pc EXCEPT ![t] = "reading"]
  /\ cur' = [cur EXCEPT ![t] = u]
  /\ UNCHANGED <<mode, flash, off, label, spoiled, resets>>

(***************************************************************************)
(* read_exact fails: the client went away. What was written stays in DFU.  *)
(***************************************************************************)
ReadFails(t) ==
  /\ pc[t] = "reading"
  /\ outcome' = [outcome EXCEPT ![cur[t]] = "failed"]
  /\ Idle(t)
  /\ UNCHANGED <<mode, flash, label, spoiled, resets>>

(***************************************************************************)
(* write_firmware checks that no update is marked or unconfirmed.          *)
(***************************************************************************)
NotVerified == TRUE

VerifyBooted == state # "swap"

WriteRefused(t) ==
  /\ pc[t] = "reading"
  /\ ~VerifyBooted
  /\ outcome' = [outcome EXCEPT ![cur[t]] = "failed"]
  /\ Idle(t)
  /\ UNCHANGED <<mode, flash, label, spoiled, resets>>

WritePage(t) ==
  /\ dfu' = [dfu EXCEPT ![off[t]] = Block(cur[t], off[t])]
  /\ spoiled' = spoiled \cup
       {cur[u] : u \in {v \in WebTasks : v # t /\ pc[v] = "reading" /\ off[t] < off[v]}}

Last(t) == off[t] + 1 = Chunks(cur[t])

WriteChunk(t) ==
  /\ pc[t] = "reading"
  /\ VerifyBooted
  /\ ~Last(t)
  /\ WritePage(t)
  /\ off' = [off EXCEPT ![t] = @ + 1]
  /\ UNCHANGED <<mode, state, swapped, active, pc, cur, outcome, label, resets>>

(***************************************************************************)
(* The last chunk, and mark_updated; the handler then sleeps for 100 ms.   *)
(***************************************************************************)
MarkUpdated(t) ==
  /\ state' = "swap" /\ swapped' = FALSE
  /\ label' = [label EXCEPT !.dfu = cur[t]]
  /\ outcome' = [outcome EXCEPT ![cur[t]] = "marked"]

FinishUpload(t) ==
  /\ pc[t] = "reading"
  /\ VerifyBooted
  /\ Last(t)
  /\ WritePage(t)
  /\ MarkUpdated(t)
  /\ pc' = [pc EXCEPT ![t] = "marked"]
  /\ UNCHANGED <<mode, active, cur, off, resets>>

(***************************************************************************)
(* mark_updated fails: the image stays in DFU, unmarked.                   *)
(***************************************************************************)
MarkFails(t) ==
  /\ pc[t] = "reading"
  /\ VerifyBooted
  /\ Last(t)
  /\ WritePage(t)
  /\ outcome' = [outcome EXCEPT ![cur[t]] = "failed"]
  /\ Idle(t)
  /\ UNCHANGED <<mode, state, swapped, active, label, resets>>

(***************************************************************************)
(* Every restart begins in the bootloader; no upload survives it.          *)
(***************************************************************************)
Restarted ==
  /\ mode' = "bootloader"
  /\ pc' = [t \in WebTasks |-> "idle"]
  /\ cur' = [t \in WebTasks |-> None]
  /\ off' = [t \in WebTasks |-> 0]
  /\ UNCHANGED <<state, swapped, active, label, spoiled>>

CutOff == outcome' = [u \in Uploads |->
                        IF outcome[u] = "uploading" THEN "cut_off" ELSE outcome[u]]

NeverRestarts(t) == FALSE

SysReset(t) ==
  /\ pc[t] = "marked"
  /\ Restarted
  /\ CutOff
  /\ UNCHANGED <<dfu, resets>>

(***************************************************************************)
(* Power loss, a panic, the watchdog or a factory reset, possibly while a  *)
(* page is written, or between the last page and the mark.                 *)
(***************************************************************************)
Resets ==
  /\ resets < MaxResets
  /\ resets' = resets + 1
  /\ Restarted
  /\ CutOff
  /\ \/ UNCHANGED dfu
     \/ \E t \in WebTasks :
          /\ pc[t] = "reading" /\ VerifyBooted
          /\ \E content \in {Torn, Block(cur[t], off[t])} :
               dfu' = [dfu EXCEPT ![off[t]] = content]

(***************************************************************************)
(* BootLoader::prepare: exchange the partitions for a marked update, take  *)
(* an unconfirmed exchange back, or just load ACTIVE.                      *)
(***************************************************************************)
Exchange ==
  /\ active' = [p \in Pages |-> dfu[p]]
  /\ dfu' = [p \in 0 .. ActivePages |-> IF p \in Pages THEN active[p] ELSE dfu[p]]
  /\ label' = [active |-> label.dfu, dfu |-> label.active]

Load ==
  /\ mode = "bootloader" /\ state # "swap"
  /\ mode' = "app"
  /\ UNCHANGED <<flash, task, history, resets>>

Swap ==
  /\ mode = "bootloader" /\ state = "swap" /\ ~swapped
  /\ mode' = "app"
  /\ Exchange
  /\ swapped' = TRUE
  /\ UNCHANGED <<state, task, outcome, spoiled, resets>>

Revert ==
  /\ mode = "bootloader" /\ state = "swap" /\ swapped
  /\ mode' = "app"
  /\ Exchange
  /\ state' = "revert" /\ swapped' = FALSE
  /\ UNCHANGED <<task, outcome, spoiled, resets>>

Boot == Load \/ Swap \/ Revert

Next ==
  \/ \E t \in WebTasks, u \in Uploads : Refuse(t, u) \/ Accept(t, u)
  \/ \E t \in WebTasks :
       \/ ReadFails(t) \/ WriteRefused(t) \/ WriteChunk(t)
       \/ FinishUpload(t) \/ MarkFails(t) \/ SysReset(t)
  \/ Boot
  \/ Resets

Safety == Init /\ [][Next]_vars

(***************************************************************************)
(* The bootloader ends and the 100 ms pass. Clients, who send the chunks,  *)
(* and resets owe nothing.                                                 *)
(***************************************************************************)
Spec == Safety /\ WF_vars(Boot) /\ \A t \in WebTasks : WF_vars(SysReset(t))

-----------------------------------------------------------------------------
(***************************************************************************)
(* Types. The page an upload writes next is one that will be exchanged.    *)
(***************************************************************************)
TypeOK ==
  /\ mode \in {"bootloader", "app"}
  /\ state \in {"boot", "swap", "revert"} /\ swapped \in BOOLEAN
  /\ active \in [Pages -> Page]
  /\ dfu \in [0 .. ActivePages -> Page]
  /\ pc \in [WebTasks -> {"idle", "reading", "marked"}]
  /\ cur \in [WebTasks -> Uploads \cup {None}]
  /\ off \in [WebTasks -> Pages]
  /\ \A t \in WebTasks : pc[t] # "idle" => cur[t] \in Uploads /\ mode = "app"
  /\ outcome \in [Uploads -> {"new", "refused", "uploading", "failed", "cut_off", "marked"}]
  /\ label \in [active : Images \cup {None}, dfu : Images \cup {None}]
  /\ spoiled \subseteq Uploads
  /\ resets \in 0 .. MaxResets

(***************************************************************************)
(* The firmware that runs is a whole image, whatever was cut off, refused, *)
(* interrupted or taken back before: the one flashed at the desk, or one   *)
(* whose upload ended and was not overwritten by another meanwhile.        *)
(***************************************************************************)
HoldsWhole(part, image) ==
  \A p \in Pages :
    (image = Factory \/ p * EraseSize < image.length) => part[p] = Block(image, p)

Sound(part, image) == image \in Images /\ (image \in spoiled \/ HoldsWhole(part, image))

RunsWholeImage == mode = "app" => Sound(active, label.active)

(***************************************************************************)
(* As long as an update is not confirmed, the image it replaced is whole   *)
(* in the other partition, so taking the update back gives a firmware      *)
(* that runs: uploads that arrive meanwhile do not touch it.               *)
(***************************************************************************)
FallbackIsWhole == state = "swap" /\ swapped => Sound(dfu, label.dfu)

(***************************************************************************)
(* An update that was marked gets to run, even when power fails before the *)
(* handler restarts the controller or while the partitions are exchanged.  *)
(***************************************************************************)
Pending(u) == state = "swap" /\ ~swapped /\ label.dfu = u

MarkedGetsToRun == \A u \in Uploads : Pending(u) ~> mode = "app" /\ label.active = u

(***************************************************************************)
(* README.md:13 offers "OTA firmware updates via HTTP (A/B partition with  *)
(* embassy-boot)": the firmware that runs after an update is the new one   *)
(* until another update replaces it.                                       *)
(***************************************************************************)
UpdateLasts ==
  [][ label.active \in Uploads /\ label'.active # label.active =>
        label'.active \in Uploads ]_vars
=============================================================================
