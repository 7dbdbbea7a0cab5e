------------------------------- MODULE Device -------------------------------
(***************************************************************************)
(* The controller as a whole, from restart to restart: the firmware        *)
(* partitions and uploads (FirmwareUpdate.tla) together with the boot of   *)
(* the application and the watchdog (Startup.tla). Uploads are served      *)
(* while the web tasks exist; a restart for whatever reason ends them and  *)
(* begins in the bootloader; an image that does not work hangs.            *)
(***************************************************************************)
EXTENDS FirmwareUpdate, Startup

CONSTANTS
  Broken      \* images that may hang at any time

ASSUME BrokenAssumption == Broken \subseteq Uploads

deviceVars == <<vars, startupVars>>

DeviceInit == Init /\ BootInit

(***************************************************************************)
(* The bootloader exchanges partitions or not, and loads the application.  *)
(***************************************************************************)
Boots == Boot /\ Loads

(***************************************************************************)
(* The web tasks, as long as the core runs.                                *)
(***************************************************************************)
Serves ==
  /\ Serving /\ dog > 0
  /\ \/ \E t \in WebTasks, u \in Uploads : Refuse(t, u) \/ Accept(t, u)
     \/ \E t \in WebTasks :
          \/ ReadFails(t) \/ WriteRefused(t) \/ WriteChunk(t)
          \/ FinishUpload(t) \/ MarkFails(t)
  /\ UNCHANGED startupVars

UpdateRestarts ==
  /\ Serving /\ dog > 0
  /\ \E t \in WebTasks : SysReset(t)
  /\ Halts

(***************************************************************************)
(* Power loss, a panic and a factory reset (bounded by MaxResets), and the *)
(* watchdog, which bites in a loop of its own if need be.                  *)
(***************************************************************************)
Fails == Resets /\ Halts

NeverBites == FALSE

WatchdogRestarts ==
  /\ Bites
  /\ Restarted
  /\ CutOff
  /\ UNCHANGED <<dfu, resets>>

(***************************************************************************)
(* A broken image hangs where it likes. So does a mixture of two uploads.  *)
(***************************************************************************)
ImageHangs ==
  /\ label.active \in Broken \cup spoiled
  /\ dog > 0 /\ Hangs
  /\ UNCHANGED vars

Runs == (Progress \/ Tick) /\ UNCHANGED vars

DeviceNext ==
  \/ Boots
  \/ Serves \/ UpdateRestarts
  \/ Fails \/ WatchdogRestarts
  \/ ImageHangs \/ Runs

(***************************************************************************)
(* The bootloader ends, time passes, steps that can end do, the watchdog   *)
(* bites and the restart after an update comes. Clients, the DHCP server   *)
(* and failures owe nothing: the loop that waits for a lease may go on.    *)
(***************************************************************************)
DeviceSpec ==
  /\ DeviceInit /\ [][DeviceNext]_deviceVars
  /\ WF_deviceVars(Boots)
  /\ WF_deviceVars(Runs)
  /\ WF_deviceVars(WatchdogRestarts)
  /\ WF_deviceVars(UpdateRestarts)

-----------------------------------------------------------------------------
(***************************************************************************)
(* No upload bricks the controller: whatever is uploaded, broken images    *)
(* and mixtures included, the controller again and again comes as far as   *)
(* waiting for the network or serving it, because the watchdog ends a hang *)
(* and the bootloader takes the update back. The reset pin must be let go  *)
(* of: held, it makes every boot format, and two formats may not fit in a  *)
(* period. That one fits is a choice of the configuration: the code bounds *)
(* no format.                                                              *)
(***************************************************************************)
ComesBack == <>[]~requested => []<>(place = "dhcp" \/ Serving)

(***************************************************************************)
(* While an image hangs, the partition it replaced holds a whole image     *)
(* that the watchdog brings back, unless it is the factory's own.          *)
(***************************************************************************)
HangsWithFallback ==
  place = "hung" => state = "swap" /\ swapped /\ Sound(dfu, label.dfu) /\ label.dfu # label.active
=============================================================================
