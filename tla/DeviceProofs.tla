--------------------------- MODULE DeviceProofs ----------------------------
(***************************************************************************)
(* Theorems of Startup, for every period and all durations, and of Device: *)
(* what FirmwareUpdate and Startup promise each on its own holds for the   *)
(* controller as a whole, with the watchdog's restarts, which no bound     *)
(* counts, and images that hang.                                           *)
(***************************************************************************)
EXTENDS Device, FirmwareUpdateProofs

LEMMA LimitsOf ==
  /\ Limit("mount") = MountTime
  /\ Limit("format") = FormatTime
  /\ Limit("seed") = SeedTime
  /\ Limit("ethernet") = EthernetTime
  /\ Limit("dhcp") = DhcpPause + Busy
  /\ Limit("blink") = BlinkPause + Busy
  /\ Limit("main_loop") = FeedPause + Busy
  BY DEF Limit

(***************************************************************************)
(* The limits of a boot's formats and seeds.                               *)
(***************************************************************************)
FormatsTake(n) ==
  IF n = 0 THEN 0
  ELSE IF n = 1 THEN FormatTime + SeedTime
  ELSE FormatTime + SeedTime + FormatTime + SeedTime

LEMMA BootWorks ==
  /\ FormatsTake(0) = 0 /\ FormatsTake(1) = FormatTime + SeedTime
  /\ FormatsTake(2) = FormatTime + SeedTime + FormatTime + SeedTime
  /\ \A n \in 0 .. 2 : BootWork(n) = MountTime + FormatsTake(n) + EthernetTime
<1>1. /\ BootWork(0) = MountTime + 0 + EthernetTime
      /\ BootWork(1) = MountTime + (FormatTime + SeedTime) + EthernetTime
      /\ BootWork(2) = MountTime + (FormatTime + SeedTime + FormatTime + SeedTime) + EthernetTime
  BY TimesAssumption DEF TimesAssumption, BootWork
<1> QED BY <1>1 DEF FormatsTake

(***************************************************************************)
(* Where the time since the last feed went: the period is no more than the *)
(* watchdog has left and the limits of the steps since the feed, without   *)
(* what is left of the step under way.                                     *)
(***************************************************************************)
Accounted ==
  /\ place = "bootloader" => dog = Period
  /\ place = "mount" => Period + left <= dog + MountTime
  /\ place = "format" =>
       Period + left <= dog + MountTime + FormatsTake(formats - 1) + FormatTime
  /\ place = "seed" => Period + left <= dog + MountTime + FormatsTake(formats)
  /\ place = "ethernet" =>
       Period + left <= dog + MountTime + FormatsTake(formats) + EthernetTime
  /\ place = "dhcp" => Period + left <= dog + DhcpPause + Busy
  /\ place = "blink" => Period + left <= dog + DhcpPause + BlinkPause + 2 * Busy
  /\ place = "main_loop" => Period + left <= dog + FeedPause + Busy

(***************************************************************************)
(* The formats of a boot: none before the first step ends, one before the  *)
(* database is seeded, and a second one only acts on the request.          *)
(***************************************************************************)
FormatsCounted ==
  /\ place \in {"bootloader", "mount"} => formats = 0
  /\ place \in {"format", "seed"} => formats # 0
  /\ formats = 2 => ~requested

Numbers ==
  /\ place \in Places
  /\ left \in Nat /\ dog \in 0 .. Period /\ formats \in 0 .. 2
  /\ place \in Stages => left <= Limit(place)
  /\ Accounted

Flags == mounts \in BOOLEAN /\ requested \in BOOLEAN

BootInv == Numbers /\ Flags /\ FormatsCounted

LEMMA InitBoots == BootInit => BootInv
<1> SUFFICES ASSUME BootInit PROVE BootInv
  OBVIOUS
<1>1. place = "bootloader" /\ left = 0 /\ dog = Period /\ formats = 0
  BY DEF BootInit
<1>2. Flags
  BY Zenon DEF BootInit, Flags
<1>3. Numbers /\ FormatsCounted
  BY <1>1, TimesAssumption
  DEF TimesAssumption, Numbers, FormatsCounted, Accounted, Places, Stages, Waits
<1> QED BY <1>2, <1>3 DEF BootInv

(***************************************************************************)
(* A boot that starts to format: the only second format acts on a request, *)
(* which it ends.                                                          *)
(***************************************************************************)
LEMMA FormatSteps ==
  ASSUME Numbers, Flags, Reformats, UNCHANGED dog,
         FormatsCounted, place \in {"mount", "seed"},
         formats' = 2 => ~requested', requested' \in BOOLEAN, formats # 2
  PROVE  BootInv'
<1>1. place' = "format" /\ left' = FormatTime /\ formats' = formats + 1 /\ dog' = dog
  BY LimitsOf DEF Reformats, Enter
<1>2. Flags'
  BY Zenon DEF Reformats, Flags
<1>3. Numbers' /\ FormatsCounted'
  BY <1>1, TimesAssumption, LimitsOf, BootWorks
  DEF TimesAssumption, Numbers, FormatsCounted, Accounted, Places, Stages, Waits
<1> QED BY <1>2, <1>3 DEF BootInv

LEMMA InitialisedSteps ==
  ASSUME Numbers, Flags, FormatsCounted, place \in {"mount", "seed"}, Initialised, UNCHANGED dog
  PROVE  BootInv'
<1>1. CASE requested
  <2>1. Reformats /\ requested' = FALSE
    BY <1>1 DEF Initialised
  <2>2. formats # 2
    BY <1>1 DEF FormatsCounted
  <2>3. requested' \in BOOLEAN /\ ~requested'
    BY <2>1, Zenon
  <2> QED BY <2>1, <2>2, <2>3, FormatSteps
<1>2. CASE ~requested
  <2>1. Enter("ethernet") /\ UNCHANGED <<mounts, requested, formats>>
    BY <1>2 DEF Initialised
  <2>2. place' = "ethernet" /\ left' = EthernetTime
    BY <2>1, LimitsOf DEF Enter
  <2>3. Numbers'
    BY <2>1, <2>2, TimesAssumption, LimitsOf, BootWorks
    DEF TimesAssumption, Numbers, Accounted, Places, Stages, Waits
  <2>4. Flags' /\ FormatsCounted'
    BY <2>1, <2>2 DEF Flags, FormatsCounted
  <2> QED BY <2>3, <2>4 DEF BootInv
<1> QED BY <1>1, <1>2

(***************************************************************************)
(* A step of the program or of the environment, or a tick, keeps it.       *)
(***************************************************************************)
LEMMA BootSteps == BootInv /\ [BootNext]_startupVars => BootInv'
<1> SUFFICES ASSUME BootInv, [BootNext]_startupVars PROVE BootInv'
  OBVIOUS
<1> USE TimesAssumption, LimitsOf, BootWorks
    DEF TimesAssumption, BootInv, Numbers, Flags, FormatsCounted, Accounted,
        Places, Stages, Waits
<1>1. CASE Loads
  BY <1>1 DEF Loads, Enter, Feed
<1>2. CASE MountSucceeds
  <2>1. place = "mount" /\ formats = 0 /\ Numbers /\ Flags /\ FormatsCounted
    BY <1>2 DEF MountSucceeds
  <2> QED BY <1>2, <2>1, InitialisedSteps DEF MountSucceeds
<1>3. CASE MountFails
  <2>1. place = "mount" /\ formats = 0 /\ Numbers /\ Flags /\ FormatsCounted
    BY <1>3 DEF MountFails
  <2>2. Reformats /\ UNCHANGED dog /\ requested' = requested
    BY <1>3 DEF MountFails
  <2>3. formats' = 1
    BY <2>1, <2>2 DEF Reformats
  <2>4. requested' \in BOOLEAN
    BY <2>1, <2>2, Zenon DEF Flags
  <2> QED BY <2>1, <2>2, <2>3, <2>4, FormatSteps
<1>4. CASE Formatted
  BY <1>4 DEF Formatted, Enter
<1>5. CASE SeedsOnce
  <2>1. place = "seed" /\ Numbers /\ Flags /\ FormatsCounted
    BY <1>5 DEF SeedsOnce
  <2> QED BY <1>5, <2>1, InitialisedSteps DEF SeedsOnce
<1>6. CASE EthernetUp
  BY <1>6 DEF EthernetUp, Enter, Feed
<1>7. CASE Lease
  BY <1>7 DEF Lease, Enter
<1>8. CASE NoLease
  BY <1>8 DEF NoLease, Enter, Feed
<1>9. CASE Blinked
  BY <1>9 DEF Blinked, Enter, Feed
<1>10. CASE FeedsOn
  BY <1>10 DEF FeedsOn, Enter, Feed
<1>11. CASE Tick
  BY <1>11 DEF Tick
<1>12. CASE Hangs
  BY <1>12 DEF Hangs
<1>13. CASE Halts
  <2>1. place' = "bootloader" /\ left' = 0 /\ dog' = Period /\ formats' = 0
    BY <1>13 DEF Halts, Feed
  <2>2. requested' = FALSE /\ (mounts' = mounts \/ mounts' = FALSE)
    BY <1>13, Zenon DEF Halts
  <2>4. mounts' \in BOOLEAN /\ requested' \in BOOLEAN
    BY <2>2, Zenon DEF Flags
  <2>3. Numbers' /\ FormatsCounted'
    BY <2>1
  <2> QED BY <2>3, <2>4
<1>14. CASE UNCHANGED startupVars
  BY <1>14 DEF startupVars
<1> QED
  BY <1>1, <1>2, <1>3, <1>4, <1>5, <1>6, <1>7, <1>8, <1>9, <1>10, <1>11, <1>12, <1>13, <1>14
  DEF BootNext, Progress

LEMMA BootHolds == StartupSafety => []BootInv
  BY InitBoots, BootSteps, PTL DEF StartupSafety

(***************************************************************************)
(* The types of Startup, in every behaviour: among them that no boot       *)
(* formats more than twice.                                                *)
(***************************************************************************)
THEOREM StartupTypesHold == StartupSafety => []StartupTypes
<1>1. BootInv => StartupTypes
  BY DEF BootInv, Numbers, Flags, StartupTypes
<1> QED BY <1>1, BootHolds, PTL

(***************************************************************************)
(* The watchdog bites nothing but firmware that hangs and work that its    *)
(* own limits let take a period, whatever the limits and the period are.   *)
(***************************************************************************)
THEOREM OnlyTheSlowAreBitten == StartupSafety => []BitesOnlyTheSlow
<1>1. BootInv => BitesOnlyTheSlow
  <2> SUFFICES ASSUME BootInv, dog = 0, place # "hung"
               PROVE  \/ place \in Waits /\ LongestWait(place) >= Period
                      \/ place \in Stages \ Waits /\ BootWork(formats) >= Period
    BY DEF BitesOnlyTheSlow
  <2> USE TimesAssumption DEF TimesAssumption, BootInv, Numbers, Accounted, FormatsCounted
  <2>1. place \in Stages
    BY DEF Places
  <2>2. CASE place \in Waits
    BY <2>2 DEF Waits, LongestWait
  <2>3. CASE place \in Stages \ Waits
    <3>1. BootWork(formats) = MountTime + FormatsTake(formats) + EthernetTime
      BY BootWorks
    <3>2. CASE formats = 0
      BY <2>3, <3>1, <3>2, BootWorks DEF Stages, Waits
    <3>3. CASE formats = 1
      BY <2>3, <3>1, <3>3, BootWorks DEF Stages, Waits
    <3>4. CASE formats = 2
      BY <2>3, <3>1, <3>4, BootWorks DEF Stages, Waits
    <3> QED BY <2>3, <3>2, <3>3, <3>4
  <2> QED BY <2>1, <2>2, <2>3
<1> QED BY <1>1, BootHolds, PTL

-----------------------------------------------------------------------------
DeviceSafety == DeviceInit /\ [][DeviceNext]_deviceVars

LEMMA DeviceIsSafe == DeviceSpec => DeviceSafety
  BY PTL DEF DeviceSpec, DeviceSafety

(***************************************************************************)
(* The steps of the controller, as steps of its two parts.                 *)
(***************************************************************************)
LEMMA StepsOfBoot == [DeviceNext]_deviceVars => [BootNext]_startupVars
<1> SUFFICES ASSUME [DeviceNext]_deviceVars PROVE [BootNext]_startupVars
  OBVIOUS
<1>1. CASE Boots \/ Serves \/ UpdateRestarts
  BY <1>1 DEF Boots, Serves, UpdateRestarts, BootNext
<1>2. CASE Fails \/ WatchdogRestarts
  BY <1>2 DEF Fails, WatchdogRestarts, Bites, BootNext
<1>3. CASE ImageHangs \/ Runs
  BY <1>3 DEF ImageHangs, Runs, BootNext
<1>4. CASE UNCHANGED deviceVars
  BY <1>4 DEF deviceVars
<1> QED BY <1>1, <1>2, <1>3, <1>4 DEF DeviceNext

(***************************************************************************)
(* The controller boots as Startup says: Device is a refinement of it.     *)
(***************************************************************************)
THEOREM DeviceBoots == DeviceSpec => StartupSafety
<1>1. DeviceInit => BootInit
  BY DEF DeviceInit
<1> QED BY <1>1, StepsOfBoot, DeviceIsSafe, PTL DEF DeviceSafety, StartupSafety

(***************************************************************************)
(* The same while uploads arrive and images are exchanged.                 *)
(***************************************************************************)
THEOREM DeviceBitesOnlyTheSlow == DeviceSpec => []BitesOnlyTheSlow
  BY DeviceBoots, OnlyTheSlowAreBitten, PTL

LEMMA StepsOfFirmware ==
  ASSUME [DeviceNext]_deviceVars
  PROVE  \/ Boot \/ ServeStep \/ Resets \/ \E t \in WebTasks : SysReset(t)
         \/ Restarted /\ CutOff /\ UNCHANGED <<dfu, resets>>
         \/ UNCHANGED vars
<1>1. CASE Boots \/ Serves \/ UpdateRestarts
  BY <1>1 DEF Boots, Serves, ServeStep, UpdateRestarts
<1>2. CASE Fails \/ WatchdogRestarts
  BY <1>2 DEF Fails, WatchdogRestarts
<1>3. CASE ImageHangs \/ Runs
  BY <1>3 DEF ImageHangs, Runs
<1>4. CASE UNCHANGED deviceVars
  BY <1>4 DEF deviceVars
<1> QED BY <1>1, <1>2, <1>3, <1>4 DEF DeviceNext

LEMMA DeviceKeepsFw == FwInv /\ [DeviceNext]_deviceVars => FwInv'
<1> SUFFICES ASSUME FwInv, [DeviceNext]_deviceVars PROVE FwInv'
  OBVIOUS
<1>1. CASE UNCHANGED vars
  BY <1>1, NextFw
<1>2. CASE Restarted /\ CutOff /\ UNCHANGED <<dfu, resets>>
  BY <1>2, RestartStep
<1> QED
  BY <1>1, <1>2, StepsOfFirmware, BootStep, ServeKeepsFw, ResetsKeepFw

LEMMA DeviceFwHolds == DeviceSpec => []FwInv
<1>1. DeviceInit => FwInv
  BY InitFw DEF DeviceInit
<1> QED BY <1>1, DeviceKeepsFw, DeviceIsSafe, PTL DEF DeviceSafety

(***************************************************************************)
(* Whatever image hangs and whenever the watchdog bites, the firmware that *)
(* runs is a whole one, and so is the one it replaced until the exchange   *)
(* is taken back.                                                          *)
(***************************************************************************)
THEOREM DeviceRunsWholeImages == DeviceSpec => [](RunsWholeImage /\ FallbackIsWhole)
  BY DeviceFwHolds, FwSound, PTL

(***************************************************************************)
(* Only an upload hangs, and from then on nothing but a restart happens.   *)
(***************************************************************************)
HungIsUnconfirmed == place = "hung" => Exchanged

LEMMA DeviceKeepsHung ==
  FwInv /\ HungIsUnconfirmed /\ [DeviceNext]_deviceVars => HungIsUnconfirmed'
<1> SUFFICES ASSUME FwInv, HungIsUnconfirmed, [DeviceNext]_deviceVars, place' = "hung"
             PROVE  Exchanged'
  BY DEF HungIsUnconfirmed
<1>1. CASE ImageHangs
  <2>1. label.active \in Uploads
    BY <1>1, BrokenAssumption DEF BrokenAssumption, ImageHangs, FwInv, PartTypes
  <2>2. Exchanged
    BY <2>1, UploadsAssumption DEF UploadsAssumption, FwInv, Labels
  <2> QED BY <1>1, <2>2 DEF ImageHangs, vars, flash, Exchanged
<1>2. CASE Boots \/ Fails \/ WatchdogRestarts \/ UpdateRestarts
  BY <1>2 DEF Boots, Loads, Enter, Fails, WatchdogRestarts, Bites, UpdateRestarts, Halts
<1>3. CASE Serves
  <2>1. place = place' /\ place # "hung"
    BY <1>3 DEF Serves, startupVars, Serving
  <2> QED BY <2>1
<1>4. CASE Runs
  <2>1. place = "hung"
    BY <1>4
    DEF Runs, Tick, Progress, MountSucceeds, MountFails, Formatted, SeedsOnce, EthernetUp,
        Lease, NoLease, Blinked, FeedsOn, Initialised, Reformats, Enter
  <2> QED BY <1>4, <2>1 DEF HungIsUnconfirmed, Runs, vars, flash, Exchanged
<1>5. CASE UNCHANGED deviceVars
  BY <1>5 DEF deviceVars, startupVars, vars, flash, HungIsUnconfirmed, Exchanged
<1> QED BY <1>1, <1>2, <1>3, <1>4, <1>5 DEF DeviceNext

(***************************************************************************)
(* While an image hangs, the factory's own is whole in the other           *)
(* partition, and the watchdog brings it back.                             *)
(***************************************************************************)
THEOREM HangsKeepFallback == DeviceSpec => []HangsWithFallback
<1>1. DeviceInit => HungIsUnconfirmed
  BY DEF DeviceInit, BootInit, HungIsUnconfirmed
<1>2. DeviceSpec => []HungIsUnconfirmed
  BY <1>1, DeviceFwHolds, DeviceKeepsHung, DeviceIsSafe, PTL DEF DeviceSafety
<1>3. FwInv /\ HungIsUnconfirmed => HangsWithFallback
  <2> SUFFICES ASSUME FwInv, Exchanged
               PROVE  state = "swap" /\ swapped /\ Sound(dfu, label.dfu) /\ label.dfu # label.active
    BY DEF HungIsUnconfirmed, HangsWithFallback
  <2>1. label.dfu # label.active
    BY UploadsAssumption DEF UploadsAssumption, FwInv, Labels
  <2> QED BY <2>1 DEF Exchanged, FwInv, PartsSound
<1> QED BY <1>2, <1>3, DeviceFwHolds, PTL
=============================================================================
