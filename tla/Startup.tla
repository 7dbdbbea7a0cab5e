------------------------------ MODULE Startup ------------------------------
(***************************************************************************)
(* From power-on to the main loop (application/src/main.rs, and init_      *)
(* database in application/src/storage.rs), against the watchdog. The      *)
(* bootloader starts the watchdog and nothing stops it, so the boot steps  *)
(* before step 9, which waits for nobody and feeds for the first time,     *)
(* race it: mounting, formatting and seeding the database and bringing up  *)
(* the Ethernet controller. After that main feeds whenever it is polled.   *)
(*                                                                         *)
(* Time is counted in ticks. A step may end at any time up to its limit.   *)
(* Once tasks are spawned main is polled late: `Busy` bounds the time for  *)
(* which the polls of all other tasks keep the executor. The names differ  *)
(* from those of FirmwareUpdate.tla so that Device.tla can extend both.    *)
(***************************************************************************)
EXTENDS Naturals

CONSTANTS
  Period,       \* what the watchdog is started with and fed, 8 s
  MountTime,    \* limit: mounting the database
  FormatTime,   \* limit: formatting it
  SeedTime,     \* limit: seed_defaults
  EthernetTime, \* limit: steps 4 to 8
  DhcpPause,    \* between two looks at the DHCP lease, 200 ms
  BlinkPause,   \* one blink of the LED, 200 ms
  FeedPause,    \* between two rounds of the main loop, 4 s
  Busy          \* limit: how late main is polled when other tasks run

ASSUME TimesAssumption ==
  /\ Period \in Nat \ {0}
  /\ {MountTime, FormatTime, SeedTime, EthernetTime} \subseteq Nat
  /\ {DhcpPause, BlinkPause, FeedPause, Busy} \subseteq Nat

VARIABLES
  place,     \* what main does
  left,      \* ticks until that ends at the latest
  dog,       \* ticks until the watchdog bites
  mounts,    \* a mount would find a database in flash
  requested, \* factory_reset_requested, not acted upon yet
  formats    \* history: formats begun in this boot

startupVars == <<place, left, dog, mounts, requested, formats>>

Waits == {"dhcp", "blink", "main_loop"}

Stages == {"mount", "format", "seed", "ethernet"} \cup Waits

Places == {"bootloader", "hung"} \cup Stages

Limit(p) ==
  CASE p = "mount"     -> MountTime
    [] p = "format"    -> FormatTime
    [] p = "seed"      -> SeedTime
    [] p = "ethernet"  -> EthernetTime
    [] p = "dhcp"      -> DhcpPause + Busy
    [] p = "blink"     -> BlinkPause + Busy
    [] p = "main_loop" -> FeedPause + Busy

Enter(p) == place' = p /\ left' = Limit(p)

Feed == dog' = Period

BootInit ==
  /\ place = "bootloader" /\ left = 0 /\ dog = Period
  /\ mounts = FALSE /\ requested = FALSE /\ formats = 0

(***************************************************************************)
(* The bootloader starts the watchdog, feeds it while it copies, and loads *)
(* the application, which reads the factory-reset pin.                     *)
(***************************************************************************)
Loads ==
  /\ place = "bootloader"
  /\ Enter("mount")
  /\ Feed
  /\ requested' \in BOOLEAN
  /\ formats' = 0
  /\ UNCHANGED mounts

(***************************************************************************)
(* Formatting destroys the database first.                                 *)
(***************************************************************************)
Reformats ==
  /\ Enter("format")
  /\ mounts' = FALSE
  /\ formats' = formats + 1

(***************************************************************************)
(* After init_database: a requested reset formats and seeds, perhaps for   *)
(* the second time; then relay outputs and Ethernet.                       *)
(***************************************************************************)
Initialised ==
  IF requested THEN Reformats /\ requested' = FALSE
  ELSE Enter("ethernet") /\ UNCHANGED <<mounts, requested, formats>>

MountSucceeds ==
  /\ place = "mount" /\ mounts
  /\ Initialised
  /\ UNCHANGED dog

MountFails ==
  /\ place = "mount" /\ ~mounts
  /\ Reformats
  /\ UNCHANGED <<requested, dog>>

Formatted ==
  /\ place = "format"
  /\ Enter("seed")
  /\ mounts' = TRUE
  /\ UNCHANGED <<dog, requested, formats>>

SeedsAgain ==
  /\ place = "seed"
  /\ Reformats
  /\ UNCHANGED <<dog, requested>>

SeedsOnce ==
  /\ place = "seed"
  /\ Initialised
  /\ UNCHANGED dog

(***************************************************************************)
(* The tasks for Ethernet and the network are spawned and the watchdog is  *)
(* started; the loop that waits for DHCP begins.                           *)
(***************************************************************************)
EthernetUp ==
  /\ place = "ethernet"
  /\ Enter("dhcp")
  /\ Feed
  /\ UNCHANGED <<mounts, requested, formats>>

NoLeaseUnfed ==
  /\ place = "dhcp"
  /\ Enter("dhcp")
  /\ UNCHANGED <<dog, mounts, requested, formats>>

NoLease ==
  /\ place = "dhcp"
  /\ Enter("dhcp")
  /\ Feed
  /\ UNCHANGED <<mounts, requested, formats>>

(***************************************************************************)
(* With a lease the loop ends without feeding. The sensor task and the web *)
(* tasks are spawned, and the LED begins to blink.                         *)
(***************************************************************************)
Lease ==
  /\ place = "dhcp"
  /\ Enter("blink")
  /\ UNCHANGED <<dog, mounts, requested, formats>>

(***************************************************************************)
(* Three blinks, each followed by a feed; their number is left out.        *)
(***************************************************************************)
Blinked ==
  /\ place = "blink"
  /\ Enter("blink") \/ Enter("main_loop")
  /\ Feed
  /\ UNCHANGED <<mounts, requested, formats>>

FeedsOn ==
  /\ place = "main_loop"
  /\ Enter("main_loop")
  /\ Feed
  /\ UNCHANGED <<mounts, requested, formats>>

(***************************************************************************)
(* A panic of a debug build halts the core, and so does firmware that does *)
(* not work. Only the watchdog ends that.                                  *)
(***************************************************************************)
Hangs ==
  /\ place \in Stages
  /\ place' = "hung" /\ left' = 0
  /\ UNCHANGED <<dog, mounts, requested, formats>>

(***************************************************************************)
(* The web tasks exist: what they do, a panic and the watchdog end.        *)
(***************************************************************************)
Serving == place \in {"blink", "main_loop"}

(***************************************************************************)
(* Any restart: the bootloader runs and starts the watchdog. One that cuts *)
(* off a factory reset asked for in the network may find no database.      *)
(***************************************************************************)
Halts ==
  /\ place' = "bootloader" /\ left' = 0
  /\ Feed
  /\ requested' = FALSE /\ formats' = 0
  /\ \/ mounts' = mounts
     \/ Serving /\ mounts' = FALSE

Bites == place # "bootloader" /\ dog = 0 /\ Halts

Tick ==
  /\ place # "bootloader" /\ dog > 0
  /\ \/ left > 0 /\ left' = left - 1
     \/ place = "hung" /\ UNCHANGED left
  /\ dog' = dog - 1
  /\ UNCHANGED <<place, mounts, requested, formats>>

Progress ==
  /\ dog > 0
  /\ \/ MountSucceeds \/ MountFails \/ Formatted \/ SeedsOnce \/ EthernetUp
     \/ Lease \/ NoLease \/ Blinked \/ FeedsOn

BootNext ==
  \/ Loads \/ Progress \/ Tick
  \/ dog > 0 /\ Hangs
  \/ Halts

StartupSafety == BootInit /\ [][BootNext]_startupVars

-----------------------------------------------------------------------------
(***************************************************************************)
(* Types; only a requested reset formats again after a format.             *)
(***************************************************************************)
StartupTypes ==
  /\ place \in Places
  /\ left \in Nat /\ dog \in 0 .. Period
  /\ mounts \in BOOLEAN /\ requested \in BOOLEAN
  /\ formats \in 0 .. 2
  /\ place \in Stages => left <= Limit(place)

(***************************************************************************)
(* The watchdog bites nothing but firmware that hangs, and work between    *)
(* two feeds whose limits add up to the period: a boot with as many        *)
(* formats and seeds as it made, or the waits of main. No lease that does  *)
(* not come, no loop and no order of the boot steps adds to that.          *)
(***************************************************************************)
BootWork(n) == MountTime + n * (FormatTime + SeedTime) + EthernetTime

LongestWait(p) ==
  IF p = "main_loop" THEN FeedPause + Busy ELSE DhcpPause + BlinkPause + 2 * Busy

BitesOnlyTheSlow ==
  dog = 0 => \/ place = "hung"
             \/ place \in Waits /\ LongestWait(place) >= Period
             \/ place \in Stages \ Waits /\ BootWork(formats) >= Period
=============================================================================
