------------------------------ MODULE FlashTool ------------------------------
(***************************************************************************)
(* The build and flash tool (xtask/src/main.rs): the files it keeps in     *)
(* build/, the images it derives from them, and what its commands do to    *)
(* the flash of a device on the desk or, with --ota, in the network.       *)
(*                                                                         *)
(* An ELF file, a UF2 file and the flash map addresses to bytes. A byte is *)
(* what it was built from and which version of the sources it came from;   *)
(* headers, magic numbers and formats are left out. A command is a         *)
(* sequence of steps and stops at the first one that fails; the names of   *)
(* commands and steps are written without blanks.                          *)
(*                                                                         *)
(* External: cargo, elf2uf2-rs, probe-rs and the RP2040 boot ROM, which    *)
(* erase the sectors they write to, and the device's own firmware, which   *)
(* is as much of FirmwareUpdate.tla as the tool meets: an upload fills DFU *)
(* and is marked, the next restart exchanges ACTIVE and DFU, and the one   *)
(* after that takes the exchange back, since nothing confirms it.          *)
(***************************************************************************)
EXTENDS Naturals, Sequences, FiniteSetsExt

CONSTANTS
  FlashBase,    \* FLASH_BASE, 0x10000000
  AppOffset,    \* APP_FLASH_OFFSET, 0x7000
  FlashSize,    \* bytes of flash up to the end of ACTIVE
  BootState,    \* the first address of BOOTLOADER_STATE, 0x10006000
  SectorSize,   \* 4096
  PayloadSize,  \* UF2_PAYLOAD_SIZE, 256
  Boot2,        \* addresses of BOOT2, in every ELF file
  Bootloader,   \* addresses of the bootloader's code, in a sector with BOOT2
  Layout,       \* the addresses the application of each version occupies
  CutPoints,    \* bound: where a file that is written in part may end
  MaxCommands,  \* bound: commands in a behaviour
  MaxVersion    \* bound: versions of the sources

ActiveStart == FlashBase + AppOffset

Addresses == FlashBase .. FlashBase + FlashSize - 1

Active == Addresses \ (FlashBase .. ActiveStart - 1)

ASSUME SizesAssumption ==
  {FlashBase, AppOffset, FlashSize, BootState, MaxCommands} \subseteq Nat
  /\ {SectorSize, PayloadSize, MaxVersion} \subseteq Nat \ {0}
ASSUME LayoutAssumption ==
  /\ Boot2 \cup Bootloader \subseteq FlashBase .. ActiveStart - 1 /\ Boot2 \cap Bootloader = {}
  /\ ActiveStart % SectorSize = 0
  /\ DOMAIN Layout = 1 .. MaxVersion
  /\ \A v \in 1 .. MaxVersion :
       ActiveStart \in Layout[v] /\ Layout[v] \subseteq Active
ASSUME RoomAssumption ==   \* for the application behind itself, in whole blocks
  \A v \in 1 .. MaxVersion : \A a \in Layout[v] : a + AppOffset + PayloadSize - 1 \in Addresses

VARIABLES
  version,   \* the version of the sources
  files,     \* build/: the image in each file, NoFile if it does not exist
  flash,     \* the flash of the device up to the end of ACTIVE
  dfu,       \* its DFU partition, by the addresses an exchange moves it to
  state,     \* BOOTLOADER_STATE: "boot", "pending" or "unconfirmed"
  command,   \* the command that runs, or ran last
  plan,      \* its steps to come
  result,    \* "running", "ok" or "failed"
  since,     \* history: the version when the command began
  waiting,   \* history: an update was pending or unconfirmed then
  commands   \* commands begun so far

device == <<flash, dfu, state>>
vars == <<version, files, device, command, plan, result, since, waiting, commands>>

Byte(of, v) == [of |-> of, v |-> v]

Filler == Byte("0xFF", 0)
Zero == Byte("0x00", 0)

Files == {"bootloader.elf", "bootloader.uf2", "application.elf", "application.uf2",
          "application-debug.elf", "combined.uf2"}

NoFile == <<>>

Exists(file) == files[file] # NoFile

-----------------------------------------------------------------------------
(***************************************************************************)
(* What cargo links: every ELF file has a BOOT2 section.                   *)
(***************************************************************************)
Linked(of, code, v) ==
  [a \in Boot2 \cup code |-> IF a \in Boot2 THEN Byte("boot2", v) ELSE Byte(of, v)]

(***************************************************************************)
(* elf_to_binary: a flat binary, indexed from 0, with gaps filled.         *)
(***************************************************************************)
ElfToBinary(elf, base) ==
  LET top == Max({a \in DOMAIN elf : a >= base}) IN
  [i \in 0 .. top - base |-> IF base + i \in DOMAIN elf THEN elf[base + i] ELSE Filler]

Length(bin) == Cardinality(DOMAIN bin)

Blocks(n) == (n + PayloadSize - 1) \div PayloadSize

(***************************************************************************)
(* binary_to_uf2: whole blocks, the last one padded with zeros.            *)
(***************************************************************************)
BinaryToUf2FromZero(bin, base) ==
  [i \in 0 .. Blocks(Length(bin)) * PayloadSize - 1 |->
     IF i \in DOMAIN bin THEN bin[i] ELSE Zero]

BinaryToUf2(bin, base) ==
  [a \in base .. base + Blocks(Length(bin)) * PayloadSize - 1 |->
     IF a - base \in DOMAIN bin THEN bin[a - base] ELSE Zero]

BlockOf(a) == a \div PayloadSize

(***************************************************************************)
(* elf2uf2-rs: the blocks that hold a byte of the ELF file.                *)
(***************************************************************************)
ElfToUf2(elf) ==
  [a \in {b \in Addresses : \E c \in DOMAIN elf : BlockOf(c) = BlockOf(b)} |->
     IF a \in DOMAIN elf THEN elf[a] ELSE Zero]

(***************************************************************************)
(* combine: both binaries are relative to FLASH_BASE, and the second one   *)
(* is copied to APP_FLASH_OFFSET.                                          *)
(***************************************************************************)
CombineFits(bl) == Length(ElfToBinary(bl, FlashBase)) <= AppOffset

Merged(blBin, appBin) ==
  [i \in 0 .. AppOffset + Length(appBin) - 1 |->
     IF i >= AppOffset THEN appBin[i - AppOffset]
     ELSE IF i \in DOMAIN blBin THEN blBin[i] ELSE Filler]

Combined(bl, app) ==
  BinaryToUf2(Merged(ElfToBinary(bl, FlashBase), ElfToBinary(app, FlashBase)), FlashBase)

(***************************************************************************)
(* uf2_to_active_binary: the blocks from ACTIVE on, as a flat binary that  *)
(* begins with the first of them.                                          *)
(***************************************************************************)
BinaryOf(uf2, blocks) ==
  LET first == Min(blocks) IN
  [i \in 0 .. Max(blocks) - first |->
     IF first + i \in DOMAIN uf2 THEN uf2[first + i] ELSE Filler]

Uf2ToBinaryFromBoot2(uf2) == BinaryOf(uf2, DOMAIN uf2)

ActiveBlocks(uf2) == {a \in DOMAIN uf2 : a >= ActiveStart}

Uf2ToActiveBinary(uf2) == BinaryOf(uf2, ActiveBlocks(uf2))

-----------------------------------------------------------------------------
(***************************************************************************)
(* Writing flash.                                                          *)
(***************************************************************************)
SectorOf(a) == a \div SectorSize

Erased(image) ==
  [a \in Addresses |->
     IF \E b \in DOMAIN image : SectorOf(b) = SectorOf(a) THEN Filler ELSE flash[a]]

Written(image) ==
  [a \in Addresses |-> IF a \in DOMAIN image THEN image[a] ELSE Erased(image)[a]]

(***************************************************************************)
(* The device runs: the bootloader is whole and the application it loads   *)
(* from the start of ACTIVE is whole, each of one version.                 *)
(***************************************************************************)
HoldsBootloader(f) ==
  /\ \E v \in 1 .. MaxVersion : \A a \in Boot2 : f[a] = Byte("boot2", v)
  /\ \E v \in 1 .. MaxVersion : \A a \in Bootloader : f[a] = Byte("bootloader", v)

HoldsApp(f, v) ==
  \E of \in {"app", "debug"} : \A a \in Layout[v] : f[a] = Byte(of, v)

Runs(f) == HoldsBootloader(f) /\ \E v \in 1 .. MaxVersion : HoldsApp(f, v)

(***************************************************************************)
(* Any restart of the device: the bootloader, if it has one, exchanges     *)
(* ACTIVE and DFU for an update that is pending, and again for one that    *)
(* was not confirmed.                                                      *)
(***************************************************************************)
Exchanged == [a \in Addresses |-> IF a \in Active THEN dfu[a] ELSE flash[a]]

Exchanges ==
  /\ state # "boot" /\ HoldsBootloader(flash)
  /\ flash' = Exchanged
  /\ dfu' = [a \in Active |-> flash[a]]
  /\ state' = IF state = "pending" THEN "unconfirmed" ELSE "boot"

JustLoads == (state = "boot" \/ ~HoldsBootloader(flash)) /\ UNCHANGED device

(***************************************************************************)
(* An image that covers BOOTLOADER_STATE, as the combined one does, leaves *)
(* it erased: no update is pending or unconfirmed.                         *)
(***************************************************************************)
StateAfter(image) ==
  IF DOMAIN image \cap (BootState .. ActiveStart - 1) = {} THEN state ELSE "boot"

-----------------------------------------------------------------------------
(***************************************************************************)
(* The commands, as sequences of steps. UF2 and OTA flashing build only    *)
(* what does not exist; with a probe everything is built again, and the    *)
(* bootloader is downloaded after the application, which erased the sector *)
(* it shares with BOOT2.                                                   *)
(***************************************************************************)
Unless(file, steps) == IF Exists(file) THEN <<>> ELSE steps

ProbeBootloaderFirst ==
  <<"build-bootloader", "probe-bootloader", "build-debug", "probe-debug", "reset">>

ProbeApplication ==
  <<"build-debug", "probe-debug", "build-bootloader", "probe-bootloader", "reset">>

Dist == <<"build-bootloader", "build-application", "combine">>

Commands == {"build--bootloader", "build--application", "build", "combine", "dist", "clean",
             "flash", "flash--bootloader", "flash--application", "flash--ota",
             "flash--bootloader--application",
             "flash--probe", "flash--probe--bootloader", "flash--probe--application",
             "flash--probe--bootloader--application"}

Uf2Bootloader == Unless("bootloader.uf2", <<"build-bootloader">>) \o <<"uf2-bootloader">>

Uf2Application == Unless("application.uf2", <<"build-application">>) \o <<"uf2-application">>

ProbeBootloader == <<"build-bootloader", "probe-bootloader", "reset">>

StepsOf(c) ==
  CASE c = "build--bootloader"          -> <<"build-bootloader">>
    [] c = "build--application"         -> <<"build-application">>
    [] c = "build"                       -> <<"build-bootloader", "build-application">>
    [] c = "combine"                     -> <<"combine">>
    [] c = "dist"                        -> Dist
    [] c = "clean"                       -> <<"clean">>
    [] c = "flash"                       -> Unless("combined.uf2", Dist) \o <<"uf2-combined">>
    [] c = "flash--bootloader"          -> Uf2Bootloader
    [] c = "flash--application"         -> Uf2Application
    [] c = "flash--bootloader--application" -> Uf2Bootloader \o Uf2Application
    [] c = "flash--ota"                 -> Unless("application.uf2", <<"build-application">>)
                                              \o <<"ota">>
    [] c = "flash--probe--bootloader"  -> ProbeBootloader
    [] c \in {"flash--probe", "flash--probe--application"} -> ProbeApplication
    [] c = "flash--probe--bootloader--application" -> ProbeBootloader \o ProbeApplication

Starts(c) ==
  /\ result # "running" /\ commands < MaxCommands
  /\ commands' = commands + 1
  /\ command' = c /\ plan' = StepsOf(c) /\ result' = "running"
  /\ since' = version /\ waiting' = (state # "boot")
  /\ UNCHANGED <<version, files, device>>

-----------------------------------------------------------------------------
(***************************************************************************)
(* The steps. Reading a file that does not exist is an error.              *)
(***************************************************************************)
At(step) == result = "running" /\ plan # <<>> /\ Head(plan) = step

Continues == plan' = Tail(plan) /\ UNCHANGED <<version, command, result, since, waiting, commands>>

BuildsBootloader ==
  LET elf == Linked("bootloader", Bootloader, version) IN
  /\ At("build-bootloader")
  /\ files' = [files EXCEPT !["bootloader.elf"] = elf, !["bootloader.uf2"] = ElfToUf2(elf)]
  /\ Continues /\ UNCHANGED device

BuildsApplication ==
  LET elf == Linked("app", Layout[version], version) IN
  /\ At("build-application")
  /\ files' = [files EXCEPT !["application.elf"] = elf, !["application.uf2"] = ElfToUf2(elf)]
  /\ Continues /\ UNCHANGED device

BuildsDebug ==
  /\ At("build-debug")
  /\ files' = [files EXCEPT
       !["application-debug.elf"] = Linked("debug", Layout[version], version)]
  /\ Continues /\ UNCHANGED device

CanCombine ==
  /\ Exists("bootloader.elf") /\ Exists("application.elf")
  /\ CombineFits(files["bootloader.elf"])

Combines ==
  /\ At("combine") /\ CanCombine
  /\ files' = [files EXCEPT
       !["combined.uf2"] = Combined(files["bootloader.elf"], files["application.elf"])]
  /\ Continues /\ UNCHANGED device

Cleans ==
  /\ At("clean")
  /\ files' = [f \in Files |-> NoFile]
  /\ Continues /\ UNCHANGED device

(***************************************************************************)
(* Steps that write an image to the device on the desk.                    *)
(***************************************************************************)
FlashSteps == {"uf2-combined", "uf2-bootloader", "uf2-application",
               "probe-debug", "probe-bootloader"}

ImageFor(step) ==
  CASE step = "uf2-combined"     -> files["combined.uf2"]
    [] step = "uf2-bootloader"   -> files["bootloader.uf2"]
    [] step = "uf2-application"  -> files["application.uf2"]
    [] step = "probe-debug"      -> files["application-debug.elf"]
    [] step = "probe-bootloader" -> files["bootloader.elf"]

Flashes ==
  \E step \in FlashSteps :
    /\ At(step)
    /\ flash' = Written(ImageFor(step)) /\ state' = StateAfter(ImageFor(step))
    /\ Continues /\ UNCHANGED <<files, dfu>>

(***************************************************************************)
(* The reset through the probe, before it attaches for the log.            *)
(***************************************************************************)
ProbeResets ==
  /\ At("reset")
  /\ Exchanges \/ JustLoads
  /\ Continues /\ UNCHANGED files

(***************************************************************************)
(* --ota: a device that runs and has no update pending or unconfirmed      *)
(* takes the binary into DFU and marks it. What DFU holds behind it is not *)
(* looked at, nor what an upload that ends early leaves there.             *)
(***************************************************************************)
Uploads ==
  LET bin == Uf2ToActiveBinary(files["application.uf2"]) IN
  /\ At("ota")
  /\ ActiveBlocks(files["application.uf2"]) # {}
  /\ Runs(flash) /\ state = "boot"
  /\ dfu' = [a \in Active |-> IF a - ActiveStart \in DOMAIN bin
                              THEN bin[a - ActiveStart] ELSE dfu[a]]
  /\ state' = "pending"
  /\ Continues /\ UNCHANGED <<files, flash>>

(***************************************************************************)
(* The device restarts: after an update or a UF2 file, or for any reason.  *)
(***************************************************************************)
Restarts ==
  /\ Exchanges
  /\ UNCHANGED <<version, files, command, plan, result, since, waiting, commands>>

(***************************************************************************)
(* is_expected_ota_reset: a connection that breaks or never came about     *)
(* counts as success, although the device may not have taken the image.    *)
(***************************************************************************)
UploadBreaks ==
  /\ At("ota")
  /\ ActiveBlocks(files["application.uf2"]) # {}
  /\ Continues /\ UNCHANGED <<files, device>>

(***************************************************************************)
(* A step fails: a build error, no probe, no device, an unplugged cable,   *)
(* an interrupt. A build may have replaced the ELF file and not the UF2    *)
(* file, any file may have been written in part, and flashing may have     *)
(* erased the sectors. An ELF file that ends early cannot be read, which   *)
(* is as if it did not exist; UF2 files are asked no more than to exist.   *)
(***************************************************************************)
Cuts(image) == {[a \in {b \in DOMAIN image : b < n} |-> image[a]] : n \in CutPoints} \ {NoFile}

HalfBuilt(elf, uf2, image) ==
  {[files EXCEPT ![elf] = NoFile], [files EXCEPT ![elf] = image]}
    \cup {[files EXCEPT ![elf] = image, ![uf2] = part] : part \in Cuts(ElfToUf2(image))}

HalfDone ==
  CASE At("build-bootloader") ->
         HalfBuilt("bootloader.elf", "bootloader.uf2", Linked("bootloader", Bootloader, version))
    [] At("build-application") ->
         HalfBuilt("application.elf", "application.uf2", Linked("app", Layout[version], version))
    [] At("combine") /\ CanCombine ->
         {[files EXCEPT !["combined.uf2"] = part] :
            part \in Cuts(Combined(files["bootloader.elf"], files["application.elf"]))}
    [] OTHER -> {}

FlashInterrupted ==
  \E step \in FlashSteps :
    /\ At(step)
    /\ flash' = Erased(ImageFor(step)) /\ state' = StateAfter(ImageFor(step))
    /\ UNCHANGED dfu

Fails ==
  /\ result = "running" /\ plan # <<>>
  /\ result' = "failed" /\ plan' = <<>>
  /\ files' \in {files} \cup HalfDone
  /\ FlashInterrupted \/ UNCHANGED device
  /\ UNCHANGED <<version, command, since, waiting, commands>>

Succeeds ==
  /\ result = "running" /\ plan = <<>>
  /\ result' = "ok"
  /\ UNCHANGED <<version, files, device, command, plan, since, waiting, commands>>

SourcesChange ==
  /\ version < MaxVersion
  /\ version' = version + 1
  /\ UNCHANGED <<files, device, command, plan, result, since, waiting, commands>>

Init ==
  /\ version = 1
  /\ files = [f \in Files |-> NoFile]
  /\ flash = [a \in Addresses |-> Filler]
  /\ dfu = [a \in Active |-> Filler] /\ state = "boot"
  /\ command = "clean" /\ plan = <<>> /\ result = "ok" /\ since = 1 /\ waiting = FALSE /\ commands = 0

Next ==
  \/ \E c \in Commands : Starts(c)
  \/ BuildsBootloader \/ BuildsApplication \/ BuildsDebug \/ Combines \/ Cleans
  \/ Flashes \/ ProbeResets \/ Uploads \/ UploadBreaks \/ Restarts
  \/ Fails \/ Succeeds
  \/ SourcesChange

Safety == Init /\ [][Next]_vars

-----------------------------------------------------------------------------
(***************************************************************************)
(* Types: every file and the flash map addresses of the flash.             *)
(***************************************************************************)
Bytes == {Filler, Zero} \cup
         [of : {"boot2", "bootloader", "app", "debug"}, v : 1 .. MaxVersion]

TypeOK ==
  /\ version \in 1 .. MaxVersion /\ since \in 1 .. version /\ commands \in 0 .. MaxCommands
  /\ DOMAIN files = Files
  /\ \A f \in Files : Exists(f) =>
       DOMAIN files[f] \subseteq Addresses /\ \A a \in DOMAIN files[f] : files[f][a] \in Bytes
  /\ flash \in [Addresses -> Bytes] /\ dfu \in [Active -> Bytes]
  /\ state \in {"boot", "pending", "unconfirmed"} /\ waiting \in BOOLEAN
  /\ command \in Commands /\ result \in {"running", "ok", "failed"}
  /\ Len(plan) <= 8

(***************************************************************************)
(* After `flash --probe`, unless only the bootloader was asked for, the    *)
(* bootloader is whole, and the application the device runs is at least as *)
(* new as the command, whatever was in build/ and in flash and however     *)
(* earlier commands ended. Only when an update over the network was        *)
(* pending or unconfirmed as the command began, restarts may have          *)
(* exchanged ACTIVE and DFU since: then the application may be in DFU, and *)
(* another one runs.                                                       *)
(***************************************************************************)
ProbesApplication ==
  {"flash--probe", "flash--probe--application", "flash--probe--bootloader--application"}

ProbeLeavesRunning ==
  result = "ok" /\ command \in ProbesApplication =>
    /\ HoldsBootloader(flash)
    /\ \E v \in since .. version : HoldsApp(flash, v) \/ (waiting /\ HoldsApp(dfu, v))

(***************************************************************************)
(* An update in the network puts every byte of an application that was     *)
(* built where it was linked for, so that the device runs it after the     *)
(* exchange: ELF to UF2 to binary to DFU moves nothing, with gaps and part *)
(* blocks too. (The UF2 file may be an old one, and one that ends early    *)
(* because its build was interrupted is uploaded just the same.)           *)
(***************************************************************************)
IsWhole(uf2) == \E v \in 1 .. MaxVersion : uf2 = ElfToUf2(Linked("app", Layout[v], v))

UploadInPlace ==
  [][ At("ota") /\ IsWhole(files["application.uf2"]) /\ state' = "pending" /\ state = "boot" =>
        Runs(Exchanged') ]_vars

(***************************************************************************)
(* xtask/src/main.rs:293 calls APP_FLASH_OFFSET the "Application offset    *)
(* within the combined binary (matches ACTIVE partition start ...)": after *)
(* flashing combined.uf2 the application is at the start of ACTIVE.        *)
(***************************************************************************)
CombinedPlacesApp ==
  result = "ok" /\ command = "flash" => \E v \in 1 .. MaxVersion : HoldsApp(flash, v)
=============================================================================
