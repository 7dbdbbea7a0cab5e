--------------------------- MODULE FlashToolProofs ---------------------------
(***************************************************************************)
(* Theorems of FlashTool, for any flash map, layout of the application and *)
(* number of versions.                                                     *)
(***************************************************************************)
EXTENDS FlashTool, Integers, FiniteSetTheorems, SequenceTheorems,
        WellFoundedInduction, TLAPS

(***************************************************************************)
(* Min and Max of sets of addresses.                                       *)
(***************************************************************************)
LEMMA LeastExists ==
  ASSUME NEW S \in SUBSET Nat, S # {}
  PROVE  \E m \in S : \A k \in S : m <= k
<1>1. PICK m \in S : \A k \in S : <<k, m>> \notin OpToRel(<, Nat)
  BY WFMin, NatLessThanWellFounded, Zenon
<1>2. ASSUME NEW k \in S PROVE m <= k
  <2>1. k \in Nat /\ m \in Nat
    OBVIOUS
  <2>2. ~(k < m)
    BY <1>1, <2>1, Zenon DEF OpToRel
  <2> QED BY <2>1, <2>2
<1> QED BY <1>2

LEMMA MaxOf ==
  ASSUME NEW n \in Nat, NEW S \in SUBSET Nat, S # {}, \A s \in S : s <= n
  PROVE  Max(S) \in S /\ \A k \in S : k <= Max(S)
<1> DEFINE T == {n - s : s \in S}
<1>1. T \subseteq Nat /\ T # {}
  <2>1. \A s \in S : s \in Nat /\ s <= n
    OBVIOUS
  <2>2. \A s \in S : n - s \in Nat
    BY <2>1
  <2> QED BY <2>2, Zenon
<1>2. PICK t \in T : \A k \in T : t <= k
  <2> HIDE DEF T
  <2> QED BY <1>1, LeastExists
<1>3. PICK m \in S : t = n - m
  OBVIOUS
<1>4. S \subseteq Int
  OBVIOUS
<1>5. ASSUME NEW k \in S PROVE m >= k
  <2>1. n - m <= n - k
    BY <1>2, <1>3
  <2> HIDE DEF T
  <2>2. m \in Int /\ k \in Int
    BY <1>4
  <2> QED BY <2>1, <2>2
<1>6. Max(S) \in S /\ \A y \in S : Max(S) >= y
  BY <1>5, Zenon DEF Max
<1> QED BY <1>6, <1>4

LEMMA MinOf ==
  ASSUME NEW S \in SUBSET Nat, NEW m \in S, \A k \in S : m <= k
  PROVE  Min(S) = m
<1>1. \E x \in S : \A y \in S : x =< y
  OBVIOUS
<1>2. Min(S) \in S /\ \A y \in S : Min(S) =< y
  BY <1>1, Zenon DEF Min
<1>3. Min(S) <= m /\ m <= Min(S) /\ Min(S) \in Nat /\ m \in Nat
  BY <1>2
<1> QED BY <1>3

-----------------------------------------------------------------------------
(***************************************************************************)
(* The flash map.                                                          *)
(***************************************************************************)
Versions == 1 .. MaxVersion

LEMMA Sizes ==
  /\ FlashBase \in Nat /\ AppOffset \in Nat /\ FlashSize \in Nat /\ ActiveStart \in Nat
  /\ SectorSize \in Nat \ {0} /\ PayloadSize \in Nat \ {0} /\ MaxVersion \in Nat \ {0}
  /\ MaxCommands \in Nat /\ Addresses \subseteq Nat /\ Active \subseteq Addresses
  BY SizesAssumption DEF SizesAssumption, ActiveStart, Addresses, Active

LEMMA Map ==
  /\ Boot2 \subseteq Addresses /\ Bootloader \subseteq Addresses
  /\ \A a \in Boot2 \cup Bootloader : a \in Nat /\ a < ActiveStart
  /\ Boot2 \cap Bootloader = {}
  /\ \A v \in Versions : /\ ActiveStart \in Layout[v]
                         /\ Layout[v] \subseteq Addresses /\ Layout[v] \subseteq Active
                         /\ \A a \in Layout[v] : a \in Nat /\ a >= ActiveStart
<1>1. \A a \in Boot2 \cup Bootloader : a \in Nat /\ a < ActiveStart
  BY Sizes, LayoutAssumption DEF LayoutAssumption
<1>2. ASSUME NEW v \in Versions
      PROVE  /\ ActiveStart \in Layout[v]
             /\ Layout[v] \subseteq Addresses /\ Layout[v] \subseteq Active
             /\ \A a \in Layout[v] : a \in Nat /\ a >= ActiveStart
  <2>1. ActiveStart \in Layout[v] /\ Layout[v] \subseteq Addresses /\ Layout[v] \subseteq Active
        /\ \A a \in Layout[v] : a \notin FlashBase .. ActiveStart - 1
    BY LayoutAssumption DEF LayoutAssumption, Versions, Active
  <2>2. ASSUME NEW a \in Layout[v] PROVE a \in Nat /\ a >= ActiveStart
    BY <2>1, Sizes DEF Addresses
  <2> QED BY <2>1, <2>2
<1>3. MaxVersion >= 1 /\ ActiveStart \in Addresses
  BY <1>2, Sizes DEF Versions
<1>4. Boot2 \subseteq Addresses /\ Bootloader \subseteq Addresses
  BY <1>3, Sizes, LayoutAssumption DEF LayoutAssumption, Addresses
<1>5. Boot2 \cap Bootloader = {}
  BY LayoutAssumption DEF LayoutAssumption
<1> QED BY <1>1, <1>2, <1>4, <1>5

(***************************************************************************)
(* No sector holds bytes of the bootloader and of the application.         *)
(***************************************************************************)
LEMMA Multiples ==
  ASSUME NEW e \in Nat \ {0}, NEW a \in Nat, NEW b \in Nat, a * e < b * e
  PROVE  a < b
<1> SUFFICES ASSUME b <= a PROVE FALSE
  OBVIOUS
<1>1. PICK d \in Nat : a = b + d
  <2>1. a - b \in Nat /\ a = b + (a - b)
    OBVIOUS
  <2> QED BY <2>1
<1>2. a * e = b * e + d * e /\ d * e \in Nat /\ b * e \in Nat
  BY <1>1, Z3
<1> QED BY <1>2

LEMMA SectorsApart ==
  ASSUME NEW a \in Nat, NEW b \in Nat, a < ActiveStart, ActiveStart <= b
  PROVE  SectorOf(a) # SectorOf(b)
<1> DEFINE e == SectorSize
           i == a \div e
           j == b \div e
           q == ActiveStart \div e
<1>1. e \in Nat \ {0} /\ ActiveStart \in Nat
  BY Sizes
<1>2. i \in Nat /\ i * e <= a
  BY <1>1, SMT
<1>3. j \in Nat /\ b < (j + 1) * e
  BY <1>1, SMT
<1>4. q \in Nat /\ ActiveStart = q * e
  BY <1>1, LayoutAssumption, SMT DEF LayoutAssumption
<1> HIDE DEF i, j, q, e
<1>5. i * e < q * e /\ q * e < (j + 1) * e
  <2>1. i * e \in Nat /\ q * e \in Nat /\ (j + 1) * e \in Nat
    BY <1>1, <1>2, <1>3, <1>4, SMT
  <2> QED BY <2>1, <1>2, <1>3, <1>4
<1>6. i < q /\ q < j + 1
  BY <1>1, <1>2, <1>3, <1>4, <1>5, Multiples
<1>7. i # j
  BY <1>2, <1>3, <1>4, <1>6
<1> QED BY <1>7 DEF i, j, e, SectorOf

-----------------------------------------------------------------------------
(***************************************************************************)
(* Images.                                                                 *)
(***************************************************************************)
BootloaderElf(v) == Linked("bootloader", Bootloader, v)
AppElf(v) == Linked("app", Layout[v], v)
DebugElf(v) == Linked("debug", Layout[v], v)

IsImage(image) ==
  DOMAIN image \subseteq Addresses /\ \A a \in DOMAIN image : image[a] \in Bytes

LEMMA BytesOf ==
  /\ Filler \in Bytes /\ Zero \in Bytes
  /\ \A v \in Versions, of \in {"boot2", "bootloader", "app", "debug"} : Byte(of, v) \in Bytes
  BY DEF Bytes, Byte, Versions

LEMMA LinkedIsImage ==
  ASSUME NEW of \in {"bootloader", "app", "debug"}, NEW code \in SUBSET Addresses,
         NEW v \in Versions
  PROVE  IsImage(Linked(of, code, v))
<1>1. Byte("boot2", v) \in Bytes /\ Byte(of, v) \in Bytes
  BY BytesOf
<1> QED BY <1>1, Map DEF IsImage, Linked

LEMMA ElvesAreImages ==
  ASSUME NEW v \in Versions
  PROVE  IsImage(BootloaderElf(v)) /\ IsImage(AppElf(v)) /\ IsImage(DebugElf(v))
  BY LinkedIsImage, Map DEF BootloaderElf, AppElf, DebugElf

LEMMA NoFileIsImage == IsImage(NoFile)
  BY DEF IsImage, NoFile

LEMMA Uf2IsImage ==
  ASSUME NEW elf, IsImage(elf)
  PROVE  IsImage(ElfToUf2(elf))
  BY BytesOf DEF IsImage, ElfToUf2

LEMMA CutIsImage ==
  ASSUME NEW image, IsImage(image), NEW part \in Cuts(image)
  PROVE  IsImage(part)
  BY DEF Cuts, IsImage

(***************************************************************************)
(* The UF2 file of an application holds the application, with nothing      *)
(* below ACTIVE that begins a block of it, so that its binary begins at    *)
(* the start of ACTIVE.                                                    *)
(***************************************************************************)
LEMMA Uf2HoldsApp ==
  ASSUME NEW v \in Versions
  PROVE  \A a \in Layout[v] : /\ a \in DOMAIN ElfToUf2(AppElf(v))
                              /\ ElfToUf2(AppElf(v))[a] = Byte("app", v)
<1> TAKE a \in Layout[v]
<1>1. a \in Addresses /\ a \in DOMAIN AppElf(v) /\ a \notin Boot2
  BY Map DEF AppElf, Linked
<1>2. AppElf(v)[a] = Byte("app", v)
  BY <1>1 DEF AppElf, Linked
<1> QED BY <1>1, <1>2 DEF ElfToUf2

LEMMA BinaryHoldsApp ==
  ASSUME NEW v \in Versions
  PROVE  LET bin == Uf2ToActiveBinary(ElfToUf2(AppElf(v)))
         IN  \A a \in Layout[v] : a - ActiveStart \in DOMAIN bin
                                  /\ bin[a - ActiveStart] = Byte("app", v)
<1> DEFINE uf2 == ElfToUf2(AppElf(v))
           blocks == ActiveBlocks(uf2)
<1>1. DOMAIN uf2 \subseteq Addresses
  BY DEF ElfToUf2
<1>2. blocks \in SUBSET Nat /\ \A a \in blocks : a >= ActiveStart /\ a <= FlashBase + FlashSize
  <2>1. \A a \in Addresses : a \in Nat /\ a <= FlashBase + FlashSize
    BY Sizes DEF Addresses
  <2> QED BY <1>1, <2>1 DEF ActiveBlocks
<1>3. \A a \in Layout[v] : a \in blocks /\ uf2[a] = Byte("app", v)
  BY Uf2HoldsApp, Map DEF ActiveBlocks
<1>4. ActiveStart \in blocks
  BY <1>3, Map
<1>5. Uf2ToActiveBinary(uf2) = BinaryOf(uf2, blocks)
  BY DEF Uf2ToActiveBinary
<1> HIDE DEF uf2, blocks
<1>6. Min(blocks) = ActiveStart
  BY <1>2, <1>4, MinOf
<1>7. Max(blocks) \in blocks /\ \A a \in blocks : a <= Max(blocks)
  <2>1. FlashBase + FlashSize \in Nat
    BY Sizes
  <2> QED BY <1>2, <1>4, <2>1, MaxOf
<1>8. ASSUME NEW a \in Layout[v]
      PROVE  LET bin == BinaryOf(uf2, blocks)
             IN  a - ActiveStart \in DOMAIN bin /\ bin[a - ActiveStart] = Byte("app", v)
  <2>1. a \in Nat /\ a >= ActiveStart /\ ActiveStart \in Nat /\ a <= Max(blocks)
        /\ Max(blocks) \in Nat
    BY <1>2, <1>3, <1>7, Map, Sizes
  <2>2. a - ActiveStart \in 0 .. Max(blocks) - ActiveStart /\ ActiveStart + (a - ActiveStart) = a
    BY <2>1
  <2>3. a \in DOMAIN uf2
    BY Uf2HoldsApp DEF uf2
  <2> QED BY <1>3, <1>6, <2>2, <2>3 DEF BinaryOf
<1> QED BY <1>5, <1>8 DEF uf2

(***************************************************************************)
(* What writing leaves in flash.                                           *)
(***************************************************************************)
LEMMA WrittenIsFlash ==
  ASSUME NEW image, IsImage(image), flash \in [Addresses -> Bytes]
  PROVE  Written(image) \in [Addresses -> Bytes] /\ Erased(image) \in [Addresses -> Bytes]
<1>1. Erased(image) \in [Addresses -> Bytes]
  BY BytesOf DEF Erased
<1> QED BY <1>1 DEF Written, IsImage

(***************************************************************************)
(* The bootloader is written without touching the application.             *)
(***************************************************************************)
LEMMA BootloaderWritten ==
  ASSUME NEW w \in Versions, NEW v \in Versions
  PROVE  /\ HoldsBootloader(Written(BootloaderElf(w)))
         /\ HoldsApp(flash, v) => HoldsApp(Written(BootloaderElf(w)), v)
<1> DEFINE image == BootloaderElf(w)
<1>1. DOMAIN image = Boot2 \cup Bootloader
  BY DEF BootloaderElf, Linked
<1>2. ASSUME NEW a \in Boot2 PROVE Written(image)[a] = Byte("boot2", w)
  <2>1. a \in Addresses /\ a \in DOMAIN image /\ image[a] = Byte("boot2", w)
    BY Map DEF BootloaderElf, Linked
  <2> QED BY <2>1 DEF Written
<1>3. ASSUME NEW a \in Bootloader PROVE Written(image)[a] = Byte("bootloader", w)
  <2>1. a \in Addresses /\ a \in DOMAIN image /\ image[a] = Byte("bootloader", w)
    BY Map DEF BootloaderElf, Linked
  <2> QED BY <2>1 DEF Written
<1>4. ASSUME NEW a \in Layout[v] PROVE Written(image)[a] = flash[a]
  <2>1. a \in Addresses /\ a \in Nat /\ a >= ActiveStart
    BY Map
  <2>2. \A b \in DOMAIN image : b \in Nat /\ b < ActiveStart
    BY <1>1, Map
  <2>3. ActiveStart \in Nat
    BY Sizes
  <2>4. \A b \in DOMAIN image : SectorOf(b) # SectorOf(a)
    BY <2>1, <2>2, SectorsApart
  <2>5. a \notin DOMAIN image
    BY <2>1, <2>2, <2>3
  <2> QED BY <2>1, <2>4, <2>5 DEF Written, Erased
<1> HIDE DEF image
<1>5. HoldsBootloader(Written(image))
  BY <1>2, <1>3 DEF HoldsBootloader, Versions
<1>6. HoldsApp(flash, v) => HoldsApp(Written(image), v)
  BY <1>4 DEF HoldsApp
<1> QED BY <1>5, <1>6 DEF image

LEMMA DebugWritten ==
  ASSUME NEW v \in Versions
  PROVE  HoldsApp(Written(DebugElf(v)), v)
<1>1. ASSUME NEW a \in Layout[v] PROVE Written(DebugElf(v))[a] = Byte("debug", v)
  <2>1. a \in Addresses /\ a \notin Boot2 /\ a \in DOMAIN DebugElf(v)
    BY Map DEF DebugElf, Linked
  <2>2. DebugElf(v)[a] = Byte("debug", v)
    BY <2>1 DEF DebugElf, Linked
  <2> QED BY <2>1, <2>2 DEF Written
<1> QED BY <1>1 DEF HoldsApp

(***************************************************************************)
(* The combined image ends within the flash.                               *)
(***************************************************************************)
LEMMA WholeBlocks ==
  ASSUME NEW n \in Nat
  PROVE  Blocks(n) * PayloadSize \in Nat /\ Blocks(n) * PayloadSize <= n + PayloadSize - 1
<1> DEFINE e == PayloadSize
           c == (n + e - 1) \div e
<1>1. e \in Nat \ {0} /\ n + e - 1 \in Nat
  BY Sizes
<1>2. c \in Nat /\ c * e <= n + e - 1 /\ c * e \in Nat
  BY <1>1, SMT
<1> QED BY <1>2 DEF Blocks

LEMMA LengthOfApp ==
  ASSUME NEW v \in Versions
  PROVE  LET bin == ElfToBinary(AppElf(v), FlashBase)
         IN  \E top \in Layout[v] : DOMAIN bin = 0 .. top - FlashBase
                                    /\ Length(bin) = top - FlashBase + 1
<1> DEFINE bytes == {a \in DOMAIN AppElf(v) : a >= FlashBase}
           top == Max(bytes)
<1>1. \A a \in Addresses : a \in Nat /\ a <= FlashBase + FlashSize /\ a >= FlashBase
  BY Sizes DEF Addresses
<1>2. DOMAIN AppElf(v) = Boot2 \cup Layout[v]
  BY DEF AppElf, Linked
<1>3. \A a \in bytes : a \in Nat /\ a <= FlashBase + FlashSize
  BY <1>1, <1>2, Map
<1>4. \A a \in Layout[v] : a \in bytes
  BY <1>1, <1>2, Map
<1>5. ActiveStart \in Layout[v]
  BY Map
<1> HIDE DEF bytes
<1>6. top \in bytes /\ \A a \in bytes : a <= top
  <2>1. FlashBase + FlashSize \in Nat /\ bytes \in SUBSET Nat /\ bytes # {}
    BY <1>3, <1>4, <1>5, Sizes
  <2> QED BY <1>3, <2>1, MaxOf
<1>7. top \in Layout[v]
  <2>1. ActiveStart <= top /\ top \in Nat /\ ActiveStart \in Nat
    BY <1>3, <1>4, <1>5, <1>6, Sizes
  <2>2. top \notin Boot2
    BY <2>1, Map
  <2> QED BY <1>2, <1>6, <2>2 DEF bytes
<1>8. DOMAIN ElfToBinary(AppElf(v), FlashBase) = 0 .. top - FlashBase
  BY DEF ElfToBinary, bytes
<1> HIDE DEF top
<1>9. top \in Nat /\ top >= FlashBase /\ FlashBase \in Nat
  BY <1>1, <1>7, Map, Sizes
<1>10. Cardinality(0 .. top - FlashBase) = top - FlashBase + 1
  <2>1. 0 \in Int /\ top - FlashBase \in Int /\ ~(0 > top - FlashBase)
    BY <1>9
  <2>2. Cardinality(0 .. top - FlashBase) = (top - FlashBase) - 0 + 1
    BY <2>1, FS_Interval
  <2> QED BY <1>9, <2>2
<1> QED BY <1>7, <1>8, <1>10 DEF Length

LEMMA BinaryBytes ==
  ASSUME NEW elf, IsImage(elf), NEW base,
         NEW i \in DOMAIN ElfToBinary(elf, base)
  PROVE  ElfToBinary(elf, base)[i] \in Bytes
  BY BytesOf DEF ElfToBinary, IsImage

LEMMA MergedOf ==
  ASSUME NEW blBin, NEW appBin
  PROVE  /\ DOMAIN Merged(blBin, appBin) = 0 .. AppOffset + Length(appBin) - 1
         /\ \A i \in DOMAIN Merged(blBin, appBin) :
              Merged(blBin, appBin)[i] =
                IF i >= AppOffset THEN appBin[i - AppOffset]
                ELSE IF i \in DOMAIN blBin THEN blBin[i] ELSE Filler
  BY DEF Merged

LEMMA CombinedIsImage ==
  ASSUME NEW v \in Versions, NEW w \in Versions
  PROVE  IsImage(Combined(BootloaderElf(v), AppElf(w)))
<1> DEFINE blBin == ElfToBinary(BootloaderElf(v), FlashBase)
           appBin == ElfToBinary(AppElf(w), FlashBase)
           n == AppOffset + Length(appBin)
           bin == Merged(blBin, appBin)
<1>1. PICK top \in Layout[w] : DOMAIN appBin = 0 .. top - FlashBase
                               /\ Length(appBin) = top - FlashBase + 1
  BY LengthOfApp
<1>2. top \in Nat /\ top >= FlashBase
      /\ top + AppOffset + PayloadSize - 1 <= FlashBase + FlashSize - 1
  BY RoomAssumption, Map, Sizes DEF RoomAssumption, Addresses, Versions
<1>3. n \in Nat /\ n = AppOffset + (top - FlashBase + 1)
  BY <1>1, <1>2, Sizes
<1>4. DOMAIN bin = 0 .. n - 1
  <2>1. DOMAIN Merged(blBin, appBin) = 0 .. AppOffset + Length(appBin) - 1
    BY MergedOf, Zenon
  <2>2. AppOffset + Length(appBin) - 1 = n - 1
    <3> HIDE DEF appBin
    <3> QED BY <1>1, <1>2, Sizes
  <2> QED BY <2>1, <2>2
<1>5. \A i \in DOMAIN bin : bin[i] \in Bytes
  <2>1. \A i \in DOMAIN blBin : blBin[i] \in Bytes
    BY BinaryBytes, ElvesAreImages
  <2>2. \A i \in DOMAIN appBin : appBin[i] \in Bytes
    BY BinaryBytes, ElvesAreImages
  <2>3. \A i \in DOMAIN bin :
          bin[i] = IF i >= AppOffset THEN appBin[i - AppOffset]
                   ELSE IF i \in DOMAIN blBin THEN blBin[i] ELSE Filler
    BY MergedOf, Zenon
  <2> HIDE DEF blBin, appBin, n, bin
  <2>4. ASSUME NEW i \in DOMAIN bin, i >= AppOffset PROVE bin[i] \in Bytes
    <3>1. i \in 0 .. n - 1 /\ bin[i] = appBin[i - AppOffset]
      BY <1>4, <2>4, <2>3
    <3>2. i - AppOffset \in DOMAIN appBin
      BY <1>1, <1>2, <1>3, <2>4, <3>1, Sizes
    <3> QED BY <2>2, <3>1, <3>2
  <2>5. ASSUME NEW i \in DOMAIN bin, ~(i >= AppOffset) PROVE bin[i] \in Bytes
    BY <2>1, <2>5, <2>3, BytesOf
  <2> QED BY <2>4, <2>5
<1>6. Length(bin) = n
  <2> HIDE DEF n
  <2>1. Cardinality(0 .. n - 1) = n
    <3>1. 0 \in Int /\ n - 1 \in Int
      BY <1>3
    <3>2. Cardinality(0 .. n - 1) = IF 0 > n - 1 THEN 0 ELSE n - 1 - 0 + 1
      BY <3>1, FS_Interval
    <3> QED BY <1>3, <3>2
  <2> QED BY <1>4, <2>1 DEF Length
<1>7. Combined(BootloaderElf(v), AppElf(w)) = BinaryToUf2(bin, FlashBase)
  BY DEF Combined
<1> HIDE DEF bin
<1>8. DOMAIN BinaryToUf2(bin, FlashBase) \subseteq Addresses
  <2> DEFINE size == Blocks(Length(bin)) * PayloadSize
  <2>1. size \in Nat /\ size <= n + PayloadSize - 1
    BY <1>3, <1>6, WholeBlocks
  <2>2. DOMAIN BinaryToUf2(bin, FlashBase) = FlashBase .. FlashBase + size - 1
    BY DEF BinaryToUf2
  <2> HIDE DEF size
  <2>3. size <= FlashSize
    BY <1>2, <1>3, <2>1, Sizes
  <2> QED BY <2>1, <2>2, <2>3, Sizes DEF Addresses
<1>9. \A a \in DOMAIN BinaryToUf2(bin, FlashBase) : BinaryToUf2(bin, FlashBase)[a] \in Bytes
  BY <1>5, BytesOf DEF BinaryToUf2
<1> QED BY <1>7, <1>8, <1>9 DEF IsImage

-----------------------------------------------------------------------------
(***************************************************************************)
(* The steps of commands: no command has more than eight.                  *)
(***************************************************************************)
Steps == {"build-bootloader", "build-application", "build-debug", "combine", "clean",
          "uf2-combined", "uf2-bootloader", "uf2-application",
          "probe-debug", "probe-bootloader", "reset", "ota"}

Plans(n) == {p \in Seq(Steps) : Len(p) <= n}

LEMMA PlansGrow ==
  ASSUME NEW n \in Nat, NEW m \in Nat, n <= m, NEW p \in Plans(n)
  PROVE  p \in Plans(m)
<1>1. p \in Seq(Steps) /\ Len(p) <= n
  BY DEF Plans
<1>2. Len(p) \in Nat
  BY <1>1
<1> QED BY <1>1, <1>2 DEF Plans

LEMMA PlansAppend ==
  ASSUME NEW n \in Nat, NEW m \in Nat, NEW p \in Plans(n), NEW q \in Plans(m)
  PROVE  p \o q \in Plans(n + m)
<1>1. p \in Seq(Steps) /\ q \in Seq(Steps) /\ Len(p) <= n /\ Len(q) <= m
  BY DEF Plans
<1>2. p \o q \in Seq(Steps) /\ Len(p \o q) = Len(p) + Len(q)
  BY <1>1
<1>3. Len(p) \in Nat /\ Len(q) \in Nat
  BY <1>1
<1> QED BY <1>1, <1>2, <1>3 DEF Plans

LEMMA StepNames ==
  /\ "build-bootloader" \in Steps /\ "build-application" \in Steps /\ "build-debug" \in Steps
  /\ "combine" \in Steps /\ "uf2-combined" \in Steps
  /\ "uf2-bootloader" \in Steps /\ "uf2-application" \in Steps
  /\ "probe-debug" \in Steps /\ "probe-bootloader" \in Steps
  /\ "reset" \in Steps /\ "ota" \in Steps
  BY DEF Steps

LEMMA PlanBlocks ==
  /\ <<>> \in Plans(3) /\ <<>> \in Plans(1)
  /\ \A s \in Steps : <<s>> \in Plans(1)
  /\ \A s, t \in Steps : <<s, t>> \in Plans(2)
  /\ \A s, t, u \in Steps : <<s, t, u>> \in Plans(3)
  /\ \A s, t, u, w, x \in Steps : <<s, t, u, w, x>> \in Plans(5)
<1> DEFINE L == Steps
<1> HIDE DEF L
<1>1. <<>> \in Seq(L) /\ Len(<<>>) = 0
  OBVIOUS
<1>2. \A s \in L : <<s>> \in Seq(L) /\ Len(<<s>>) = 1
  OBVIOUS
<1>3. \A s, t \in L : <<s, t>> \in Seq(L) /\ Len(<<s, t>>) = 2
  OBVIOUS
<1>4. \A s, t, u \in L : <<s, t, u>> \in Seq(L) /\ Len(<<s, t, u>>) = 3
  OBVIOUS
<1>5. \A s, t, u, w, x \in L : <<s, t, u, w, x>> \in Seq(L) /\ Len(<<s, t, u, w, x>>) = 5
  OBVIOUS
<1> QED BY <1>1, <1>2, <1>3, <1>4, <1>5 DEF Plans, L

LEMMA PlanOf ==
  ASSUME NEW c \in Commands
  PROVE  StepsOf(c) \in Plans(8)
<1> SUFFICES \E n \in 1 .. 8 : StepsOf(c) \in Plans(n)
  BY PlansGrow
<1>1. CASE c \in {"build--bootloader", "build--application", "combine", "clean"}
  <2>1. \E s \in Steps : StepsOf(c) = <<s>>
    BY <1>1 DEF StepsOf, Steps
  <2> QED BY <2>1, PlanBlocks
<1>2. CASE c = "build"
  <2>1. StepsOf(c) = <<"build-bootloader", "build-application">>
    BY <1>2 DEF StepsOf
  <2> QED BY <2>1, PlanBlocks, StepNames
<1>3. Dist \in Plans(3)
  BY PlanBlocks, StepNames DEF Dist
<1>4. CASE c = "dist"
  <2>1. StepsOf(c) = Dist
    BY <1>4 DEF StepsOf
  <2> QED BY <1>3, <2>1
<1>5. CASE c = "flash"
  <2>1. StepsOf(c) = Unless("combined.uf2", Dist) \o <<"uf2-combined">>
    BY <1>5 DEF StepsOf
  <2>2. Unless("combined.uf2", Dist) \in Plans(3)
    BY <1>3, PlanBlocks DEF Unless
  <2>3. <<"uf2-combined">> \in Plans(1)
    BY PlanBlocks, StepNames
  <2> QED BY <2>1, <2>2, <2>3, PlansAppend
<1>6. Uf2Bootloader \in Plans(2)
  <2>1. Unless("bootloader.uf2", <<"build-bootloader">>) \in Plans(1)
    BY PlanBlocks, StepNames DEF Unless
  <2>2. <<"uf2-bootloader">> \in Plans(1)
    BY PlanBlocks, StepNames
  <2>3. Uf2Bootloader \in Plans(1 + 1)
    BY <2>1, <2>2, PlansAppend DEF Uf2Bootloader
  <2> QED BY <2>3
<1>7. Uf2Application \in Plans(2)
  <2>1. Unless("application.uf2", <<"build-application">>) \in Plans(1)
    BY PlanBlocks, StepNames DEF Unless
  <2>2. <<"uf2-application">> \in Plans(1)
    BY PlanBlocks, StepNames
  <2>3. Uf2Application \in Plans(1 + 1)
    BY <2>1, <2>2, PlansAppend DEF Uf2Application
  <2> QED BY <2>3
<1>8. CASE c \in {"flash--bootloader", "flash--application"}
  <2>1. StepsOf(c) = Uf2Bootloader \/ StepsOf(c) = Uf2Application
    BY <1>8 DEF StepsOf
  <2> QED BY <1>6, <1>7, <2>1
<1>9. CASE c = "flash--bootloader--application"
  <2>1. StepsOf(c) = Uf2Bootloader \o Uf2Application
    BY <1>9 DEF StepsOf
  <2>2. StepsOf(c) \in Plans(2 + 2)
    BY <1>6, <1>7, <2>1, PlansAppend
  <2> QED BY <2>2
<1>10. ProbeBootloader \in Plans(3) /\ ProbeApplication \in Plans(5)
  BY PlanBlocks, StepNames DEF ProbeBootloader, ProbeApplication
<1>11. CASE c \in {"flash--probe--bootloader", "flash--probe", "flash--probe--application"}
  <2>1. StepsOf(c) = ProbeBootloader \/ StepsOf(c) = ProbeApplication
    BY <1>11 DEF StepsOf
  <2> QED BY <1>10, <2>1
<1>12. CASE c = "flash--probe--bootloader--application"
  <2>1. StepsOf(c) = ProbeBootloader \o ProbeApplication
    BY <1>12 DEF StepsOf
  <2>2. StepsOf(c) \in Plans(3 + 5)
    BY <1>10, <2>1, PlansAppend
  <2> QED BY <2>2
<1>13. CASE c = "flash--ota"
  <2>1. StepsOf(c) = Unless("application.uf2", <<"build-application">>) \o <<"ota">>
    BY <1>13 DEF StepsOf
  <2>2. Unless("application.uf2", <<"build-application">>) \in Plans(1)
    BY PlanBlocks, StepNames DEF Unless
  <2>3. <<"ota">> \in Plans(1)
    BY PlanBlocks, StepNames
  <2>4. StepsOf(c) \in Plans(1 + 1)
    BY <2>1, <2>2, <2>3, PlansAppend
  <2> QED BY <2>4
<1> QED
  BY <1>1, <1>2, <1>4, <1>5, <1>8, <1>9, <1>11, <1>12, <1>13 DEF Commands

(***************************************************************************)
(* The plan after a step that succeeds.                                    *)
(***************************************************************************)
LEMMA PlanGoesOn ==
  ASSUME NEW p \in Plans(8), p # <<>>
  PROVE  Tail(p) \in Plans(8)
<1>1. p \in Seq(Steps) /\ Len(p) <= 8
  BY DEF Plans
<1>2. Tail(p) \in Seq(Steps) /\ Len(Tail(p)) = Len(p) - 1 /\ Len(p) \in Nat
  BY <1>1
<1> QED BY <1>1, <1>2 DEF Plans

LEMMA EmptyPlan == <<>> \in Plans(8)
<1>1. <<>> \in Seq(Steps) /\ Len(<<>>) <= 8
  OBVIOUS
<1> QED BY <1>1 DEF Plans

-----------------------------------------------------------------------------
(***************************************************************************)
(* The inductive invariant.                                                *)
(*                                                                         *)
(* An ELF file is missing or is what one build made of one version; a UF2  *)
(* file may end early.                                                     *)
(***************************************************************************)
Uf2Files == {"bootloader.uf2", "application.uf2", "combined.uf2"}

FilesMade ==
  /\ DOMAIN files = Files
  /\ files["bootloader.elf"] \in {NoFile} \cup {BootloaderElf(v) : v \in Versions}
  /\ files["application.elf"] \in {NoFile} \cup {AppElf(v) : v \in Versions}
  /\ files["application-debug.elf"] \in {NoFile} \cup {DebugElf(v) : v \in Versions}
  /\ \A f \in Uf2Files : IsImage(files[f])

Numbered ==
  version \in Versions /\ since \in 1 .. version /\ commands \in 0 .. MaxCommands

DeviceMade ==
  /\ flash \in [Addresses -> Bytes] /\ dfu \in [Active -> Bytes]
  /\ state \in {"boot", "pending", "unconfirmed"}

CommandMade ==
  command \in Commands /\ result \in {"running", "ok", "failed"} /\ waiting \in BOOLEAN

PlanMade ==
  /\ plan \in Plans(8)
  /\ result # "running" => plan = <<>>

(***************************************************************************)
(* `flash --probe`: what its steps to come say of the files and the        *)
(* device. No command of this kind makes an update pending, so that        *)
(* restarts exchange nothing if nothing was waiting when it began.         *)
(***************************************************************************)
ToReset == <<"reset">>
ToFlash == <<"probe-bootloader", "reset">>
ToDebugFlash == <<"probe-debug", "build-bootloader", "probe-bootloader", "reset">>
ToFirstReset == <<"reset", "build-debug", "probe-debug",
                  "build-bootloader", "probe-bootloader", "reset">>
ToApplication == <<"probe-bootloader", "reset", "build-debug", "probe-debug",
                   "build-bootloader", "probe-bootloader", "reset">>
ToAll == <<"build-bootloader", "probe-bootloader", "reset", "build-debug", "probe-debug",
           "build-bootloader", "probe-bootloader", "reset">>

Probing == command \in ProbesApplication /\ result # "failed"

HasApp(v) == HoldsApp(flash, v) \/ (waiting /\ HoldsApp(dfu, v))

ProbeUnderway ==
  Probing =>
    /\ plan \in {ToAll, ToApplication, ToFirstReset, ProbeApplication, ToDebugFlash,
                 ProbeBootloader, ToFlash, ToReset, <<>>}
    /\ ~waiting => state = "boot"
    /\ plan = ToDebugFlash =>
         \E v \in since .. version : files["application-debug.elf"] = DebugElf(v)
    /\ plan \in {ProbeBootloader, ToFlash, ToReset, <<>>} =>
         \E v \in since .. version : HasApp(v)
    /\ plan = ToFlash => \E v \in Versions : files["bootloader.elf"] = BootloaderElf(v)
    /\ plan \in {ToReset, <<>>} => HoldsBootloader(flash)

FlashToolInv ==
  Numbered /\ FilesMade /\ DeviceMade /\ CommandMade /\ PlanMade /\ ProbeUnderway

(***************************************************************************)
(* What the invariant says of files and images.                            *)
(***************************************************************************)
LEMMA FilesAreImages ==
  ASSUME FilesMade
  PROVE  \A f \in Files : IsImage(files[f])
<1>1. \A v \in Versions : IsImage(BootloaderElf(v)) /\ IsImage(AppElf(v)) /\ IsImage(DebugElf(v))
  BY ElvesAreImages
<1>2. IsImage(files["bootloader.elf"]) /\ IsImage(files["application.elf"])
      /\ IsImage(files["application-debug.elf"])
  BY <1>1, NoFileIsImage DEF FilesMade
<1>3. \A f \in Uf2Files : IsImage(files[f])
  BY DEF FilesMade
<1> QED BY <1>2, <1>3 DEF Files, Uf2Files

LEMMA ImageForIsImage ==
  ASSUME FilesMade, NEW step \in FlashSteps
  PROVE  IsImage(ImageFor(step))
<1>1. ImageFor(step) \in {files[f] : f \in Files}
  BY DEF ImageFor, FlashSteps, Files
<1> QED BY <1>1, FilesAreImages

LEMMA InitInv == Init => FlashToolInv
<1> SUFFICES ASSUME Init PROVE FlashToolInv
  OBVIOUS
<1> USE DEF Init
<1>1. Numbered
  BY Sizes DEF Numbered, Versions
<1>2. FilesMade
  BY NoFileIsImage DEF FilesMade, Files, Uf2Files
<1>3. DeviceMade
  BY BytesOf DEF DeviceMade
<1>4. PlanMade
  BY EmptyPlan DEF PlanMade
<1>5. ProbeUnderway
  BY DEF ProbeUnderway, Probing, ProbesApplication
<1>6. CommandMade
  BY DEF CommandMade, Commands
<1> QED BY <1>1, <1>2, <1>3, <1>4, <1>5, <1>6 DEF FlashToolInv

(***************************************************************************)
(* Builds, whole and interrupted.                                          *)
(***************************************************************************)
LEMMA CombinesToImage ==
  ASSUME FilesMade, CanCombine
  PROVE  IsImage(Combined(files["bootloader.elf"], files["application.elf"]))
<1>1. PICK v \in Versions : files["bootloader.elf"] = BootloaderElf(v)
  BY DEF CanCombine, FilesMade, Exists
<1>2. PICK w \in Versions : files["application.elf"] = AppElf(w)
  BY DEF CanCombine, FilesMade, Exists
<1> QED BY <1>1, <1>2, CombinedIsImage

LEMMA HalfBuiltIsMade ==
  ASSUME FilesMade, NEW v \in Versions
  PROVE  /\ \A new \in HalfBuilt("bootloader.elf", "bootloader.uf2", BootloaderElf(v)) :
              (files' = new) => FilesMade'
         /\ \A new \in HalfBuilt("application.elf", "application.uf2", AppElf(v)) :
              (files' = new) => FilesMade'
<1>1. IsImage(ElfToUf2(BootloaderElf(v))) /\ IsImage(ElfToUf2(AppElf(v)))
  BY ElvesAreImages, Uf2IsImage
<1>2. ASSUME NEW new \in HalfBuilt("bootloader.elf", "bootloader.uf2", BootloaderElf(v)),
             files' = new
      PROVE  FilesMade'
  <2>1. CASE new = [files EXCEPT !["bootloader.elf"] = NoFile]
    BY <1>2, <2>1 DEF FilesMade, Files, Uf2Files
  <2>2. CASE new = [files EXCEPT !["bootloader.elf"] = BootloaderElf(v)]
    BY <1>2, <2>2 DEF FilesMade, Files, Uf2Files
  <2>3. ASSUME NEW part \in Cuts(ElfToUf2(BootloaderElf(v))),
               new = [files EXCEPT !["bootloader.elf"] = BootloaderElf(v),
                                   !["bootloader.uf2"] = part]
        PROVE  FilesMade'
    <3>1. IsImage(part)
      BY <1>1, <2>3, CutIsImage
    <3> QED BY <1>2, <2>3, <3>1 DEF FilesMade, Files, Uf2Files
  <2> QED BY <1>2, <2>1, <2>2, <2>3 DEF HalfBuilt
<1>3. ASSUME NEW new \in HalfBuilt("application.elf", "application.uf2", AppElf(v)),
             files' = new
      PROVE  FilesMade'
  <2>1. CASE new = [files EXCEPT !["application.elf"] = NoFile]
    BY <1>3, <2>1 DEF FilesMade, Files, Uf2Files
  <2>2. CASE new = [files EXCEPT !["application.elf"] = AppElf(v)]
    BY <1>3, <2>2 DEF FilesMade, Files, Uf2Files
  <2>3. ASSUME NEW part \in Cuts(ElfToUf2(AppElf(v))),
               new = [files EXCEPT !["application.elf"] = AppElf(v),
                                   !["application.uf2"] = part]
        PROVE  FilesMade'
    <3>1. IsImage(part)
      BY <1>1, <2>3, CutIsImage
    <3> QED BY <1>3, <2>3, <3>1 DEF FilesMade, Files, Uf2Files
  <2> QED BY <1>3, <2>1, <2>2, <2>3 DEF HalfBuilt
<1> QED BY <1>2, <1>3

LEMMA FilesKept ==
  ASSUME FlashToolInv, [Next]_vars
  PROVE  FilesMade'
<1>1. FilesMade /\ version \in Versions
  BY DEF FlashToolInv, Numbered
<1>2. CASE BuildsBootloader
  <2>1. IsImage(ElfToUf2(BootloaderElf(version)))
    BY <1>1, ElvesAreImages, Uf2IsImage
  <2>2. files' = [files EXCEPT !["bootloader.elf"] = BootloaderElf(version),
                               !["bootloader.uf2"] = ElfToUf2(BootloaderElf(version))]
    BY <1>2 DEF BuildsBootloader, BootloaderElf
  <2> QED BY <1>1, <2>1, <2>2 DEF FilesMade, Files, Uf2Files
<1>3. CASE BuildsApplication
  <2>1. IsImage(ElfToUf2(AppElf(version)))
    BY <1>1, ElvesAreImages, Uf2IsImage
  <2>2. files' = [files EXCEPT !["application.elf"] = AppElf(version),
                               !["application.uf2"] = ElfToUf2(AppElf(version))]
    BY <1>3 DEF BuildsApplication, AppElf
  <2> QED BY <1>1, <2>1, <2>2 DEF FilesMade, Files, Uf2Files
<1>4. CASE BuildsDebug
  BY <1>1, <1>4 DEF BuildsDebug, FilesMade, Files, Uf2Files, DebugElf
<1>5. CASE Combines
  <2> DEFINE image == Combined(files["bootloader.elf"], files["application.elf"])
  <2>1. IsImage(image)
    BY <1>1, <1>5, CombinesToImage DEF Combines
  <2>2. files' = [files EXCEPT !["combined.uf2"] = image]
    BY <1>5 DEF Combines
  <2> HIDE DEF image
  <2> QED BY <1>1, <2>1, <2>2 DEF FilesMade, Files, Uf2Files
<1>6. CASE Cleans
  BY <1>6, NoFileIsImage DEF Cleans, FilesMade, Files, Uf2Files
<1>7. CASE files' = files
  BY <1>1, <1>7 DEF FilesMade
<1>8. CASE Fails
  <2>1. (files' = files) \/ files' \in HalfDone
    BY <1>8 DEF Fails
  <2>2. ASSUME files' \in HalfDone PROVE FilesMade'
    <3>1. CASE At("build-bootloader")
      <4>1. HalfDone = HalfBuilt("bootloader.elf", "bootloader.uf2", BootloaderElf(version))
        BY <3>1 DEF HalfDone, At, BootloaderElf
      <4> QED BY <1>1, <2>2, <4>1, HalfBuiltIsMade
    <3>2. CASE At("build-application")
      <4>1. HalfDone = HalfBuilt("application.elf", "application.uf2", AppElf(version))
        BY <3>2 DEF HalfDone, At, AppElf
      <4> QED BY <1>1, <2>2, <4>1, HalfBuiltIsMade
    <3>3. CASE At("combine") /\ CanCombine
      <4> DEFINE image == Combined(files["bootloader.elf"], files["application.elf"])
      <4>1. HalfDone = {[files EXCEPT !["combined.uf2"] = part] : part \in Cuts(image)}
        BY <3>3 DEF HalfDone, At
      <4>2. IsImage(image)
        BY <1>1, <3>3, CombinesToImage
      <4> HIDE DEF image
      <4>3. PICK part \in Cuts(image) : files' = [files EXCEPT !["combined.uf2"] = part]
        BY <2>2, <4>1
      <4>4. IsImage(part)
        BY <4>2, CutIsImage
      <4> QED BY <1>1, <4>3, <4>4 DEF FilesMade, Files, Uf2Files
    <3>4. CASE ~At("build-bootloader") /\ ~At("build-application")
               /\ ~(At("combine") /\ CanCombine)
      BY <2>2, <3>4 DEF HalfDone
    <3> QED BY <3>1, <3>2, <3>3, <3>4
  <2> QED BY <1>7, <2>1, <2>2
<1>9. CASE (\E c \in Commands : Starts(c)) \/ Succeeds \/ SourcesChange \/ UNCHANGED vars
  BY <1>7, <1>9 DEF Starts, Succeeds, SourcesChange, vars
<1>10. CASE Flashes \/ ProbeResets \/ Uploads \/ UploadBreaks \/ Restarts
  BY <1>7, <1>10 DEF Flashes, ProbeResets, Uploads, UploadBreaks, Restarts
<1> QED BY <1>2, <1>3, <1>4, <1>5, <1>6, <1>8, <1>9, <1>10 DEF Next

(***************************************************************************)
(* The device.                                                             *)
(***************************************************************************)
LEMMA ExchangesKeepDevice ==
  ASSUME DeviceMade, Exchanges
  PROVE  DeviceMade'
<1>1. flash' \in [Addresses -> Bytes] /\ dfu' \in [Active -> Bytes]
  BY Sizes DEF DeviceMade, Exchanges, Exchanged
<1> QED BY <1>1 DEF DeviceMade, Exchanges

LEMMA DeviceKept ==
  ASSUME FlashToolInv, [Next]_vars
  PROVE  DeviceMade'
<1>1. FilesMade /\ DeviceMade
  BY DEF FlashToolInv
<1>2. \A step \in FlashSteps : Written(ImageFor(step)) \in [Addresses -> Bytes]
                               /\ Erased(ImageFor(step)) \in [Addresses -> Bytes]
  BY <1>1, ImageForIsImage, WrittenIsFlash DEF DeviceMade
<1>3. \A step : StateAfter(ImageFor(step)) \in {state, "boot"}
  BY DEF StateAfter
<1>4. CASE Flashes
  BY <1>1, <1>2, <1>3, <1>4 DEF Flashes, DeviceMade
<1>5. CASE UNCHANGED device
  BY <1>1, <1>5 DEF device, DeviceMade
<1>6. CASE Fails
  <2>1. CASE FlashInterrupted
    BY <1>1, <1>2, <1>3, <2>1 DEF FlashInterrupted, DeviceMade
  <2> QED BY <1>5, <1>6, <2>1 DEF Fails
<1>7. CASE Uploads
  <2> DEFINE uf2 == files["application.uf2"]
             bin == Uf2ToActiveBinary(uf2)
  <2>1. IsImage(uf2)
    BY <1>1, FilesAreImages DEF Files
  <2>2. \A i \in DOMAIN bin : bin[i] \in Bytes
    BY <2>1, BytesOf DEF Uf2ToActiveBinary, BinaryOf, IsImage
  <2>3. dfu' = [a \in Active |-> IF a - ActiveStart \in DOMAIN bin
                                 THEN bin[a - ActiveStart] ELSE dfu[a]]
        /\ state' = "pending" /\ flash' = flash
    BY <1>7 DEF Uploads
  <2> HIDE DEF bin
  <2> QED BY <1>1, <2>2, <2>3 DEF DeviceMade
<1>8. CASE ProbeResets \/ Restarts
  BY <1>1, <1>5, <1>8, ExchangesKeepDevice DEF ProbeResets, Restarts, JustLoads
<1>9. CASE (\E c \in Commands : Starts(c)) \/ Succeeds \/ SourcesChange \/ UNCHANGED vars
  BY <1>5, <1>9 DEF Starts, Succeeds, SourcesChange, vars
<1>10. CASE \/ BuildsBootloader \/ BuildsApplication \/ BuildsDebug
            \/ Combines \/ Cleans \/ UploadBreaks
  BY <1>5, <1>10 DEF BuildsBootloader, BuildsApplication, BuildsDebug, Combines, Cleans,
                     UploadBreaks
<1> QED BY <1>4, <1>6, <1>7, <1>8, <1>9, <1>10 DEF Next

(***************************************************************************)
(* The plan.                                                               *)
(***************************************************************************)
LEMMA PlanKept ==
  ASSUME FlashToolInv, [Next]_vars
  PROVE  PlanMade'
<1>1. plan \in Plans(8) /\ (result # "running" => plan = <<>>)
  BY DEF FlashToolInv, PlanMade
<1>2. ASSUME result = "running", plan # <<>>, Continues
      PROVE  PlanMade'
  BY <1>1, <1>2, PlanGoesOn DEF PlanMade, Continues
<1>3. CASE BuildsBootloader \/ BuildsApplication \/ BuildsDebug \/ Combines \/ Cleans
  BY <1>2, <1>3 DEF BuildsBootloader, BuildsApplication, BuildsDebug, Combines, Cleans, At
<1>4. CASE Flashes \/ ProbeResets \/ Uploads \/ UploadBreaks
  BY <1>2, <1>4 DEF Flashes, ProbeResets, Uploads, UploadBreaks, At
<1>5. CASE \E c \in Commands : Starts(c)
  <2>1. PICK c \in Commands : Starts(c)
    BY <1>5
  <2> QED BY <2>1, PlanOf DEF Starts, PlanMade
<1>6. CASE Fails
  BY <1>6, EmptyPlan DEF Fails, PlanMade
<1>7. CASE Succeeds
  BY <1>7, EmptyPlan DEF Succeeds, PlanMade
<1>8. CASE Restarts \/ SourcesChange \/ UNCHANGED vars
  BY <1>1, <1>8 DEF Restarts, SourcesChange, vars, PlanMade
<1> QED BY <1>3, <1>4, <1>5, <1>6, <1>7, <1>8 DEF Next

(***************************************************************************)
(* The plans of `flash --probe` and how they go on.                        *)
(***************************************************************************)
LEMMA ProbeTails ==
  /\ Tail(ToAll) = ToApplication /\ Head(ToAll) = "build-bootloader"
  /\ Tail(ToApplication) = ToFirstReset /\ Head(ToApplication) = "probe-bootloader"
  /\ Tail(ToFirstReset) = ProbeApplication /\ Head(ToFirstReset) = "reset"
  /\ Tail(ProbeApplication) = ToDebugFlash /\ Head(ProbeApplication) = "build-debug"
  /\ Tail(ToDebugFlash) = ProbeBootloader /\ Head(ToDebugFlash) = "probe-debug"
  /\ Tail(ProbeBootloader) = ToFlash /\ Head(ProbeBootloader) = "build-bootloader"
  /\ Tail(ToFlash) = ToReset /\ Head(ToFlash) = "probe-bootloader"
  /\ Tail(ToReset) = <<>> /\ Head(ToReset) = "reset"
<1> USE DEF ToAll, ToApplication, ToFirstReset, ProbeApplication, ToDebugFlash,
            ProbeBootloader, ToFlash, ToReset
<1>1. Tail(ToAll) = ToApplication /\ Head(ToAll) = "build-bootloader"
  OBVIOUS
<1>2. Tail(ToApplication) = ToFirstReset /\ Head(ToApplication) = "probe-bootloader"
  OBVIOUS
<1>3. Tail(ToFirstReset) = ProbeApplication /\ Head(ToFirstReset) = "reset"
  OBVIOUS
<1>4. Tail(ProbeApplication) = ToDebugFlash /\ Head(ProbeApplication) = "build-debug"
  OBVIOUS
<1>5. Tail(ToDebugFlash) = ProbeBootloader /\ Head(ToDebugFlash) = "probe-debug"
  OBVIOUS
<1>6. Tail(ProbeBootloader) = ToFlash /\ Head(ProbeBootloader) = "build-bootloader"
  OBVIOUS
<1>7. Tail(ToFlash) = ToReset /\ Head(ToFlash) = "probe-bootloader"
  OBVIOUS
<1>8. Tail(ToReset) = <<>> /\ Head(ToReset) = "reset"
  OBVIOUS
<1> QED BY <1>1, <1>2, <1>3, <1>4, <1>5, <1>6, <1>7, <1>8

LEMMA ProbeLengths ==
  /\ Len(ToAll) = 8 /\ Len(ToApplication) = 7 /\ Len(ToFirstReset) = 6
  /\ Len(ProbeApplication) = 5 /\ Len(ToDebugFlash) = 4 /\ Len(ProbeBootloader) = 3
  /\ Len(ToFlash) = 2 /\ Len(ToReset) = 1 /\ Len(<<>>) = 0
  BY DEF ToAll, ToApplication, ToFirstReset, ProbeApplication, ToDebugFlash, ProbeBootloader,
         ToFlash, ToReset

LEMMA ProbePlansDiffer ==
  /\ ToAll \notin {ProbeApplication, ToDebugFlash, ProbeBootloader, ToFlash, ToReset, <<>>}
  /\ ToApplication \notin {ToDebugFlash, ProbeBootloader, ToFlash, ToReset, <<>>}
  /\ ToFirstReset \notin {ToDebugFlash, ProbeBootloader, ToFlash, ToReset, <<>>}
  /\ ProbeApplication \notin {ToDebugFlash, ProbeBootloader, ToFlash, ToReset, <<>>}
  /\ ToDebugFlash \notin {ProbeBootloader, ToFlash, ToReset, <<>>}
  /\ ProbeBootloader \notin {ToDebugFlash, ToFlash, ToReset, <<>>}
  /\ ToFlash \notin {ToDebugFlash, ProbeBootloader, ToReset, <<>>}
  /\ ToReset \notin {ToDebugFlash, ToFlash}
  /\ <<>> \notin {ToDebugFlash, ToFlash}
<1> DEFINE empty == <<>>
           a == Len(ToAll) b == Len(ToApplication) c == Len(ToFirstReset)
           d == Len(ProbeApplication) e == Len(ToDebugFlash) f == Len(ProbeBootloader)
           g == Len(ToFlash) h == Len(ToReset) i == Len(empty)
<1>1. a = 8 /\ b = 7 /\ c = 6 /\ d = 5 /\ e = 4 /\ f = 3 /\ g = 2 /\ h = 1 /\ i = 0
  BY ProbeLengths
<1> HIDE DEF empty, a, b, c, d, e, f, g, h, i
<1>2. /\ a # d /\ a # e /\ a # f /\ a # g /\ a # h /\ a # i
      /\ b # e /\ b # f /\ b # g /\ b # h /\ b # i
      /\ c # e /\ c # f /\ c # g /\ c # h /\ c # i
      /\ d # e /\ d # f /\ d # g /\ d # h /\ d # i
      /\ e # f /\ e # g /\ e # h /\ e # i
      /\ f # g /\ f # h /\ f # i /\ g # h /\ g # i
  BY <1>1
<1>3. /\ ToAll \notin {ProbeApplication, ToDebugFlash, ProbeBootloader, ToFlash, ToReset, empty}
      /\ ToApplication \notin {ToDebugFlash, ProbeBootloader, ToFlash, ToReset, empty}
      /\ ToFirstReset \notin {ToDebugFlash, ProbeBootloader, ToFlash, ToReset, empty}
      /\ ProbeApplication \notin {ToDebugFlash, ProbeBootloader, ToFlash, ToReset, empty}
  BY <1>2, Zenon DEF a, b, c, d, e, f, g, h, i
<1>4. /\ ToDebugFlash \notin {ProbeBootloader, ToFlash, ToReset, empty}
      /\ ProbeBootloader \notin {ToDebugFlash, ToFlash, ToReset, empty}
      /\ ToFlash \notin {ToDebugFlash, ProbeBootloader, ToReset, empty}
      /\ ToReset \notin {ToDebugFlash, ToFlash}
      /\ empty \notin {ToDebugFlash, ToFlash}
  BY <1>2, Zenon DEF e, f, g, h, i
<1> QED BY <1>3, <1>4 DEF empty

LEMMA ThreeThenFive ==
  ASSUME NEW b \in Seq(Steps), NEW a \in Seq(Steps), Len(b) = 3, Len(a) = 5
  PROVE  LET p == b \o a
         IN  /\ p \in Seq(Steps) /\ Len(p) = 8
             /\ p[1] = b[1] /\ p[2] = b[2] /\ p[3] = b[3]
             /\ p[4] = a[1] /\ p[5] = a[2] /\ p[6] = a[3] /\ p[7] = a[4] /\ p[8] = a[5]
<1> DEFINE p == b \o a
<1>1. /\ p \in Seq(Steps) /\ Len(p) = 8
      /\ \A i \in 1 .. 8 : p[i] = IF i <= 3 THEN b[i] ELSE a[i - 3]
  <2>1. /\ p \in Seq(Steps) /\ Len(p) = Len(b) + Len(a)
        /\ \A i \in 1 .. Len(b) + Len(a) : p[i] = IF i <= Len(b) THEN b[i] ELSE a[i - Len(b)]
    BY ConcatProperties, Zenon
  <2> HIDE DEF p
  <2> QED BY <2>1
<1> HIDE DEF p
<1>2. /\ p[1] = b[1] /\ p[2] = b[2] /\ p[3] = b[3]
      /\ p[4] = a[1] /\ p[5] = a[2] /\ p[6] = a[3] /\ p[7] = a[4] /\ p[8] = a[5]
  BY <1>1
<1> QED BY <1>1, <1>2 DEF p

LEMMA ProbeStarts == ProbeBootloader \o ProbeApplication = ToAll
<1> DEFINE b == ProbeBootloader
           a == ProbeApplication
           p == b \o a
<1>1. /\ b \in Seq(Steps) /\ Len(b) = 3
      /\ b[1] = "build-bootloader" /\ b[2] = "probe-bootloader" /\ b[3] = "reset"
  <2>1. b \in Seq(Steps)
    BY DEF ProbeBootloader, Steps
  <2>2. b[1] = "build-bootloader" /\ b[2] = "probe-bootloader" /\ b[3] = "reset"
    BY DEF ProbeBootloader
  <2> QED BY <2>1, <2>2, ProbeLengths
<1>2. /\ a \in Seq(Steps) /\ Len(a) = 5
      /\ a[1] = "build-debug" /\ a[2] = "probe-debug"
      /\ a[3] = "build-bootloader" /\ a[4] = "probe-bootloader" /\ a[5] = "reset"
  <2>1. a \in Seq(Steps)
    BY DEF ProbeApplication, Steps
  <2>2. /\ a[1] = "build-debug" /\ a[2] = "probe-debug"
        /\ a[3] = "build-bootloader" /\ a[4] = "probe-bootloader" /\ a[5] = "reset"
    BY DEF ProbeApplication
  <2> QED BY <2>1, <2>2, ProbeLengths
<1>3. /\ ToAll \in Seq(Steps) /\ Len(ToAll) = 8
      /\ ToAll[1] = "build-bootloader" /\ ToAll[2] = "probe-bootloader" /\ ToAll[3] = "reset"
      /\ ToAll[4] = "build-debug" /\ ToAll[5] = "probe-debug"
      /\ ToAll[6] = "build-bootloader" /\ ToAll[7] = "probe-bootloader" /\ ToAll[8] = "reset"
  <2>1. ToAll \in Seq(Steps)
    BY DEF ToAll, Steps
  <2>2. /\ ToAll[1] = "build-bootloader" /\ ToAll[2] = "probe-bootloader" /\ ToAll[3] = "reset"
        /\ ToAll[4] = "build-debug" /\ ToAll[5] = "probe-debug"
        /\ ToAll[6] = "build-bootloader" /\ ToAll[7] = "probe-bootloader" /\ ToAll[8] = "reset"
    BY DEF ToAll
  <2> QED BY <2>1, <2>2, ProbeLengths
<1> HIDE DEF a, b
<1>4. p \in Seq(Steps) /\ Len(p) = 8
  BY <1>1, <1>2, ThreeThenFive
<1>5. /\ p[1] = b[1] /\ p[2] = b[2] /\ p[3] = b[3]
      /\ p[4] = a[1] /\ p[5] = a[2] /\ p[6] = a[3] /\ p[7] = a[4] /\ p[8] = a[5]
  BY <1>1, <1>2, ThreeThenFive
<1> HIDE DEF p
<1>6. \A i \in 1 .. 8 : p[i] = ToAll[i]
  BY <1>1, <1>2, <1>3, <1>5
<1>7. p = ToAll
  BY <1>3, <1>4, <1>6
<1> QED BY <1>7 DEF p, a, b

(***************************************************************************)
(* A restart keeps the bootloader, and the application in ACTIVE or DFU.   *)
(***************************************************************************)
LEMMA ExchangesKeep ==
  ASSUME Exchanges, waiting, UNCHANGED waiting, NEW v \in Versions
  PROVE  /\ HoldsBootloader(flash) => HoldsBootloader(flash')
         /\ HasApp(v) => HasApp(v)'
<1>1. /\ flash' = [a \in Addresses |-> IF a \in Active THEN dfu[a] ELSE flash[a]]
      /\ dfu' = [a \in Active |-> flash[a]]
  BY DEF Exchanges, Exchanged
<1>2. \A a \in Boot2 \cup Bootloader : flash'[a] = flash[a]
  <2>1. \A a \in Boot2 \cup Bootloader : a \in Addresses /\ a \notin Active
    BY LayoutAssumption, Map DEF LayoutAssumption, Active
  <2> QED BY <1>1, <2>1
<1>3. HoldsBootloader(flash) => HoldsBootloader(flash')
  BY <1>2 DEF HoldsBootloader
<1>4. \A a \in Layout[v] : a \in Active /\ a \in Addresses
  BY Map
<1>5. HoldsApp(dfu, v) => HoldsApp(flash', v)
  BY <1>1, <1>4 DEF HoldsApp
<1>6. HoldsApp(flash, v) => HoldsApp(dfu', v)
  BY <1>1, <1>4 DEF HoldsApp
<1> QED BY <1>3, <1>5, <1>6, Zenon DEF HasApp

(***************************************************************************)
(* `flash --probe` goes on.                                                *)
(***************************************************************************)
LEMMA ProbeKept ==
  ASSUME FlashToolInv, [Next]_vars
  PROVE  ProbeUnderway'
<1>1. /\ version \in Versions /\ since \in 1 .. version /\ FilesMade
      /\ result # "running" => plan = <<>>
  BY DEF FlashToolInv, Numbered, PlanMade
<1>2. /\ since \in Nat /\ version \in Nat /\ MaxVersion \in Nat /\ version \in since .. version
      /\ \A v \in since .. version : v \in Versions
  BY <1>1, Sizes DEF Versions
<1> DEFINE A == ProbeApplication
           B == ProbeBootloader
<1>3. ASSUME Probing
      PROVE  /\ plan \in {ToAll, ToApplication, ToFirstReset, A, ToDebugFlash, B, ToFlash,
                          ToReset, <<>>}
             /\ ~waiting => state = "boot"
             /\ plan = ToDebugFlash =>
                  \E v \in since .. version : files["application-debug.elf"] = DebugElf(v)
             /\ plan \in {B, ToFlash, ToReset, <<>>} => \E v \in since .. version : HasApp(v)
             /\ plan = ToFlash => \E v \in Versions : files["bootloader.elf"] = BootloaderElf(v)
             /\ plan \in {ToReset, <<>>} => HoldsBootloader(flash)
  BY <1>3 DEF FlashToolInv, ProbeUnderway
<1>4. CASE UNCHANGED <<files, device, command, plan, since, waiting>> /\ result' # "failed"
           /\ (result = "failed" => result' = result)
           /\ version' \in Nat /\ version <= version'
  <2>1. \A v \in since .. version : v \in since' .. version'
    BY <1>2, <1>4
  <2>2. Probing' => Probing
    BY <1>4 DEF Probing
  <2>3. \A v : HasApp(v) => HasApp(v)'
    BY <1>4, Zenon DEF HasApp, device, HoldsApp
  <2> QED BY <1>3, <1>4, <2>1, <2>2, <2>3 DEF ProbeUnderway, device
<1>5. CASE UNCHANGED vars
  <2>1. \A v : HasApp(v)' = HasApp(v)
    BY <1>5 DEF vars, device, HasApp, HoldsApp
  <2> QED BY <1>5, <2>1 DEF vars, device, FlashToolInv, ProbeUnderway, Probing
<1>6. CASE Fails
  BY <1>6 DEF Fails, ProbeUnderway, Probing
<1>7. CASE \E c \in Commands : Starts(c)
  <2>1. PICK c \in Commands : Starts(c)
    BY <1>7
  <2>2. command' = c /\ plan' = StepsOf(c) /\ waiting' = (state # "boot") /\ state' = state
    BY <2>1 DEF Starts, device
  <2>3. c \in ProbesApplication => StepsOf(c) = A \/ StepsOf(c) = ToAll
    BY ProbeStarts DEF StepsOf, ProbesApplication
  <2>4. ~waiting' => state' = "boot"
    BY <2>2
  <2>5. CASE Probing'
    <3>1. plan' = A \/ plan' = ToAll
      BY <2>2, <2>3, <2>5 DEF Probing
    <3> QED BY <2>4, <3>1, ProbePlansDiffer DEF ProbeUnderway
  <2> QED BY <2>5 DEF ProbeUnderway
<1>8. ASSUME result = "running", plan # <<>>, Continues, Probing
      PROVE  /\ \/ plan = ToAll /\ plan' = ToApplication /\ Head(plan) = "build-bootloader"
                \/ plan = ToApplication /\ plan' = ToFirstReset /\ Head(plan) = "probe-bootloader"
                \/ plan = ToFirstReset /\ plan' = A /\ Head(plan) = "reset"
                \/ plan = A /\ plan' = ToDebugFlash /\ Head(plan) = "build-debug"
                \/ plan = ToDebugFlash /\ plan' = B /\ Head(plan) = "probe-debug"
                \/ plan = B /\ plan' = ToFlash /\ Head(plan) = "build-bootloader"
                \/ plan = ToFlash /\ plan' = ToReset /\ Head(plan) = "probe-bootloader"
                \/ plan = ToReset /\ plan' = <<>> /\ Head(plan) = "reset"
             /\ command' = command /\ since' = since /\ version' = version
             /\ result' = result /\ waiting' = waiting
  <2>1. plan \in {ToAll, ToApplication, ToFirstReset, A, ToDebugFlash, B, ToFlash, ToReset}
    BY <1>3, <1>8
  <2> QED BY <1>8, <2>1, ProbeTails DEF Continues
<1>9. ASSUME Continues, ~Probing
      PROVE  ProbeUnderway'
  BY <1>9 DEF Continues, Probing, ProbeUnderway
<1>10. CASE BuildsApplication \/ Combines \/ Cleans \/ Uploads \/ UploadBreaks
  <2>1. /\ result = "running" /\ plan # <<>> /\ Continues
        /\ Head(plan) \in {"build-application", "combine", "clean", "ota"}
    BY <1>10 DEF BuildsApplication, Combines, Cleans, Uploads, UploadBreaks, At
  <2>2. ~Probing
    BY <1>8, <2>1
  <2> QED BY <1>9, <2>1, <2>2
<1>11. CASE BuildsBootloader
  <2>1. /\ result = "running" /\ plan # <<>> /\ Continues
        /\ Head(plan) = "build-bootloader" /\ flash' = flash /\ dfu' = dfu /\ state' = state
    BY <1>11 DEF BuildsBootloader, At, device
  <2>2. files'["bootloader.elf"] = BootloaderElf(version)
    BY <1>1, <1>11 DEF BuildsBootloader, BootloaderElf, FilesMade, Files
  <2>3. CASE Probing
    <3>1. \/ plan' = ToApplication
          \/ plan = B /\ plan' = ToFlash
      BY <1>8, <2>1, <2>3
    <3>2. command' = command /\ since' = since /\ version' = version /\ result' = result
          /\ waiting' = waiting
      BY <1>8, <2>1, <2>3
    <3>3. ~waiting' => state' = "boot"
      BY <1>3, <2>1, <2>3, <3>2
    <3>4. CASE plan' = ToApplication
      <4> QED BY <3>3, <3>4, ProbePlansDiffer DEF ProbeUnderway
    <3>5. CASE plan = B /\ plan' = ToFlash
      <4>1. PICK v \in since .. version : HasApp(v)
        BY <1>3, <2>3, <3>5
      <4>2. HasApp(v)'
        BY <2>1, <3>2, <4>1, Zenon DEF HasApp, HoldsApp
      <4>3. \E u \in since' .. version' : HasApp(u)'
        BY <3>2, <4>2
      <4> QED BY <1>1, <2>2, <3>3, <3>5, <4>3, ProbePlansDiffer DEF ProbeUnderway
    <3> QED BY <3>1, <3>4, <3>5
  <2> QED BY <1>9, <2>1, <2>3
<1>12. CASE BuildsDebug
  <2>1. /\ result = "running" /\ plan # <<>> /\ Continues
        /\ Head(plan) = "build-debug" /\ state' = state
    BY <1>12 DEF BuildsDebug, At, device
  <2>2. files'["application-debug.elf"] = DebugElf(version)
    BY <1>1, <1>12 DEF BuildsDebug, DebugElf, FilesMade, Files
  <2>3. CASE Probing
    <3>1. plan' = ToDebugFlash /\ since' = since /\ version' = version /\ waiting' = waiting
      BY <1>8, <2>1, <2>3
    <3>2. \E v \in since' .. version' : files'["application-debug.elf"] = DebugElf(v)
      BY <1>2, <2>2, <3>1
    <3>3. ~waiting' => state' = "boot"
      BY <1>3, <2>1, <2>3, <3>1
    <3> QED BY <3>1, <3>2, <3>3, ProbePlansDiffer DEF ProbeUnderway
  <2> QED BY <1>9, <2>1, <2>3
<1>13. CASE Flashes
  <2>1. PICK step \in FlashSteps :
          /\ At(step) /\ flash' = Written(ImageFor(step)) /\ state' = StateAfter(ImageFor(step))
          /\ Continues /\ files' = files /\ dfu' = dfu
    BY <1>13 DEF Flashes
  <2>2. result = "running" /\ plan # <<>> /\ Head(plan) = step
    BY <2>1 DEF At
  <2>3. CASE Probing
    <3>1. since' = since /\ version' = version /\ waiting' = waiting
      BY <1>8, <2>1, <2>2, <2>3
    <3>2. ~waiting' => state' = "boot"
      BY <1>3, <2>1, <2>3, <3>1 DEF StateAfter
    <3>3. CASE plan = ToApplication
      <4>1. plan' = ToFirstReset
        BY <2>1, <3>3, ProbeTails DEF Continues
      <4> QED BY <3>2, <4>1, ProbePlansDiffer DEF ProbeUnderway
    <3>4. CASE plan = ToDebugFlash
      <4>1. plan' = B /\ step = "probe-debug"
        BY <2>1, <2>2, <3>4, ProbeTails DEF Continues
      <4>2. PICK v \in since .. version : files["application-debug.elf"] = DebugElf(v)
        BY <1>3, <2>3, <3>4
      <4>3. flash' = Written(DebugElf(v))
        BY <2>1, <4>1, <4>2 DEF ImageFor
      <4>4. HoldsApp(flash', v)
        BY <1>2, <4>3, DebugWritten
      <4>5. \E u \in since' .. version' : HasApp(u)'
        BY <3>1, <4>4 DEF HasApp
      <4> QED BY <3>2, <4>1, <4>5, ProbePlansDiffer DEF ProbeUnderway
    <3>5. CASE plan = ToFlash
      <4>1. plan' = ToReset /\ step = "probe-bootloader"
        BY <2>1, <2>2, <3>5, ProbeTails DEF Continues
      <4>2. PICK w \in Versions : files["bootloader.elf"] = BootloaderElf(w)
        BY <1>3, <2>3, <3>5
      <4>3. flash' = Written(BootloaderElf(w))
        BY <2>1, <4>1, <4>2 DEF ImageFor
      <4>4. PICK v \in since .. version : HasApp(v)
        BY <1>3, <2>3, <3>5
      <4>5. HoldsBootloader(flash') /\ (HoldsApp(flash, v) => HoldsApp(flash', v))
        BY <1>2, <4>3, <4>4, BootloaderWritten
      <4>6. HoldsApp(dfu, v) => HoldsApp(dfu', v)
        BY <2>1, Zenon
      <4>7. HasApp(v)'
        BY <3>1, <4>4, <4>5, <4>6, Zenon DEF HasApp
      <4>8. \E u \in since' .. version' : HasApp(u)'
        BY <3>1, <4>7
      <4> QED BY <3>2, <4>1, <4>5, <4>8, ProbePlansDiffer DEF ProbeUnderway
    <3>6. plan \in {ToApplication, ToDebugFlash, ToFlash}
      BY <1>8, <2>1, <2>2, <2>3 DEF FlashSteps
    <3> QED BY <3>3, <3>4, <3>5, <3>6
  <2> QED BY <1>9, <2>1, <2>3
<1>14. ASSUME Exchanges \/ JustLoads, Probing, UNCHANGED <<waiting, since, version>>
       PROVE  /\ ~waiting' => state' = "boot"
              /\ plan \in {B, ToFlash, ToReset, <<>>} =>
                   \E v \in since' .. version' : HasApp(v)'
              /\ plan \in {ToReset, <<>>} => HoldsBootloader(flash')
  <2>1. CASE JustLoads
    <3>1. flash' = flash /\ dfu' = dfu /\ state' = state
      BY <2>1 DEF JustLoads, device
    <3>2. \A v : HasApp(v) => HasApp(v)'
      BY <1>14, <3>1, Zenon DEF HasApp, HoldsApp
    <3> QED BY <1>3, <1>14, <3>1, <3>2
  <2>2. CASE Exchanges
    <3>1. waiting /\ waiting'
      BY <1>3, <1>14, <2>2 DEF Exchanges
    <3>2. \A v \in Versions : HasApp(v) => HasApp(v)'
      BY <1>14, <2>2, <3>1, ExchangesKeep
    <3>3. HoldsBootloader(flash) => HoldsBootloader(flash')
      BY <1>1, <1>14, <2>2, <3>1, ExchangesKeep
    <3> QED BY <1>2, <1>3, <1>14, <3>1, <3>2, <3>3
  <2> QED BY <1>14, <2>1, <2>2
<1>15. CASE ProbeResets
  <2>1. /\ result = "running" /\ plan # <<>> /\ Continues /\ Head(plan) = "reset"
        /\ files' = files /\ (Exchanges \/ JustLoads)
    BY <1>15 DEF ProbeResets, At
  <2>2. CASE Probing
    <3>1. /\ \/ plan = ToFirstReset /\ plan' = A
             \/ plan = ToReset /\ plan' = <<>>
          /\ UNCHANGED <<waiting, since, version>>
      BY <1>8, <2>1, <2>2
    <3>2. /\ ~waiting' => state' = "boot"
          /\ plan \in {B, ToFlash, ToReset, <<>>} =>
               \E v \in since' .. version' : HasApp(v)'
          /\ plan \in {ToReset, <<>>} => HoldsBootloader(flash')
      BY <1>14, <2>1, <2>2, <3>1
    <3>3. CASE plan = ToFirstReset /\ plan' = A
      BY <3>2, <3>3, ProbePlansDiffer DEF ProbeUnderway
    <3>4. CASE plan = ToReset /\ plan' = <<>>
      <4>1. \E v \in since' .. version' : HasApp(v)'
        BY <3>2, <3>4
      <4>2. HoldsBootloader(flash')
        BY <3>2, <3>4
      <4> QED BY <3>2, <3>4, <4>1, <4>2, ProbePlansDiffer DEF ProbeUnderway
    <3> QED BY <3>1, <3>3, <3>4
  <2> QED BY <1>9, <2>1, <2>2
<1>16. CASE Restarts
  <2>1. Exchanges /\ UNCHANGED <<version, files, command, plan, result, since, waiting>>
    BY <1>16 DEF Restarts
  <2>2. Probing' = Probing
    BY <2>1 DEF Probing
  <2>3. CASE Probing
    <3>1. /\ ~waiting' => state' = "boot"
          /\ plan \in {B, ToFlash, ToReset, <<>>} =>
               \E v \in since' .. version' : HasApp(v)'
          /\ plan \in {ToReset, <<>>} => HoldsBootloader(flash')
      BY <1>14, <2>1, <2>3
    <3> QED BY <1>3, <2>1, <2>3, <3>1 DEF ProbeUnderway
  <2> QED BY <2>2, <2>3 DEF ProbeUnderway
<1>17. CASE SourcesChange
  BY <1>2, <1>4, <1>17 DEF SourcesChange, Probing, ProbeUnderway
<1>18. CASE Succeeds
  BY <1>2, <1>4, <1>18 DEF Succeeds
<1> QED
  BY <1>5, <1>6, <1>7, <1>10, <1>11, <1>12, <1>13, <1>15, <1>16, <1>17, <1>18 DEF Next

-----------------------------------------------------------------------------
(***************************************************************************)
(* Every step keeps the invariant.                                         *)
(***************************************************************************)
LEMMA NumbersKept ==
  ASSUME FlashToolInv, [Next]_vars
  PROVE  Numbered' /\ CommandMade'
<1>1. /\ version \in Nat /\ 1 <= version /\ version <= MaxVersion /\ MaxVersion \in Nat
      /\ since \in 1 .. version /\ commands \in 0 .. MaxCommands /\ MaxCommands \in Nat
      /\ CommandMade
  BY Sizes DEF FlashToolInv, Numbered, Versions
<1> USE DEF Numbered, Versions
<1>2. CASE \E c \in Commands : Starts(c)
  <2>1. PICK c \in Commands : Starts(c)
    BY <1>2
  <2>2. Numbered'
    BY <1>1, <2>1 DEF Starts
  <2>3. CommandMade'
    BY <1>1, <2>1 DEF Starts, CommandMade
  <2> QED BY <2>2, <2>3
<1>3. CASE SourcesChange
  BY <1>1, <1>3 DEF SourcesChange, CommandMade
<1>4. CASE Fails \/ Succeeds \/ Restarts \/ UNCHANGED vars
  BY <1>1, <1>4 DEF Fails, Succeeds, Restarts, vars, CommandMade
<1>5. CASE Continues
  BY <1>1, <1>5 DEF Continues, CommandMade
<1>6. CASE BuildsBootloader \/ BuildsApplication \/ BuildsDebug \/ Combines \/ Cleans
  BY <1>5, <1>6 DEF BuildsBootloader, BuildsApplication, BuildsDebug, Combines, Cleans
<1>7. CASE Flashes \/ ProbeResets \/ Uploads \/ UploadBreaks
  BY <1>5, <1>7 DEF Flashes, ProbeResets, Uploads, UploadBreaks
<1> QED BY <1>2, <1>3, <1>4, <1>6, <1>7 DEF Next

LEMMA InvKept == FlashToolInv /\ [Next]_vars => FlashToolInv'
  BY NumbersKept, FilesKept, DeviceKept, PlanKept, ProbeKept DEF FlashToolInv

LEMMA AlwaysInv == Safety => []FlashToolInv
  BY InitInv, InvKept, PTL DEF Safety

(***************************************************************************)
(* Types: the files, the flash and DFU hold bytes of builds, at addresses  *)
(* of the flash; the combined image fits.                                  *)
(***************************************************************************)
THEOREM FlashToolTypesHold == Safety => []TypeOK
<1>1. FlashToolInv => TypeOK
  <2> SUFFICES ASSUME FlashToolInv PROVE TypeOK
    OBVIOUS
  <2>1. \A f \in Files : IsImage(files[f])
    BY FilesAreImages DEF FlashToolInv
  <2>2. Len(plan) <= 8
    BY DEF FlashToolInv, PlanMade, Plans
  <2> QED BY <2>1, <2>2
      DEF FlashToolInv, TypeOK, Numbered, Versions, FilesMade, DeviceMade, CommandMade, IsImage
<1> QED BY <1>1, AlwaysInv, PTL

(***************************************************************************)
(* `flash --probe` leaves a bootloader and an application at least as new  *)
(* as the command, whatever other commands left in build/ and in ACTIVE;   *)
(* the application may be in DFU only if an update was pending or          *)
(* unconfirmed when the command began.                                     *)
(***************************************************************************)
THEOREM ProbeRuns == Safety => []ProbeLeavesRunning
<1>1. FlashToolInv => ProbeLeavesRunning
  <2> SUFFICES ASSUME FlashToolInv, result = "ok", command \in ProbesApplication
               PROVE  /\ HoldsBootloader(flash)
                      /\ \E v \in since .. version :
                           HoldsApp(flash, v) \/ (waiting /\ HoldsApp(dfu, v))
    BY DEF ProbeLeavesRunning
  <2>1. plan = <<>>
    BY DEF FlashToolInv, PlanMade
  <2>2. Probing
    BY DEF Probing
  <2> QED BY <2>1, <2>2 DEF FlashToolInv, ProbeUnderway, HasApp
<1> QED BY <1>1, AlwaysInv, PTL

(***************************************************************************)
(* An update in the network with a whole UF2 file puts the application     *)
(* where it was linked for, so that the device runs it once it has         *)
(* exchanged ACTIVE and DFU.                                               *)
(***************************************************************************)
LEMMA UploadsRun ==
  ASSUME FlashToolInv, Uploads, IsWhole(files["application.uf2"])
  PROVE  Runs(Exchanged')
<1> DEFINE bin == Uf2ToActiveBinary(files["application.uf2"])
<1>1. /\ Runs(flash) /\ flash' = flash
      /\ dfu' = [a \in Active |-> IF a - ActiveStart \in DOMAIN bin
                                  THEN bin[a - ActiveStart] ELSE dfu[a]]
  BY DEF Uploads
<1>2. PICK v \in Versions : files["application.uf2"] = ElfToUf2(AppElf(v))
  BY DEF IsWhole, AppElf, Versions
<1>3. \A a \in Layout[v] : a - ActiveStart \in DOMAIN bin
                           /\ bin[a - ActiveStart] = Byte("app", v)
  BY <1>2, BinaryHoldsApp
<1> HIDE DEF bin
<1> DEFINE new == Exchanged'
<1>4. new = [a \in Addresses |-> IF a \in Active THEN dfu'[a] ELSE flash[a]]
  BY <1>1 DEF Exchanged
<1> HIDE DEF new
<1>5. \A a \in Boot2 \cup Bootloader : new[a] = flash[a]
  <2>1. \A a \in Boot2 \cup Bootloader : a \in Addresses /\ a \notin Active
    BY LayoutAssumption, Map DEF LayoutAssumption, Active
  <2> QED BY <1>4, <2>1
<1>6. HoldsBootloader(new)
  BY <1>1, <1>5 DEF Runs, HoldsBootloader
<1>7. \A a \in Layout[v] : new[a] = Byte("app", v)
  BY <1>1, <1>3, <1>4, Map
<1>8. Runs(new)
  BY <1>6, <1>7 DEF Runs, HoldsApp, Versions
<1> QED BY <1>8 DEF new

THEOREM UploadsPlaceApp == Safety => UploadInPlace
<1>1. FlashToolInv /\ [Next]_vars =>
        [ At("ota") /\ IsWhole(files["application.uf2"]) /\ state' = "pending" /\ state = "boot" =>
            Runs(Exchanged') ]_vars
  <2> SUFFICES ASSUME FlashToolInv, [Next]_vars, At("ota"),
                      IsWhole(files["application.uf2"]), state' = "pending", state = "boot"
               PROVE  Runs(Exchanged')
    OBVIOUS
  <2>1. result = "running" /\ plan # <<>> /\ Head(plan) = "ota"
    BY DEF At
  <2>2. Uploads
    <3>1. ~Flashes
      BY <2>1 DEF Flashes, At, FlashSteps
    <3>2. ~Fails
      BY <2>1 DEF Fails, FlashInterrupted, At, FlashSteps, device
    <3>3. ~(\/ BuildsBootloader \/ BuildsApplication \/ BuildsDebug
            \/ Combines \/ Cleans \/ UploadBreaks)
      BY DEF BuildsBootloader, BuildsApplication, BuildsDebug, Combines, Cleans, UploadBreaks,
             device
    <3>4. ~((\E c \in Commands : Starts(c)) \/ Succeeds \/ SourcesChange \/ UNCHANGED vars)
      BY DEF Starts, Succeeds, SourcesChange, vars, device
    <3>5. ~(ProbeResets \/ Restarts)
      BY DEF ProbeResets, Restarts, Exchanges, JustLoads, device
    <3> QED BY <3>1, <3>2, <3>3, <3>4, <3>5 DEF Next
  <2> QED BY <2>2, UploadsRun
<1> QED BY <1>1, AlwaysInv, PTL DEF Safety, UploadInPlace

=============================================================================
