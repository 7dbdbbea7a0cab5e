------------------------ MODULE FirmwareUpdateProofs ------------------------
(***************************************************************************)
(* Theorems of FirmwareUpdate, for any number of web tasks and uploads,    *)
(* images of any length and partitions of any size, and any number of      *)
(* restarts. The steps are stated one by one, because Device takes them    *)
(* too, together with steps of the boot.                                   *)
(***************************************************************************)
EXTENDS FirmwareUpdate, Integers, TLAPS

(***************************************************************************)
(* Arithmetic of erase blocks.                                             *)
(***************************************************************************)
LEMMA Multiples ==
  ASSUME NEW a \in Nat, NEW b \in Nat, a <= b, NEW e \in Nat
  PROVE  a * e <= b * e
<1>1. PICK d \in Nat : b = a + d
  <2>1. b - a \in Nat /\ b = a + (b - a)
    OBVIOUS
  <2> QED BY <2>1
<1>2. b * e = a * e + d * e /\ d * e \in Nat /\ a * e \in Nat
  BY <1>1, Z3
<1> QED BY <1>2

LEMMA Rounding ==
  ASSUME NEW n \in Nat, NEW e \in Nat \ {0}
  PROVE  LET c == (n + e - 1) \div e
         IN  c \in Nat /\ n <= c * e /\ c * e < n + e
<1> DEFINE c == (n + e - 1) \div e
<1>1. n + e - 1 \in Nat
  OBVIOUS
<1>2. c \in Nat /\ c * e <= n + e - 1 /\ n + e - 1 < (c + 1) * e
  BY <1>1, SMT
<1>3. (c + 1) * e = c * e + e /\ c * e \in Nat
  BY <1>2, SMT
<1> HIDE DEF c
<1>4. n <= c * e /\ c * e < n + e
  BY <1>2, <1>3
<1> QED BY <1>2, <1>4 DEF c

(***************************************************************************)
(* An acceptable upload has at least one chunk and no more than ACTIVE has *)
(* pages, and its chunks cover exactly the pages that begin before its     *)
(* end.                                                                    *)
(***************************************************************************)
LEMMA ChunksCoverImage ==
  ASSUME NEW u \in Uploads, Acceptable(u)
  PROVE  /\ Chunks(u) \in 1 .. ActivePages
         /\ \A p \in Nat : p * EraseSize < u.length => p < Chunks(u)
<1> DEFINE c == Chunks(u)
           n == u.length
<1>1. EraseSize \in Nat \ {0} /\ ActivePages \in Nat \ {0}
  BY SizesAssumption DEF SizesAssumption
<1>2. n \in Nat /\ n > 0 /\ n <= ActivePages * EraseSize
  BY UploadsAssumption DEF UploadsAssumption, Upload, Acceptable, ActiveSize
<1>3. c \in Nat /\ n <= c * EraseSize /\ c * EraseSize < n + EraseSize
  BY <1>1, <1>2, Rounding DEF Chunks
<1> HIDE DEF c, n
<1>4. c # 0
  BY <1>1, <1>2, <1>3
<1>5. c <= ActivePages
  <2> SUFFICES ASSUME ActivePages + 1 <= c PROVE FALSE
    BY <1>1, <1>3
  <2>1. (ActivePages + 1) * EraseSize <= c * EraseSize
    BY <1>1, <1>3, Multiples
  <2>2. (ActivePages + 1) * EraseSize = ActivePages * EraseSize + EraseSize
    BY <1>1, SMT
  <2>3. ActivePages * EraseSize \in Nat /\ c * EraseSize \in Nat
    BY <1>1, <1>3, SMT
  <2> QED BY <1>1, <1>2, <1>3, <2>1, <2>2, <2>3
<1>6. ASSUME NEW p \in Nat, p * EraseSize < n PROVE p < c
  <2> SUFFICES ASSUME c <= p PROVE FALSE
    BY <1>3
  <2>1. c * EraseSize <= p * EraseSize
    BY <1>1, <1>3, Multiples
  <2>2. p * EraseSize \in Nat /\ c * EraseSize \in Nat
    BY <1>1, <1>3, SMT
  <2> QED BY <1>2, <1>3, <1>6, <2>1, <2>2
<1>7. c \in 1 .. ActivePages
  BY <1>1, <1>3, <1>4, <1>5
<1> QED BY <1>6, <1>7 DEF c, n

LEMMA PageTypes ==
  /\ \A image \in Images, n \in Pages : Block(image, n) \in Page
  /\ Erased \in Page /\ Torn \in Page
  BY DEF Block, Page, Erased, Torn

LEMMA PagesOfParts ==
  /\ Pages \subseteq 0 .. ActivePages /\ Pages \subseteq Nat
  /\ 0 \in Pages
  /\ \A p \in Pages, n \in 1 .. ActivePages : p + 1 < n => p + 1 \in Pages
  BY SizesAssumption DEF SizesAssumption, Pages

-----------------------------------------------------------------------------
(***************************************************************************)
(* The inductive invariant, beside the types.                              *)
(*                                                                         *)
(* What is known of an upload under way: it passed the checks, it has not  *)
(* written its last page, and unless another upload wrote over it the      *)
(* pages behind it are its own.                                            *)
(***************************************************************************)
Uploading ==
  /\ \A t \in WebTasks : pc[t] = "idle" => off[t] = 0
  /\ \A t \in WebTasks :
       pc[t] = "reading" => Acceptable(cur[t]) /\ off[t] < Chunks(cur[t])
  /\ \A t \in WebTasks :
       pc[t] = "reading" /\ cur[t] \notin spoiled =>
         \A p \in Pages : p < off[t] => dfu[p] = Block(cur[t], p)

(***************************************************************************)
(* ACTIVE always holds what its label says, also while the bootloader has  *)
(* it, and so does DFU from the mark of an update until the exchange is    *)
(* taken back.                                                             *)
(***************************************************************************)
PartsSound ==
  /\ Sound(active, label.active)
  /\ state = "swap" => Sound(dfu, label.dfu)

(***************************************************************************)
(* Unless an exchange awaits confirmation the factory's image is in        *)
(* ACTIVE; when one does it is in DFU, and an upload is in ACTIVE.         *)
(***************************************************************************)
Exchanged == state = "swap" /\ swapped
Marked == state = "swap" /\ ~swapped

Labels ==
  /\ ~Exchanged => label.active = Factory
  /\ Exchanged => label.dfu = Factory /\ label.active \in Uploads
  /\ Marked => label.dfu \in Uploads

(***************************************************************************)
(* The types, in parts that the steps disturb separately.                  *)
(***************************************************************************)
PartTypes ==
  /\ active \in [Pages -> Page]
  /\ dfu \in [0 .. ActivePages -> Page]
  /\ label \in [active : Images \cup {None}, dfu : Images \cup {None}]
  /\ spoiled \subseteq Uploads

TaskTypes ==
  /\ pc \in [WebTasks -> {"idle", "reading", "marked"}]
  /\ cur \in [WebTasks -> Uploads \cup {None}]
  /\ off \in [WebTasks -> Pages]
  /\ \A t \in WebTasks : pc[t] # "idle" => cur[t] \in Uploads /\ mode = "app"
  /\ outcome \in [Uploads -> {"new", "refused", "uploading", "failed", "cut_off", "marked"}]

ModeTypes ==
  /\ mode \in {"bootloader", "app"}
  /\ state \in {"boot", "swap", "revert"}
  /\ swapped \in BOOLEAN

FwInv ==
  /\ ModeTypes /\ TaskTypes /\ PartTypes
  /\ Uploading /\ PartsSound /\ Labels

LEMMA InitFw == Init => FwInv
<1> SUFFICES ASSUME Init PROVE FwInv
  OBVIOUS
<1>1. ModeTypes
  BY Zenon DEF Init, ModeTypes
<1>2. TaskTypes /\ Uploading
  BY PagesOfParts DEF Init, TaskTypes, Uploading
<1>3. PartTypes
  BY PageTypes, SizesAssumption, UploadsAssumption
  DEF Init, PartTypes, Images
<1>4. PartsSound
  BY DEF Init, PartsSound, Sound, HoldsWhole, Images
<1>5. Labels
  BY DEF Init, Labels, Exchanged, Marked
<1> QED BY <1>1, <1>2, <1>3, <1>4, <1>5 DEF FwInv

-----------------------------------------------------------------------------
(***************************************************************************)
(* Steps that leave the partitions alone.                                  *)
(***************************************************************************)
LEMMA PartsStay ==
  ASSUME FwInv, UNCHANGED <<flash, label, spoiled>>
  PROVE  PartTypes' /\ PartsSound' /\ Labels'
<1>1. PartTypes'
  BY DEF FwInv, flash, PartTypes
<1>2. PartsSound'
  BY DEF FwInv, flash, PartsSound, Sound, HoldsWhole
<1>3. Labels'
  BY DEF FwInv, flash, Labels, Exchanged, Marked
<1> QED BY <1>1, <1>2, <1>3

LEMMA ModesStay ==
  ASSUME FwInv, UNCHANGED <<state, swapped>>, mode' \in {"bootloader", "app"}
  PROVE  ModeTypes'
  BY DEF FwInv, ModeTypes

LEMMA RefuseStep ==
  ASSUME FwInv, NEW t \in WebTasks, NEW u \in Uploads, Refuse(t, u)
  PROVE  FwInv'
<1> USE DEF FwInv, Refuse
<1>1. PartTypes' /\ PartsSound' /\ Labels'
  BY PartsStay
<1>2. ModeTypes'
  BY DEF ModeTypes, flash
<1>3. TaskTypes'
  BY DEF TaskTypes, task
<1>4. Uploading'
  BY DEF Uploading, task, flash
<1> QED BY <1>1, <1>2, <1>3, <1>4

LEMMA AcceptStep ==
  ASSUME FwInv, NEW t \in WebTasks, NEW u \in Uploads, Accept(t, u)
  PROVE  FwInv'
<1> USE DEF FwInv, Accept
<1>1. PartTypes' /\ PartsSound' /\ Labels'
  BY PartsStay
<1>2. ModeTypes'
  BY DEF ModeTypes, flash
<1>3. TaskTypes'
  BY DEF TaskTypes
<1>4. Uploading'
  <2>1. off[t] = 0 /\ Chunks(u) > 0
    BY ChunksCoverImage DEF Uploading
  <2>2. /\ pc' = [pc EXCEPT ![t] = "reading"] /\ cur' = [cur EXCEPT ![t] = u]
        /\ UNCHANGED <<off, dfu, spoiled>> /\ Acceptable(u)
    BY DEF flash
  <2> QED BY <2>1, <2>2, PagesOfParts DEF Uploading, TaskTypes
<1> QED BY <1>1, <1>2, <1>3, <1>4

(***************************************************************************)
(* An upload that ends without a mark leaves what it wrote.                *)
(***************************************************************************)
LEMMA FailedStep ==
  ASSUME FwInv, NEW t \in WebTasks, pc[t] = "reading",
         outcome' = [outcome EXCEPT ![cur[t]] = "failed"], Idle(t),
         UNCHANGED <<mode, flash, label, spoiled, resets>>
  PROVE  FwInv'
<1> USE DEF FwInv, Idle
<1>1. PartTypes' /\ PartsSound' /\ Labels'
  BY PartsStay
<1>2. ModeTypes'
  BY DEF ModeTypes, flash
<1>3. TaskTypes'
  BY PagesOfParts DEF TaskTypes
<1>4. Uploading'
  BY PagesOfParts DEF Uploading, TaskTypes, flash
<1> QED BY <1>1, <1>2, <1>3, <1>4

(***************************************************************************)
(* What the write of a page does: the upload that writes has its own       *)
(* blocks up to that page, and so has every other one that is not spoiled. *)
(***************************************************************************)
LEMMA WriteStep ==
  ASSUME FwInv, NEW t \in WebTasks, pc[t] = "reading", WritePage(t)
  PROVE  /\ dfu' \in [0 .. ActivePages -> Page]
         /\ spoiled \subseteq spoiled' /\ spoiled' \subseteq Uploads
         /\ \A v \in WebTasks :
              pc[v] = "reading" /\ cur[v] \notin spoiled' =>
                \A p \in Pages : p < off[v] => dfu'[p] = Block(cur[v], p)
         /\ cur[t] \notin spoiled' =>
              \A p \in Pages : p <= off[t] => dfu'[p] = Block(cur[t], p)
<1>1. off[t] \in Pages /\ off[t] \in 0 .. ActivePages /\ cur[t] \in Uploads
  BY PagesOfParts DEF FwInv, TaskTypes
<1>2. dfu' = [dfu EXCEPT ![off[t]] = Block(cur[t], off[t])] /\ Block(cur[t], off[t]) \in Page
  BY <1>1, PageTypes DEF WritePage, Images
<1>3. dfu' \in [0 .. ActivePages -> Page]
  BY <1>2 DEF FwInv, PartTypes
<1>4. spoiled \subseteq spoiled' /\ spoiled' \subseteq Uploads
  BY DEF WritePage, FwInv, PartTypes, TaskTypes
<1>5. /\ dfu'[off[t]] = Block(cur[t], off[t])
      /\ \A p \in Pages : p # off[t] => dfu'[p] = dfu[p]
  BY <1>1, <1>2, PagesOfParts DEF FwInv, PartTypes
<1>6. ASSUME NEW v \in WebTasks, pc[v] = "reading", cur[v] \notin spoiled',
             NEW p \in Pages, p < off[v]
      PROVE  dfu'[p] = Block(cur[v], p)
  <2>1. cur[v] \notin spoiled
    BY <1>4, <1>6
  <2>2. dfu[p] = Block(cur[v], p)
    BY <1>6, <2>1 DEF FwInv, Uploading
  <2>3. v = t \/ ~(off[t] < off[v])
    BY <1>6 DEF WritePage
  <2>4. off[v] \in Nat /\ off[t] \in Nat /\ p \in Nat
    BY PagesOfParts DEF FwInv, TaskTypes
  <2>5. p # off[t]
    BY <1>6, <2>3, <2>4
  <2> QED BY <1>5, <2>2, <2>5
<1>7. ASSUME cur[t] \notin spoiled', NEW p \in Pages, p <= off[t]
      PROVE  dfu'[p] = Block(cur[t], p)
  <2>1. p = off[t] \/ p < off[t]
    BY <1>1, <1>7, PagesOfParts
  <2> QED BY <1>5, <1>6, <1>7, <2>1
<1> QED BY <1>3, <1>4, <1>6, <1>7

LEMMA WriteChunkStep ==
  ASSUME FwInv, NEW t \in WebTasks, WriteChunk(t)
  PROVE  FwInv'
<1> USE DEF FwInv, WriteChunk
<1>1. /\ dfu' \in [0 .. ActivePages -> Page]
      /\ spoiled \subseteq spoiled' /\ spoiled' \subseteq Uploads
      /\ \A v \in WebTasks :
           pc[v] = "reading" /\ cur[v] \notin spoiled' =>
             \A p \in Pages : p < off[v] => dfu'[p] = Block(cur[v], p)
      /\ cur[t] \notin spoiled' =>
           \A p \in Pages : p <= off[t] => dfu'[p] = Block(cur[t], p)
  BY WriteStep
<1>2. /\ cur[t] \in Uploads /\ Acceptable(cur[t]) /\ off[t] < Chunks(cur[t])
      /\ off[t] + 1 # Chunks(cur[t])
  BY DEF TaskTypes, Uploading, Last
<1>3. Chunks(cur[t]) \in 1 .. ActivePages /\ off[t] \in Nat
  BY <1>2, ChunksCoverImage, PagesOfParts DEF TaskTypes
<1>4. off[t] + 1 < Chunks(cur[t]) /\ off[t] + 1 \in Pages
  BY <1>2, <1>3, PagesOfParts DEF TaskTypes
<1>5. ModeTypes'
  BY DEF ModeTypes
<1>6. TaskTypes'
  BY <1>4 DEF TaskTypes
<1>7. PartTypes'
  BY <1>1 DEF PartTypes
<1>8. Uploading'
  <2>1. ASSUME NEW v \in WebTasks, pc'[v] = "reading"
        PROVE  /\ Acceptable(cur'[v]) /\ off'[v] < Chunks(cur'[v])
               /\ cur'[v] \notin spoiled' =>
                    \A p \in Pages : p < off'[v] => dfu'[p] = Block(cur'[v], p)
    <3>1. CASE v = t
      <4>1. off'[v] = off[t] + 1 /\ cur'[v] = cur[t]
        BY <3>1 DEF TaskTypes
      <4>2. \A p \in Pages : p < off[t] + 1 => p <= off[t]
        BY <1>3, PagesOfParts
      <4> QED BY <1>1, <1>2, <1>4, <4>1, <4>2
    <3>2. CASE v # t
      BY <1>1, <2>1, <3>2 DEF TaskTypes, Uploading
    <3> QED BY <3>1, <3>2
  <2>2. ASSUME NEW v \in WebTasks, pc'[v] = "idle" PROVE off'[v] = 0
    BY <2>2 DEF TaskTypes, Uploading
  <2> QED BY <2>1, <2>2 DEF Uploading
<1>9. PartsSound'
  BY <1>1 DEF PartsSound, Sound, HoldsWhole, VerifyBooted
<1>10. Labels'
  BY DEF Labels, Exchanged, Marked
<1> QED BY <1>5, <1>6, <1>7, <1>8, <1>9, <1>10

LEMMA MarkFailsStep ==
  ASSUME FwInv, NEW t \in WebTasks, MarkFails(t)
  PROVE  FwInv'
<1> USE DEF FwInv, MarkFails, Idle
<1>1. /\ dfu' \in [0 .. ActivePages -> Page]
      /\ spoiled \subseteq spoiled' /\ spoiled' \subseteq Uploads
      /\ \A v \in WebTasks :
           pc[v] = "reading" /\ cur[v] \notin spoiled' =>
             \A p \in Pages : p < off[v] => dfu'[p] = Block(cur[v], p)
  BY WriteStep
<1>2. ModeTypes'
  BY DEF ModeTypes
<1>3. TaskTypes'
  BY PagesOfParts DEF TaskTypes
<1>4. PartTypes'
  BY <1>1 DEF PartTypes
<1>5. Uploading'
  <2>1. ASSUME NEW v \in WebTasks, pc'[v] = "reading"
        PROVE  v # t /\ cur'[v] = cur[v] /\ off'[v] = off[v] /\ pc[v] = "reading"
    BY <2>1 DEF TaskTypes
  <2>2. ASSUME NEW v \in WebTasks, pc'[v] = "idle" PROVE off'[v] = 0
    BY <2>2 DEF TaskTypes, Uploading
  <2> QED BY <1>1, <2>1, <2>2 DEF Uploading
<1>6. PartsSound'
  BY <1>1 DEF PartsSound, Sound, HoldsWhole, VerifyBooted
<1>7. Labels'
  BY DEF Labels, Exchanged, Marked
<1> QED BY <1>2, <1>3, <1>4, <1>5, <1>6, <1>7

(***************************************************************************)
(* The last page and the mark: DFU holds the whole image, or another       *)
(* upload wrote over it.                                                   *)
(***************************************************************************)
LEMMA FinishUploadStep ==
  ASSUME FwInv, NEW t \in WebTasks, FinishUpload(t)
  PROVE  FwInv'
<1> USE DEF FwInv, FinishUpload, MarkUpdated
<1>1. /\ dfu' \in [0 .. ActivePages -> Page]
      /\ spoiled \subseteq spoiled' /\ spoiled' \subseteq Uploads
      /\ \A v \in WebTasks :
           pc[v] = "reading" /\ cur[v] \notin spoiled' =>
             \A p \in Pages : p < off[v] => dfu'[p] = Block(cur[v], p)
      /\ cur[t] \notin spoiled' =>
           \A p \in Pages : p <= off[t] => dfu'[p] = Block(cur[t], p)
  BY WriteStep
<1>2. /\ cur[t] \in Uploads /\ Acceptable(cur[t])
      /\ off[t] + 1 = Chunks(cur[t])
      /\ cur[t] # Factory
  BY UploadsAssumption DEF UploadsAssumption, TaskTypes, Uploading, Last
<1>3. label'.dfu = cur[t] /\ label'.active = label.active
  BY DEF PartTypes
<1>4. ModeTypes'
  BY Zenon DEF ModeTypes
<1>5. TaskTypes'
  BY DEF TaskTypes
<1>6. PartTypes'
  BY <1>1, <1>2 DEF PartTypes, Images
<1>7. Uploading'
  BY <1>1 DEF Uploading, TaskTypes
<1>8. PartsSound'
  <2>1. Sound(active, label.active)'
    BY <1>1, <1>3 DEF PartsSound, Sound, HoldsWhole
  <2>2. ASSUME cur[t] \notin spoiled', NEW p \in Pages, p * EraseSize < cur[t].length
        PROVE  dfu'[p] = Block(cur[t], p)
    <3>1. p \in Nat /\ off[t] \in Nat
      BY PagesOfParts DEF TaskTypes
    <3>2. p < off[t] + 1
      BY <1>2, <2>2, <3>1, ChunksCoverImage
    <3>3. p <= off[t]
      BY <3>1, <3>2
    <3> QED BY <1>1, <2>2, <3>3
  <2>3. Sound(dfu, label.dfu)'
    BY <1>2, <1>3, <2>2 DEF Sound, HoldsWhole, Images
  <2> QED BY <2>1, <2>3 DEF PartsSound
<1>9. Labels'
  <2>1. ~Exchanged' /\ Marked'
    BY Zenon DEF Exchanged, Marked
  <2>2. ~Exchanged
    BY DEF VerifyBooted, Exchanged
  <2> QED BY <1>2, <1>3, <2>1, <2>2 DEF Labels
<1> QED BY <1>4, <1>5, <1>6, <1>7, <1>8, <1>9

(***************************************************************************)
(* A restart, which may tear the page that was being written: no update is *)
(* marked or unconfirmed then.                                             *)
(***************************************************************************)
Tears ==
  \E t \in WebTasks :
    /\ pc[t] = "reading" /\ VerifyBooted
    /\ \E content \in {Torn, Block(cur[t], off[t])} : dfu' = [dfu EXCEPT ![off[t]] = content]

LEMMA RestartStep ==
  ASSUME FwInv, Restarted, CutOff, UNCHANGED dfu \/ Tears
  PROVE  FwInv'
<1> USE DEF FwInv, Restarted, CutOff
<1>1. dfu' \in [0 .. ActivePages -> Page] /\ (state = "swap" => dfu' = dfu)
  <2>1. CASE UNCHANGED dfu
    BY <2>1 DEF PartTypes
  <2>2. CASE Tears
    <3>1. PICK t \in WebTasks :
            /\ pc[t] = "reading" /\ VerifyBooted
            /\ \E content \in {Torn, Block(cur[t], off[t])} :
                 dfu' = [dfu EXCEPT ![off[t]] = content]
      BY <2>2 DEF Tears
    <3>2. PICK content \in {Torn, Block(cur[t], off[t])} : dfu' = [dfu EXCEPT ![off[t]] = content]
      BY <3>1
    <3>3. content \in Page
      BY <3>1, PageTypes DEF TaskTypes, Images
    <3> QED BY <3>1, <3>2, <3>3, PagesOfParts DEF PartTypes, TaskTypes, VerifyBooted
  <2> QED BY <2>1, <2>2
<1>2. ModeTypes'
  BY DEF ModeTypes
<1>3. TaskTypes'
  BY PagesOfParts DEF TaskTypes
<1>4. PartTypes'
  BY <1>1 DEF PartTypes
<1>5. Uploading'
  BY DEF Uploading
<1>6. PartsSound'
  BY <1>1 DEF PartsSound, Sound, HoldsWhole
<1>7. Labels'
  BY DEF Labels, Exchanged, Marked
<1> QED BY <1>2, <1>3, <1>4, <1>5, <1>6, <1>7

(***************************************************************************)
(* The bootloader. No upload is under way; what was in DFU is in ACTIVE    *)
(* afterwards, and the other way round.                                    *)
(***************************************************************************)
LEMMA LoadStep ==
  ASSUME FwInv, Load
  PROVE  FwInv'
<1> USE DEF FwInv, Load
<1>1. PartTypes' /\ PartsSound' /\ Labels'
  BY PartsStay DEF history
<1>2. ModeTypes'
  BY DEF ModeTypes, flash
<1>3. TaskTypes'
  BY DEF TaskTypes, task, history
<1>4. Uploading'
  BY DEF Uploading, task, flash, history
<1> QED BY <1>1, <1>2, <1>3, <1>4

LEMMA ExchangeStep ==
  ASSUME FwInv, state = "swap", mode = "bootloader", Exchange, UNCHANGED <<task, spoiled>>
  PROVE  /\ PartTypes' /\ Uploading'
         /\ Sound(active, label.active)' /\ Sound(dfu, label.dfu)'
         /\ label'.active = label.dfu /\ label'.dfu = label.active
<1>1. /\ active' = [p \in Pages |-> dfu[p]]
      /\ dfu' = [p \in 0 .. ActivePages |-> IF p \in Pages THEN active[p] ELSE dfu[p]]
      /\ label'.active = label.dfu /\ label'.dfu = label.active
      /\ label' = [active |-> label.dfu, dfu |-> label.active]
  BY DEF Exchange
<1>2. PartTypes'
  BY <1>1, PagesOfParts DEF FwInv, PartTypes
<1>3. \A p \in Pages : active'[p] = dfu[p] /\ dfu'[p] = active[p]
  BY <1>1, PagesOfParts
<1>4. Sound(active, label.active)' /\ Sound(dfu, label.dfu)'
  BY <1>1, <1>3 DEF FwInv, PartsSound, Sound, HoldsWhole
<1>5. Uploading'
  BY DEF FwInv, Uploading, TaskTypes, task
<1> QED BY <1>1, <1>2, <1>4, <1>5

LEMMA SwapStep ==
  ASSUME FwInv, Swap
  PROVE  FwInv'
<1> USE DEF FwInv, Swap
<1>1. /\ PartTypes' /\ Uploading'
      /\ Sound(active, label.active)' /\ Sound(dfu, label.dfu)'
      /\ label'.active = label.dfu /\ label'.dfu = label.active
  BY ExchangeStep
<1>2. ModeTypes'
  BY Zenon DEF ModeTypes
<1>3. TaskTypes'
  BY DEF TaskTypes, task
<1>4. Labels'
  <2>1. ~Exchanged /\ Marked
    BY Zenon DEF Exchanged, Marked
  <2>2. Exchanged' /\ ~Marked'
    BY Zenon DEF Exchanged, Marked
  <2> QED BY <1>1, <2>1, <2>2 DEF Labels
<1> QED BY <1>1, <1>2, <1>3, <1>4 DEF PartsSound

LEMMA RevertStep ==
  ASSUME FwInv, Revert
  PROVE  FwInv'
<1> USE DEF FwInv, Revert
<1>1. /\ PartTypes' /\ Uploading'
      /\ Sound(active, label.active)' /\ Sound(dfu, label.dfu)'
      /\ label'.active = label.dfu /\ label'.dfu = label.active
  BY ExchangeStep
<1>2. ModeTypes'
  BY Zenon DEF ModeTypes
<1>3. TaskTypes'
  BY DEF TaskTypes, task
<1>4. Labels'
  <2>1. Exchanged
    BY Zenon DEF Exchanged
  <2>2. ~Exchanged' /\ ~Marked'
    BY DEF Exchanged, Marked
  <2> QED BY <1>1, <2>1, <2>2 DEF Labels
<1> QED BY <1>1, <1>2, <1>3, <1>4 DEF PartsSound

LEMMA BootStep ==
  ASSUME FwInv, Boot
  PROVE  FwInv'
  BY LoadStep, SwapStep, RevertStep DEF Boot

(***************************************************************************)
(* The steps of the web tasks, as Device takes them.                       *)
(***************************************************************************)
ServeStep ==
  \/ \E t \in WebTasks, u \in Uploads : Refuse(t, u) \/ Accept(t, u)
  \/ \E t \in WebTasks :
       \/ ReadFails(t) \/ WriteRefused(t) \/ WriteChunk(t)
       \/ FinishUpload(t) \/ MarkFails(t)

LEMMA ServeKeepsFw ==
  ASSUME FwInv, ServeStep
  PROVE  FwInv'
<1>1. CASE \E t \in WebTasks, u \in Uploads : Refuse(t, u) \/ Accept(t, u)
  BY <1>1, RefuseStep, AcceptStep
<1>2. ASSUME NEW t \in WebTasks, ReadFails(t) \/ WriteRefused(t) PROVE FwInv'
  BY <1>2, FailedStep DEF ReadFails, WriteRefused
<1>3. ASSUME NEW t \in WebTasks, WriteChunk(t) \/ FinishUpload(t) \/ MarkFails(t)
      PROVE  FwInv'
  BY <1>3, WriteChunkStep, FinishUploadStep, MarkFailsStep
<1> QED BY <1>1, <1>2, <1>3 DEF ServeStep

LEMMA ResetsKeepFw ==
  ASSUME FwInv, Resets \/ \E t \in WebTasks : SysReset(t)
  PROVE  FwInv'
<1>1. CASE Resets
  BY <1>1, RestartStep DEF Resets, Tears
<1>2. ASSUME NEW t \in WebTasks, SysReset(t) PROVE FwInv'
  BY <1>2, RestartStep DEF SysReset
<1> QED BY <1>1, <1>2

LEMMA NextFw == FwInv /\ [Next]_vars => FwInv'
<1> SUFFICES ASSUME FwInv, [Next]_vars PROVE FwInv'
  OBVIOUS
<1>1. CASE UNCHANGED vars
  <2>1. PartTypes' /\ PartsSound' /\ Labels'
    BY <1>1, PartsStay DEF vars, history
  <2>2. ModeTypes' /\ TaskTypes' /\ Uploading'
    BY <1>1 DEF vars, flash, task, history, FwInv, ModeTypes, TaskTypes, Uploading
  <2> QED BY <2>1, <2>2 DEF FwInv
<1>2. CASE Next
  BY <1>2, ServeKeepsFw, ResetsKeepFw, BootStep DEF Next, ServeStep
<1> QED BY <1>1, <1>2

LEMMA FwHolds == Safety => []FwInv
  BY InitFw, NextFw, PTL DEF Safety

-----------------------------------------------------------------------------
(***************************************************************************)
(* The bound on restarts, which only the types mention.                    *)
(***************************************************************************)
ResetsInBound == resets \in 0 .. MaxResets

LEMMA ResetsBounded == Safety => []ResetsInBound
<1>1. Init => ResetsInBound
  BY SizesAssumption DEF SizesAssumption, Init, ResetsInBound
<1>2. ResetsInBound /\ [Next]_vars => ResetsInBound'
  BY SizesAssumption
  DEF SizesAssumption, ResetsInBound, Next, vars, history, Refuse, Accept, ReadFails,
      WriteRefused, WriteChunk, FinishUpload, MarkFails, SysReset, Resets, Boot, Load, Swap, Revert
<1> QED BY <1>1, <1>2, PTL DEF Safety

LEMMA FwTypes == FwInv /\ ResetsInBound => TypeOK
  BY DEF FwInv, ResetsInBound, ModeTypes, TaskTypes, PartTypes, TypeOK

(***************************************************************************)
(* The types of FirmwareUpdate, in every behaviour: no upload writes a     *)
(* page of DFU beyond those that are exchanged.                            *)
(***************************************************************************)
THEOREM FirmwareTypesHold == Safety => []TypeOK
  BY FwHolds, ResetsBounded, FwTypes, PTL

LEMMA FwSound == FwInv => RunsWholeImage /\ FallbackIsWhole
<1> SUFFICES ASSUME FwInv PROVE RunsWholeImage /\ FallbackIsWhole
  OBVIOUS
<1>1. RunsWholeImage
  BY DEF FwInv, PartsSound, RunsWholeImage
<1>2. FallbackIsWhole
  BY DEF FwInv, PartsSound, FallbackIsWhole
<1> QED BY <1>1, <1>2

(***************************************************************************)
(* The firmware that runs is a whole image, for any number of simultaneous *)
(* uploads of any length, and wherever restarts cut them off.              *)
(***************************************************************************)
THEOREM WholeImagesRun == Safety => []RunsWholeImage
  BY FwHolds, FwSound, PTL

(***************************************************************************)
(* While an update is not confirmed, the image it replaced is whole.       *)
(***************************************************************************)
THEOREM FallbackHolds == Safety => []FallbackIsWhole
  BY FwHolds, FwSound, PTL
=============================================================================
