------------------------------ MODULE NBootProofs ------------------------------
(***************************************************************************)
(* Proofs about NBoot, for every number of images, every image size and    *)
(* every slot size.                                                        *)
(***************************************************************************)
EXTENDS NBoot, TLAPS

\* The parts of the inductive invariant.

\* A record that announces a firmware is right about it, or is half written.
RecordIsRight ==
  NewFirmware =>
    \/ meta.size = HugeSize
    \/ \E img \in Images : Holds(slotB, img) /\ BlocksOf[img] = meta.size

\* Slot A is complete, or the record makes the next start complete it.
SlotAOrRecord == (\A img \in Images : ~Holds(slotA, img)) => NewFirmware

\* Where the loader is about to run slot A, or the application runs from it.
SlotAInUse == pc = "jump" \/ AppRunning \/ pc \in SetPcs

SlotAIsComplete == SlotAInUse => \E img \in Images : Holds(slotA, img)

\* The installation: what is copied so far, under a record that stays.
Installing ==
  /\ pc \in {"erase", "copy"} => NewFirmware /\ down = meta.size
  /\ pc = "copy" =>
       /\ i <= down /\ down <= SlotBlocks
       /\ \A b \in Block : b < i => slotA[b] = slotB[b]

\* The download: slot B fills up while the record does not announce it.
Downloading ==
  pc = "fetch" =>
    /\ ~NewFirmware
    /\ want \in Images
    /\ i <= BlocksOf[want] + 1
    /\ \A b \in Block : b < i => slotB[b] = want

\* What nboot_set_image_down_state is called for.
SetIsJustified ==
  pc \in SetPcs =>
    /\ ret = "jump" => buf = MetaRecord("INVALID", 0)
    /\ ret = "fetch" => buf = MetaRecord("DOWNLOAD_PROCESSING", 0) /\ want \in Images /\ i = 1
    /\ ret = "app" =>
         /\ want \in Images
         /\ buf = MetaRecord("DOWNLOAD_OK", BlocksOf[want])
         /\ Holds(slotB, want)

\* How far the page is programmed.
PageProgress ==
  /\ pc = "write_magic" => meta = ErasedMeta
  /\ pc = "write_state" => meta = [ErasedMeta EXCEPT !.magic = "MAGIC"]
  /\ pc = "write_size" => meta = MetaRecord(buf.state, HugeSize)

JumpMeans == pc = "jump" => ~NewFirmware

\* When the record is withdrawn after an installation, it changes nothing.
InstalledMeans == pc \in SetPcs /\ ret = "jump" /\ NewFirmware => slotA[1] = slotB[1]

IInv ==
  /\ TypeOK
  /\ RecordIsRight
  /\ SlotAOrRecord
  /\ SlotAIsComplete
  /\ Installing
  /\ Downloading
  /\ SetIsJustified
  /\ PageProgress
  /\ JumpMeans
  /\ InstalledMeans

--------------------------------------------------------------------------------
LEMMA InitIInv == Init => IInv
<1> SUFFICES ASSUME Init PROVE IInv
  OBVIOUS
<1> USE SizesFit, Distinct DEF Init
<1>1. slotA \in [Block -> Content] /\ slotB \in [Block -> Content]
  BY DEF Content
<1>2. meta \in Meta /\ buf \in Meta
  BY DEF Meta, DownState, HugeSize, MetaRecord, ErasedMeta, default_state
<1>3. TypeOK
  BY <1>1, <1>2 DEF TypeOK, HugeSize, Pcs
<1>4. ~NewFirmware
  BY DEF NewFirmware, image_down_state, ErasedMeta, default_state, MetaRecord
<1>5. SlotAOrRecord
  BY DEF SlotAOrRecord, Holds, Block
<1>6. QED
  BY <1>3, <1>4, <1>5 DEF IInv, RecordIsRight, SlotAIsComplete, SlotAInUse,
     AppRunning, SetPcs, Installing, Downloading, SetIsJustified, PageProgress, JumpMeans, InstalledMeans

\* nboot_set_image_down_state: the page is rewritten while slot A is complete,
\* and announces a firmware again only with its last word.
LEMMA CheckNeedUpdateKeepsIInv == IInv /\ CheckNeedUpdate => IInv'
<1> SUFFICES ASSUME IInv, CheckNeedUpdate PROVE IInv'
  OBVIOUS
<1> USE DEF IInv, CheckNeedUpdate, flash, SetPcs
<1>1. TypeOK'
  BY DEF TypeOK, Pcs
<1>2. UNCHANGED <<slotA, slotB, meta, NewFirmware>>
  BY DEF NewFirmware, image_down_state
<1>3. (RecordIsRight /\ SlotAOrRecord)'
  BY <1>2 DEF RecordIsRight, SlotAOrRecord, Holds
<1>4. SlotAIsComplete'
  BY <1>2 DEF TypeOK, SlotAIsComplete, SlotAInUse, AppRunning, Holds
<1>5. Installing' /\ PageProgress'
  BY DEF TypeOK, Installing, PageProgress
<1>6. meta = buf /\ ret # "app" => ~NewFirmware
  BY DEF TypeOK, SetIsJustified, NewFirmware, image_down_state, MetaRecord
<1>7. Downloading' /\ JumpMeans' /\ InstalledMeans'
  BY <1>2, <1>6, SizesFit DEF TypeOK, Downloading, SetIsJustified, JumpMeans, InstalledMeans, Block
<1>8. SetIsJustified'
  BY DEF TypeOK, SetIsJustified, MetaRecord, Holds
<1>9. QED
  BY <1>1, <1>3, <1>4, <1>5, <1>7, <1>8

LEMMA EraseMetaKeepsIInv == IInv /\ EraseMeta => IInv'
<1> SUFFICES ASSUME IInv, EraseMeta PROVE IInv'
  OBVIOUS
<1> USE DEF IInv, EraseMeta, SetPcs
<1>1. TypeOK'
  BY SizesFit DEF TypeOK, Pcs, Meta, ErasedMeta, DownState, HugeSize
<1>2. ~NewFirmware'
  BY DEF NewFirmware, image_down_state, ErasedMeta, default_state, MetaRecord
<1>3. SlotAIsComplete' /\ SlotAOrRecord'
  BY DEF TypeOK, SlotAIsComplete, SlotAOrRecord, SlotAInUse, AppRunning, Holds
<1>4. RecordIsRight' /\ Installing' /\ Downloading' /\ JumpMeans' /\ InstalledMeans' /\ PageProgress'
  BY <1>2 DEF RecordIsRight, Installing, Downloading, JumpMeans, InstalledMeans, PageProgress
<1>5. SetIsJustified'
  BY DEF TypeOK, SetIsJustified, MetaRecord, Holds
<1>6. QED
  BY <1>1, <1>3, <1>4, <1>5

LEMMA WriteMetaWordKeepsIInv == IInv /\ WriteMetaWord => IInv'
<1> SUFFICES ASSUME IInv, WriteMetaWord PROVE IInv'
  OBVIOUS
<1> USE DEF IInv, WriteMetaWord, SetPcs
<1>1. TypeOK'
  BY DEF TypeOK, Pcs, Meta, DownState
<1>2. SlotAIsComplete' /\ SlotAOrRecord'
  BY DEF TypeOK, SlotAIsComplete, SlotAOrRecord, SlotAInUse, AppRunning, Holds
<1>3. SetIsJustified'
  BY DEF TypeOK, SetIsJustified, MetaRecord, Holds
<1>4. CASE pc = "write_magic"
  <2>1. meta' = [magic |-> "MAGIC", state |-> "ERASED", size |-> HugeSize]
    BY <1>4 DEF TypeOK, PageProgress, SetIsJustified, ErasedMeta, MetaRecord
  <2>2. ~NewFirmware'
    BY <2>1 DEF NewFirmware, image_down_state
  <2>3. QED
    BY <1>1, <1>2, <1>3, <1>4, <2>1, <2>2 DEF RecordIsRight, Installing, Downloading,
       JumpMeans, InstalledMeans, PageProgress, ErasedMeta
<1>5. CASE pc = "write_state"
  <2>1. meta' = MetaRecord(buf.state, HugeSize)
    BY <1>5 DEF TypeOK, PageProgress, ErasedMeta, MetaRecord
  <2>2. ret = "jump" => ~NewFirmware'
    BY <1>5, <2>1 DEF SetIsJustified, NewFirmware, image_down_state, MetaRecord
  <2>3. QED
    BY <1>1, <1>2, <1>3, <1>5, <2>1, <2>2 DEF RecordIsRight, Installing, Downloading,
       JumpMeans, InstalledMeans, PageProgress, MetaRecord
<1>6. CASE pc = "write_size"
  <2>1. meta' = buf
    BY <1>6 DEF TypeOK, Meta, PageProgress, SetIsJustified, MetaRecord
  <2>2. RecordIsRight'
    BY <1>6, <2>1 DEF TypeOK, RecordIsRight, SetIsJustified, NewFirmware, image_down_state,
       MetaRecord, Holds
  <2>3. ret # "app" => ~NewFirmware'
    BY <1>6, <2>1 DEF TypeOK, SetIsJustified, NewFirmware, image_down_state, MetaRecord
  <2>4. Downloading' /\ JumpMeans' /\ InstalledMeans'
    BY <1>6, <2>3, SizesFit DEF TypeOK, Downloading, JumpMeans, InstalledMeans, SetIsJustified, Block
  <2>5. QED
    BY <1>1, <1>2, <1>3, <1>6, <2>2, <2>4 DEF TypeOK, Installing, PageProgress
<1>7. QED
  BY <1>4, <1>5, <1>6

--------------------------------------------------------------------------------
\* boot_app: the record stays as it is until slot A is a copy of slot B.
LEMMA GetDownStateKeepsIInv == IInv /\ GetDownState => IInv'
<1> SUFFICES ASSUME IInv, GetDownState PROVE IInv'
  OBVIOUS
<1> USE DEF IInv, GetDownState, flash, SetPcs
<1>1. UNCHANGED <<slotA, slotB, meta, NewFirmware>>
  BY DEF NewFirmware, image_down_state
<1>2. NewFirmware => image_down_state = meta /\ meta.size \in 1 .. HugeSize
  BY DEF TypeOK, Meta, NewFirmware, image_down_state, default_state, MetaRecord
<1>3. TypeOK'
  BY <1>2, SizesFit DEF TypeOK, Pcs, HugeSize
<1>4. (RecordIsRight /\ SlotAOrRecord)'
  BY <1>1 DEF RecordIsRight, SlotAOrRecord, Holds
<1>5. SlotAIsComplete' /\ JumpMeans' /\ InstalledMeans'
  BY <1>1 DEF SlotAIsComplete, SlotAOrRecord, SlotAInUse, AppRunning, JumpMeans, InstalledMeans, Holds
<1>6. Installing'
  BY <1>1, <1>2 DEF Installing
<1>7. Downloading' /\ SetIsJustified' /\ PageProgress'
  BY DEF Downloading, SetIsJustified, PageProgress
<1>8. QED
  BY <1>3, <1>4, <1>5, <1>6, <1>7

LEMMA EraseSlotAKeepsIInv == IInv /\ EraseSlotA => IInv'
<1> SUFFICES ASSUME IInv, EraseSlotA PROVE IInv'
  OBVIOUS
<1> USE DEF IInv, EraseSlotA, SetPcs
<1>1. TypeOK'
  BY SizesFit DEF TypeOK, Pcs, HugeSize, Content, Block
<1>2. UNCHANGED <<slotB, meta, NewFirmware>> /\ NewFirmware
  BY DEF NewFirmware, image_down_state, Installing
<1>3. RecordIsRight' /\ SlotAOrRecord'
  BY <1>2 DEF RecordIsRight, SlotAOrRecord, Holds
<1>4. Installing'
  BY <1>2, SizesFit DEF TypeOK, Installing, NewFirmware, image_down_state,
     default_state, MetaRecord, Block, HugeSize
<1>5. QED
  BY <1>1, <1>2, <1>3, <1>4 DEF SlotAIsComplete, SlotAInUse, AppRunning, Downloading,
     SetIsJustified, PageProgress, JumpMeans, InstalledMeans

LEMMA EraseRefusedKeepsIInv == IInv /\ EraseRefused => IInv'
<1> SUFFICES ASSUME IInv, EraseRefused PROVE IInv'
  OBVIOUS
<1> USE DEF IInv, EraseRefused, flash, SetPcs
<1>1. TypeOK' /\ UNCHANGED NewFirmware
  BY DEF TypeOK, Pcs, NewFirmware, image_down_state
<1>2. QED
  BY <1>1 DEF RecordIsRight, SlotAOrRecord, Holds, SlotAIsComplete, SlotAInUse,
     AppRunning, Installing, Downloading, SetIsJustified, PageProgress, JumpMeans, InstalledMeans

LEMMA JumpToAppKeepsIInv == IInv /\ JumpToApp => IInv'
<1> SUFFICES ASSUME IInv, JumpToApp PROVE IInv'
  OBVIOUS
<1> USE DEF IInv, JumpToApp, flash, SetPcs
<1>1. TypeOK' /\ UNCHANGED NewFirmware
  BY DEF TypeOK, Pcs, NewFirmware, image_down_state
<1>2. QED
  BY <1>1 DEF RecordIsRight, SlotAOrRecord, Holds, SlotAIsComplete, SlotAInUse,
     AppRunning, Installing, Downloading, SetIsJustified, PageProgress, JumpMeans, InstalledMeans

\* The last block makes slot A the image the record announces.
LEMMA CopyBlockKeepsIInv == IInv /\ CopyBlock => IInv'
<1> SUFFICES ASSUME IInv, CopyBlock PROVE IInv'
  OBVIOUS
<1> USE DEF IInv, CopyBlock, SetPcs
<1>1. i \in Block /\ i <= down /\ down <= SlotBlocks /\ down = meta.size /\ NewFirmware
  BY SizesFit DEF TypeOK, Installing, Block, HugeSize
<1>2. TypeOK'
  <2>1. slotA' \in [Block -> Content]
    BY <1>1 DEF TypeOK
  <2>2. buf' \in Meta
    BY SizesFit DEF TypeOK, CallSet, MetaRecord, Meta, DownState, HugeSize
  <2>3. QED
    BY <1>1, <2>1, <2>2, SizesFit DEF TypeOK, Pcs, CallSet, HugeSize, Block
<1>3. UNCHANGED <<slotB, meta, NewFirmware>>
  BY DEF NewFirmware, image_down_state
<1>4. RecordIsRight' /\ SlotAOrRecord'
  BY <1>1, <1>3 DEF RecordIsRight, SlotAOrRecord, Holds
<1>5. \A b \in Block : b <= i => slotA'[b] = slotB[b]
  BY <1>1 DEF TypeOK, Installing, Block
<1>6. CASE i = down
  <2>1. PICK img \in Images : Holds(slotB, img) /\ BlocksOf[img] = down
    BY <1>1, SizesFit DEF TypeOK, RecordIsRight, HugeSize
  <2>2. Holds(slotA', img)
    BY <1>1, <1>5, <1>6, <2>1, SizesFit DEF TypeOK, Holds, Block
  <2>3. SlotAIsComplete'
    BY <2>2 DEF SlotAIsComplete, Holds
  <2>4. InstalledMeans'
    BY <1>1, <1>3, <1>5, SizesFit DEF TypeOK, InstalledMeans, Block
  <2>5. QED
    BY <1>2, <1>4, <1>6, <2>3, <2>4 DEF CallSet, Installing, Downloading,
       SetIsJustified, PageProgress, JumpMeans
<1>7. CASE i # down
  <2>1. Installing'
    BY <1>1, <1>3, <1>5, <1>7 DEF TypeOK, Installing, Block
  <2>2. QED
    BY <1>2, <1>4, <1>7, <2>1 DEF SlotAIsComplete, SlotAInUse, AppRunning, Downloading,
       SetIsJustified, PageProgress, JumpMeans, InstalledMeans
<1>8. QED
  BY <1>6, <1>7

--------------------------------------------------------------------------------
\* The application: slot B changes only while no record announces it.
LEMMA StartDownloadKeepsIInv ==
  ASSUME IInv, NEW img \in Images, StartDownload(img)
  PROVE  IInv'
<1> USE DEF IInv, StartDownload, CallSet, flash, SetPcs
<1>1. buf' \in Meta
  BY SizesFit DEF MetaRecord, Meta, DownState, HugeSize
<1>2. TypeOK' /\ UNCHANGED NewFirmware
  BY <1>1, SizesFit DEF TypeOK, Pcs, NewFirmware, image_down_state, HugeSize
<1>3. SetIsJustified'
  BY DEF SetIsJustified, MetaRecord
<1>4. QED
  BY <1>2, <1>3 DEF RecordIsRight, SlotAOrRecord, Holds, SlotAIsComplete, SlotAInUse,
     AppRunning, Installing, Downloading, PageProgress, JumpMeans, InstalledMeans

LEMMA FetchBlockKeepsIInv == IInv /\ FetchBlock => IInv'
<1> SUFFICES ASSUME IInv, FetchBlock PROVE IInv'
  OBVIOUS
<1> USE DEF IInv, FetchBlock, SetPcs
<1>1. want \in Images /\ i \in Block
  BY SizesFit DEF TypeOK, Downloading, Block, HugeSize
<1>2. TypeOK'
  BY <1>1, SizesFit DEF TypeOK, Content, Block, HugeSize
<1>3. UNCHANGED <<slotA, meta, NewFirmware>> /\ ~NewFirmware
  BY DEF NewFirmware, image_down_state, Downloading
<1>4. Downloading'
  BY <1>1, <1>3, SizesFit DEF TypeOK, Downloading, Block
<1>5. QED
  BY <1>2, <1>3, <1>4 DEF RecordIsRight, SlotAOrRecord, Holds, SlotAIsComplete,
     SlotAInUse, AppRunning, Installing, SetIsJustified, PageProgress, JumpMeans, InstalledMeans

LEMMA CommitDownloadKeepsIInv == IInv /\ CommitDownload => IInv'
<1> SUFFICES ASSUME IInv, CommitDownload PROVE IInv'
  OBVIOUS
<1> USE DEF IInv, CommitDownload, CallSet, flash, SetPcs
<1>1. want \in Images /\ BlocksOf[want] \in Block
  BY SizesFit DEF Downloading, Block
<1>2. buf' \in Meta
  BY <1>1, SizesFit DEF MetaRecord, Meta, DownState, HugeSize, Block
<1>3. TypeOK' /\ UNCHANGED NewFirmware
  BY <1>2 DEF TypeOK, Pcs, NewFirmware, image_down_state
<1>4. Holds(slotB, want)
  BY <1>1, SizesFit DEF TypeOK, Downloading, Holds, Block
<1>5. SetIsJustified'
  BY <1>1, <1>4 DEF SetIsJustified, Holds, MetaRecord
<1>6. QED
  BY <1>3, <1>5 DEF RecordIsRight, SlotAOrRecord, Holds, SlotAIsComplete, SlotAInUse,
     AppRunning, Installing, Downloading, PageProgress, JumpMeans, InstalledMeans

LEMMA AbandonDownloadKeepsIInv == IInv /\ AbandonDownload => IInv'
<1> SUFFICES ASSUME IInv, AbandonDownload PROVE IInv'
  OBVIOUS
<1> USE DEF IInv, AbandonDownload, flash, SetPcs
<1>1. TypeOK' /\ UNCHANGED NewFirmware
  BY DEF TypeOK, Pcs, NewFirmware, image_down_state
<1>2. QED
  BY <1>1 DEF RecordIsRight, SlotAOrRecord, Holds, SlotAIsComplete, SlotAInUse,
     AppRunning, Installing, Downloading, SetIsJustified, PageProgress, JumpMeans, InstalledMeans

--------------------------------------------------------------------------------
\* Faults: a torn block of slot A is covered by the record, and a torn block
\* of slot B is one that no record announces.
LEMMA InterruptedBlockIsCovered ==
  IInv /\ InterruptedBlock =>
    /\ slotA' \in [Block -> Content]
    /\ slotB' \in [Block -> Content]
    /\ UNCHANGED <<meta, NewFirmware>>
    /\ RecordIsRight' /\ SlotAOrRecord'
    /\ (pc \notin {"erase", "copy"} => UNCHANGED slotA)
<1> SUFFICES ASSUME IInv, InterruptedBlock
             PROVE  /\ slotA' \in [Block -> Content]
                    /\ slotB' \in [Block -> Content]
                    /\ UNCHANGED <<meta, NewFirmware>>
                    /\ RecordIsRight' /\ SlotAOrRecord'
                    /\ (pc \notin {"erase", "copy"} => UNCHANGED slotA)
  OBVIOUS
<1> USE DEF IInv, InterruptedBlock
<1>1. slotA' \in [Block -> Content] /\ slotB' \in [Block -> Content]
  BY DEF TypeOK, Content
<1>2. UNCHANGED <<meta, NewFirmware>>
  BY DEF NewFirmware, image_down_state
<1>3. RecordIsRight'
  BY <1>2 DEF RecordIsRight, Downloading, Holds
<1>4. SlotAOrRecord'
  BY <1>2 DEF SlotAOrRecord, Installing, Holds
<1>5. QED
  BY <1>1, <1>2, <1>3, <1>4

LEMMA FlashErrorKeepsIInv == IInv /\ FlashError => IInv'
<1> SUFFICES ASSUME IInv, FlashError PROVE IInv'
  OBVIOUS
<1> USE DEF IInv, FlashError, SetPcs
<1>1. TypeOK'
  BY InterruptedBlockIsCovered DEF TypeOK, Pcs
<1>2. RecordIsRight' /\ SlotAOrRecord'
  BY InterruptedBlockIsCovered
<1>3. SlotAIsComplete'
  BY InterruptedBlockIsCovered DEF SlotAIsComplete, SlotAInUse, AppRunning, Holds, TypeOK
<1>4. QED
  BY <1>1, <1>2, <1>3 DEF Installing, Downloading, SetIsJustified, PageProgress, JumpMeans, InstalledMeans

LEMMA ResetKeepsIInv ==
  ASSUME IInv, Reset, UNCHANGED meta, RecordIsRight', SlotAOrRecord',
         slotA' \in [Block -> Content], slotB' \in [Block -> Content]
  PROVE  IInv'
<1> USE DEF IInv, Reset, SetPcs
<1>1. buf' \in Meta
  BY SizesFit DEF default_state, MetaRecord, Meta, DownState, HugeSize
<1>2. TypeOK'
  BY <1>1, SizesFit DEF TypeOK, Pcs, HugeSize
<1>3. QED
  BY <1>2 DEF SlotAIsComplete, SlotAInUse, AppRunning, Installing, Downloading,
     SetIsJustified, PageProgress, JumpMeans, InstalledMeans

LEMMA PowerLossKeepsIInv == IInv /\ PowerLoss => IInv'
  BY InterruptedBlockIsCovered, ResetKeepsIInv DEF PowerLoss, InterruptedBlock

LEMMA PowerCycleKeepsIInv == IInv /\ PowerCycle => IInv'
<1> SUFFICES ASSUME IInv, PowerCycle PROVE IInv'
  OBVIOUS
<1>1. UNCHANGED <<slotA, slotB, meta, NewFirmware>>
  BY DEF PowerCycle, flash, NewFirmware, image_down_state
<1>2. RecordIsRight' /\ SlotAOrRecord'
  BY <1>1 DEF IInv, RecordIsRight, SlotAOrRecord, Holds
<1>3. QED
  BY <1>1, <1>2, ResetKeepsIInv DEF PowerCycle, IInv, TypeOK

LEMMA StutterKeepsIInv == IInv /\ UNCHANGED vars => IInv'
<1> SUFFICES ASSUME IInv, UNCHANGED vars PROVE IInv'
  OBVIOUS
<1> USE DEF IInv, vars
<1>1. TypeOK' /\ UNCHANGED NewFirmware
  BY DEF TypeOK, NewFirmware, image_down_state
<1>2. QED
  BY <1>1 DEF RecordIsRight, SlotAOrRecord, Holds, SlotAIsComplete, SlotAInUse,
     AppRunning, SetPcs, Installing, Downloading, SetIsJustified, PageProgress, JumpMeans, InstalledMeans

--------------------------------------------------------------------------------
THEOREM Invariance == Spec => []IInv
<1>1. IInv /\ [Next]_vars => IInv'
  BY CheckNeedUpdateKeepsIInv, EraseMetaKeepsIInv, WriteMetaWordKeepsIInv,
     GetDownStateKeepsIInv, EraseSlotAKeepsIInv, EraseRefusedKeepsIInv,
     CopyBlockKeepsIInv, JumpToAppKeepsIInv, StartDownloadKeepsIInv,
     FetchBlockKeepsIInv, CommitDownloadKeepsIInv, AbandonDownloadKeepsIInv,
     FlashErrorKeepsIInv, PowerLossKeepsIInv, PowerCycleKeepsIInv, StutterKeepsIInv
     DEF Next, nboot_set_image_down_state, boot_app, application, Fault
<1>2. QED
  BY InitIInv, <1>1, PTL DEF Spec

\* Every variable of the boot loader and the application stays in its range.
THEOREM TypeCorrect == Spec => []TypeOK
  BY Invariance, PTL DEF IInv

\* The loader never jumps to, and the application never runs from, a slot A
\* that does not hold one whole image, whatever fails and however often.
THEOREM RunsOnlyCompleteImages == Spec => []AppRunsCompleteImage
<1>1. IInv => AppRunsCompleteImage
  BY DEF IInv, SlotAIsComplete, SlotAInUse, AppRunsCompleteImage
<1>2. QED
  BY Invariance, <1>1, PTL

\* An installation that was cut short is repeated by the next start.
THEOREM RepeatsInterruptedCopy == Spec => []InterruptedCopyIsRepeated
<1>1. IInv => InterruptedCopyIsRepeated
  BY DEF IInv, RecordIsRight, SlotAOrRecord, InterruptedCopyIsRepeated
<1>2. QED
  BY Invariance, <1>1, PTL

--------------------------------------------------------------------------------
(* The loader implements BootPromise.                                      *)

image == <<EffectiveImage, RunningImage>>

\* What runs is an image, so RunningImage is NONE only when nothing runs.
LEMMA RunningIsAnImage == IInv /\ AppRunning => slotA[1] \in Images /\ slotA[1] # NONE
<1> SUFFICES ASSUME IInv, AppRunning PROVE slotA[1] \in Images /\ slotA[1] # NONE
  OBVIOUS
<1>1. PICK img \in Images : Holds(slotA, img)
  BY DEF IInv, SlotAIsComplete, SlotAInUse
<1>2. slotA[1] = img
  BY <1>1, SizesFit DEF Holds
<1>3. QED
  BY <1>2, Distinct

LEMMA InitPromise == Init => Promise!Init
  BY SizesFit DEF Init, Promise!Init, EffectiveImage, RunningImage, AppRunning, SetPcs,
     NewFirmware, image_down_state, ErasedMeta, default_state, MetaRecord, Block

\* Rewriting the page is what commits and withdraws.
LEMMA SetKeepsPromise ==
  IInv /\ IInv' /\ nboot_set_image_down_state => Promise!Next \/ UNCHANGED image
<1> SUFFICES ASSUME IInv, IInv', nboot_set_image_down_state
             PROVE  Promise!Next \/ UNCHANGED image
  OBVIOUS
<1> USE DEF image, EffectiveImage, RunningImage
<1>1. CASE CheckNeedUpdate
  <2>1. UNCHANGED <<slotA, slotB, NewFirmware>>
    BY <1>1 DEF CheckNeedUpdate, flash, NewFirmware, image_down_state
  <2>2. UNCHANGED AppRunning
    BY <1>1 DEF IInv, TypeOK, CheckNeedUpdate, AppRunning, SetPcs
  <2>3. QED
    BY <2>1, <2>2
<1>2. CASE EraseMeta
  <2>1. UNCHANGED <<slotA, slotB, AppRunning>>
    BY <1>2 DEF EraseMeta, AppRunning, SetPcs
  <2>2. ~NewFirmware'
    BY <1>2 DEF EraseMeta, NewFirmware, image_down_state, ErasedMeta, default_state, MetaRecord
  <2>3. CASE AppRunning
    BY <2>1, <2>2, <2>3, RunningIsAnImage DEF Promise!Next, Promise!Withdraw
  <2>4. CASE ~AppRunning
    <3>1. ret = "jump" /\ pc \in SetPcs
      BY <1>2, <2>4 DEF EraseMeta, AppRunning, SetPcs
    <3>2. QED
      BY <2>1, <2>2, <2>4, <3>1 DEF IInv, InstalledMeans
  <2>5. QED
    BY <2>3, <2>4
<1>3. CASE WriteMetaWord
  <2>1. UNCHANGED <<slotA, slotB, AppRunning>>
    BY <1>3 DEF IInv, TypeOK, WriteMetaWord, AppRunning, SetPcs
  <2>2. NewFirmware => NewFirmware'
    <3>1. CASE pc = "write_size"
      BY <1>3, <3>1, SizesFit DEF IInv, TypeOK, WriteMetaWord, PageProgress, SetIsJustified,
         NewFirmware, image_down_state, MetaRecord, SetPcs, Meta
    <3>2. CASE pc # "write_size"
      BY <1>3, <3>2 DEF IInv, WriteMetaWord, PageProgress, NewFirmware, image_down_state,
         MetaRecord, ErasedMeta, default_state
    <3>3. QED
      BY <3>1, <3>2
  <2>3. CASE NewFirmware' => NewFirmware
    BY <2>1, <2>2, <2>3
  <2>4. CASE ~NewFirmware /\ NewFirmware'
    <3>1. pc \in SetPcs /\ ret' = ret /\ buf' = buf
      BY <1>3 DEF WriteMetaWord, SetPcs
    <3>2. ret = "app"
      BY <1>3, <2>4, <3>1 DEF IInv, TypeOK, WriteMetaWord, PageProgress, SetIsJustified,
         NewFirmware, image_down_state, MetaRecord, ErasedMeta, default_state, SetPcs
    <3>3. want \in Images /\ slotB[1] = want
      BY <3>1, <3>2, SizesFit DEF IInv, SetIsJustified, Holds
    <3>4. AppRunning /\ slotA[1] # NONE
      BY <3>1, <3>2, RunningIsAnImage DEF AppRunning
    <3>5. Promise!Commit(want)
      BY <2>1, <2>4, <3>3, <3>4 DEF Promise!Commit
    <3>6. QED
      BY <3>3, <3>5 DEF Promise!Next
  <2>5. QED
    BY <2>3, <2>4
<1>4. QED
  BY <1>1, <1>2, <1>3 DEF nboot_set_image_down_state

\* The loader copies without changing what the next start will run; its last
\* step starts exactly that.
LEMMA BootKeepsPromise == IInv /\ boot_app => Promise!Next \/ UNCHANGED image
<1> SUFFICES ASSUME IInv, boot_app PROVE Promise!Next \/ UNCHANGED image
  OBVIOUS
<1> USE DEF image, EffectiveImage, RunningImage
<1>1. UNCHANGED NewFirmware
  BY DEF boot_app, GetDownState, EraseSlotA, EraseRefused, CopyBlock, JumpToApp, flash,
     NewFirmware, image_down_state
<1>2. CASE GetDownState \/ EraseRefused
  BY <1>1, <1>2 DEF GetDownState, EraseRefused, flash, AppRunning, SetPcs
<1>3. CASE EraseSlotA
  <2>1. NewFirmware
    BY <1>3 DEF EraseSlotA, IInv, Installing
  <2>2. QED
    BY <1>1, <1>3, <2>1 DEF EraseSlotA, AppRunning, SetPcs
<1>4. CASE CopyBlock
  <2>1. NewFirmware
    BY <1>4 DEF CopyBlock, IInv, Installing
  <2>2. ~AppRunning /\ ~AppRunning'
    BY <1>4 DEF CopyBlock, CallSet, AppRunning, SetPcs
  <2>3. QED
    BY <1>1, <1>4, <2>1, <2>2 DEF CopyBlock
<1>5. CASE JumpToApp
  <2>1. ~NewFirmware /\ ~AppRunning /\ AppRunning' /\ UNCHANGED slotA
    BY <1>5 DEF JumpToApp, flash, IInv, JumpMeans, AppRunning, SetPcs
  <2>2. QED
    BY <1>1, <2>1 DEF Promise!Next, Promise!Start
<1>6. QED
  BY <1>2, <1>3, <1>4, <1>5 DEF boot_app

LEMMA ApplicationKeepsPromise == IInv /\ application => Promise!Next \/ UNCHANGED image
<1> SUFFICES ASSUME IInv, application PROVE UNCHANGED image
  OBVIOUS
<1> USE DEF image, EffectiveImage, RunningImage
<1>1. UNCHANGED <<slotA, NewFirmware>>
  BY DEF application, StartDownload, FetchBlock, CommitDownload, AbandonDownload, flash,
     NewFirmware, image_down_state
<1>2. AppRunning /\ AppRunning'
  BY DEF application, StartDownload, FetchBlock, CommitDownload, AbandonDownload, CallSet,
     AppRunning, SetPcs
<1>3. CASE NewFirmware
  BY <1>1, <1>2, <1>3 DEF application, StartDownload, FetchBlock, CommitDownload,
     AbandonDownload, flash, IInv, Downloading
<1>4. CASE ~NewFirmware
  BY <1>1, <1>2, <1>4
<1>5. QED
  BY <1>3, <1>4

\* No fault changes what the next start will run; a power loss stops what runs.
LEMMA FaultKeepsPromise ==
  IInv /\ (Fault \/ PowerCycle) => Promise!Next \/ UNCHANGED image
<1> SUFFICES ASSUME IInv, Fault \/ PowerCycle PROVE Promise!Next \/ UNCHANGED image
  OBVIOUS
<1> USE DEF image, EffectiveImage, RunningImage
<1>1. UNCHANGED NewFirmware
  BY InterruptedBlockIsCovered DEF Fault, FlashError, PowerLoss, PowerCycle, flash,
     NewFirmware, image_down_state
<1>2. UNCHANGED EffectiveImage
  <2>1. CASE NewFirmware
    BY <1>1, <2>1 DEF Fault, FlashError, PowerLoss, PowerCycle, InterruptedBlock, flash,
       IInv, Downloading
  <2>2. CASE ~NewFirmware
    BY <1>1, <2>2 DEF Fault, FlashError, PowerLoss, PowerCycle, InterruptedBlock, flash,
       IInv, Installing
  <2>3. QED
    BY <2>1, <2>2
<1>3. CASE FlashError
  <2>1. UNCHANGED AppRunning
    BY <1>3 DEF FlashError, IInv, TypeOK, AppRunning, SetPcs
  <2>2. AppRunning => UNCHANGED slotA
    BY <1>3, InterruptedBlockIsCovered DEF FlashError, AppRunning, SetPcs
  <2>3. QED
    BY <1>2, <2>1, <2>2
<1>4. CASE PowerLoss \/ PowerCycle
  <2>1. ~AppRunning'
    BY <1>4 DEF PowerLoss, PowerCycle, Reset, AppRunning, SetPcs
  <2>2. CASE AppRunning
    BY <1>2, <2>1, <2>2, RunningIsAnImage DEF Promise!Next, Promise!Stop
  <2>3. CASE ~AppRunning
    BY <1>2, <2>1, <2>3
  <2>4. QED
    BY <2>2, <2>3
<1>5. QED
  BY <1>3, <1>4 DEF Fault

\* The update is atomic: the loader, with its page, its copying and its faults,
\* implements BootPromise.
THEOREM KeepsPromise == Spec => PromiseKept
<1>1. IInv /\ IInv' /\ [Next]_vars => [Promise!Next]_(Promise!vars)
  <2> SUFFICES ASSUME IInv, IInv', [Next]_vars
               PROVE  Promise!Next \/ UNCHANGED image
    BY DEF Promise!vars, image
  <2>1. CASE UNCHANGED vars
    BY <2>1 DEF vars, image, EffectiveImage, RunningImage, NewFirmware, image_down_state,
       AppRunning
  <2>2. CASE Next
    BY <2>2, SetKeepsPromise, BootKeepsPromise, ApplicationKeepsPromise, FaultKeepsPromise
       DEF Next
  <2>3. QED
    BY <2>1, <2>2
<1>2. QED
  BY InitPromise, Invariance, <1>1, PTL DEF Spec, PromiseKept, Promise!Spec
================================================================================
