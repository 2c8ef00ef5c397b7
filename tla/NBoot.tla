--------------------------------- MODULE NBoot ---------------------------------
(***************************************************************************)
(* The boot loader of components/nboot/nboot.c: boot_app copies a newly    *)
(* downloaded firmware from the temporary slot B to the execution slot A,  *)
(* block by block, and jumps to slot A.  Whether there is something to     *)
(* copy is recorded in one metadata page that the application and the      *)
(* loader both rewrite with nboot_set_image_down_state.  Power may fail    *)
(* between any two flash operations or in the middle of a block, and any   *)
(* flash operation may return an error.                                    *)
(*                                                                         *)
(* The flash driver (onchip_flash, sdk_flash_t) and the application that   *)
(* downloads are not in the repository: they are modelled from how nboot.c *)
(* uses them and from nboot.h's interface.                                 *)
(*                                                                         *)
(* A block is IAP_BUF_SIZE bytes.  Its content is the image it belongs to  *)
(* (block i of img), ERASED, or TORN when a write of it was cut short.     *)
(***************************************************************************)
EXTENDS Integers

CONSTANTS
  Images,           \* the firmware images that exist
  BlocksOf,         \* [Images -> Nat]: their size, in blocks
  SlotBlocks,       \* blocks of a slot (MAX_IMAGE_SIZE / IAP_BUF_SIZE)
  NONE, ERASED, TORN

ASSUME SizesFit ==
  /\ SlotBlocks \in Nat \ {0}
  /\ BlocksOf \in [Images -> 1 .. SlotBlocks]

ASSUME Distinct ==
  /\ NONE \notin Images
  /\ ERASED \notin Images
  /\ TORN \notin Images

VARIABLES
  slotA,  \* the execution slot
  slotB,  \* the download slot (down_img_slot, flash_ctx->flash_start_addr)
  meta,   \* the IAP_Images_Down_State at IMAGE_META_DATA_ADDR
  pc,     \* where the processor is
  i,      \* the block the current erase, copy or download is at
  down,   \* boot_app's down_size
  buf,    \* the record save_image_down_state is about to write
  ret,    \* where nboot_set_image_down_state returns to on success
  want    \* the image the application is downloading

vars == <<slotA, slotB, meta, pc, i, down, buf, ret, want>>
flash == <<slotA, slotB, meta>>

--------------------------------------------------------------------------------
Block == 1 .. SlotBlocks
Content == Images \cup {ERASED, TORN}

\* What an erased size field reads as: 0xFFFFFFFF, larger than any flash.
HugeSize == SlotBlocks + 1

DownState == {"INVALID", "DOWNLOAD_OK", "DOWNLOAD_PROCESSING", "ERASED"}

Meta == [magic : {"MAGIC", "ERASED"}, state : DownState, size : 0 .. HugeSize]

MetaRecord(s, n) == [magic |-> "MAGIC", state |-> s, size |-> n]
ErasedMeta == [magic |-> "ERASED", state |-> "ERASED", size |-> HugeSize]
default_state == MetaRecord("INVALID", 0)

\* nboot_get_image_down_state: a page without the magic reads as the default.
image_down_state == IF meta.magic = "MAGIC" THEN meta ELSE default_state

\* boot_app's test whether there is a firmware to install.
NewFirmware ==
  /\ image_down_state.state = "DOWNLOAD_OK"
  /\ image_down_state.size > 0

SetPcs == {"set", "erase_meta", "write_magic", "write_state", "write_size"}
Pcs == {"boot", "erase", "copy", "jump", "hang", "app", "fetch"} \cup SetPcs

TypeOK ==
  /\ slotA \in [Block -> Content]
  /\ slotB \in [Block -> Content]
  /\ meta \in Meta
  /\ pc \in Pcs
  /\ i \in 1 .. HugeSize
  /\ down \in 0 .. HugeSize
  /\ buf \in Meta
  /\ ret \in {"jump", "fetch", "app"}
  /\ want \in Images \cup {NONE}

Holds(slot, img) == \A b \in 1 .. BlocksOf[img] : slot[b] = img

\* A device leaves the factory with an image in slot A; the metadata page was
\* never written or says that there is nothing to install.
Init ==
  /\ \E img \in Images : slotA = [b \in Block |-> img]
  /\ slotB = [b \in Block |-> ERASED]
  /\ meta \in {ErasedMeta, default_state}
  /\ pc = "boot"
  /\ i = 1
  /\ down = 0
  /\ buf = default_state
  /\ ret = "jump"
  /\ want = NONE

--------------------------------------------------------------------------------
(* nboot_set_image_down_state and save_image_down_state                    *)

\* The call, from the application or from boot_app: load_image_down_state has
\* read the page; nothing is written when the page already says so.
CallSet(s, n, then) ==
  /\ buf' = MetaRecord(s, n)
  /\ ret' = then
  /\ pc' = "set"

CheckNeedUpdate ==
  /\ pc = "set"
  /\ pc' = IF meta = buf THEN ret ELSE "erase_meta"
  /\ UNCHANGED <<flash, i, down, buf, ret, want>>

EraseMeta ==
  /\ pc = "erase_meta"
  /\ meta' = ErasedMeta
  /\ pc' = "write_magic"
  /\ UNCHANGED <<slotA, slotB, i, down, buf, ret, want>>

\* The page is programmed word after word: magic_bytes, down_state, down_size.
WriteMetaWord ==
  /\ \/ /\ pc = "write_magic"
        /\ meta' = [meta EXCEPT !.magic = buf.magic]
        /\ pc' = "write_state"
     \/ /\ pc = "write_state"
        /\ meta' = [meta EXCEPT !.state = buf.state]
        /\ pc' = "write_size"
     \/ /\ pc = "write_size"
        /\ meta' = [meta EXCEPT !.size = buf.size]
        /\ pc' = ret
  /\ UNCHANGED <<slotA, slotB, i, down, buf, ret, want>>

nboot_set_image_down_state ==
  CheckNeedUpdate \/ EraseMeta \/ WriteMetaWord

--------------------------------------------------------------------------------
(* boot_app                                                                *)

\* Mutant: the state is cleared before the copy, not after it.
GetDownStateClearsFirst ==
  /\ pc = "boot"
  /\ IF NewFirmware
       THEN /\ pc' = "erase" /\ down' = image_down_state.size
            /\ meta' = default_state
       ELSE pc' = "jump" /\ UNCHANGED <<down, meta>>
  /\ i' = 1
  /\ UNCHANGED <<slotA, slotB, buf, ret, want>>

GetDownState ==
  /\ pc = "boot"
  /\ IF NewFirmware
       THEN pc' = "erase" /\ down' = image_down_state.size
       ELSE pc' = "jump" /\ UNCHANGED down
  /\ i' = 1
  /\ UNCHANGED <<flash, buf, ret, want>>

\* The driver erases down_size bytes from the start of slot A.
EraseSlotA ==
  /\ pc = "erase"
  /\ i <= SlotBlocks
  /\ slotA' = [slotA EXCEPT ![i] = ERASED]
  /\ IF i = down
       THEN pc' = "copy" /\ i' = 1
       ELSE i' = i + 1 /\ UNCHANGED pc
  /\ UNCHANGED <<slotB, meta, down, buf, ret, want>>

\* A range that leaves the flash: the driver reports an error, at once or when
\* it gets there, and boot_app spins at err.
EraseRefused ==
  /\ pc = "erase"
  /\ down > SlotBlocks
  /\ pc' = "hang"
  /\ UNCHANGED <<flash, i, down, buf, ret, want>>

\* Mutant: the copy loop ends one block early.
CopyBlockOneShort ==
  /\ pc = "copy"
  /\ slotA' = [slotA EXCEPT ![i] = slotB[i]]
  /\ IF i + 1 >= down
       THEN CallSet("INVALID", 0, "jump") /\ UNCHANGED i
       ELSE i' = i + 1 /\ UNCHANGED <<pc, buf, ret>>
  /\ UNCHANGED <<slotB, meta, down, want>>

\* Mutant: after the last block the loader restarts without clearing the state.
CopyBlockNeverClears ==
  /\ pc = "copy"
  /\ slotA' = [slotA EXCEPT ![i] = slotB[i]]
  /\ IF i = down THEN pc' = "boot" /\ UNCHANGED i
                 ELSE i' = i + 1 /\ UNCHANGED pc
  /\ UNCHANGED <<slotB, meta, down, buf, ret, want>>

\* The copy loop; when it ends, the state is cleared so that the firmware is
\* not installed again.
CopyBlock ==
  /\ pc = "copy"
  /\ slotA' = [slotA EXCEPT ![i] = slotB[i]]
  /\ IF i = down
       THEN CallSet("INVALID", 0, "jump") /\ UNCHANGED i
       ELSE i' = i + 1 /\ UNCHANGED <<pc, buf, ret>>
  /\ UNCHANGED <<slotB, meta, down, want>>

JumpToApp ==
  /\ pc = "jump"
  /\ pc' = "app"
  /\ UNCHANGED <<flash, i, down, buf, ret, want>>

boot_app == GetDownState \/ EraseSlotA \/ EraseRefused \/ CopyBlock \/ JumpToApp

--------------------------------------------------------------------------------
(* The application's use of the interface in nboot.h: it takes back a      *)
(* DOWNLOAD_OK before it overwrites the slot that nboot_get_down_slot      *)
(* names, stays inside that slot, and commits when every block is there.   *)

StartDownload(img) ==
  /\ pc = "app"
  /\ want' = img
  /\ CallSet("DOWNLOAD_PROCESSING", 0, "fetch")
  /\ i' = 1
  /\ UNCHANGED <<flash, down>>

\* Mutant: one block too many.
FetchBlockTooMany ==
  /\ pc = "fetch"
  /\ i <= BlocksOf[want] + 1
  /\ slotB' = [slotB EXCEPT ![i] = want]
  /\ i' = i + 1
  /\ UNCHANGED <<slotA, meta, pc, down, buf, ret, want>>

FetchBlock ==
  /\ pc = "fetch"
  /\ i <= BlocksOf[want]
  /\ slotB' = [slotB EXCEPT ![i] = want]
  /\ i' = i + 1
  /\ UNCHANGED <<slotA, meta, pc, down, buf, ret, want>>

CommitDownload ==
  /\ pc = "fetch"
  /\ i > BlocksOf[want]
  /\ CallSet("DOWNLOAD_OK", BlocksOf[want], "app")
  /\ UNCHANGED <<flash, i, down, want>>

AbandonDownload ==
  /\ pc = "fetch"
  /\ pc' = "app"
  /\ UNCHANGED <<flash, i, down, buf, ret, want>>

application ==
  \/ \E img \in Images : StartDownload(img)
  \/ FetchBlock
  \/ CommitDownload
  \/ AbandonDownload

--------------------------------------------------------------------------------
(* Faults                                                                  *)

\* The block under the flash controller may be left half programmed.
InterruptedBlock ==
  /\ \/ UNCHANGED slotA
     \/ /\ pc \in {"erase", "copy"}
        /\ i <= SlotBlocks
        /\ slotA' = [slotA EXCEPT ![i] = TORN]
  /\ \/ UNCHANGED slotB
     \/ /\ pc = "fetch"
        /\ i <= SlotBlocks
        /\ slotB' = [slotB EXCEPT ![i] = TORN]
  /\ UNCHANGED meta

\* Mutant: boot_app does not look at what the copy returned, and jumps.
FlashErrorIgnored ==
  /\ pc \in {"boot", "erase", "copy", "fetch"} \cup SetPcs
  /\ InterruptedBlock
  /\ pc' = IF pc \in {"boot", "erase", "copy"} THEN "jump" ELSE "app"
  /\ UNCHANGED <<i, down, buf, ret, want>>

\* A flash operation returns < 0.  boot_app goes to err and spins; in the
\* application nboot_set_image_down_state or the download returns an error.
FlashError ==
  /\ pc \in {"boot", "erase", "copy", "fetch"} \cup SetPcs
  /\ ~(pc = "erase" /\ down > SlotBlocks)   \* that is EraseRefused
  /\ InterruptedBlock
  /\ pc' = IF pc \in {"boot", "erase", "copy"} \/ (pc \in SetPcs /\ ret = "jump")
             THEN "hang" ELSE "app"
  /\ UNCHANGED <<i, down, buf, ret, want>>

\* Reset loses the RAM and restarts the loader.
Reset ==
  /\ pc' = "boot"
  /\ i' = 1
  /\ down' = 0
  /\ buf' = default_state
  /\ ret' = "jump"
  /\ want' = NONE

PowerLoss ==
  /\ pc \notin {"hang", "boot"}
  /\ InterruptedBlock
  /\ Reset

\* Somebody switches a hung device off and on again.
PowerCycle ==
  /\ pc = "hang"
  /\ Reset
  /\ UNCHANGED flash

Fault == FlashError \/ PowerLoss

Next ==
  \/ nboot_set_image_down_state
  \/ boot_app
  \/ application
  \/ Fault
  \/ PowerCycle

Spec == Init /\ [][Next]_vars

\* The processor keeps executing the loader and the calls into it, and a hung
\* device is power-cycled.  Nothing makes the application download.
FairSpec ==
  /\ Spec
  /\ WF_vars(nboot_set_image_down_state)
  /\ WF_vars(boot_app)
  /\ WF_vars(PowerCycle)

--------------------------------------------------------------------------------
(* Properties                                                              *)

AppRunning ==
  \/ pc \in {"app", "fetch"}
  \/ pc \in SetPcs /\ ret # "jump"

\* boot_app jumps only to a slot that holds one whole image: no sequence of
\* power cuts and flash errors lets JumpToApp run a half-copied firmware.
AppRunsCompleteImage ==
  pc = "jump" \/ AppRunning => \E img \in Images : Holds(slotA, img)

\* Whenever slot A does not hold a whole image, the metadata page still says
\* DOWNLOAD_OK, so the next start repeats the copy; and what it will copy is a
\* whole image of exactly the recorded size (unless the size word of the page
\* was never programmed).  This is what makes the copy restartable.
InterruptedCopyIsRepeated ==
  /\ (\A img \in Images : ~Holds(slotA, img)) => NewFirmware
  /\ NewFirmware =>
       \/ meta.size = HugeSize
       \/ \E img \in Images : Holds(slotB, img) /\ BlocksOf[img] = meta.size

\* The update is atomic: seen from outside, the image the next start runs
\* changes in one step, taken by the application, and a start runs that image
\* whatever failed in between.
EffectiveImage == IF NewFirmware THEN slotB[1] ELSE slotA[1]
RunningImage == IF AppRunning THEN slotA[1] ELSE NONE

Promise == INSTANCE BootPromise WITH
  effective <- EffectiveImage, running <- RunningImage

PromiseKept == Promise!Spec

\* The one way to be stuck in the loader for ever is a record whose state word
\* says DOWNLOAD_OK while its size word was never programmed.
HalfWrittenCommit == NewFirmware /\ meta.size = HugeSize

StuckOnlyByHalfWrittenCommit ==
  <>[][~Fault]_vars => []<>AppRunning \/ <>[]HalfWrittenCommit

\* boot_app starts the application: when faults stop, the device is not stuck
\* in the loader for ever.
EventuallyBoots == <>[][~Fault]_vars => []<>AppRunning
================================================================================
