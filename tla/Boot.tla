------------------------------- MODULE Boot -------------------------------
(***************************************************************************)
(* embassy-boot: the bootloader's prepare_boot, which swaps a staged image *)
(* with the running one or swaps them back (boot_loader.rs), and the       *)
(* updater that the application calls (firmware_updater/blocking.rs).      *)
(* Power may fail between any two flash operations.                        *)
(*                                                                         *)
(* Flash is modelled by page and by state word.  A page that is being      *)
(* erased or written counts as erased: what it really holds is no page of  *)
(* an image either way.  A state word is written in one step: half a magic *)
(* word reads as no magic, half a progress word as unwritten, and a        *)
(* validity marker that is not erased throughout as invalid.               *)
(***************************************************************************)
EXTENDS Naturals, UpdaterState

CONSTANTS
    Versions,   \* firmware images
    P,          \* pages of the active partition; DFU has one more
    Slots,      \* state words (STATE::WRITE_SIZE) in the state partition
    HeadSlots   \* of which this many are in its first erase page

\* assert_partitions accepts a state partition this small.
ASSUME PagesAssumption == P \in Nat \ {0}
ASSUME SlotsAssumption == Slots \in Nat /\ 2 + 2 * P <= Slots
ASSUME HeadAssumption == HeadSlots \in 2 .. Slots
ASSUME NoneAssumption == None \notin Versions

VARIABLES
    valid,      \* state word 1: the progress is valid (the word is erased)
    done,       \* state words 2..: the progress indices written
    active,     \* the pages of the active partition
    dfu,        \* the pages of the DFU partition
    program,    \* bootloader or app
    pc,         \* where it is
    index,      \* the progress_index, or page, it works on
    until,      \* where the loop over the progress indices ends
    wanted,     \* the magic to be written when the state is erased
    result,     \* the State that prepare_boot returned
    old, new,   \* the images of the last update that was marked
    tried       \* the new image has run

flashVars == <<magic, valid, done, active, dfu>>
localVars == <<index, until, wanted, result, lastErased>>
historyVars == <<old, new, tried>>
vars == <<flashVars, program, pc, localVars, historyVars>>

Pages == 0 .. P - 1
Contents == {Erased, Mixed} \cup (Versions \X Pages)
Image(v) == [i \in Pages |-> <<v, i>>]
DfuImage == [i \in Pages |-> dfu[i]]
States == {"Boot", "Swap", "Revert", "DfuDetach"}

TypeOK ==
    /\ magic \in States \cup {"Erased"}
    /\ valid \in BOOLEAN
    /\ done \in SUBSET (0 .. Slots - 3)
    /\ active \in [Pages -> Contents]
    /\ dfu \in [0 .. P -> Contents]
    /\ lastErased \in Pages \cup {None}
    /\ program \in {"bootloader", "app"}
    /\ pc \in {"reset", "copy", "write", "mark", "handover", "failed", "app",
               "write_dfu", "erase_dfu", "invalidate", "erase", "erase_tail",
               "set_magic"}
    /\ index \in 0 .. 4 * P
    /\ until \in {0, 2 * P, 4 * P}
    /\ wanted \in States \cup {None}
    /\ result \in States \cup {None}
    /\ old \in Versions \cup {None}
    /\ new \in Versions \cup {None}
    /\ tried \in BOOLEAN

\* A device from the factory: one image, and a state partition that is erased
\* or holds anything that is no magic.
Init ==
    /\ magic = "Erased"
    /\ valid \in BOOLEAN
    /\ done = {}
    /\ \E v \in Versions : active = Image(v)
    /\ dfu = [i \in 0 .. P |-> Erased]
    /\ lastErased = None
    /\ program = "bootloader"
    /\ pc = "reset"
    /\ index = 0
    /\ until = 0
    /\ wanted = None
    /\ result = None
    /\ old = None
    /\ new = None
    /\ tried = FALSE

Goto(label) == pc' = label

---------------------------------------------------------------------------
(* The bootloader.                                                         *)

\* The first progress word that is not written, among those that are looked at.
FirstUnwritten(words) ==
    CHOOSE i \in 0 .. Slots - 3 :
        (i = Slots - 3 \/ i \notin words) /\ \A k \in 0 .. i - 1 : k \in words

CurrentProgress == IF valid THEN FirstUnwritten(done) ELSE Slots - 3

IsSwapped == CurrentProgress >= 2 * P

\* Anything but the three magics reads as State::Boot.
ReadState == IF magic = "Erased" THEN "Boot" ELSE magic

\* The copy with progress index n: its source and target.
ToDfu(n) == n % 2 = 0
Page(n) == IF n < 2 * P THEN P - 1 - n \div 2 ELSE (n - 2 * P) \div 2

\* Mutant: a revert copies back the page that it has just saved.
SourcePageSame(n) == IF ToDfu(n) THEN active[Page(n)] ELSE dfu[Page(n)]

SourcePage(n) ==
    IF ToDfu(n) THEN active[Page(n)]
    ELSE dfu[IF n < 2 * P THEN Page(n) ELSE Page(n) + 1]
PutTarget(n, content) ==
    IF ToDfu(n)
    THEN /\ dfu' = [dfu EXCEPT ![IF n < 2 * P THEN Page(n) + 1 ELSE Page(n)] = content]
         /\ UNCHANGED active
    ELSE /\ active' = [active EXCEPT ![Page(n)] = content]
         /\ UNCHANGED dfu

\* Mutant: a finished swap is not told from an unfinished one.
PrepareBootSwaps ==
    /\ program = "bootloader" /\ pc = "reset"
    /\ result' = ReadState
    /\ IF ReadState = "Swap"
       THEN /\ index' = 0
            /\ until' = 2 * P
            /\ Goto("copy")
       ELSE Goto("handover") /\ UNCHANGED <<index, until>>
    /\ UNCHANGED <<flashVars, program, wanted, lastErased, historyVars>>

PrepareBoot ==
    /\ program = "bootloader" /\ pc = "reset"
    /\ result' = ReadState
    /\ IF ReadState = "Swap"
       THEN /\ index' = IF IsSwapped THEN 2 * P ELSE 0
            /\ until' = IF IsSwapped THEN 4 * P ELSE 2 * P
            /\ Goto("copy")
       ELSE Goto("handover") /\ UNCHANGED <<index, until>>
    /\ UNCHANGED <<flashVars, program, wanted, lastErased, historyVars>>

\* Mutant: the last finished copy is not skipped.
CopySkipLater ==
    /\ pc = "copy" /\ index < until
    /\ CurrentProgress > index + 1
    /\ index' = index + 1
    /\ UNCHANGED <<flashVars, program, pc, until, wanted, result, lastErased,
                   historyVars>>

\* copy_page_once_to_active and copy_page_once_to_dfu: nothing to do ...
CopySkip ==
    /\ pc = "copy" /\ index < until
    /\ CurrentProgress > index
    /\ index' = index + 1
    /\ UNCHANGED <<flashVars, program, pc, until, wanted, result, lastErased,
                   historyVars>>

\* ... or erase the target,
CopyErase ==
    /\ pc = "copy" /\ index < until
    /\ CurrentProgress <= index
    /\ PutTarget(index, Erased)
    /\ Goto("write")
    /\ UNCHANGED <<magic, valid, done, program, localVars, historyVars>>

\* write it page by page of the buffer,
CopyWrite ==
    /\ pc = "write"
    /\ PutTarget(index, SourcePage(index))
    /\ Goto("mark")
    /\ UNCHANGED <<magic, valid, done, program, localVars, historyVars>>

\* and write the progress word, which must lie in the state partition.
CopyMark ==
    /\ pc = "mark"
    /\ IF 2 + index < Slots
       THEN /\ done' = done \cup {index}
            /\ index' = index + 1
            /\ Goto("copy")
       ELSE Goto("failed") /\ UNCHANGED <<done, index>>
    /\ UNCHANGED <<magic, valid, active, dfu, program, until, wanted, result,
                   lastErased, historyVars>>

\* The swap is done; the revert goes on to replace the magic.
CopyDone ==
    /\ pc = "copy" /\ index = until
    /\ IF until = 2 * P
       THEN Goto("handover") /\ UNCHANGED wanted
       ELSE Goto("invalidate") /\ wanted' = "Revert"
    /\ UNCHANGED <<flashVars, program, index, until, result, lastErased,
                   historyVars>>

\* BootLoader::load jumps to the active partition.
Load ==
    /\ pc = "handover"
    /\ program' = "app"
    /\ Goto("app")
    /\ tried' = (tried \/ magic = "Swap")
    /\ UNCHANGED <<flashVars, localVars, old, new>>

---------------------------------------------------------------------------
(* Replacing the magic: set_magic and the end of a revert.                 *)

\* Mutant: erases the state straight away.
InvalidateNot ==
    /\ pc = "invalidate"
    /\ Goto("erase")
    /\ UNCHANGED <<flashVars, program, localVars, historyVars>>

Invalidate ==
    /\ pc = "invalidate"
    /\ valid' = FALSE
    /\ Goto("erase")
    /\ UNCHANGED <<magic, done, active, dfu, program, localVars, historyVars>>

\* erase(0, capacity) erases the first page, losing its progress words in any
\* order, and at last the magic and the marker,
EraseProgress(i) ==
    /\ pc = "erase"
    /\ i \in done /\ 2 + i < HeadSlots
    /\ done' = done \ {i}
    /\ UNCHANGED <<magic, valid, active, dfu, program, pc, localVars,
                   historyVars>>

EraseHead ==
    /\ pc = "erase"
    /\ magic' = "Erased"
    /\ valid' = TRUE
    /\ done' = {i \in done : 2 + i >= HeadSlots}
    /\ Goto("erase_tail")
    /\ UNCHANGED <<active, dfu, program, localVars, historyVars>>

\* and then the pages that hold nothing but progress words.
EraseTail ==
    /\ pc = "erase_tail"
    /\ done' = {}
    /\ Goto("set_magic")
    /\ UNCHANGED <<magic, valid, active, dfu, program, localVars, historyVars>>

\* History: the images of an update are noted when its magic is written.
WriteMagic ==
    /\ pc = "set_magic"
    /\ magic' = wanted
    /\ wanted' = None
    /\ IF program = "app" THEN Goto("app") ELSE Goto("handover")
    /\ IF wanted = "Swap"
       THEN /\ old' = active[0][1]
            /\ new' = dfu[0][1]
            /\ tried' = FALSE
       ELSE UNCHANGED historyVars
    /\ UNCHANGED <<valid, done, active, dfu, program, index, until, result,
                   lastErased>>

---------------------------------------------------------------------------
(* The application.                                                        *)

\* set_magic does nothing if the magic is there already.
SetMagic(m) ==
    /\ pc = "app"
    /\ magic # m
    /\ wanted' = m
    /\ Goto("invalidate")
    /\ UNCHANGED <<flashVars, program, index, until, result, lastErased,
                   historyVars>>

\* The application marks an image that it has written and verified.
MarkUpdated == (\E v \in Versions : DfuImage = Image(v)) /\ SetMagic("Swap")
MarkBooted == SetMagic("Boot")
VerifyBooted == ReadState \in {"Boot", "DfuDetach", "Revert"}
MarkDfu == VerifyBooted /\ SetMagic("DfuDetach")

\* Mutant: writes to the DFU partition at any time.
WriteFirmwareAnyTime(j) ==
    /\ pc = "app"
    /\ IF lastErased = j THEN UNCHANGED dfu
       ELSE dfu' = [dfu EXCEPT ![j] = Erased]
    /\ lastErased' = j
    /\ index' = j
    /\ Goto("write_dfu")
    /\ UNCHANGED <<magic, valid, done, active, program, until, wanted, result,
                   historyVars>>

\* write_firmware of the j-th page of an image: the sector is erased unless
\* it is the one that was erased last,
WriteFirmware(j) ==
    /\ pc = "app"
    /\ VerifyBooted
    /\ IF lastErased = j THEN UNCHANGED dfu
       ELSE dfu' = [dfu EXCEPT ![j] = Erased]
    /\ lastErased' = j
    /\ index' = j
    /\ Goto("write_dfu")
    /\ UNCHANGED <<magic, valid, done, active, program, until, wanted, result,
                   historyVars>>

\* and written; what is written on top of other data mixes with it.
WriteFirmwareDone(v) ==
    /\ pc = "write_dfu"
    /\ dfu' = [dfu EXCEPT ![index] = IF @ = Erased THEN <<v, index>> ELSE Mixed]
    /\ index' = 0
    /\ Goto("app")
    /\ UNCHANGED <<magic, valid, done, active, program, until, wanted, result,
                   lastErased, historyVars>>

\* prepare_update erases the DFU partition, page by page.
PrepareUpdate ==
    /\ pc = "app"
    /\ VerifyBooted
    /\ index' = 0
    /\ Goto("erase_dfu")
    /\ UNCHANGED <<flashVars, program, until, wanted, result, lastErased,
                   historyVars>>

EraseDfu ==
    /\ pc = "erase_dfu"
    /\ dfu' = [dfu EXCEPT ![index] = Erased]
    /\ IF index = P
       THEN Goto("app") /\ index' = 0
       ELSE index' = index + 1 /\ UNCHANGED pc
    /\ UNCHANGED <<magic, valid, done, active, program, until, wanted, result,
                   lastErased, historyVars>>

\* A reset, a watchdog or a power cut: only the flash survives.
PowerLoss ==
    /\ pc # "reset"
    /\ program' = "bootloader"
    /\ Goto("reset")
    /\ index' = 0
    /\ until' = 0
    /\ wanted' = None
    /\ result' = None
    /\ lastErased' = None
    /\ UNCHANGED <<flashVars, historyVars>>

---------------------------------------------------------------------------
Copy == CopySkip \/ CopyErase \/ CopyWrite \/ CopyMark \/ CopyDone
Replace ==
    \/ Invalidate
    \/ \E i \in done : EraseProgress(i)
    \/ EraseHead \/ EraseTail \/ WriteMagic

App ==
    \/ MarkUpdated \/ MarkBooted \/ MarkDfu
    \/ \E j \in Pages : WriteFirmware(j)
    \/ \E v \in Versions : WriteFirmwareDone(v)
    \/ PrepareUpdate \/ EraseDfu

Next == PrepareBoot \/ Copy \/ Load \/ Replace \/ App \/ PowerLoss

Bootloader ==
    /\ program = "bootloader"
    /\ PrepareBoot \/ Copy \/ Load \/ Replace

\* The bootloader does not stop by itself, and a device whose power fails
\* again and again at last keeps it for the time of a boot.
Fairness == WF_vars(Bootloader) /\ <>[][~PowerLoss]_vars

Safety == Init /\ [][Next]_vars
Spec == Safety /\ Fairness
---------------------------------------------------------------------------
(* Properties.                                                             *)

\* An update that is neither confirmed nor rolled back.
Trial == magic = "Swap" /\ valid

\* The image that the active partition holds.
Installed ==
    IF \E v \in Versions : active = Image(v)
    THEN CHOOSE v \in Versions : active = Image(v)
    ELSE None

\* "power-fail-safe" (README.md:5): wherever the power failed in a swap, a
\* revert or a change of magic, the program that is started is one whole image.
BootsWholeImage ==
    program = "app" => \E v \in Versions : active = Image(v)

Phase ==
    IF ~Trial THEN "stable"
    ELSE IF CurrentProgress < 2 * P THEN "staged"
    ELSE IF tried THEN "tried" ELSE "swapped"
Kept == IF Trial THEN old ELSE Installed
Candidate == IF Trial THEN new ELSE None
Running == IF program = "app" THEN Installed ELSE None

\* The history of updates is that of TrialUpdate: what runs is the image that
\* ought to, an unconfirmed image runs once, a rollback restores the old one,
\* and nothing but that happens however often the power fails.
Update == INSTANCE TrialUpdate WITH
    phase <- Phase, image <- Kept, candidate <- Candidate, running <- Running
UpdatesAsPromised == Update!UpdateSpec

\* "First DFU page is untouched", "Last DFU page is untouched" (lib.rs:174 and
\* :187): when a revert is about to be made final, each image is whole, the
\* old one installed and the update back where the application wrote it.
RevertKeepsBothImages ==
    program = "bootloader" /\ pc = "invalidate" /\ valid =>
        active = Image(old) /\ DfuImage = Image(new)

\* "Ensure we have enough progress pages to store copy progress"
\* (boot_loader.rs:245): no copy is left without a word for its progress.  It
\* holds from 4 * P + 3 words on; the assertion behind that comment (:432)
\* also lets pass fewer, with which a revert runs over the partition's end.
NoOverrun == pc # "failed"

\* Once the power stays, the device comes up, ...
HandsOver == program = "bootloader" ~> program = "app"

\* ... having rolled back an image that was tried and not confirmed.
RollsBack == program = "bootloader" /\ Trial /\ tried ~> program = "app" /\ ~Trial
=============================================================================
