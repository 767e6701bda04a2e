------------------------------- MODULE UsbDfu -------------------------------
(***************************************************************************)
(* USB DFU: the runtime handler in the application, which sends the device *)
(* into DFU mode (embassy-usb-dfu/src/application.rs), and the handler in  *)
(* the bootloader, which writes what the host sends into the DFU partition *)
(* and marks it (dfu.rs), on the updater's write_firmware (embassy-boot).  *)
(* The host sends what it likes, in any order; power may fail between any  *)
(* two flash operations.                                                   *)
(*                                                                         *)
(* Lengths are counted in units of the flash's WRITE_SIZE.  The swap       *)
(* itself is the business of Boot: here it takes one step.                 *)
(***************************************************************************)
EXTENDS Naturals, Sequences, UpdaterState

CONSTANTS
    Images,
    Lengths,      \* of the images that a host may send
    Block,        \* BLOCK_SIZE
    Sector,       \* DFU::ERASE_SIZE
    Capacity,     \* of the DFU partition
    BlockNumbers, \* wValue counts blocks modulo this (2^16)
    Timeout,      \* the longest time between a detach and the USB reset
    WillDetach,   \* the attribute WILL_DETACH
    RestartsAnywhere, \* see DnloadFirst
    Zero          \* what the buffer holds that is no part of an image

\* The number of a block in the partition never wraps to 0, which would start
\* the download again.
ASSUME SizeAssumption ==
    /\ {Block, Sector} \subseteq Nat \ {0}
    /\ {Capacity, BlockNumbers, Timeout} \subseteq Nat
    /\ Capacity % Sector = 0
    /\ Capacity + Block <= BlockNumbers * Block
ASSUME LengthAssumption == Lengths \subseteq Nat \ {0}
ASSUME NoSectorAssumption == None \notin Nat
ASSUME FlagAssumption == {WillDetach, RestartsAnywhere} \subseteq BOOLEAN

VARIABLES
    mode,       \* app, dfu, or swap: the bootloader swaps the images
    flash,      \* the DFU partition
    window,     \* app: time that is left for a USB reset after a detach
    state,      \* dfu: Control.state,
    status,     \* ... Control.status,
    offset,     \* ... Control.offset,
    buf,        \* ... Control.buf
    step,       \* ready, or inside write_firmware or set_magic
    at,         \* write_firmware: where the remaining data goes
    len,        \* data.len() of the block that is being written
    image,      \* the host: what it sends,
    length,     \* ... how long that is,
    sent,       \* ... and how much of it the device has taken
    marked      \* history: what was sent when the magic was written

controlVars == <<state, status, offset, buf>>
updaterVars == <<lastErased, step, at, len>>
hostVars == <<image, length, sent>>
dfuVars == <<mode, magic, flash, window, controlVars, updaterVars, hostVars, marked>>

Pieces == Images \X Nat
ControlStates == {"DfuIdle", "Download", "DlSync", "ManifestSync", "Error"}

DfuTypeOK ==
    /\ mode \in {"app", "dfu", "swap"}
    /\ magic \in {"Boot", "Swap", "DfuDetach", "Erased"}
    /\ DOMAIN flash = 0 .. Capacity - 1
    /\ \A u \in DOMAIN flash : flash[u] \in Pieces \cup {Zero, Erased, Mixed}
    /\ window \in 0 .. Timeout
    /\ state \in ControlStates
    /\ status \in {"Ok", "ErrUnknown", "ErrAddress"}
    /\ offset \in 0 .. Capacity
    /\ DOMAIN buf = 0 .. Block - 1
    /\ \A i \in DOMAIN buf : buf[i] \in Pieces \cup {Zero}
    /\ lastErased \in 0 .. Capacity \div Sector - 1 \cup {None}
    /\ step \in {"ready", "erase", "write", "erase_state", "write_magic"}
    /\ at \in 0 .. Capacity + Block
    /\ len \in 0 .. Block
    /\ image \in Images
    /\ length \in Lengths
    /\ sent \in 0 .. Capacity
    /\ marked \in Images \X (0 .. Capacity)

DfuInit ==
    /\ mode = "app"
    /\ magic = "Boot"
    /\ flash = [u \in 0 .. Capacity - 1 |-> Mixed]
    /\ window = 0
    /\ state = "DfuIdle"
    /\ status = "Ok"
    /\ offset = 0
    /\ buf = [i \in 0 .. Block - 1 |-> Zero]
    /\ lastErased = None
    /\ step = "ready"
    /\ at = 0
    /\ len = 0
    /\ image \in Images
    /\ length \in Lengths
    /\ sent = 0
    /\ marked = <<image, 0>>

\* A reset, which only the flash survives: the bootloader exposes the DFU
\* device if it is asked to, swaps, or starts the application.
Restart ==
    /\ mode' = CASE magic' = "DfuDetach" -> "dfu"
                 [] magic' = "Swap" -> "swap"
                 [] OTHER -> "app"
    /\ window' = 0
    /\ state' = "DfuIdle"
    /\ status' = "Ok"
    /\ offset' = 0
    /\ buf' = [i \in 0 .. Block - 1 |-> Zero]
    /\ lastErased' = None
    /\ step' = "ready"
    /\ at' = 0
    /\ len' = 0
    /\ sent' = 0
    /\ UNCHANGED <<image, length>>

PowerFails ==
    /\ UNCHANGED <<magic, flash, marked>>
    /\ Restart

\* The images are swapped and the application confirms the new one.
Swap ==
    /\ mode = "swap"
    /\ mode' = "app"
    /\ magic' = "Boot"
    /\ flash' = [u \in 0 .. Capacity - 1 |-> Mixed]
    /\ UNCHANGED <<window, controlVars, updaterVars, hostVars, marked>>

---------------------------------------------------------------------------
(* The application.                                                        *)

\* Handler::reset in time: mark_dfu and sys_reset.
MarkDetached ==
    /\ step' = "erase_state"
    /\ UNCHANGED <<mode, magic, flash, controlVars, lastErased, at, len,
                   hostVars, marked>>

\* DFU_DETACH with a timeout w; with WILL_DETACH the device does not wait.
Detach(w) ==
    /\ mode = "app" /\ step = "ready"
    /\ window' = w
    /\ IF WillDetach /\ w > 0 THEN MarkDetached
       ELSE UNCHANGED <<mode, magic, flash, controlVars, updaterVars, hostVars,
                        marked>>

UsbReset ==
    /\ mode = "app" /\ step = "ready"
    /\ window > 0
    /\ MarkDetached
    /\ UNCHANGED window

Tick ==
    /\ mode = "app" /\ step = "ready"
    /\ window > 0
    /\ window' = window - 1
    /\ UNCHANGED <<mode, magic, flash, controlVars, updaterVars, hostVars, marked>>

---------------------------------------------------------------------------
(* set_magic; Boot has its steps in full.                                  *)

EraseState ==
    /\ step = "erase_state"
    /\ magic' = "Erased"
    /\ step' = "write_magic"
    /\ UNCHANGED <<mode, flash, window, controlVars, lastErased, at, len,
                   hostVars, marked>>

\* The application resets the device; the DFU handler waits to be asked.
WriteDfuMagic ==
    /\ step = "write_magic"
    /\ IF mode = "app"
       THEN /\ magic' = "DfuDetach"
            /\ Restart
            /\ UNCHANGED <<flash, marked>>
       ELSE /\ magic' = "Swap"
            /\ status' = "Ok"
            /\ state' = "ManifestSync"
            /\ step' = "ready"
            /\ marked' = <<image, sent>>
            /\ UNCHANGED <<mode, flash, window, offset, buf, lastErased, at,
                           len, hostVars>>

---------------------------------------------------------------------------
(* The DFU handler's requests.                                             *)

Dfu == mode = "dfu" /\ step = "ready"
UnchangedByRequest == UNCHANGED <<mode, magic, flash, window, lastErased, marked>>

\* DFU_ABORT and DFU_CLRSTATUS: reset_state.
ResetState ==
    /\ Dfu
    /\ offset' = 0
    /\ state' = "DfuIdle"
    /\ status' = "Ok"
    /\ UNCHANGED <<buf, step, at, len, hostVars>>
    /\ UnchangedByRequest

\* Mutant: DFU_GETSTATUS only reports.
GetStatusReports == Dfu /\ state = "ManifestSync" /\ PowerFails

\* DFU_GETSTATUS.
GetStatus ==
    /\ Dfu
    /\ \/ /\ state = "ManifestSync"
          /\ PowerFails
       \/ /\ state = "DlSync"
          /\ state' = "Download"
          /\ UNCHANGED <<status, offset, buf, step, at, len, hostVars>>
          /\ UnchangedByRequest

Fail(s) == state' = "Error" /\ status' = s

\* Block number 0 starts a download in every state.
Takes(value) == value = 0 \/ state = "Download"

\* Mutant: the look at the state is left out.
StateVerifiedNot == TRUE

\* write_firmware's look at the state.
StateVerified == magic # "Swap"

\* DFU_DNLOAD.
Dnload(value, data) ==
    LET from == IF value = 0 THEN 0 ELSE offset
        fits == Takes(value) /\ Len(data) <= Block
    IN  /\ Dfu
        /\ offset' = from
        /\ buf' = IF fits
                  THEN [i \in 0 .. Block - 1 |->
                            IF i < Len(data) THEN data[i + 1] ELSE buf[i]]
                  ELSE buf
        /\ CASE ~fits -> Fail("ErrUnknown") /\ UNCHANGED <<step, at, len>>
             [] fits /\ data = <<>> /\ magic = "Swap" ->
                 /\ state' = "ManifestSync"
                 /\ status' = "Ok"
                 /\ UNCHANGED <<step, at, len>>
             [] fits /\ data = <<>> /\ magic # "Swap" ->
                 /\ state' = "Download"
                 /\ step' = "erase_state"
                 /\ UNCHANGED <<status, at, len>>
             [] fits /\ data # <<>> /\ ~StateVerified ->
                 Fail("ErrUnknown") /\ UNCHANGED <<step, at, len>>
             [] fits /\ data # <<>> /\ StateVerified ->
                 /\ state' = "Download"
                 /\ step' = "erase"
                 /\ at' = from
                 /\ len' = Len(data)
                 /\ UNCHANGED status
        /\ UnchangedByRequest

---------------------------------------------------------------------------
(* write_firmware, one sector after the other.                             *)

SectorOf(u) == u \div Sector
SectorEnd(u) == (SectorOf(u) + 1) * Sector

WriteFails(s) ==
    /\ Fail(s)
    /\ step' = "ready"
    /\ UNCHANGED <<flash, lastErased>>

NeedErase == lastErased # SectorOf(at)

\* Mutant: one sector too many.
OutOfBoundsLate == at > Capacity

OutOfBounds == SectorEnd(at) > Capacity

EraseSector ==
    /\ step = "erase"
    /\ IF ~NeedErase
       THEN /\ step' = "write"
            /\ UNCHANGED <<flash, lastErased, state, status>>
       ELSE IF OutOfBounds
       THEN WriteFails("ErrAddress")
       ELSE /\ flash' = [u \in DOMAIN flash |->
                            IF SectorOf(u) = SectorOf(at) THEN Erased ELSE flash[u]]
            /\ lastErased' = SectorOf(at)
            /\ step' = "write"
            /\ UNCHANGED <<state, status>>
    /\ UNCHANGED <<mode, magic, window, offset, buf, at, len, hostVars, marked>>

\* The end of the data that is written at once.
ChunkEnd ==
    IF offset + Block < SectorEnd(at) THEN offset + Block ELSE SectorEnd(at)

\* dfu.rs counts the data, though the whole buffer was written.
BlockWritten ==
    /\ state' = "DlSync"
    /\ status' = "Ok"
    /\ offset' = offset + len
    /\ sent' = sent + len

\* What is written on top of other data mixes with it.
WriteChunk ==
    /\ step = "write"
    /\ flash' = [u \in DOMAIN flash |->
                    IF u \notin at .. ChunkEnd - 1 THEN flash[u]
                    ELSE IF flash[u] = Erased THEN buf[u - offset] ELSE Mixed]
    /\ at' = ChunkEnd
    /\ IF ChunkEnd = offset + Block
       THEN step' = "ready" /\ BlockWritten
       ELSE step' = "erase" /\ UNCHANGED <<state, status, offset, sent>>
    /\ UNCHANGED <<mode, magic, window, buf, lastErased, len, image, length,
                   marked>>

---------------------------------------------------------------------------
(* The host.  As DFU prescribes, it numbers the blocks, and all but the    *)
(* last are full; it may break off, start again, hurry or be confused.     *)

Data(v, from, n) == [i \in 1 .. n |-> <<v, from + i - 1>>]
Smaller(m, n) == IF m < n THEN m ELSE n
Blocks(n) == (n + Block - 1) \div Block
Number == Blocks(sent) % BlockNumbers

\* A download from the beginning.  Without RestartsAnywhere, only if the first
\* sector is not the one that was erased last.
DnloadFirst(v, n) ==
    /\ RestartsAnywhere \/ lastErased # 0
    /\ Dnload(0, Data(v, 0, Smaller(n, Block)))
    /\ image' = v
    /\ length' = n
    /\ sent' = 0

DnloadNext ==
    /\ sent \in 1 .. length - 1
    /\ sent % Block = 0
    /\ Dnload(Number, Data(image, sent, Smaller(length - sent, Block)))
    /\ UNCHANGED hostVars

\* More than the descriptor allows.
DnloadTooLong ==
    /\ sent > 0
    /\ Dnload(Number, Data(image, sent, Block + 1))
    /\ UNCHANGED hostVars

DnloadFinal ==
    /\ Dnload(Number, <<>>)
    /\ UNCHANGED hostVars

Confused ==
    \/ ResetState \/ GetStatus
    \/ \E v \in Images, n \in Lengths : DnloadFirst(v, n)
    \/ DnloadNext \/ DnloadTooLong \/ DnloadFinal

\* A host that goes by the device's state, knows the sector to avoid, and that
\* the last block is written in full.
Orderly ==
    \/ GetStatus
    \/ state = "Error" /\ ResetState
    \/ state = "Download" /\ DnloadNext
    \/ state = "Download" /\ sent >= length /\ DnloadFinal
    \/ /\ state = "DfuIdle"
       /\ \E v \in Images, n \in {m \in Lengths : Blocks(m) * Block <= Capacity} :
             DnloadFirst(v, n)
    \/ Dfu /\ state = "DfuIdle" /\ lastErased = 0 /\ PowerFails

Device == EraseState \/ WriteDfuMagic \/ EraseSector \/ WriteChunk \/ Swap

Application == (\E w \in 0 .. Timeout : Detach(w)) \/ UsbReset \/ Tick

DfuNext == Device \/ Application \/ Confused \/ PowerFails

\* The device ends what it began.  In the end its power stays, and the host
\* keeps to the order.
DfuFairness ==
    /\ WF_dfuVars(Device)
    /\ WF_dfuVars(Orderly)
    /\ <>[][Device \/ Orderly]_dfuVars

DfuSafety == DfuInit /\ [][DfuNext]_dfuVars
DfuSpec == DfuSafety /\ DfuFairness
---------------------------------------------------------------------------
(* Properties.                                                             *)

\* "the chunks sent by the host will be written to the DFU partition"
\* (dfu.rs:211): what is marked to be swapped in is the data of one download,
\* unit by unit, whatever went before it and whatever the host sends after it.
MarkedAsSent ==
    magic = "Swap" =>
        \A u \in 0 .. marked[2] - 1 : flash[u] = <<marked[1], u>>

\* From wherever hosts have left it, a device in DFU mode can be given an image.
DownloadEnds == mode = "dfu" ~> magic = "Swap" \/ mode # "dfu"
=============================================================================
