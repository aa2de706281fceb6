------------------------------ MODULE CsiUcode ------------------------------
(***************************************************************************)
(* The D11 core's microcode with the CSI patches                           *)
(* src/src/csi.ucode.*.patch: the main loop that polls FORCEDEAF and       *)
(* CLEANDEAF, the filter on the header of a frame being received, and the  *)
(* extraction of its channel estimate, chunk by chunk, once the frame is   *)
(* complete.  It runs beside the ARM core, which writes the shared memory  *)
(* and drains the receive FIFO.                                            *)
(*                                                                         *)
(* Data: a frame is a record of the attributes the filter looks at and a   *)
(* number; a channel estimate, a cached MAC address and sequence number    *)
(* are the frame they come from; a MAC filter slot is one word, though the *)
(* microcode compares its three words one after the other; the delay after *)
(* a chunk is left out, since it only paces, and so is the register        *)
(* SPR_BASE5, which the bcm4366c0 leaves as it was in SPARE6 when there    *)
(* are no addresses to compare with.                                       *)
(***************************************************************************)
EXTENDS Naturals, Sequences

CONSTANTS
    Chip,       \* the chip the patch is for
    Null,       \* no frame
    BwCode,     \* the bandwidth code of each channel specification
    Radio,      \* what may be on the air: records [mac, byte, type]
    MaxFrames,  \* bound: the number of frames received
    FifoDepth   \* what the receive FIFO and the DMA ring behind it can hold

\* The number of cores the extraction loops over, and of spatial streams.
NCORES == CASE Chip = "bcm4358" -> 2
            [] Chip = "bcm4366c0" -> 4
            [] OTHER -> 1
NSS == 4

\* How many chunks a measurement takes, and the tones of a chunk.
CHUNKS(cs) ==
    IF Chip = "bcm4366c0"
    THEN CASE BwCode[cs] = 4 -> 16 [] BwCode[cs] = 3 -> 8 [] OTHER -> 4
    ELSE CASE BwCode[cs] = 4 -> 19 [] BwCode[cs] = 3 -> 10 [] OTHER -> 5

\* Mutant: the last chunk is as long as on the bcm4366c0.
TonesLastOf4366(cs) == 16

TONES_LAST_CHUNK(cs) ==
    IF Chip = "bcm4366c0"
    THEN 16
    ELSE CASE BwCode[cs] = 4 -> 4 [] BwCode[cs] = 3 -> 2 [] OTHER -> 8
TONES_PER_CHUNK == IF Chip = "bcm4366c0" THEN 16 ELSE 14

\* A register of the microcode holds 16 bits.
WORD == 65536

VARIABLES
    shm,        \* the configuration words the ARM core writes
    FORCEDEAF, CLEANDEAF,   \* the two request words
    pc,         \* where the microcode is
    air,        \* the progress of a reception, and its channel
    lastrx,     \* the frame in the header buffer and the PHY's estimate table
    DUMP_CSI,   \* the filter has selected the frame
    cache,      \* SRC_MAC_CACHE and SEQ_NUM_CACHE
    slot, nmac, \* SPARE1 (SPR_BASE5) and SPARE2: the loop of the filter
    RXCHAN,     \* channel of the frame being extracted
    core, txstream, left,   \* SPARE4, SPARE6, SPARE3: the loop counters
    deaf,       \* carrier search is off (enable_carrier_search was last)
    fifo,       \* packets on their way to the ARM core
    nrx,        \* the number of frames received so far
    emitted     \* history: the number of chunks pushed so far

loopVars == <<slot, nmac, core, txstream, left, RXCHAN>>
ucVars == <<shm, FORCEDEAF, CLEANDEAF, pc, air, lastrx, DUMP_CSI, cache,
            loopVars, deaf, fifo, nrx, emitted>>

\* Nothing is being received.
NoAir == [phase |-> "none", chan |-> Null]

UcInit(InitShm) ==
    /\ shm \in InitShm
    /\ FORCEDEAF = 0 /\ CLEANDEAF = 0
    /\ pc = "force"
    /\ air = NoAir /\ lastrx = Null
    /\ DUMP_CSI = FALSE /\ cache = Null
    /\ slot = 0 /\ nmac = 0
    /\ RXCHAN = Null /\ core = 0 /\ txstream = 0 /\ left = 0
    /\ deaf = FALSE
    /\ fifo = <<>>
    /\ nrx = 0 /\ emitted = 0

\* The FIFO drops what it has no room for.
Push(x) == fifo' = IF Len(fifo) < FifoDepth THEN Append(fifo, x) ELSE fifo

-----------------------------------------------------------------------------
(***************************************************************************)
(* The radio.  A preamble is only detected while carrier search is on; a   *)
(* frame ends, or its reception is given up.  Assumed of the surroundings: *)
(* no preamble follows a frame so closely that it is detected before the   *)
(* microcode has dealt with the frame's end, that is before                *)
(* enable_carrier_search in the patch for the bcm43455c0, lines 287-299    *)
(* (the frames of a radio are at least a SIFS apart), and one that comes   *)
(* while the microcode is away from its main loop is noticed when it is    *)
(* back.                                                                   *)
(***************************************************************************)
Detect(r, cs) ==
    /\ ~deaf /\ air.phase = "none" /\ nrx < MaxFrames
    /\ pc \in {"force", "clean", "event"}
    /\ nrx' = nrx + 1
    /\ lastrx' = [n |-> nrx + 1, mac |-> r.mac, byte |-> r.byte,
                  type |-> r.type]
    /\ air' = [phase |-> "plcp", chan |-> cs]
    /\ UNCHANGED <<shm, FORCEDEAF, CLEANDEAF, pc, DUMP_CSI, cache, loopVars,
                   deaf, fifo, emitted>>

AirEnd ==
    /\ air.phase = "rx"
    /\ air' = [air EXCEPT !.phase = "done"]
    /\ UNCHANGED <<shm, FORCEDEAF, CLEANDEAF, pc, lastrx, DUMP_CSI, cache,
                   loopVars, deaf, fifo, nrx, emitted>>

AirAbort ==
    /\ air.phase = "rx"
    /\ pc \in {"force", "clean", "event"}
    /\ air' = NoAir
    /\ UNCHANGED <<shm, FORCEDEAF, CLEANDEAF, pc, lastrx, DUMP_CSI, cache,
                   loopVars, deaf, fifo, nrx, emitted>>

-----------------------------------------------------------------------------
\* Preamble detection off and on again, in the PHY's registers of all cores.
enable_carrier_search == deaf' = TRUE
disable_carrier_search == deaf' = FALSE

\* The top of the main loop, one poll after the other.
PollForce ==
    /\ pc = "force"
    /\ pc' = "clean"
    /\ FORCEDEAF' = 0
    /\ IF FORCEDEAF # 0 THEN enable_carrier_search ELSE UNCHANGED deaf
    /\ UNCHANGED <<shm, CLEANDEAF, air, lastrx, DUMP_CSI, cache, loopVars,
                   fifo, nrx, emitted>>

PollClean ==
    /\ pc = "clean"
    /\ pc' = "event"
    /\ CLEANDEAF' = 0
    /\ IF CLEANDEAF # 0 THEN disable_carrier_search ELSE UNCHANGED deaf
    /\ UNCHANGED <<shm, FORCEDEAF, air, lastrx, DUMP_CSI, cache, loopVars,
                   fifo, nrx, emitted>>

\* Nothing to do for a frame.
NoEvent ==
    /\ pc = "event"
    /\ air.phase \in {"none", "rx"}
    /\ pc' = "force"
    /\ UNCHANGED <<shm, FORCEDEAF, CLEANDEAF, air, lastrx, DUMP_CSI, cache,
                   loopVars, deaf, fifo, nrx, emitted>>

\* Mutant: the selection outlives a reception that is given up.
RxPlcpNoReset ==
    /\ pc = "event"
    /\ air.phase = "plcp"
    /\ pc' = "header"
    /\ air' = [air EXCEPT !.phase = "rx"]
    /\ UNCHANGED <<shm, FORCEDEAF, CLEANDEAF, lastrx, DUMP_CSI, cache,
                   loopVars, deaf, fifo, nrx, emitted>>

\* A reception starts.
RxPlcp ==
    /\ pc = "event"
    /\ air.phase = "plcp"
    /\ pc' = "header"
    /\ air' = [air EXCEPT !.phase = "rx"]
    /\ DUMP_CSI' = FALSE
    /\ UNCHANGED <<shm, FORCEDEAF, CLEANDEAF, lastrx, cache, loopVars, deaf,
                   fifo, nrx, emitted>>

(***************************************************************************)
(* The first part of the filter, when 30 bytes have arrived: collection is *)
(* on, the frame is no CCK frame (not looked at on the bcm4366c0), and its *)
(* first byte is the one asked for, if any.                                *)
(***************************************************************************)
Collecting == IF Chip = "bcm4366c0" THEN shm.csi_collect # 0
                                    ELSE shm.csi_collect = 1
HeaderPasses ==
    /\ lastrx.type # "short"
    /\ Collecting
    /\ Chip # "bcm4366c0" => lastrx.type # "cck"
    /\ shm.use_pkt_filter # 0 => lastrx.byte = shm.first_pkt_byte

RxHeader ==
    /\ pc = "header"
    /\ pc' = IF HeaderPasses THEN "macs" ELSE "force"
    /\ UNCHANGED <<shm, FORCEDEAF, CLEANDEAF, air, lastrx, DUMP_CSI, cache,
                   loopVars, deaf, fifo, nrx, emitted>>

\* The source MAC address in a slot: behind the last one the first again, on
\* the bcm4366c0 whatever follows in memory.
CMP_SRC_MAC(i) ==
    <<shm.mac0, shm.mac1, shm.mac2, shm.mac3>>
        [IF i \in 0..3 \/ Chip = "bcm4366c0" THEN i + 1 ELSE 1]

\* nomacfilter: the frame is selected, its address and number are kept.
SelectFrame == DUMP_CSI' = TRUE /\ cache' = lastrx /\ pc' = "force"

(***************************************************************************)
(* The second part of the filter: no addresses to compare with, or the     *)
(* source address in one of the used slots, one after the other.  The      *)
(* bcm4366c0 counts down from what it found at the start of the loop, the  *)
(* others look at the number again.                                        *)
(***************************************************************************)
RxMacs ==
    /\ pc = "macs"
    /\ IF shm.n_mac_addr = 0
         THEN SelectFrame /\ UNCHANGED slot
         ELSE pc' = "macloop" /\ slot' = 0 /\ UNCHANGED <<DUMP_CSI, cache>>
    /\ UNCHANGED <<shm, FORCEDEAF, CLEANDEAF, air, lastrx, nmac, core,
                   txstream, left, RXCHAN, deaf, fifo, nrx, emitted>>

\* Mutant: one slot too many is compared.
RxMacLoopOffByOne ==
    /\ pc = "macloop"
    /\ nmac' = IF Chip = "bcm4366c0" /\ slot > 0 THEN nmac ELSE shm.n_mac_addr
    /\ pc' = IF slot = nmac' + 1 THEN "force" ELSE "macslot"
    /\ UNCHANGED <<shm, FORCEDEAF, CLEANDEAF, air, lastrx, DUMP_CSI, cache,
                   slot, core, txstream, left, RXCHAN, deaf, fifo, nrx,
                   emitted>>

RxMacLoop ==
    /\ pc = "macloop"
    /\ nmac' = IF Chip = "bcm4366c0" /\ slot > 0 THEN nmac ELSE shm.n_mac_addr
    /\ pc' = IF slot = nmac' THEN "force" ELSE "macslot"
    /\ UNCHANGED <<shm, FORCEDEAF, CLEANDEAF, air, lastrx, DUMP_CSI, cache,
                   slot, core, txstream, left, RXCHAN, deaf, fifo, nrx,
                   emitted>>

RxMacSlot ==
    /\ pc = "macslot"
    /\ slot' = (slot + 1) % WORD
    /\ IF lastrx.mac = CMP_SRC_MAC(slot)
         THEN SelectFrame
         ELSE pc' = "macloop" /\ UNCHANGED <<DUMP_CSI, cache>>
    /\ UNCHANGED <<shm, FORCEDEAF, CLEANDEAF, air, lastrx, nmac, core,
                   txstream, left, RXCHAN, deaf, fifo, nrx, emitted>>

RxAddress == RxMacs \/ RxMacLoop \/ RxMacSlot

-----------------------------------------------------------------------------
\* Mutant: the bcm4366c0 leaves by csi_end, too.
RxCompleteToCsiEnd ==
    /\ pc = "event"
    /\ air.phase = "done"
    /\ ~DUMP_CSI
    /\ Push([kind |-> "frame", id |-> lastrx])
    /\ air' = NoAir
    /\ pc' = "csi_end"
    /\ UNCHANGED <<shm, FORCEDEAF, CLEANDEAF, lastrx, DUMP_CSI, cache,
                   loopVars, deaf, nrx, emitted>>

\* A frame that was not selected is complete.
RxComplete ==
    /\ pc = "event"
    /\ air.phase = "done"
    /\ ~DUMP_CSI
    /\ Push([kind |-> "frame", id |-> lastrx])
    /\ air' = NoAir
    /\ pc' = IF Chip = "bcm4366c0" THEN "force" ELSE "csi_end"
    /\ UNCHANGED <<shm, FORCEDEAF, CLEANDEAF, lastrx, DUMP_CSI, cache,
                   loopVars, deaf, nrx, emitted>>

\* A selected frame is complete: the radio goes deaf for the extraction.
RxCompleteDump ==
    /\ pc = "event"
    /\ air.phase = "done"
    /\ DUMP_CSI
    /\ Push([kind |-> "frame", id |-> lastrx])
    /\ air' = NoAir
    /\ RXCHAN' = air.chan
    /\ DUMP_CSI' = FALSE
    /\ enable_carrier_search
    /\ CLEANDEAF' = 1
    /\ core' = 0 /\ txstream' = 0 /\ left' = 0
    /\ pc' = "select"
    /\ UNCHANGED <<shm, FORCEDEAF, lastrx, cache, slot, nmac, nrx, emitted>>

\* Mutant: the loop goes one core too far.
AdvancePastLast ==
    IF txstream + 1 < NSS
    THEN txstream' = txstream + 1 /\ core' = core /\ pc' = "select"
    ELSE IF core < NCORES
         THEN txstream' = 0 /\ core' = core + 1 /\ pc' = "select"
         ELSE pc' = "finish" /\ UNCHANGED <<txstream, core>>

\* skip_this_core_txstream: go on to the next stream, core, or to the end.
Advance ==
    IF txstream + 1 < NSS
    THEN txstream' = txstream + 1 /\ core' = core /\ pc' = "select"
    ELSE IF core + 1 < NCORES
         THEN txstream' = 0 /\ core' = core + 1 /\ pc' = "select"
         ELSE pc' = "finish" /\ UNCHANGED <<txstream, core>>

\* Is this stream asked for?
SelectStream ==
    /\ pc = "select"
    /\ IF txstream \in shm.nss_mask
         THEN pc' = "mask" /\ UNCHANGED <<core, txstream>>
         ELSE Advance
    /\ UNCHANGED <<shm, FORCEDEAF, CLEANDEAF, air, lastrx, DUMP_CSI, cache,
                   slot, nmac, left, RXCHAN, deaf, fifo, nrx, emitted>>

\* And this core?
SelectCore ==
    /\ pc = "mask"
    /\ IF core \in shm.core_mask
         THEN left' = CHUNKS(RXCHAN) /\ pc' = "push" /\ UNCHANGED <<core, txstream>>
         ELSE Advance /\ UNCHANGED left
    /\ UNCHANGED <<shm, FORCEDEAF, CLEANDEAF, air, lastrx, DUMP_CSI, cache,
                   slot, nmac, RXCHAN, deaf, fifo, nrx, emitted>>

Select == SelectStream \/ SelectCore

\* The frame control byte at the end of the last chunk.  Only the patch for
\* the bcm43455c0 writes it.
\* Mutant: it is written into the first chunk.
FrameControlFirst ==
    IF left = CHUNKS(RXCHAN) /\ Chip = "bcm43455c0" THEN lastrx ELSE Null

FrameControl ==
    IF left = 1 /\ Chip = "bcm43455c0" THEN lastrx ELSE Null

(***************************************************************************)
(* The chunk with left chunks to go, itself included: the count, the core  *)
(* and the stream, and the NEW flag in one word, and the cached address    *)
(* after the last tones.  id, core, nss, chan and pos are history: where   *)
(* the tones come from.                                                    *)
(***************************************************************************)
Chunk ==
    [kind |-> "csi",
     cfg |-> left + (core + 8 * txstream) * 256
               + (IF left = CHUNKS(RXCHAN) THEN 16384 ELSE 0),
     csiconf |-> 0, start |-> FALSE,
     tones |-> IF left = 1 THEN TONES_LAST_CHUNK(RXCHAN)
                           ELSE TONES_PER_CHUNK,
     src |-> IF left = 1 THEN cache ELSE Null,
     fc |-> FrameControl,
     id |-> lastrx, core |-> core, nss |-> txstream, chan |-> RXCHAN,
     pos |-> emitted + 1]

\* The bcm4366c0 has words of their own for core and stream and for the NEW
\* flag, and the address from the header buffer in every chunk.
Chunk4366 ==
    [kind |-> "csi",
     cfg |-> left + core * 1024 + txstream * 256,
     csiconf |-> (core + 8 * txstream) * 256,
     start |-> (left = CHUNKS(RXCHAN)),
     tones |-> TONES_PER_CHUNK,
     src |-> lastrx, fc |-> Null,
     id |-> lastrx, core |-> core, nss |-> txstream, chan |-> RXCHAN,
     pos |-> emitted + 1]

PushChunk ==
    /\ pc = "push"
    /\ Push(IF Chip = "bcm4366c0" THEN Chunk4366 ELSE Chunk)
    /\ emitted' = emitted + 1
    /\ left' = left - 1
    /\ IF left = 1 THEN Advance ELSE UNCHANGED <<pc, core, txstream>>
    /\ UNCHANGED <<shm, FORCEDEAF, CLEANDEAF, air, lastrx, DUMP_CSI, cache,
                   slot, nmac, RXCHAN, deaf, nrx>>

\* Mutant: carrier search stays off after the extraction.
FinishDeaf ==
    /\ pc = "finish"
    /\ pc' = "csi_end"
    /\ UNCHANGED <<shm, FORCEDEAF, CLEANDEAF, air, lastrx, DUMP_CSI, cache,
                   loopVars, deaf, fifo, nrx, emitted>>

Finish ==
    /\ pc = "finish"
    /\ disable_carrier_search
    /\ pc' = "csi_end"
    /\ UNCHANGED <<shm, FORCEDEAF, CLEANDEAF, air, lastrx, DUMP_CSI, cache,
                   loopVars, fifo, nrx, emitted>>

CsiEnd ==
    /\ pc = "csi_end"
    /\ CLEANDEAF' = 0
    /\ pc' = "force"
    /\ UNCHANGED <<shm, FORCEDEAF, air, lastrx, DUMP_CSI, cache, loopVars,
                   deaf, fifo, nrx, emitted>>

Microcode ==
    \/ PollForce \/ PollClean \/ NoEvent
    \/ RxPlcp \/ RxHeader \/ RxAddress
    \/ RxComplete \/ RxCompleteDump
    \/ Select \/ PushChunk \/ Finish \/ CsiEnd
=============================================================================
