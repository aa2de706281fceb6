---------------------------- MODULE CsiFirmware ----------------------------
(***************************************************************************)
(* The ARM side of the CSI extractor: process_frame_hook of                *)
(* src/src/csi_extractor.c, which the firmware calls for every packet the  *)
(* D11 core has pushed through the receive FIFO.  A packet is either an    *)
(* ordinary frame or one chunk of channel state information; the hook      *)
(* collects the chunks of one measurement in p_csi and transmits them to   *)
(* the host as one UDP frame.                                              *)
(*                                                                         *)
(* The environment of this module is any order, loss or repetition of the  *)
(* packets in Packet, a pool of packet buffers that may be exhausted, and  *)
(* a channel that may be retuned between two calls of the hook.            *)
(*                                                                         *)
(* Data: a chunk's tones are one block (which chunk of which measurement), *)
(* an rssi, a PHY status or a MAC address is the frame it was taken from.  *)
(***************************************************************************)
EXTENDS Naturals, Sequences

CONSTANTS
    Chip,       \* the chip the firmware patch is built for
    Buf,        \* the packet buffers (struct sk_buff) of the firmware's pool
    Null,       \* the null pointer
    Frame,      \* the Wi-Fi frames
    Chanspec,   \* the channel specifications
    BwCode,     \* the bandwidth code (bits 0x3800) of a channel specification
    Packet,     \* the packets the hook may be called with
    HeapFails,  \* may pkt_buf_get_skb fail although a buffer is free
    AnyBuffer   \* may it return any free buffer, or always the same one

ASSUME ChipAssumption ==
    Chip \in {"bcm4339", "bcm43455c0", "bcm4358", "bcm4366c0"}
ASSUME BwCodeAssumption == BwCode \in [Chanspec -> 0..7]
ASSUME HeapAssumption == HeapFails \in BOOLEAN /\ AnyBuffer \in BOOLEAN

\* CSIDATA_PER_CHUNK in words, and the words of phystatus[6].
TonesPerChunk == IF Chip = "bcm4366c0" THEN 16 ELSE 14
PhyWords == 3

\* The largest count of chunks a header can hold, and the largest uint16.
MaxCount == 255
MaxUint16 == 65535

\* The fields of a chunk's header.
\* Mutant: the core and stream bits are taken without shifting them down.
CsiConfUnshifted(c) == IF Chip = "bcm4366c0" THEN c.csiconf ELSE c.cfg % 64

IsNew(c) == IF Chip = "bcm4366c0" THEN c.start
                                  ELSE (c.cfg \div 16384) % 2 = 1
Missing(c) == c.cfg % 256
CsiConf(c) == IF Chip = "bcm4366c0" THEN c.csiconf
                                    ELSE (c.cfg \div 256) % 64

\* Where the PHY status is laid over the CSI values.
PhyOffset(cs) == IF BwCode[cs] = 2 THEN 28 ELSE 0

IsChunk(f) == f.kind = "csi"

\* What the D11 core may push: an ordinary frame, or a chunk that counts at
\* least 1 down, is full unless it is the last one, and starts a measurement
\* of enough chunks for the PHY status to fit in.
IsPacket(f) ==
    \/ /\ f.kind = "frame"
       /\ f.id \in Frame
    \/ /\ f.kind = "csi"
       /\ IsNew(f) \in BOOLEAN
       /\ Missing(f) \in 1..MaxCount
       /\ CsiConf(f) \in Nat
       /\ f.src \in Frame \cup {Null}
       /\ f.fc \in Frame \cup {Null}
       /\ f.tones \in 1..TonesPerChunk
       /\ Missing(f) > 1 => f.tones = TonesPerChunk
       /\ IsNew(f) =>
             Missing(f) * TonesPerChunk >= 28 + PhyWords + TonesPerChunk

ASSUME PacketAssumption == \A f \in Packet : IsPacket(f)

\* A UDP frame (struct csi_udp_frame, and its buffer), and a packet in the
\* buffer the hook is called with.
UdpFrame ==
    [buf : Buf, alloc : Nat, rssi : Frame \cup {Null}, csiconf : Nat,
     chanspec : Chanspec, src : Frame \cup {Null}, fc : Frame \cup {Null},
     phy : Frame \cup {Null}, blocks : Seq(Packet), words : Nat]
Received == [buf : Buf, pkt : Packet]

ASSUME NullAssumption == Null \notin UdpFrame /\ Null \notin Received

VARIABLES
    owner,                  \* who holds each packet buffer
    rx,                     \* the packet the hook is called with, or Null
    p_csi,                  \* the UDP frame under construction, or Null
    missing_csi_frames,     \* chunks still expected for p_csi
    inserted_csi_values,    \* words already written to p_csi
    last_rssi,              \* the frame the last rssi was computed for
    phystatus,              \* the frame the last PHY status was taken from
    chanspec,               \* what get_chanspec returns
    out                     \* UDP frames handed to the bus, oldest first

fwVars == <<owner, rx, p_csi, missing_csi_frames, inserted_csi_values,
            last_rssi, phystatus, chanspec, out>>

FwInit ==
    /\ owner = [b \in Buf |-> "pool"]
    /\ rx = Null
    /\ p_csi = Null
    /\ missing_csi_frames = 0
    /\ inserted_csi_values = 0
    /\ last_rssi = Null
    /\ phystatus = Null
    /\ chanspec \in Chanspec
    /\ out = <<>>

Pool == {b \in Buf : owner[b] = "pool"}

\* The buffers of the free set S the allocator may return.
Allocatable(S) == {b \in S : AnyBuffer \/ b = CHOOSE x \in S : TRUE}

\* The buffers of S change hands.
Give(own, S, who) == [b \in Buf |-> IF b \in S THEN who ELSE own[b]]

\* The buffer of p_csi, as a set.
Held == IF p_csi = Null THEN {} ELSE {p_csi.buf}

-----------------------------------------------------------------------------
\* Mutant: the rssi and the chanspec are stored in each other's place.
NewUdpSwapped(b, csiconf, words) ==
    [buf |-> b, alloc |-> words, rssi |-> chanspec, csiconf |-> csiconf,
     chanspec |-> last_rssi, src |-> Null, fc |-> Null, phy |-> Null,
     blocks |-> <<>>, words |-> 0]

(***************************************************************************)
(* create_new_csi_frame: the header of a new UDP frame in buffer b, with   *)
(* room for the given number of words.                                     *)
(***************************************************************************)
NewUdp(b, csiconf, words) ==
    [buf |-> b, alloc |-> words, rssi |-> last_rssi, csiconf |-> csiconf,
     chanspec |-> chanspec, src |-> Null, fc |-> Null, phy |-> Null,
     blocks |-> <<>>, words |-> 0]

(***************************************************************************)
(* The common tail of the hook for a chunk c: append its tones to udp, and *)
(* when it was the last one, complete the frame and transmit it.           *)
(***************************************************************************)
Filled(udp, c) == [udp EXCEPT !.blocks = Append(@, c)]

Complete(udp, c, inserted) ==
    [Filled(udp, c) EXCEPT
        !.src = c.src,
        !.fc = IF Chip = "bcm4366c0" THEN @ ELSE c.fc,
        !.phy = phystatus,
        !.words = inserted + c.tones]

Insert(udp, c, missing, inserted, own) ==
    /\ inserted_csi_values' = inserted + c.tones
    /\ missing_csi_frames' = IF missing = 0 THEN MaxUint16 ELSE missing - 1
    /\ IF missing_csi_frames' = 0
       THEN /\ out' = Append(out, Complete(udp, c, inserted))
            /\ p_csi' = Null
            /\ owner' = Give(Give(own, {rx.buf}, "pool"), {udp.buf}, "bus")
       ELSE /\ p_csi' = Filled(udp, c)
            /\ owner' = Give(own, {rx.buf}, "pool")
            /\ UNCHANGED out

\* Mutant: the index is not reset for a new measurement.
NewChunkNoReset(c) ==
    /\ IsNew(c)
    /\ \E b \in Allocatable(Pool \cup Held) :
          Insert(NewUdp(b, CsiConf(c), Missing(c) * TonesPerChunk), c,
                 Missing(c), inserted_csi_values,
                 Give(Give(owner, Held, "pool"), {b}, "fw"))
    /\ UNCHANGED <<last_rssi, phystatus, chanspec>>

\* Mutant: the count of the old measurement is kept.
NewChunkStaleCount(c) ==
    /\ IsNew(c)
    /\ \E b \in Allocatable(Pool \cup Held) :
          Insert(NewUdp(b, CsiConf(c), Missing(c) * TonesPerChunk), c,
                 missing_csi_frames, 0,
                 Give(Give(owner, Held, "pool"), {b}, "fw"))
    /\ UNCHANGED <<last_rssi, phystatus, chanspec>>

\* First chunk of a measurement; an unfinished UDP frame is freed.
NewChunk(c) ==
    /\ IsNew(c)
    /\ \E b \in Allocatable(Pool \cup Held) :
          Insert(NewUdp(b, CsiConf(c), Missing(c) * TonesPerChunk), c,
                 Missing(c), 0, Give(Give(owner, Held, "pool"), {b}, "fw"))
    /\ UNCHANGED <<last_rssi, phystatus, chanspec>>

\* First chunk of a measurement, and no buffer can be had for it; an
\* unfinished UDP frame has been freed before the attempt.
NewChunkNoBuffer(c) ==
    /\ IsNew(c)
    /\ HeapFails \/ Pool \cup Held = {}
    /\ p_csi' = Null
    /\ owner' = Give(owner, {rx.buf} \cup Held, "pool")
    /\ UNCHANGED <<missing_csi_frames, inserted_csi_values, last_rssi,
                   phystatus, chanspec, out>>

\* "unexpected csi data"
StrayChunk(c) ==
    /\ ~ IsNew(c)
    /\ p_csi = Null
    /\ owner' = Give(owner, {rx.buf}, "pool")
    /\ UNCHANGED <<p_csi, missing_csi_frames, inserted_csi_values, last_rssi,
                   phystatus, chanspec, out>>

\* Mutant: p_csi is freed and not cleared.
MismatchedChunkKept(c) ==
    /\ ~ IsNew(c)
    /\ p_csi # Null
    /\ Missing(c) # missing_csi_frames
    /\ owner' = Give(owner, {rx.buf} \cup Held, "pool")
    /\ UNCHANGED <<p_csi, missing_csi_frames, inserted_csi_values, last_rssi,
                   phystatus, chanspec, out>>

\* "number of missing frames mismatch"
MismatchedChunk(c) ==
    /\ ~ IsNew(c)
    /\ p_csi # Null
    /\ Missing(c) # missing_csi_frames
    /\ owner' = Give(owner, {rx.buf} \cup Held, "pool")
    /\ p_csi' = Null
    /\ UNCHANGED <<missing_csi_frames, inserted_csi_values, last_rssi,
                   phystatus, chanspec, out>>

\* Mutant: the count in the chunk is not compared.
NextChunkUnchecked(c) ==
    /\ ~ IsNew(c)
    /\ p_csi # Null
    /\ Insert(p_csi, c, missing_csi_frames, inserted_csi_values, owner)
    /\ UNCHANGED <<last_rssi, phystatus, chanspec>>

\* The chunk p_csi waits for.
NextChunk(c) ==
    /\ ~ IsNew(c)
    /\ p_csi # Null
    /\ Missing(c) = missing_csi_frames
    /\ Insert(p_csi, c, missing_csi_frames, inserted_csi_values, owner)
    /\ UNCHANGED <<last_rssi, phystatus, chanspec>>

\* An ordinary frame: note its rssi and PHY status, pass it on to wlc_recv.
RegularFrame(f) ==
    /\ last_rssi' = f.id
    /\ phystatus' = f.id
    /\ owner' = Give(owner, {rx.buf}, "stack")
    /\ UNCHANGED <<p_csi, missing_csi_frames, inserted_csi_values, chanspec,
                   out>>

process_frame_hook ==
    /\ rx # Null
    /\ rx' = Null
    /\ \/ /\ IsChunk(rx.pkt)
          /\ \/ NewChunk(rx.pkt)
             \/ NewChunkNoBuffer(rx.pkt)
             \/ StrayChunk(rx.pkt)
             \/ MismatchedChunk(rx.pkt)
             \/ NextChunk(rx.pkt)
       \/ /\ ~ IsChunk(rx.pkt)
          /\ RegularFrame(rx.pkt)

-----------------------------------------------------------------------------
(***************************************************************************)
(* The surroundings: the firmware's receive path takes a buffer for packet *)
(* f and calls the hook; the bus and the network stack return the buffers  *)
(* they were handed; the channel changes.                                  *)
(***************************************************************************)
Receive(f) ==
    /\ rx = Null
    /\ \E b \in Allocatable(Pool) :
          /\ rx' = [buf |-> b, pkt |-> f]
          /\ owner' = Give(owner, {b}, "fw")
    /\ UNCHANGED <<p_csi, missing_csi_frames, inserted_csi_values, last_rssi,
                   phystatus, chanspec, out>>

XmitDone ==
    /\ out # <<>>
    /\ out' = Tail(out)
    /\ owner' = Give(owner, {Head(out).buf}, "pool")
    /\ UNCHANGED <<rx, p_csi, missing_csi_frames, inserted_csi_values,
                   last_rssi, phystatus, chanspec>>

StackDone(b) ==
    /\ owner[b] = "stack"
    /\ owner' = Give(owner, {b}, "pool")
    /\ UNCHANGED <<rx, p_csi, missing_csi_frames, inserted_csi_values,
                   last_rssi, phystatus, chanspec, out>>

set_chanspec(cs) ==
    /\ rx = Null
    /\ chanspec' = cs
    /\ UNCHANGED <<owner, rx, p_csi, missing_csi_frames, inserted_csi_values,
                   last_rssi, phystatus, out>>

FwNext ==
    \/ \E f \in Packet : Receive(f)
    \/ process_frame_hook
    \/ XmitDone
    \/ \E b \in Buf : StackDone(b)
    \/ \E cs \in Chanspec : set_chanspec(cs)

FwSpec == FwInit /\ [][FwNext]_fwVars

-----------------------------------------------------------------------------
\* Type invariant of the hook's globals, its argument and its output.
FwTypeOK ==
    /\ owner \in [Buf -> {"pool", "fw", "bus", "stack"}]
    /\ rx \in Received \cup {Null}
    /\ p_csi \in UdpFrame \cup {Null}
    /\ missing_csi_frames \in 0..MaxUint16
    /\ inserted_csi_values \in Nat
    /\ last_rssi \in Frame \cup {Null}
    /\ phystatus \in Frame \cup {Null}
    /\ chanspec \in Chanspec
    /\ out \in Seq(UdpFrame)

(***************************************************************************)
(* The hook's two counters and the UDP frame under construction agree:     *)
(* what is written and what is still missing make up the buffer, which is  *)
(* large enough for the PHY status even without the last chunk, and the    *)
(* blocks written so far count down from the first one, which alone has    *)
(* the NEW flag, to the number missing.  The counters are not reset when a *)
(* measurement is dropped, so this must come with every new one.           *)
(***************************************************************************)
ConstructionOK ==
    p_csi # Null =>
        /\ missing_csi_frames \in 1..MaxCount
        /\ inserted_csi_values + missing_csi_frames * TonesPerChunk
              = p_csi.alloc
        /\ p_csi.alloc >= 28 + PhyWords + TonesPerChunk
        /\ Len(p_csi.blocks) >= 1
        /\ \A k \in 1..Len(p_csi.blocks) :
              /\ Missing(p_csi.blocks[k])
                    = Len(p_csi.blocks) + missing_csi_frames + 1 - k
              /\ IsNew(p_csi.blocks[k]) <=> (k = 1)
        /\ p_csi.csiconf = CsiConf(p_csi.blocks[1])

\* The buffer the hook is called with, as a set.
Argument == IF rx = Null THEN {} ELSE {rx.buf}

FirmwareHolds ==
    /\ {b \in Buf : owner[b] = "fw"} = Held \cup Argument
    /\ Held \cap Argument = {}

BusHolds ==
    /\ {b \in Buf : owner[b] = "bus"} = {out[i].buf : i \in 1..Len(out)}
    /\ \A i, j \in 1..Len(out) : out[i].buf = out[j].buf => i = j

(***************************************************************************)
(* Every buffer has exactly one owner: the firmware holds its argument and *)
(* the UDP frame under construction and nothing else (no leak on any of    *)
(* the early returns), and a frame handed to the bus is not touched, freed *)
(* or handed over again (csi_extractor.c frees p and p_csi on six paths).  *)
(***************************************************************************)
BuffersOwnedOnce == FirmwareHolds /\ BusHolds

(***************************************************************************)
(* The hook never writes past the buffer it allocated for the first chunk: *)
(* the next chunk and all the chunks still missing fit in, and the PHY     *)
(* status that is copied over csi_values at the end lies within what was   *)
(* received.                                                               *)
(***************************************************************************)
WritesInBounds ==
    /\ p_csi # Null =>
          inserted_csi_values + missing_csi_frames * TonesPerChunk
              <= p_csi.alloc
    /\ \A i \in 1..Len(out) :
          /\ out[i].words <= out[i].alloc
          /\ PhyOffset(out[i].chanspec) + PhyWords <= out[i].words

\* The blocks of u count down from the number in the first one, which alone
\* carries the NEW flag, to 1.
InPlace(u) ==
    /\ Len(u.blocks) = Missing(u.blocks[1])
    /\ \A k \in 1..Len(u.blocks) :
          /\ Missing(u.blocks[k]) = Len(u.blocks) + 1 - k
          /\ IsNew(u.blocks[k]) <=> (k = 1)
    /\ u.csiconf = CsiConf(u.blocks[1])
    /\ u.src = u.blocks[Len(u.blocks)].src

(***************************************************************************)
(* However chunks are lost, repeated or reordered on the way, the blocks   *)
(* of a transmitted UDP frame are in place: the tones of the k-th chunk of *)
(* a measurement are at the k-th place, none is missing or there twice,    *)
(* core and stream are those of the first chunk, and the source address    *)
(* is that of the last.                                                    *)
(***************************************************************************)
BlocksInPlace == \A i \in 1..Len(out) : InPlace(out[i])
=============================================================================
