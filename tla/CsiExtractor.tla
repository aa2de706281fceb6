---------------------------- MODULE CsiExtractor ----------------------------
(***************************************************************************)
(* The whole extractor: the microcode of the D11 core (CsiUcode), the hook *)
(* on the ARM core that assembles UDP frames (CsiFirmware), and the ioctls *)
(* by which the host configures both (CsiIoctl).                           *)
(*                                                                         *)
(* The D11 and the ARM core run side by side and meet in the shared memory *)
(* and in the receive FIFO.  The ARM core runs one thing at a time: an     *)
(* ioctl or the processing of a packet.  Tuning the radio suspends the     *)
(* microcode first, so that it happens between two frames.                 *)
(***************************************************************************)
EXTENDS Naturals, Sequences, FiniteSets

CONSTANTS
    Chip, Null, Chanspec, BwCode,
    Buf, HeapFails, AnyBuffer,  \* of CsiFirmware
    Radio, MaxFrames, FifoDepth,    \* of CsiUcode
    Request, MaxIoctls,         \* of CsiIoctl
    InitShm                     \* the configurations the extractor starts in

\* The frames there can be, and the packets the microcode makes of them.
Frame == {[n |-> i, mac |-> r.mac, byte |-> r.byte, type |-> r.type] :
              i \in 1..MaxFrames, r \in Radio}

\* Any packet in the FIFO: an ordinary frame or a chunk, whatever its count.
AnyPacket ==
    [kind : {"frame"}, id : Frame]
      \cup [kind : {"csi"}, cfg : Nat, csiconf : Nat, start : BOOLEAN,
            tones : Nat, src : Frame \cup {Null}, fc : Frame \cup {Null},
            id : Frame, core : Nat, nss : Nat, chan : Chanspec, pos : Nat]

VARIABLES
    shm, FORCEDEAF, CLEANDEAF, chanspec, fifo,
    pc, air, lastrx, DUMP_CSI, cache, slot, nmac, RXCHAN, core, txstream,
    left, deaf, nrx, emitted,
    owner, rx, p_csi, missing_csi_frames, inserted_csi_values, last_rssi,
    phystatus, out,
    scansuppress, mpc, hwup, no_phase_jumps, ioctl, ret, arg, nioctl,
    request, installed,
    ackrx,      \* history: nrx when a configuration was last acknowledged
    completed,  \* history: the last frame received completely, or Null
    sent        \* history: the last UDP frame handed to the bus, or Null

\* The variables only one component changes.
ucOwn == <<pc, air, lastrx, DUMP_CSI, cache, slot, nmac, RXCHAN, core,
           txstream, left, deaf, nrx, emitted>>
fwOwn == <<owner, rx, p_csi, missing_csi_frames, inserted_csi_values,
           last_rssi, phystatus, out>>
ioOwn == <<scansuppress, mpc, hwup, no_phase_jumps, ioctl, ret, arg, nioctl,
           request, installed>>
vars == <<shm, FORCEDEAF, CLEANDEAF, chanspec, fifo, ucOwn, fwOwn, ioOwn,
          ackrx, completed, sent>>

Uc == INSTANCE CsiUcode
Io == INSTANCE CsiIoctl
Fw == INSTANCE CsiFirmware WITH Packet <- AnyPacket

(***************************************************************************)
(* What the theorems of CsiExtractorProofs take for granted.               *)
(***************************************************************************)
ASSUME ChipAssumption ==
    /\ Chip \in {"bcm4339", "bcm43455c0", "bcm4358", "bcm4366c0"}
    /\ BwCode \in [Chanspec -> 0..7]
ASSUME BoundAssumption == MaxFrames \in Nat /\ FifoDepth \in Nat
ASSUME HeapAssumption == HeapFails \in BOOLEAN /\ AnyBuffer \in BOOLEAN
ASSUME ShmAssumption ==
    \A s \in InitShm : DOMAIN s = DOMAIN Io!ShmReset /\ s.n_mac_addr \in Nat
ASSUME NullAssumption ==
    /\ Null \notin Frame
    /\ \A f \in Frame, cs \in Chanspec : [frame |-> f, chan |-> cs] # Null
    /\ Null \notin Fw!UdpFrame /\ Null \notin Fw!Received
    /\ \A r \in Request, i \in 1..Len(Io!Words) + 1 :
          r.cmd = 500 => [params |-> r.params, next |-> i] # Null
ASSUME InputAssumption ==
    /\ \A r \in Radio : r.type \in {"ofdm", "cck", "short"}
    /\ \A r \in Request : r.cmd = 500 => r.params.n_mac_addr \in Nat

Init ==
    /\ Uc!UcInit(InitShm)
    /\ Io!IoInit
    /\ Fw!FwInit
    /\ ackrx = 0
    /\ completed = Null
    /\ sent = Null

-----------------------------------------------------------------------------
\* The D11 core and the radio.
Microcode ==
    /\ Uc!Microcode
    /\ completed' = IF pc = "event" /\ air.phase = "done"
                    THEN [frame |-> lastrx, chan |-> air.chan]
                    ELSE completed
    /\ UNCHANGED <<chanspec, fwOwn, ioOwn, ackrx, sent>>

OnAir ==
    /\ (\E r \in Radio : Uc!Detect(r, chanspec)) \/ Uc!AirAbort
    /\ UNCHANGED <<chanspec, fwOwn, ioOwn, ackrx, completed, sent>>

\* A frame on the air ends.
FrameEnds ==
    /\ Uc!AirEnd
    /\ UNCHANGED <<chanspec, fwOwn, ioOwn, ackrx, completed, sent>>

\* The ARM core takes a packet from the FIFO and has the hook process it.
ArmReceive ==
    /\ ioctl = Null
    /\ fifo # <<>>
    /\ Fw!Receive(Head(fifo))
    /\ fifo' = Tail(fifo)
    /\ UNCHANGED <<shm, FORCEDEAF, CLEANDEAF, ucOwn, ioOwn, ackrx, completed,
                   sent>>

ArmHook ==
    /\ Fw!process_frame_hook
    /\ sent' = IF Len(out') > Len(out) THEN out'[Len(out')] ELSE sent
    /\ UNCHANGED <<shm, FORCEDEAF, CLEANDEAF, fifo, ucOwn, ioOwn, ackrx,
                   completed>>

\* The bus and the network stack return buffers.
Buffers ==
    /\ Fw!XmitDone \/ \E b \in Buf : Fw!StackDone(b)
    /\ UNCHANGED <<shm, FORCEDEAF, CLEANDEAF, fifo, ucOwn, ioOwn, ackrx,
                   completed, sent>>

\* The ARM core handles an ioctl; no packet is being processed.
MacSuspended == air = Uc!NoAir /\ pc \in {"force", "clean", "event"}

ArmIoctl ==
    /\ rx = Null
    /\ \E r \in Request : /\ r.cmd = 500 => MacSuspended
                          /\ Io!Handle(r)
    /\ UNCHANGED <<fifo, ucOwn, fwOwn, ackrx, completed, sent>>

ArmIoctlStep ==
    /\ \/ Io!WriteShm /\ UNCHANGED ackrx
       \/ Io!SetCsiDone /\ ackrx' = nrx
    /\ UNCHANGED <<fifo, ucOwn, fwOwn, completed, sent>>

Next ==
    \/ Microcode \/ OnAir \/ FrameEnds
    \/ ArmReceive \/ ArmHook \/ Buffers
    \/ ArmIoctl \/ ArmIoctlStep

Spec == Init /\ [][Next]_vars

(***************************************************************************)
(* Both cores keep running, the buffers come back, and a frame on the air  *)
(* ends; nothing forces the host to issue an ioctl or a frame to arrive.   *)
(***************************************************************************)
Fairness ==
    /\ WF_vars(Microcode)
    /\ WF_vars(ArmReceive)
    /\ WF_vars(ArmHook)
    /\ WF_vars(Buffers)
    /\ WF_vars(ArmIoctlStep)
    /\ WF_vars(FrameEnds)

FairSpec == Spec /\ Fairness

-----------------------------------------------------------------------------
(***************************************************************************)
(* README.md:47, 168 and 175, as a definition: the frame is OFDM-modulated *)
(* and passes the byte and the address filter that are in use.             *)
(***************************************************************************)
Matches(cfg, f) ==
    /\ cfg.csi_collect = 1
    /\ f.type = "ofdm"
    /\ cfg.use_pkt_filter = 1 => f.byte = cfg.first_pkt_byte
    /\ cfg.n_mac_addr > 0 =>
          \E i \in 1..cfg.n_mac_addr :
              f.mac = <<cfg.mac0, cfg.mac1, cfg.mac2, cfg.mac3>>[i]

\* Two chunks belong to the same measurement.
SameMeasurement(a, b) == a.id = b.id /\ a.core = b.core /\ a.nss = b.nss

\* A UDP frame holds the chunks of one measurement.
Unmixed(u) ==
    \A k \in 1..Len(u.blocks) : SameMeasurement(u.blocks[1], u.blocks[k])

TypeOK ==
    /\ Fw!FwTypeOK
    /\ pc \in {"force", "clean", "event", "header", "macs", "macloop",
               "macslot", "select", "mask", "push", "finish", "csi_end"}
    /\ FORCEDEAF \in 0..1 /\ CLEANDEAF \in 0..1
    /\ deaf \in BOOLEAN /\ DUMP_CSI \in BOOLEAN
    /\ lastrx \in Frame \cup {Null} /\ cache \in Frame \cup {Null}
    /\ core \in 0..(Uc!NCORES - 1) /\ txstream \in 0..3 /\ left \in 0..19
    /\ slot \in 0..(Uc!WORD - 1)
    /\ Len(fifo) <= FifoDepth
    /\ DOMAIN shm = DOMAIN Io!ShmReset

(***************************************************************************)
(* While the microcode reads out the channel estimate, the radio is deaf   *)
(* (so no preamble overwrites the PHY's table), the frame in the table is  *)
(* the one that was just completed, and the MAC address and the sequence   *)
(* number in the cache are that frame's, although they were stored when    *)
(* only its header had arrived and other receptions may have been given up *)
(* in between.                                                             *)
(***************************************************************************)
Extracting == pc \in {"select", "mask", "push", "finish"}

ExtractsCompletedFrame ==
    Extracting =>
        /\ deaf /\ air = Uc!NoAir
        /\ completed # Null /\ lastrx = completed.frame
        /\ cache = lastrx

(***************************************************************************)
(* What the microcode pushes is what the hook relies on (the lengths it    *)
(* never checks: PacketAssumption of CsiFirmware), for every loop count,   *)
(* core and stream.                                                        *)
(***************************************************************************)
HookAssumptionsMet == \A i \in 1..Len(fifo) : Fw!IsPacket(fifo[i])

(***************************************************************************)
(* Only the count of missing chunks ties a chunk to the UDP frame under    *)
(* construction (csi_extractor.c:220), so the hook can put the head of one *)
(* measurement and the tail of another into one UDP frame.  It takes the   *)
(* loss of a whole measurement's worth of chunks in a row: between two     *)
(* blocks of different measurements at least as many chunks were lost as   *)
(* the second measurement has.                                             *)
(***************************************************************************)
SpliceNeedsBurst ==
    sent # Null => \A k \in 2..Len(sent.blocks) :
        LET a == sent.blocks[k - 1]
            b == sent.blocks[k]
        IN  SameMeasurement(a, b) \/ b.pos - a.pos > Uc!CHUNKS(b.chan)

(***************************************************************************)
(* README.md:51 says of the UDP packet that its source address and         *)
(* sequence number are those "of the Wi-Fi frame that triggered the        *)
(* collection of the CSI contained in this packet": one frame.             *)
(***************************************************************************)
OneMeasurementPerPacket == sent # Null => Unmixed(sent)

(***************************************************************************)
(* A configuration acknowledged by ioctl 500 is in force: a frame heard    *)
(* after that, and before another ioctl, is only reported when it matches  *)
(* it, and for the cores and streams it selects.                           *)
(***************************************************************************)
AcknowledgedConfigHolds ==
    (sent # Null /\ ioctl = Null /\ installed # Null) =>
        (sent.src.n > ackrx /\ Unmixed(sent) =>
            /\ Matches(installed, sent.src)
            /\ sent.blocks[1].core \in installed.core_mask
            /\ sent.blocks[1].nss \in installed.nss_mask)

\* README.md:51: "the lowest three bits indicate the core and the next
\* three bits the spatial stream number".
CsiConfReadable ==
    sent # Null => /\ sent.csiconf % 8 = sent.blocks[1].core
                   /\ (sent.csiconf \div 8) % 8 = sent.blocks[1].nss

\* csi_extractor.c:262: the "last csifrm also contains frame control field",
\* of the same frame as the source address next to it.
FrameControlOfFrame == sent # Null => sent.fc = sent.src

\* The last ioctl the host issued is c.
LastRequest(c) == request # Null /\ request.cmd = c

(***************************************************************************)
(* Unless the host forces it, the radio never stays deaf: every extraction *)
(* that turns carrier search off also ends and turns it on again.          *)
(***************************************************************************)
HearsAgain ==
    []~LastRequest(502) => []<>(~deaf)

(***************************************************************************)
(* ioctl.c:200 "clean deaf mode": once the request is in shared memory and *)
(* no request to go deaf is, the radio hears again, or the host asks for   *)
(* something else.                                                         *)
(***************************************************************************)
CleanDeafTakesEffect ==
    (LastRequest(503) /\ CLEANDEAF = 1 /\ FORCEDEAF = 0)
        ~> (~deaf \/ ~LastRequest(503))
=============================================================================
