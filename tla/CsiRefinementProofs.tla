------------------------ MODULE CsiRefinementProofs ------------------------
(***************************************************************************)
(* The safety part of the refinement: as long as the receive FIFO has room *)
(* and no ioctl is issued, every step of the extractor is a step of the    *)
(* service, whatever the channel, the frames, the configuration and the    *)
(* packet buffers.  RInv follows a measurement from the filter to the UDP  *)
(* frame, along the line of packets in the FIFO and in the hook's hand:    *)
(*   Filtered    the frame at the microcode matches as far as it has been  *)
(*               compared;                                                 *)
(*   StillOwed   what remains to be extracted is owed;                     *)
(*   Chunks      so is the measurement of every chunk on its way, and the  *)
(*               microcode is past it (Behind);                            *)
(*   Ordered     chunks are in the order of measurement, counting down;    *)
(*   Continued   behind each one comes the next of the same measurement,   *)
(*               which the hook, too, waits for;                           *)
(*   Follows     a chunk comes behind its frame, whose rssi and PHY status *)
(*               are therefore the last ones the hook has seen;            *)
(*   Assembly    the UDP frame under construction is of one measurement.   *)
(* CompleteInv adds, when the hook always finds a buffer, that none is     *)
(* left out:                                                               *)
(*   NoneMissing what is owed is to be extracted, or has its first chunk   *)
(*               on its way, or is under construction;                     *)
(*   Admitted    the filter refuses no frame that matches;                 *)
(*   SentBefore  all that is owed comes after what was handed over last.   *)
(***************************************************************************)
EXTENDS CsiRefinement, CsiExtractorProofs

\* What the refinement needs: the FIFO has room for what is pushed next, and
\* no ioctl changes the configuration.
Undisturbed == nioctl = 0 /\ Len(fifo) < FifoDepth

-----------------------------------------------------------------------------
(***************************************************************************)
(* The packets on their way from the microcode to the hook: the one in the *)
(* hook's hand, if any, and those in the FIFO.                             *)
(***************************************************************************)
Size == IF rx = Null THEN Len(fifo) ELSE Len(fifo) + 1
Item(i) == IF rx = Null THEN fifo[i]
           ELSE IF i = 1 THEN rx.pkt ELSE fifo[i - 1]

IsCsi(a) == a.kind = "csi"

\* The measurement a chunk belongs to, the one of stream s of core c the
\* microcode is to extract, and the one it is extracting.
Meas(a) == [frame |-> a.id, chan |-> a.chan, core |-> a.core, nss |-> a.nss]
ToExtract(c, s) == [frame |-> lastrx, chan |-> RXCHAN, core |-> c, nss |-> s]
Current == ToExtract(core, txstream)

\* The configuration stays as it was at first, and so does the channel.
Quiet ==
    /\ ioctl = Null /\ shm \in InitShm
    /\ air.phase # "none" => air.chan = chanspec
    /\ Extracting => RXCHAN = chanspec

\* What the filter has found out of the frame at the microcode.
Filtered ==
    /\ lastrx # Null => lastrx.n = nrx
    /\ pc \in {"macs", "macloop", "macslot"} => HeaderMatches(shm, lastrx)
    /\ pc = "macloop" => shm.n_mac_addr # 0 /\ slot <= shm.n_mac_addr
    /\ pc = "macslot" => slot < shm.n_mac_addr
    /\ (DUMP_CSI /\ air.phase \in {"rx", "done"}) => Matches(shm, lastrx)
    /\ pc \in {"mask", "push"} => txstream \in shm.nss_mask
    /\ pc = "push" => core \in shm.core_mask

\* Frames are completed in the order they are heard.
Completed ==
    completed # Null =>
        /\ completed.frame \in Frame /\ completed.frame.n <= nrx
        /\ air.phase # "none" => completed.frame.n < nrx

\* The microcode is past chunk a.
Behind(a) ==
    /\ a.id.n <= nrx
    /\ air.phase # "none" => a.id.n < nrx
    /\ pc \in {"select", "mask", "push"} =>
          \/ a.id.n < nrx
          \/ /\ a.id = lastrx
             /\ \/ a.core < core
                \/ a.core = core /\ a.nss < txstream
                \/ /\ pc = "push" /\ a.core = core /\ a.nss = txstream
                   /\ left < Fw!Missing(a)

\* A chunk as the microcode makes it on this channel.
Proper(a) ==
    /\ a.chan = chanspec
    /\ Fw!Missing(a) <= Uc!CHUNKS(chanspec)
    /\ Fw!IsNew(a) <=> Fw!Missing(a) = Uc!CHUNKS(chanspec)
    /\ Fw!Missing(a) = 1 => a.tones = Uc!TONES_LAST_CHUNK(chanspec)

Chunks ==
    \A i \in 1..Size :
        IsCsi(Item(i)) => /\ Proper(Item(i)) /\ Behind(Item(i))
                          /\ Meas(Item(i)) \in owed

\* Chunks are in the order of measurement.
InOrder(a, b) ==
    \/ Service!Earlier(Meas(a), Meas(b))
    \/ Meas(a) = Meas(b) /\ Fw!Missing(b) < Fw!Missing(a)

Ordered ==
    \A i, j \in 1..Size :
        (i < j /\ IsCsi(Item(i)) /\ IsCsi(Item(j))) =>
            InOrder(Item(i), Item(j))

\* The i-th packet, or else what the microcode is about to push, is the chunk
\* of measurement m with k chunks to go.
Due(m, k, i) ==
    IF i <= Size
    THEN IsCsi(Item(i)) /\ Meas(Item(i)) = m /\ Fw!Missing(Item(i)) = k
    ELSE pc = "push" /\ Current = m /\ left = k

\* No chunk is missing between two.
Continued ==
    /\ p_csi # Null => Due(Meas(p_csi.blocks[1]), missing_csi_frames, 1)
    /\ \A i \in 1..Size :
          (IsCsi(Item(i)) /\ Fw!Missing(Item(i)) > 1) =>
              Due(Meas(Item(i)), Fw!Missing(Item(i)) - 1, i + 1)

\* Every chunk comes behind the ordinary frame it belongs to.
Follows ==
    /\ phystatus = last_rssi
    /\ \A i \in 1..Size :
          IsCsi(Item(i)) =>
              Item(i).id = IF i = 1 THEN last_rssi ELSE Item(i - 1).id
    /\ Extracting => lastrx = IF Size = 0 THEN last_rssi ELSE Item(Size).id

\* The UDP frame under construction is of one measurement, which is owed.
Assembly ==
    p_csi # Null =>
        /\ \A k \in 1..Len(p_csi.blocks) :
              Meas(p_csi.blocks[k]) = Meas(p_csi.blocks[1])
        /\ IsCsi(p_csi.blocks[1]) /\ Proper(p_csi.blocks[1])
        /\ p_csi.rssi = p_csi.blocks[1].id
        /\ p_csi.chanspec = chanspec
        /\ p_csi.alloc = Uc!CHUNKS(chanspec) * Fw!TonesPerChunk
        /\ Meas(p_csi.blocks[1]) \in owed

\* So are all the measurements that are still to be extracted.
StillOwed ==
    pc \in {"select", "mask", "push"} =>
        \A p \in SelectedPairs(shm) :
            (p[1] > core \/ (p[1] = core /\ p[2] >= txstream)) =>
                ToExtract(p[1], p[2]) \in owed

RInv ==
    /\ Quiet /\ Filtered /\ Completed
    /\ Chunks /\ Ordered /\ Continued /\ Follows /\ Assembly /\ StillOwed

-----------------------------------------------------------------------------
\* No packet on its way is moved or replaced.
SameLine == Size' = Size /\ \A i \in 1..Size : Item(i)' = Item(i)

\* The packets on their way.
LEMMA LineTypes ==
    ASSUME ExInv, FwP!FwIInv
    PROVE  /\ Size \in Nat /\ fifo \in Seq(HookPacket)
           /\ \A i \in 1..Size : Item(i) \in HookPacket
           /\ rx # Null => /\ rx.pkt \in HookPacket /\ Size = Len(fifo) + 1
                           /\ Item(1) = rx.pkt
<1>1. fifo \in Seq(HookPacket) /\ Len(fifo) \in Nat
  BY DEF ExInv, FifoOK
<1>2. rx # Null => rx.pkt \in HookPacket
  BY HandFacts DEF InHand
<1>3. \A i \in 1..Len(fifo) : fifo[i] \in HookPacket
  BY <1>1
<1>4. \A i \in 1..Size : Item(i) \in HookPacket
  <2>1. CASE rx = Null
    BY <1>3, <2>1 DEF Size, Item
  <2>2. CASE rx # Null
    <3>1. ASSUME NEW i \in 1..Size, i # 1
          PROVE  i - 1 \in 1..Len(fifo)
      BY <1>1, <2>2, <3>1 DEF Size
    <3>2. QED
      BY <1>2, <1>3, <2>2, <3>1 DEF Item
  <2>3. QED
    BY <2>1, <2>2
<1>5. QED
  BY <1>1, <1>2, <1>4 DEF Size, Item

\* Neither core touches them.
LEMMA LineKept ==
    ASSUME UNCHANGED <<fifo, rx>>
    PROVE  SameLine
BY DEF SameLine, Size, Item

\* The ARM core takes the first one in hand.
LEMMA LineReceived ==
    ASSUME ExInv, FwP!FwIInv, ArmReceive
    PROVE  SameLine
<1>1. /\ fifo \in Seq(HookPacket) /\ fifo # <<>> /\ rx = Null
      /\ fifo' = Tail(fifo)
  BY LineTypes DEF ArmReceive, Fw!Receive
<1>2. PICK b \in Buf : rx' = [buf |-> b, pkt |-> Head(fifo)]
  BY DEF ArmReceive, Fw!Receive, Fw!Allocatable, Fw!Pool
<1>3. Head(fifo) = fifo[1] /\ fifo[1] \in HookPacket
  BY <1>1
<1>4. rx' # Null /\ rx'.pkt = fifo[1]
  <2>1. rx' \in Fw!Received
    BY <1>2, <1>3 DEF Fw!Received, HookPacket
  <2>2. QED
    BY <1>2, <1>3, <2>1, NullAssumption
<1>5. /\ Len(fifo') = Len(fifo) - 1 /\ Len(fifo) \in Nat /\ Len(fifo) >= 1
      /\ \A i \in 1..(Len(fifo) - 1) : fifo'[i] = fifo[i + 1]
  BY <1>1
<1>6. Size' = Size /\ Size = Len(fifo)
  BY <1>1, <1>4, <1>5 DEF Size
<1>7. ASSUME NEW i \in 1..Size
      PROVE  Item(i)' = Item(i)
  <2>1. CASE i = 1
    BY <1>1, <1>4, <2>1 DEF Item
  <2>2. CASE i # 1
    <3>1. i - 1 \in 1..(Len(fifo) - 1)
      BY <1>5, <1>6, <2>2
    <3>2. fifo'[i - 1] = fifo[(i - 1) + 1] /\ (i - 1) + 1 = i
      BY <1>5, <1>6, <3>1
    <3>3. QED
      BY <1>1, <1>4, <2>2, <3>2 DEF Item
  <2>3. QED
    BY <2>1, <2>2
<1>8. QED
  BY <1>6, <1>7 DEF SameLine

\* The hook takes it away.
LEMMA LineTaken ==
    ASSUME ExInv, FwP!FwIInv, ArmHook
    PROVE  /\ Size \in Nat /\ Size' = Size - 1 /\ Size >= 1
           /\ \A i \in 1..(Size - 1) : Item(i)' = Item(i + 1)
<1>1. /\ fifo' = fifo /\ rx # Null /\ rx' = Null
      /\ Size = Len(fifo) + 1 /\ Len(fifo) \in Nat
  BY LineTypes DEF ArmHook, Fw!process_frame_hook
<1>2. Size' = Len(fifo)
  BY <1>1 DEF Size
<1>3. ASSUME NEW i \in 1..(Size - 1)
      PROVE  Item(i)' = Item(i + 1)
  <2>1. i + 1 # 1 /\ (i + 1) - 1 = i
    BY <1>1
  <2>2. QED
    BY <1>1, <2>1 DEF Item
<1>4. QED
  BY <1>1, <1>2, <1>3

\* The microcode pushes one at the end.
Grown(x) ==
    /\ Size' = Size + 1
    /\ \A i \in 1..Size : Item(i)' = Item(i)
    /\ \A i : i = Size + 1 => Item(i)' = x

LEMMA LinePushed ==
    ASSUME ExInv, FwP!FwIInv, Undisturbed, NEW x \in HookPacket, Uc!Push(x),
           UNCHANGED rx
    PROVE  Grown(x)
<1>1. fifo \in Seq(HookPacket) /\ fifo' = Append(fifo, x) /\ Size \in Nat
  BY LineTypes DEF Undisturbed, Uc!Push
<1>2. /\ Len(fifo) \in Nat /\ Len(fifo') = Len(fifo) + 1
      /\ \A i \in 1..Len(fifo) : fifo'[i] = fifo[i]
      /\ fifo'[Len(fifo) + 1] = x
  BY <1>1
<1>3. CASE rx = Null
  <2>1. Size = Len(fifo) /\ Size' = Size + 1
    BY <1>2, <1>3 DEF Size
  <2>2. \A i : Item(i) = fifo[i] /\ Item(i)' = fifo'[i]
    BY <1>3 DEF Item
  <2>3. QED
    BY <1>2, <2>1, <2>2 DEF Grown
<1>4. CASE rx # Null
  <2>1. Size = Len(fifo) + 1 /\ Size' = Size + 1
    BY <1>2, <1>4 DEF Size
  <2>2. ASSUME NEW i \in 1..Size
        PROVE  Item(i)' = Item(i)
    <3>1. i # 1 => i - 1 \in 1..Len(fifo)
      BY <1>2, <2>1
    <3>2. QED
      BY <1>2, <1>4, <3>1 DEF Item
  <2>3. ASSUME NEW i, i = Size + 1
        PROVE  Item(i)' = x
    <3>1. i # 1 /\ i - 1 = Len(fifo) + 1
      BY <1>2, <2>1, <2>3
    <3>2. Item(i)' = fifo'[i - 1]
      BY <1>4, <3>1 DEF Item
    <3>3. QED
      BY <1>2, <3>1, <3>2
  <2>4. QED
    BY <2>1, <2>2, <2>3 DEF Grown
<1>5. QED
  BY <1>3, <1>4

-----------------------------------------------------------------------------
\* The numbers in a chunk.
LEMMA ChunkNumbers ==
    ASSUME NEW a \in HookPacket, IsCsi(a)
    PROVE  /\ a.id \in Frame /\ a.id.n \in Nat
           /\ a.core \in Nat /\ a.nss \in Nat
           /\ Fw!Missing(a) \in Nat /\ Fw!Missing(a) >= 1
<1>1. a.id \in Frame /\ a.core \in Nat /\ a.nss \in Nat
  BY DEF HookPacket, AnyPacket, IsCsi
<1>2. a.id.n \in Nat
  BY <1>1, BoundAssumption DEF Frame
<1>3. Fw!Missing(a) \in 1..Fw!MaxCount
  BY DEF HookPacket, Fw!IsPacket, IsCsi
<1>4. QED
  BY <1>1, <1>2, <1>3 DEF Fw!MaxCount

\* The next stream or core is past the current one.
LEMMA AdvancePasses ==
    ASSUME ExInv, Uc!Advance, NEW c \in Nat, NEW s \in Nat,
           \/ c < core
           \/ c = core /\ s <= txstream
    PROVE  pc' = "select" =>
              \/ c < core'
              \/ c = core' /\ s < txstream'
<1>1. core \in Nat /\ txstream \in Nat
  BY ChunkCounts DEF ExInv, UcTypeOK
<1>2. QED
  BY <1>1 DEF Uc!Advance

\* A chunk stays behind the microcode, whatever either core does.
LEMMA BehindKept ==
    ASSUME ExInv, Filtered, Microcode \/ OnAir \/ FrameEnds,
           NEW a \in HookPacket, IsCsi(a), Behind(a)
    PROVE  Behind(a)'
<1>1. /\ a.id.n \in Nat /\ a.core \in Nat /\ a.nss \in Nat
      /\ Fw!Missing(a) \in Nat /\ Fw!Missing(a) >= 1
      /\ nrx \in Nat /\ core \in Nat /\ txstream \in Nat /\ left \in Nat
  BY ChunkNumbers, ChunkCounts DEF ExInv, UcTypeOK
<1>2. ASSUME pc' \notin {"select", "mask", "push"}, nrx' = nrx,
             air'.phase # "none" => air.phase # "none"
      PROVE  Behind(a)'
  BY <1>2 DEF Behind
<1>3. CASE Microcode /\ (\/ Uc!PollForce \/ Uc!PollClean \/ Uc!NoEvent
                         \/ Uc!RxPlcp \/ Uc!RxHeader \/ Uc!RxAddress
                         \/ Uc!RxComplete \/ Uc!Finish \/ Uc!CsiEnd)
  <2>1. pc' \notin {"select", "mask", "push"} /\ nrx' = nrx
    BY <1>3 DEF Uc!PollForce, Uc!PollClean, Uc!NoEvent, Uc!RxPlcp, Uc!RxHeader,
       Uc!RxAddress, Uc!RxMacs, Uc!RxMacLoop, Uc!RxMacSlot, Uc!SelectFrame,
       Uc!RxComplete, Uc!Finish, Uc!CsiEnd
  <2>2. air'.phase # "none" => air.phase # "none"
    BY <1>3 DEF Uc!PollForce, Uc!PollClean, Uc!NoEvent, Uc!RxPlcp, Uc!RxHeader,
       Uc!RxAddress, Uc!RxMacs, Uc!RxMacLoop, Uc!RxMacSlot, Uc!SelectFrame,
       Uc!RxComplete, Uc!Finish, Uc!CsiEnd, Uc!NoAir
  <2>3. QED
    BY <1>2, <2>1, <2>2
<1>4. CASE Uc!RxCompleteDump
  <2>1. air.phase # "none" /\ air'.phase = "none" /\ nrx' = nrx
    BY <1>4 DEF Uc!RxCompleteDump, Uc!NoAir
  <2>2. QED
    BY <2>1 DEF Behind
<1>5. CASE Uc!Select \/ Uc!PushChunk
  <2>1. /\ pc \in {"select", "mask", "push"} /\ nrx' = nrx
        /\ UNCHANGED <<lastrx, air>>
    BY <1>5 DEF Uc!Select, Uc!SelectStream, Uc!SelectCore, Uc!PushChunk
  <2>2. CASE a.id.n < nrx
    BY <2>1, <2>2 DEF Behind
  <2>3. CASE /\ a.id = lastrx
             /\ \/ a.core < core
                \/ a.core = core /\ a.nss < txstream
                \/ /\ pc = "push" /\ a.core = core /\ a.nss = txstream
                   /\ left < Fw!Missing(a)
    <3>1. CASE Uc!Advance /\ (pc # "push" \/ left = 1)
      <4>1. \/ a.core < core
            \/ a.core = core /\ a.nss <= txstream
        BY <1>1, <2>3
      <4>2. pc' = "select" => \/ a.core < core'
                              \/ a.core = core' /\ a.nss < txstream'
        BY <1>1, <3>1, <4>1, AdvancePasses
      <4>3. pc' \in {"select", "finish"}
        BY <3>1, AdvanceKeeps DEF ExInv
      <4>4. QED
        BY <2>1, <2>3, <4>2, <4>3 DEF Behind
    <3>2. CASE Uc!Select /\ ~Uc!Advance
      <4>1. /\ pc' \in {"mask", "push"} /\ pc # "push"
            /\ UNCHANGED <<core, txstream>>
        BY <3>2 DEF Uc!Select, Uc!SelectStream, Uc!SelectCore
      <4>2. QED
        BY <2>1, <2>3, <4>1 DEF Behind
    <3>3. CASE Uc!PushChunk /\ left # 1
      <4>1. pc = "push" /\ UNCHANGED <<pc, core, txstream>> /\ left' = left - 1
        BY <3>3 DEF Uc!PushChunk
      <4>2. QED
        BY <1>1, <2>1, <2>3, <4>1 DEF Behind
    <3>4. QED
      BY <1>5, <3>1, <3>2, <3>3 DEF Uc!Select, Uc!SelectStream, Uc!SelectCore,
         Uc!PushChunk
  <2>4. QED
    BY <2>1, <2>2, <2>3 DEF Behind
<1>6. CASE OnAir
  <2>1. ASSUME NEW r \in Radio, Uc!Detect(r, chanspec)
        PROVE  Behind(a)'
    <3>1. pc' \notin {"select", "mask", "push"} /\ nrx' = nrx + 1
      BY <2>1 DEF Uc!Detect
    <3>2. QED
      BY <1>1, <3>1 DEF Behind
  <2>2. CASE Uc!AirAbort
    <3>1. /\ pc' \notin {"select", "mask", "push"} /\ nrx' = nrx
          /\ air'.phase = "none"
      BY <2>2 DEF Uc!AirAbort, Uc!NoAir
    <3>2. QED
      BY <1>2, <3>1
  <2>3. QED
    BY <1>6, <2>1, <2>2 DEF OnAir
<1>7. CASE FrameEnds
  <2>1. pc' = pc /\ nrx' = nrx /\ air.phase = "rx" /\ UNCHANGED lastrx
    BY <1>7 DEF FrameEnds, Uc!AirEnd
  <2>2. pc \notin {"select", "mask", "push"}
    BY <2>1 DEF ExInv, Reception, Uc!NoAir
  <2>3. QED
    BY <1>2, <2>1, <2>2
<1>8. QED
  BY <1>3, <1>4, <1>5, <1>6, <1>7 DEF Microcode, Uc!Microcode

-----------------------------------------------------------------------------
(***************************************************************************)
(* What keeps each part of the invariant, as long as no packet moves.      *)
(***************************************************************************)
LEMMA ChunksKept ==
    ASSUME ExInv, FwP!FwIInv, Chunks, SameLine, chanspec' = chanspec,
           owed \subseteq owed',
           \A a \in HookPacket : IsCsi(a) /\ Behind(a) => Behind(a)'
    PROVE  Chunks'
<1>1. ASSUME NEW i \in 1..Size, IsCsi(Item(i))
      PROVE  /\ Proper(Item(i))' /\ Behind(Item(i))'
             /\ Meas(Item(i))' \in owed'
  <2> DEFINE a == Item(i)
  <2>1. a \in HookPacket /\ Proper(a) /\ Behind(a) /\ Meas(a) \in owed
    BY <1>1, LineTypes DEF Chunks
  <2>2. Item(i)' = a
    BY DEF SameLine
  <2> HIDE DEF a
  <2>3. ASSUME NEW x \in HookPacket, IsCsi(x), Behind(x), Proper(x),
               Item(i)' = x
        PROVE  /\ Proper(Item(i))' /\ Behind(Item(i))'
               /\ Meas(Item(i))' = Meas(x)
    <3>1. Behind(x)'
      BY <2>3
    <3>2. QED
      BY <2>3, <3>1 DEF Behind, Proper, Meas
  <2>4. QED
    BY <1>1, <2>1, <2>2, <2>3 DEF a
<1>2. QED
  BY <1>1 DEF Chunks, SameLine, IsCsi

\* Their order.
LEMMA OrderedKept ==
    ASSUME Ordered, SameLine
    PROVE  Ordered'
BY DEF Ordered, SameLine, InOrder, Meas, IsCsi, Service!Earlier

\* That none is missing.
LEMMA ContinuedKept ==
    ASSUME ExInv, FwP!FwIInv, Continued, SameLine,
           UNCHANGED <<p_csi, missing_csi_frames>>,
           pc = "push" => UNCHANGED <<pc, left, Current>>
    PROVE  Continued'
<1>1. Size \in Nat
  BY LineTypes
<1>2. ASSUME NEW m, NEW k, NEW i \in Nat, i >= 1, Due(m, k, i)
      PROVE  Due(m, k, i)'
  <2>1. CASE i <= Size
    BY <1>1, <1>2, <2>1 DEF Due, SameLine, IsCsi, Meas
  <2>2. CASE ~ i <= Size
    BY <1>1, <1>2, <2>2 DEF Due, SameLine
  <2>3. QED
    BY <2>1, <2>2
<1>3. p_csi # Null =>
        Due(Meas(p_csi.blocks[1]), missing_csi_frames, 1)'
  <2>1. p_csi # Null => Due(Meas(p_csi.blocks[1]), missing_csi_frames, 1)
    BY DEF Continued
  <2>2. ASSUME NEW m, NEW k, p_csi # Null, m = Meas(p_csi.blocks[1]),
               k = missing_csi_frames
        PROVE  Due(Meas(p_csi.blocks[1]), missing_csi_frames, 1)'
    <3>1. Due(m, k, 1)'
      BY <1>2, <2>1, <2>2
    <3>2. m = Meas(p_csi.blocks[1])' /\ k = missing_csi_frames'
      BY <2>2 DEF Meas
    <3>3. QED
      BY <3>1, <3>2 DEF Due
  <2>3. QED
    BY <2>2
<1>4. ASSUME NEW i \in 1..Size, IsCsi(Item(i))', Fw!Missing(Item(i))' > 1
      PROVE  Due(Meas(Item(i)), Fw!Missing(Item(i)) - 1, i + 1)'
  <2>1. Item(i)' = Item(i)
    BY DEF SameLine
  <2>2. ASSUME NEW m, NEW k, m = Meas(Item(i)), k = Fw!Missing(Item(i)) - 1
        PROVE  Due(Meas(Item(i)), Fw!Missing(Item(i)) - 1, i + 1)'
    <3>1. Due(m, k, i + 1)
      BY <1>4, <2>1, <2>2 DEF Continued, IsCsi, Fw!Missing
    <3>2. Due(m, k, i + 1)'
      BY <1>1, <1>2, <3>1
    <3>3. m = Meas(Item(i))' /\ k = (Fw!Missing(Item(i)) - 1)'
      BY <2>1, <2>2 DEF Meas, Fw!Missing
    <3>4. QED
      BY <3>2, <3>3 DEF Due
  <2>3. QED
    BY <2>2
<1>5. QED
  BY <1>3, <1>4 DEF Continued, SameLine

\* That they come behind their frame.
LEMMA FollowsKept ==
    ASSUME ExInv, FwP!FwIInv, Follows, SameLine,
           UNCHANGED <<phystatus, last_rssi>>,
           Extracting' => Extracting /\ lastrx' = lastrx
    PROVE  Follows'
<1>1. Size \in Nat /\ Size' = Size
  BY LineTypes DEF SameLine
<1>2. ASSUME NEW i \in 1..Size, IsCsi(Item(i))'
      PROVE  Item(i)'.id = IF i = 1 THEN last_rssi' ELSE Item(i - 1)'.id
  <2>1. Item(i)' = Item(i) /\ IsCsi(Item(i))
    BY <1>2 DEF SameLine, IsCsi
  <2>2. i # 1 => i - 1 \in 1..Size
    BY <1>1
  <2>3. i # 1 => Item(i - 1)' = Item(i - 1)
    BY <2>2 DEF SameLine
  <2>4. QED
    BY <2>1, <2>3 DEF Follows
<1>3. Extracting' =>
        lastrx' = IF Size = 0 THEN last_rssi' ELSE Item(Size)'.id
  <2>1. ASSUME NEW k \in 1..Size, k = Size, Extracting'
        PROVE  lastrx' = Item(k)'.id
    BY <2>1 DEF Follows, SameLine
  <2>2. QED
    BY <1>1, <2>1 DEF Follows
<1>4. QED
  BY <1>1, <1>2, <1>3 DEF Follows

\* That the UDP frame under construction is of one measurement.
LEMMA AssemblyKept ==
    ASSUME Assembly, UNCHANGED <<p_csi, chanspec>>, owed \subseteq owed'
    PROVE  Assembly'
BY DEF Assembly, Proper, IsCsi, Meas, Fw!Missing, Fw!IsNew, Fw!TonesPerChunk,
   Uc!CHUNKS, Uc!TONES_LAST_CHUNK

-----------------------------------------------------------------------------
\* Without ioctls the configuration and the channel stay.
LEMMA NoIoctl ==
    ASSUME Quiet, Undisturbed, Undisturbed', [Next]_vars
    PROVE  /\ ~ ArmIoctl /\ ~ ArmIoctlStep
           /\ UNCHANGED <<shm, ioctl, chanspec>>
<1>1. ~ ArmIoctl
  BY DEF ArmIoctl, Undisturbed, Io!Handle, Io!SetCsi, Io!GetCollect,
     Io!ForceDeaf, Io!CleanDeaf, Io!SetPhaseJumps, Io!ReadObjmem, Io!Accept
<1>2. ~ ArmIoctlStep
  BY DEF ArmIoctlStep, Quiet, Io!WriteShm, Io!SetCsiDone
<1>3. CASE Microcode
  BY <1>1, <1>2, <1>3 DEF Microcode, ioOwn, Uc!Microcode, Uc!PollForce,
     Uc!PollClean, Uc!NoEvent, Uc!RxPlcp, Uc!RxHeader, Uc!RxAddress, Uc!RxMacs,
     Uc!RxMacLoop, Uc!RxMacSlot, Uc!SelectFrame, Uc!RxComplete,
     Uc!RxCompleteDump, Uc!Select, Uc!SelectStream, Uc!SelectCore,
     Uc!PushChunk, Uc!Finish, Uc!CsiEnd
<1>4. CASE OnAir \/ FrameEnds
  BY <1>1, <1>2, <1>4 DEF OnAir, FrameEnds, ioOwn, Uc!Detect, Uc!AirAbort,
     Uc!AirEnd
<1>5. CASE ArmReceive \/ ArmHook \/ Buffers
  BY <1>1, <1>2, <1>5 DEF ArmReceive, ArmHook, Buffers, ioOwn, Fw!Receive,
     Fw!process_frame_hook, Fw!XmitDone, Fw!StackDone, Fw!NewChunk,
     Fw!NewChunkNoBuffer, Fw!StrayChunk, Fw!MismatchedChunk, Fw!NextChunk,
     Fw!RegularFrame
<1>6. CASE UNCHANGED vars
  BY <1>1, <1>2, <1>6 DEF vars, ioOwn
<1>7. QED
  BY <1>1, <1>2, <1>3, <1>4, <1>5, <1>6 DEF Next

\* The first part of the filter, by the words in shared memory.
LEMMA HeaderFilterHolds ==
    ASSUME lastrx \in Frame, Uc!HeaderPasses, Chip # "bcm4366c0"
    PROVE  HeaderMatches(shm, lastrx)
<1>1. lastrx.type \in {"ofdm", "cck", "short"}
  BY InputAssumption DEF Frame
<1>2. shm.csi_collect = 1 /\ lastrx.type = "ofdm"
  BY <1>1 DEF Uc!HeaderPasses, Uc!Collecting
<1>3. shm.use_pkt_filter = 1 => lastrx.byte = shm.first_pkt_byte
  BY DEF Uc!HeaderPasses
<1>4. QED
  BY <1>2, <1>3 DEF HeaderMatches

\* The second part.
LEMMA MacFilterHolds ==
    ASSUME shm \in InitShm, HeaderMatches(shm, lastrx), Chip # "bcm4366c0",
           slot \in Nat, slot < shm.n_mac_addr,
           lastrx.mac = Uc!CMP_SRC_MAC(slot)
    PROVE  Matches(shm, lastrx)
<1> DEFINE macs == <<shm.mac0, shm.mac1, shm.mac2, shm.mac3>>
           i == IF slot \in 0..3 THEN slot + 1 ELSE 1
<1>1. lastrx.mac = macs[i]
  BY DEF Uc!CMP_SRC_MAC
<1>2. i \in 1..shm.n_mac_addr
  BY ShmAssumption
<1>3. QED
  BY <1>1, <1>2 DEF Matches, HeaderMatches

\* The steps of the filter for addresses.
LEMMA AddressFiltered ==
    ASSUME ExInv, Quiet, Filtered, Uc!RxAddress, UNCHANGED shm,
           Chip # "bcm4366c0"
    PROVE  Filtered'
<1>0. /\ shm \in InitShm /\ slot \in Nat /\ shm.n_mac_addr \in Nat
      /\ UNCHANGED <<lastrx, nrx, air>> /\ HeaderMatches(shm, lastrx)
  BY ShmAssumption DEF Quiet, ExInv, UcTypeOK, Filtered, Uc!RxAddress,
     Uc!RxMacs, Uc!RxMacLoop, Uc!RxMacSlot
<1>1. HeaderMatches(shm, lastrx)' /\ Matches(shm, lastrx)' = Matches(shm, lastrx)
  BY <1>0 DEF HeaderMatches, Matches
<1>2. CASE Uc!RxMacs
  <2>1. shm.n_mac_addr = 0 => Matches(shm, lastrx)
    BY <1>0 DEF Matches, HeaderMatches
  <2>2. QED
    BY <1>0, <1>1, <1>2, <2>1 DEF Filtered, Uc!RxMacs, Uc!SelectFrame
<1>3. CASE Uc!RxMacLoop
  <2>1. pc' = IF slot = shm.n_mac_addr THEN "force" ELSE "macslot"
    BY <1>3 DEF Uc!RxMacLoop
  <2>2. QED
    BY <1>0, <1>1, <1>3, <2>1 DEF Filtered, Uc!RxMacLoop
<1>4. CASE Uc!RxMacSlot
  <2>1. slot < shm.n_mac_addr /\ slot' <= slot + 1 /\ slot' \in Nat
    BY <1>0, <1>4, NextWord DEF Filtered, Uc!RxMacSlot
  <2>2. CASE lastrx.mac = Uc!CMP_SRC_MAC(slot)
    <3>1. Matches(shm, lastrx)
      BY <1>0, <2>1, <2>2, MacFilterHolds
    <3>2. QED
      BY <1>0, <1>1, <1>4, <2>2, <3>1
         DEF Filtered, Uc!RxMacSlot, Uc!SelectFrame
  <2>3. CASE lastrx.mac # Uc!CMP_SRC_MAC(slot)
    BY <1>0, <1>1, <1>4, <2>1, <2>3 DEF Filtered, Uc!RxMacSlot
  <2>4. QED
    BY <2>2, <2>3
<1>5. QED
  BY <1>2, <1>3, <1>4 DEF Uc!RxAddress

\* The microcode learns of a frame from its filter only.
LEMMA FilteredKept ==
    ASSUME ExInv, Quiet, Filtered, Undisturbed, Undisturbed', [Next]_vars,
           Chip # "bcm4366c0"
    PROVE  Filtered'
<1>0. UNCHANGED shm /\ shm \in InitShm /\ nrx \in Nat
  BY NoIoctl DEF Quiet, ExInv, UcTypeOK
<1>1. CASE Microcode /\ Uc!RxHeader
  <2>1. lastrx \in Frame
    BY <1>1 DEF ExInv, Reception, Uc!RxHeader
  <2>2. pc' = "macs" => HeaderMatches(shm, lastrx)
    BY <1>1, <2>1, HeaderFilterHolds DEF Uc!RxHeader
  <2>3. /\ UNCHANGED <<lastrx, nrx, DUMP_CSI, air>>
        /\ pc' \notin {"macloop", "macslot", "mask", "push"}
    BY <1>1 DEF Uc!RxHeader
  <2>4. QED
    BY <1>0, <2>2, <2>3 DEF Filtered, HeaderMatches, Matches
<1>2. CASE Microcode /\ Uc!RxAddress
  BY <1>0, <1>2, AddressFiltered
<1>3. CASE Microcode /\ (Uc!Select \/ Uc!PushChunk)
  <2>1. UNCHANGED <<lastrx, nrx, DUMP_CSI, air>>
    BY <1>3 DEF Uc!Select, Uc!SelectStream, Uc!SelectCore, Uc!PushChunk
  <2>2. pc' \notin {"macs", "macloop", "macslot"}
    BY <1>3, AdvanceKeeps DEF Uc!Select, Uc!SelectStream, Uc!SelectCore,
       Uc!PushChunk, ExInv
  <2>3. /\ pc' \in {"mask", "push"} => txstream' \in shm.nss_mask
        /\ pc' = "push" => core' \in shm.core_mask
    BY <1>3, AdvanceKeeps DEF Uc!Select, Uc!SelectStream, Uc!SelectCore,
       Uc!PushChunk, ExInv, Filtered
  <2>4. QED
    BY <1>0, <2>1, <2>2, <2>3 DEF Filtered, Matches
<1>4. CASE Microcode /\ (\/ Uc!PollForce \/ Uc!PollClean \/ Uc!NoEvent
                         \/ Uc!RxPlcp \/ Uc!RxComplete \/ Uc!RxCompleteDump
                         \/ Uc!Finish \/ Uc!CsiEnd)
  <2>1. /\ UNCHANGED <<lastrx, nrx>>
        /\ pc' \notin {"macs", "macloop", "macslot", "mask", "push"}
    BY <1>4 DEF Uc!PollForce, Uc!PollClean, Uc!NoEvent, Uc!RxPlcp,
       Uc!RxComplete, Uc!RxCompleteDump, Uc!Finish, Uc!CsiEnd
  <2>2. (DUMP_CSI' /\ air'.phase \in {"rx", "done"}) =>
           DUMP_CSI /\ air.phase \in {"rx", "done"}
    BY <1>4 DEF Uc!PollForce, Uc!PollClean, Uc!NoEvent, Uc!RxPlcp,
       Uc!RxComplete, Uc!RxCompleteDump, Uc!Finish, Uc!CsiEnd, Uc!NoAir
  <2>3. QED
    BY <1>0, <2>1, <2>2 DEF Filtered, Matches
<1>5. CASE OnAir
  <2>1. ASSUME NEW r \in Radio, Uc!Detect(r, chanspec)
        PROVE  Filtered'
    BY <1>0, <2>1 DEF Filtered, Uc!Detect
  <2>2. CASE Uc!AirAbort
    BY <1>0, <2>2 DEF Filtered, Uc!AirAbort, Uc!NoAir
  <2>3. QED
    BY <1>5, <2>1, <2>2 DEF OnAir
<1>6. CASE FrameEnds
  <2>1. UNCHANGED <<pc, lastrx, nrx, DUMP_CSI, slot, core, txstream>>
    BY <1>6 DEF FrameEnds, Uc!AirEnd, Uc!loopVars
  <2>2. air.phase = "rx"
    BY <1>6 DEF FrameEnds, Uc!AirEnd
  <2>3. QED
    BY <1>0, <2>1, <2>2 DEF Filtered, HeaderMatches, Matches
<1>7. CASE ArmReceive \/ ArmHook \/ Buffers \/ UNCHANGED vars
  <2>1. UNCHANGED <<pc, lastrx, nrx, DUMP_CSI, slot, core, txstream, air>>
    BY <1>7 DEF ArmReceive, ArmHook, Buffers, vars, ucOwn
  <2>2. QED
    BY <1>0, <2>1 DEF Filtered, HeaderMatches, Matches
<1>8. QED
  BY <1>1, <1>2, <1>3, <1>4, <1>5, <1>6, <1>7, NoIoctl
     DEF Next, Microcode, Uc!Microcode

\* The channel stays the same, and frames complete in the order they are
\* heard.
LEMMA QuietKept ==
    ASSUME ExInv, Quiet, Filtered, Completed, Undisturbed, Undisturbed',
           [Next]_vars
    PROVE  Quiet' /\ Completed'
<1>0. /\ UNCHANGED <<shm, ioctl, chanspec>> /\ shm \in InitShm
      /\ ioctl = Null /\ nrx \in Nat
  BY NoIoctl DEF Quiet, ExInv, UcTypeOK
<1>1. CASE Microcode /\ (Uc!RxComplete \/ Uc!RxCompleteDump)
  <2>1. /\ pc = "event" /\ air.phase = "done" /\ air' = Uc!NoAir
        /\ UNCHANGED nrx
        /\ Extracting' => RXCHAN' = air.chan
    BY <1>1 DEF Uc!RxComplete, Uc!RxCompleteDump, Extracting
  <2>2. lastrx \in Frame /\ lastrx.n = nrx /\ lastrx # Null
    BY <2>1, NullAssumption DEF ExInv, Reception, Filtered
  <2>3. completed' = [frame |-> lastrx, chan |-> air.chan]
    BY <1>1, <2>1 DEF Microcode
  <2>4. air'.phase = "none"
    BY <2>1 DEF Uc!NoAir
  <2>5. Quiet'
    BY <1>0, <2>1, <2>4 DEF Quiet
  <2>6. completed'.frame = lastrx /\ nrx <= nrx
    BY <1>0, <2>3
  <2>7. QED
    BY <2>1, <2>2, <2>4, <2>5, <2>6 DEF Completed
<1>2. CASE Microcode /\ (\/ Uc!PollForce \/ Uc!PollClean \/ Uc!NoEvent
                         \/ Uc!RxPlcp \/ Uc!RxHeader \/ Uc!RxAddress
                         \/ Uc!Select \/ Uc!PushChunk
                         \/ Uc!Finish \/ Uc!CsiEnd)
  <2>1. /\ ~ (pc = "event" /\ air.phase = "done")
        /\ UNCHANGED <<nrx, RXCHAN>> /\ (Extracting' => Extracting)
    BY <1>2 DEF Uc!PollForce, Uc!PollClean, Uc!NoEvent, Uc!RxPlcp, Uc!RxHeader,
       Uc!RxAddress, Uc!RxMacs, Uc!RxMacLoop, Uc!RxMacSlot, Uc!SelectFrame,
       Uc!Select, Uc!SelectStream, Uc!SelectCore, Uc!PushChunk, Uc!Finish,
       Uc!CsiEnd, Uc!loopVars, Extracting
  <2>2. /\ air'.phase # "none" => air.phase # "none"
        /\ air'.chan = air.chan
    BY <1>2 DEF Uc!PollForce, Uc!PollClean, Uc!NoEvent, Uc!RxPlcp, Uc!RxHeader,
       Uc!RxAddress, Uc!RxMacs, Uc!RxMacLoop, Uc!RxMacSlot, Uc!SelectFrame,
       Uc!Select, Uc!SelectStream, Uc!SelectCore, Uc!PushChunk, Uc!Finish,
       Uc!CsiEnd, ExInv, UcTypeOK, Uc!NoAir
  <2>3. UNCHANGED completed
    BY <1>2, <2>1 DEF Microcode
  <2>4. QED
    BY <1>0, <2>1, <2>2, <2>3 DEF Quiet, Completed
<1>3. CASE OnAir \/ FrameEnds
  <2>1. UNCHANGED <<completed, pc, RXCHAN>>
    BY <1>3 DEF OnAir, FrameEnds, Uc!Detect, Uc!AirAbort, Uc!AirEnd,
       Uc!loopVars
  <2>2. \/ nrx' = nrx + 1 /\ air'.chan = chanspec
        \/ nrx' = nrx /\ air'.phase = "none"
        \/ nrx' = nrx /\ air'.chan = air.chan /\ air.phase # "none"
    BY <1>3 DEF OnAir, FrameEnds, Uc!Detect, Uc!AirAbort, Uc!AirEnd, Uc!NoAir,
       ExInv, UcTypeOK
  <2>3. Quiet'
    BY <1>0, <2>1, <2>2 DEF Quiet, Extracting
  <2>4. completed # Null => completed.frame.n \in Nat
    BY BoundAssumption DEF Completed, Frame
  <2>5. QED
    BY <1>0, <2>1, <2>2, <2>3, <2>4 DEF Completed
<1>4. CASE ArmReceive \/ ArmHook \/ Buffers \/ UNCHANGED vars
  <2>1. UNCHANGED <<pc, air, RXCHAN, nrx, completed>>
    BY <1>4 DEF ArmReceive, ArmHook, Buffers, vars, ucOwn
  <2>2. QED
    BY <1>0, <2>1 DEF Quiet, Completed, Extracting
<1>5. QED
  BY <1>1, <1>2, <1>3, <1>4, NoIoctl DEF Next, Microcode, Uc!Microcode

\* What is still to be extracted becomes less.
LEMMA StillOwedKept ==
    ASSUME ExInv, StillOwed, UNCHANGED shm, owed \subseteq owed',
           pc' \in {"select", "mask", "push"} =>
              /\ pc \in {"select", "mask", "push"} /\ UNCHANGED <<lastrx, RXCHAN>>
              /\ \/ core' = core /\ txstream' = txstream
                 \/ core' = core /\ txstream' = txstream + 1
                 \/ core' = core + 1
    PROVE  StillOwed'
<1>1. core \in Nat /\ txstream \in Nat
  BY ChunkCounts DEF ExInv, UcTypeOK
<1>2. ASSUME NEW p \in SelectedPairs(shm), pc' \in {"select", "mask", "push"},
             p[1] > core' \/ (p[1] = core' /\ p[2] >= txstream')
      PROVE  ToExtract(p[1], p[2])' \in owed'
  <2>1. p[1] \in Nat /\ p[2] \in Nat
    BY ChunkCounts DEF SelectedPairs, Uc!NSS
  <2>2. p[1] > core \/ (p[1] = core /\ p[2] >= txstream)
    BY <1>1, <1>2, <2>1
  <2>3. ToExtract(p[1], p[2]) \in owed
    BY <1>2, <2>2 DEF StillOwed
  <2>4. ToExtract(p[1], p[2])' = ToExtract(p[1], p[2])
    BY <1>2 DEF ToExtract
  <2>5. QED
    BY <2>3, <2>4
<1>3. SelectedPairs(shm)' = SelectedPairs(shm)
  BY DEF SelectedPairs, Uc!NCORES, Uc!NSS
<1>4. QED
  BY <1>2, <1>3 DEF StillOwed

\* The next stream or core.
LEMMA AdvanceByOne ==
    ASSUME Uc!Advance, pc' \in {"select", "mask", "push"}
    PROVE  \/ core' = core /\ txstream' = txstream + 1
           \/ core' = core + 1
BY DEF Uc!Advance

\* The parts of the invariant that say what is on its way.
OnTheWay ==
    Chunks /\ Ordered /\ Continued /\ Follows /\ Assembly /\ StillOwed

\* The steps of the microcode and the radio that push nothing.
LEMMA NothingPushed ==
    ASSUME ExInv, FwP!FwIInv, RInv, Undisturbed, Undisturbed', [Next]_vars,
           UNCHANGED <<completed, sent, owed>>,
           \/ Microcode /\ ~ (\/ Uc!RxComplete \/ Uc!RxCompleteDump
                              \/ Uc!PushChunk)
           \/ OnAir \/ FrameEnds
    PROVE  OnTheWay'
<1>1. UNCHANGED <<shm, ioctl, chanspec, fifo, rx, p_csi, missing_csi_frames,
                  last_rssi, phystatus, owed>>
  BY NoIoctl DEF RInv, Microcode, OnAir, FrameEnds, fwOwn, Uc!Microcode,
     Uc!PollForce, Uc!PollClean, Uc!NoEvent, Uc!RxPlcp, Uc!RxHeader,
     Uc!RxAddress, Uc!RxMacs, Uc!RxMacLoop, Uc!RxMacSlot, Uc!SelectFrame,
     Uc!Select, Uc!SelectStream, Uc!SelectCore, Uc!Finish, Uc!CsiEnd,
     Uc!Detect, Uc!AirAbort, Uc!AirEnd
<1>2. SameLine
  BY <1>1, LineKept
<1>3. \A a \in HookPacket : IsCsi(a) /\ Behind(a) => Behind(a)'
  BY BehindKept DEF RInv
<1>4. CASE Microcode /\ Uc!Select
  <2>1. /\ pc \in {"select", "mask"} /\ UNCHANGED <<lastrx, RXCHAN>>
        /\ \/ pc' \in {"mask", "push"} /\ UNCHANGED <<core, txstream>>
           \/ Uc!Advance /\ pc' \in {"select", "finish"}
    BY <1>4, AdvanceKeeps
       DEF ExInv, Uc!Select, Uc!SelectStream, Uc!SelectCore
  <2>2. /\ pc # "push" /\ (Extracting' => Extracting /\ lastrx' = lastrx)
        /\ pc' \in {"select", "mask", "push"} =>
              /\ pc \in {"select", "mask", "push"} /\ UNCHANGED <<lastrx, RXCHAN>>
              /\ \/ core' = core /\ txstream' = txstream
                 \/ core' = core /\ txstream' = txstream + 1
                 \/ core' = core + 1
    BY <2>1, AdvanceByOne DEF Extracting
  <2>3. QED
    BY <1>1, <1>2, <1>3, <2>2, ChunksKept, OrderedKept, ContinuedKept,
       FollowsKept, AssemblyKept, StillOwedKept DEF RInv, OnTheWay
<1>5. CASE ~ (Microcode /\ Uc!Select)
  <2>1. /\ pc # "push" /\ (Extracting' => Extracting /\ lastrx' = lastrx)
        /\ pc' \notin {"select", "mask", "push"}
    <3>1. CASE Microcode /\ ~ (\/ Uc!RxComplete \/ Uc!RxCompleteDump
                                \/ Uc!PushChunk)
      BY <1>5, <3>1 DEF Uc!Microcode, Microcode, Uc!PollForce, Uc!PollClean,
         Uc!NoEvent, Uc!RxPlcp, Uc!RxHeader, Uc!RxAddress, Uc!RxMacs,
         Uc!RxMacLoop, Uc!RxMacSlot, Uc!SelectFrame, Uc!Finish, Uc!CsiEnd,
         Extracting
    <3>2. CASE OnAir
      BY <3>2 DEF OnAir, Uc!Detect, Uc!AirAbort, Extracting
    <3>3. CASE FrameEnds
      BY <3>3 DEF FrameEnds, Uc!AirEnd, Extracting, ExInv, Reception, Uc!NoAir
    <3>4. QED
      BY <3>1, <3>2, <3>3
  <2>2. QED
    BY <1>1, <1>2, <1>3, <2>1, ChunksKept, OrderedKept, ContinuedKept,
       FollowsKept, AssemblyKept, StillOwedKept DEF RInv, OnTheWay
<1>6. QED
  BY <1>4, <1>5

\* The ARM core takes a packet in hand, a buffer comes back, or nothing
\* happens.
LEMMA NothingTaken ==
    ASSUME ExInv, FwP!FwIInv, RInv, Undisturbed, Undisturbed',
           ArmReceive \/ Buffers \/ UNCHANGED vars, UNCHANGED owed
    PROVE  OnTheWay'
<1>1. /\ UNCHANGED <<shm, p_csi, missing_csi_frames, last_rssi, phystatus,
                     chanspec, pc, lastrx, RXCHAN, core, txstream, left, nrx,
                     air>>
      /\ SameLine
  <2>1. CASE ArmReceive
    BY <2>1, LineReceived DEF ArmReceive, Fw!Receive, ucOwn
  <2>2. CASE Buffers \/ UNCHANGED vars
    BY <2>2, LineKept DEF Buffers, Fw!XmitDone, Fw!StackDone, vars, ucOwn,
       fwOwn
  <2>3. QED
    BY <2>1, <2>2
<1>2. \A a \in HookPacket : IsCsi(a) /\ Behind(a) => Behind(a)'
  BY <1>1 DEF Behind
<1>3. UNCHANGED Current /\ (Extracting' => Extracting)
  BY <1>1 DEF Current, ToExtract, Extracting
<1>4. QED
  BY <1>1, <1>2, <1>3, ChunksKept, OrderedKept, ContinuedKept,
     FollowsKept, AssemblyKept, StillOwedKept DEF RInv, OnTheWay

-----------------------------------------------------------------------------
(***************************************************************************)
(* What keeps each part of the invariant when x is pushed.                 *)
(***************************************************************************)
LEMMA ChunksGrow ==
    ASSUME ExInv, FwP!FwIInv, Chunks, NEW x, Grown(x), chanspec' = chanspec,
           owed \subseteq owed',
           \A a \in HookPacket : IsCsi(a) /\ Behind(a) => Behind(a)',
           IsCsi(x) => Proper(x) /\ Behind(x)' /\ Meas(x) \in owed'
    PROVE  Chunks'
<1>1. Size \in Nat /\ Size' = Size + 1
  BY LineTypes DEF Grown
<1>2. ASSUME NEW i, NEW a, Item(i)' = a, Proper(a), Behind(a)',
             Meas(a) \in owed'
      PROVE  /\ Proper(Item(i))' /\ Behind(Item(i))'
             /\ Meas(Item(i))' \in owed'
  BY <1>2 DEF Proper, Behind, Meas
<1>3. ASSUME NEW i \in 1..Size, IsCsi(Item(i))'
      PROVE  /\ Proper(Item(i))' /\ Behind(Item(i))'
             /\ Meas(Item(i))' \in owed'
  <2>1. Item(i)' = Item(i) /\ IsCsi(Item(i))
    BY <1>3 DEF Grown, IsCsi
  <2>2. ASSUME NEW a, a = Item(i)
        PROVE  Item(i)' = a /\ Proper(a) /\ Behind(a)' /\ Meas(a) \in owed'
    <3>1. a \in HookPacket /\ IsCsi(a) /\ Behind(a)
      BY <2>1, <2>2, LineTypes DEF Chunks
    <3>2. Behind(a)'
      BY <3>1
    <3>3. QED
      BY <2>1, <2>2, <3>2 DEF Chunks
  <2>3. QED
    BY <1>2, <2>2
<1>4. ASSUME NEW i, i = Size + 1, IsCsi(Item(i))'
      PROVE  /\ Proper(Item(i))' /\ Behind(Item(i))'
             /\ Meas(Item(i))' \in owed'
  <2>1. Item(i)' = x /\ IsCsi(x)
    BY <1>4 DEF Grown, IsCsi
  <2>2. QED
    BY <1>2, <2>1
<1>5. ASSUME NEW i \in 1..(Size + 1)
      PROVE  i \in 1..Size \/ i = Size + 1
  BY <1>1
<1>6. QED
  BY <1>1, <1>3, <1>4, <1>5 DEF Chunks

\* Their order.
LEMMA OrderedGrows ==
    ASSUME ExInv, FwP!FwIInv, Ordered, NEW x, Grown(x),
           IsCsi(x) => \A i \in 1..Size :
                          IsCsi(Item(i)) => InOrder(Item(i), x)
    PROVE  Ordered'
<1>1. Size \in Nat /\ Size' = Size + 1
  BY LineTypes DEF Grown
<1>2. ASSUME NEW i \in 1..(Size + 1), NEW j \in 1..(Size + 1), i < j,
             IsCsi(Item(i))', IsCsi(Item(j))'
      PROVE  InOrder(Item(i), Item(j))'
  <2>1. i \in 1..Size /\ Item(i)' = Item(i)
    BY <1>1, <1>2 DEF Grown
  <2>2. InOrder(Item(i), Item(j)')
    <3>1. CASE j \in 1..Size
      <4>1. Item(j)' = Item(j)
        BY <3>1 DEF Grown
      <4>2. QED
        BY <1>2, <2>1, <3>1, <4>1 DEF Ordered, IsCsi
    <3>2. CASE j = Size + 1
      <4>1. Item(j)' = x
        BY <3>2 DEF Grown
      <4>2. QED
        BY <1>2, <2>1, <4>1 DEF IsCsi
    <3>3. QED
      BY <1>1, <3>1, <3>2
  <2>3. QED
    BY <2>1, <2>2 DEF InOrder, Meas, Service!Earlier
<1>3. QED
  BY <1>1, <1>2 DEF Ordered

\* That none is missing: x is what the microcode was about to push.
LEMMA ContinuedGrows ==
    ASSUME ExInv, FwP!FwIInv, Continued, NEW x, Grown(x),
           UNCHANGED <<p_csi, missing_csi_frames>>,
           pc = "push" => /\ IsCsi(x) /\ Meas(x) = Current
                          /\ Fw!Missing(x) = left,
           (IsCsi(x) /\ Fw!Missing(x) > 1) =>
              pc' = "push" /\ Current' = Meas(x) /\ left' = Fw!Missing(x) - 1
    PROVE  Continued'
<1>1. Size \in Nat /\ Size' = Size + 1
  BY LineTypes DEF Grown
<1>2. ASSUME NEW m, NEW k, NEW i \in 1..(Size + 1), Due(m, k, i)
      PROVE  Due(m, k, i)'
  <2>1. CASE i <= Size
    <3>1. Item(i)' = Item(i)
      BY <1>1, <2>1 DEF Grown
    <3>2. IsCsi(Item(i)) /\ Meas(Item(i)) = m /\ Fw!Missing(Item(i)) = k
      BY <1>2, <2>1 DEF Due
    <3>3. i <= Size'
      BY <1>1, <2>1
    <3>4. QED
      BY <3>1, <3>2, <3>3 DEF Due, IsCsi, Meas
  <2>2. CASE ~ i <= Size
    <3>1. i = Size + 1 /\ i <= Size'
      BY <1>1, <2>2
    <3>2. Item(i)' = x
      BY <3>1 DEF Grown
    <3>3. pc = "push" /\ Current = m /\ left = k
      BY <1>2, <2>2 DEF Due
    <3>4. IsCsi(x) /\ Meas(x) = m /\ Fw!Missing(x) = k
      BY <3>3
    <3>5. QED
      BY <3>1, <3>2, <3>4 DEF Due, IsCsi, Meas
  <2>3. QED
    BY <2>1, <2>2
<1>3. p_csi # Null =>
        Due(Meas(p_csi.blocks[1]), missing_csi_frames, 1)'
  <2>1. ASSUME NEW m, NEW k, p_csi # Null, m = Meas(p_csi.blocks[1]),
               k = missing_csi_frames
        PROVE  Due(Meas(p_csi.blocks[1]), missing_csi_frames, 1)'
    <3>1. Due(m, k, 1) /\ 1 \in 1..(Size + 1)
      BY <1>1, <2>1 DEF Continued
    <3>2. Due(m, k, 1)'
      BY <1>2, <3>1
    <3>3. m = Meas(p_csi.blocks[1])' /\ k = missing_csi_frames'
      BY <2>1 DEF Meas
    <3>4. QED
      BY <3>2, <3>3 DEF Due
  <2>2. QED
    BY <2>1
<1>4. ASSUME NEW i \in 1..(Size + 1), IsCsi(Item(i))',
             Fw!Missing(Item(i))' > 1
      PROVE  Due(Meas(Item(i)), Fw!Missing(Item(i)) - 1, i + 1)'
  <2>1. ASSUME NEW m, NEW k, m = Meas(Item(i))',
               k = (Fw!Missing(Item(i)) - 1)'
        PROVE  Due(Meas(Item(i)), Fw!Missing(Item(i)) - 1, i + 1)'
    <3>1. CASE i \in 1..Size
      <4>1. Item(i)' = Item(i)
        BY <3>1 DEF Grown
      <4>2. m = Meas(Item(i)) /\ k = Fw!Missing(Item(i)) - 1
        BY <2>1, <4>1 DEF Meas, Fw!Missing
      <4>3. Due(m, k, i + 1)
        BY <1>4, <3>1, <4>1, <4>2 DEF Continued, IsCsi, Fw!Missing
      <4>4. i + 1 \in 1..(Size + 1)
        BY <1>1, <3>1
      <4>5. Due(m, k, i + 1)'
        BY <1>2, <4>3, <4>4
      <4>6. QED
        BY <2>1, <4>5 DEF Due
    <3>2. CASE i = Size + 1
      <4>1. Item(i)' = x
        BY <3>2 DEF Grown
      <4>2. IsCsi(x) /\ Fw!Missing(x) > 1
        BY <1>4, <4>1 DEF IsCsi, Fw!Missing
      <4>3. pc' = "push" /\ Current' = m /\ left' = k
        BY <2>1, <4>1, <4>2 DEF Meas, Fw!Missing
      <4>4. ~ (i + 1 <= Size')
        BY <1>1, <3>2
      <4>5. QED
        BY <2>1, <4>3, <4>4 DEF Due
    <3>3. QED
      BY <1>1, <3>1, <3>2
  <2>2. QED
    BY <2>1
<1>5. QED
  BY <1>1, <1>3, <1>4 DEF Continued

\* That they come behind their frame.
LEMMA FollowsGrows ==
    ASSUME ExInv, FwP!FwIInv, Follows, NEW x, Grown(x),
           UNCHANGED <<phystatus, last_rssi>>,
           IsCsi(x) => x.id = IF Size = 0 THEN last_rssi ELSE Item(Size).id,
           Extracting' => lastrx' = x.id
    PROVE  Follows'
<1>1. Size \in Nat /\ Size' = Size + 1
  BY LineTypes DEF Grown
<1>2. ASSUME NEW i \in 1..(Size + 1), IsCsi(Item(i))'
      PROVE  Item(i)'.id = IF i = 1 THEN last_rssi' ELSE Item(i - 1)'.id
  <2>0. i # 1 => i - 1 \in 1..Size
    BY <1>1
  <2>1. i # 1 => Item(i - 1)' = Item(i - 1)
    BY <2>0 DEF Grown
  <2>2. CASE i \in 1..Size
    <3>1. Item(i)' = Item(i) /\ IsCsi(Item(i))
      BY <1>2, <2>2 DEF Grown, IsCsi
    <3>2. QED
      BY <2>1, <2>2, <3>1 DEF Follows
  <2>3. CASE i = Size + 1
    <3>1. Item(i)' = x /\ IsCsi(x)
      BY <1>2, <2>3 DEF Grown, IsCsi
    <3>2. i = 1 <=> Size = 0
      BY <1>1, <2>3
    <3>3. i # 1 => i - 1 = Size
      BY <1>1, <2>3
    <3>4. x.id = IF i = 1 THEN last_rssi ELSE Item(i - 1).id
      BY <3>1, <3>2, <3>3
    <3>5. QED
      BY <2>1, <3>1, <3>4
  <2>4. QED
    BY <1>1, <2>2, <2>3
<1>3. ASSUME Extracting', NEW k, k = Size'
      PROVE  lastrx' = Item(k)'.id /\ k # 0
  BY <1>1, <1>3 DEF Grown
<1>4. Extracting' =>
         lastrx' = IF Size' = 0 THEN last_rssi' ELSE (Item(Size).id)'
  BY <1>3
<1>5. QED
  BY <1>1, <1>2, <1>4 DEF Follows

-----------------------------------------------------------------------------
\* A frame is complete.
LEMMA FramePushed ==
    ASSUME ExInv, FwP!FwIInv, RInv, Undisturbed, Undisturbed', [Next]_vars,
           Microcode, Uc!RxComplete \/ Uc!RxCompleteDump,
           owed' = owed \cup Asked(completed')
    PROVE  OnTheWay'
<1> DEFINE x == [kind |-> "frame", id |-> lastrx]
<1>1. /\ UNCHANGED <<shm, chanspec, rx, p_csi, missing_csi_frames, last_rssi,
                     phystatus>>
      /\ pc = "event" /\ air.phase = "done" /\ lastrx' = lastrx
      /\ Uc!Push(x)
  BY NoIoctl DEF RInv, Microcode, fwOwn, Uc!RxComplete, Uc!RxCompleteDump
<1>2. lastrx \in Frame /\ x \in HookPacket
  BY <1>1, FrameIsPacket DEF ExInv, Reception
<1>3. Grown(x)
  BY <1>1, <1>2, LinePushed
<1>4. ~ IsCsi(x) /\ x.id = lastrx
  BY DEF IsCsi
<1> HIDE DEF x
<1>5. owed \subseteq owed'
  OBVIOUS
<1>6. \A a \in HookPacket : IsCsi(a) /\ Behind(a) => Behind(a)'
  BY BehindKept DEF RInv
<1>7. Chunks'
  BY <1>1, <1>3, <1>4, <1>5, <1>6, ChunksGrow DEF RInv
<1>8. Ordered'
  BY <1>3, <1>4, OrderedGrows DEF RInv
<1>9. Continued'
  BY <1>1, <1>3, <1>4, ContinuedGrows DEF RInv
<1>10. Follows'
  BY <1>1, <1>3, <1>4, FollowsGrows DEF RInv
<1>11. Assembly'
  BY <1>1, <1>5, AssemblyKept DEF RInv
<1>12. StillOwed'
  <2>1. CASE Uc!RxComplete
    BY <2>1 DEF Uc!RxComplete, StillOwed
  <2>2. CASE Uc!RxCompleteDump
    <3>1. /\ completed' = [frame |-> lastrx, chan |-> air.chan]
          /\ RXCHAN' = air.chan /\ lastrx' = lastrx
      BY <1>1, <2>2 DEF Microcode, Uc!RxCompleteDump
    <3>2. Matches(shm, lastrx)
      BY <1>1, <2>2 DEF RInv, Filtered, Uc!RxCompleteDump
    <3>3. Asked(completed') =
            {[frame |-> lastrx, chan |-> air.chan, core |-> p[1],
              nss |-> p[2]] : p \in SelectedPairs(shm)}
      BY <3>1, <3>2 DEF Asked
    <3>4. ASSUME NEW p \in SelectedPairs(shm)
          PROVE  ToExtract(p[1], p[2])' \in owed'
      BY <3>1, <3>3 DEF ToExtract
    <3>5. SelectedPairs(shm)' = SelectedPairs(shm)
      BY <1>1 DEF SelectedPairs, Uc!NCORES, Uc!NSS
    <3>6. QED
      BY <3>4, <3>5 DEF StillOwed
  <2>3. QED
    BY <2>1, <2>2
<1>13. QED
  BY <1>7, <1>8, <1>9, <1>10, <1>11, <1>12 DEF OnTheWay

\* What is known of the chunk the microcode pushes.
LEMMA NewChunkFacts ==
    ASSUME ExInv, RInv, Chip # "bcm4366c0", pc = "push"
    PROVE  /\ Uc!Chunk \in HookPacket /\ IsCsi(Uc!Chunk)
           /\ Proper(Uc!Chunk) /\ Meas(Uc!Chunk) = Current
           /\ Uc!Chunk.id = lastrx
           /\ Uc!Chunk.core = core /\ Uc!Chunk.nss = txstream
           /\ Fw!Missing(Uc!Chunk) = left /\ left \in Nat /\ left >= 1
<1> DEFINE c == Uc!Chunk
<1>1. /\ c \in HookPacket /\ Fw!Missing(c) = left
      /\ Fw!IsNew(c) <=> left = Uc!CHUNKS(RXCHAN)
  BY ChunkIsPacket DEF ExInv
<1>2. /\ c.kind = "csi" /\ c.id = lastrx /\ c.core = core
      /\ c.nss = txstream /\ c.chan = RXCHAN
      /\ left = 1 => c.tones = Uc!TONES_LAST_CHUNK(RXCHAN)
  BY DEF Uc!Chunk
<1>3. /\ RXCHAN = chanspec /\ left \in 1..Uc!CHUNKS(RXCHAN)
      /\ Uc!CHUNKS(RXCHAN) \in 4..19
  BY ChunkCounts DEF RInv, Quiet, Extracting, ExInv, Reception
<1> HIDE DEF c
<1>4. Proper(c)
  BY <1>1, <1>2, <1>3 DEF Proper
<1>5. IsCsi(c) /\ Meas(c) = Current
  BY <1>2 DEF IsCsi, Meas, Current, ToExtract
<1>6. QED
  BY <1>1, <1>2, <1>3, <1>4, <1>5 DEF c

\* A chunk of the measurement being extracted.
LEMMA ChunkPushed ==
    ASSUME ExInv, FwP!FwIInv, RInv, Undisturbed, Undisturbed', [Next]_vars,
           Chip # "bcm4366c0", Microcode, Uc!PushChunk, UNCHANGED owed
    PROVE  OnTheWay'
<1>0. PICK x : x = Uc!Chunk
  OBVIOUS
<1>1. /\ UNCHANGED <<shm, chanspec, rx, p_csi, missing_csi_frames, last_rssi,
                     phystatus, lastrx, RXCHAN, nrx, air>>
      /\ pc = "push" /\ left' = left - 1
      /\ Uc!Push(x)
      /\ IF left = 1 THEN Uc!Advance ELSE UNCHANGED <<pc, core, txstream>>
  BY NoIoctl, <1>0 DEF RInv, Microcode, fwOwn, Uc!PushChunk
<1>2. /\ x \in HookPacket /\ IsCsi(x) /\ Proper(x) /\ Meas(x) = Current
      /\ x.id = lastrx /\ x.core = core /\ x.nss = txstream
      /\ Fw!Missing(x) = left /\ left \in Nat /\ left >= 1
  BY <1>0, <1>1, NewChunkFacts
<1>3. Grown(x)
  BY <1>1, <1>2, LinePushed
<1>4. /\ core \in Nat /\ txstream \in Nat /\ nrx \in Nat
      /\ core \in 0..(Uc!NCORES - 1) /\ txstream \in 0..3
      /\ lastrx \in Frame /\ lastrx # Null /\ lastrx.n = nrx
      /\ air.phase = "none"
  BY <1>1, ChunkCounts, NullAssumption DEF ExInv, UcTypeOK, Reception, RInv,
     Filtered, Uc!NoAir
<1>5. left = 1 => pc' \in {"select", "finish"}
  BY <1>1, AdvanceKeeps DEF ExInv
<1>6. \A a \in HookPacket : IsCsi(a) /\ Behind(a) => Behind(a)'
  BY BehindKept DEF RInv
<1>7. Behind(x)'
  <2>1. CASE left = 1
    <3>1. pc' = "select" => \/ core < core'
                            \/ core = core' /\ txstream < txstream'
      BY <1>1, <1>4, <2>1, AdvancePasses
    <3>2. QED
      BY <1>1, <1>2, <1>4, <1>5, <2>1, <3>1 DEF Behind
  <2>2. CASE left # 1
    BY <1>1, <1>2, <1>4, <2>2 DEF Behind
  <2>3. QED
    BY <2>1, <2>2
<1>8. Meas(x) \in owed
  <2>1. core \in shm.core_mask /\ txstream \in shm.nss_mask
    BY <1>1 DEF RInv, Filtered
  <2>2. <<core, txstream>> \in SelectedPairs(shm)
    BY <1>4, <2>1 DEF SelectedPairs, Uc!NSS
  <2>3. ToExtract(core, txstream) \in owed
    BY <1>1, <1>4, <2>2 DEF RInv, StillOwed
  <2>4. QED
    BY <1>2, <2>3 DEF Current
<1>9. Chunks'
  BY <1>1, <1>2, <1>3, <1>6, <1>7, <1>8, ChunksGrow DEF RInv
<1>10. ASSUME NEW i \in 1..Size, IsCsi(Item(i))
       PROVE  InOrder(Item(i), x)
  <2>1. Behind(Item(i)) /\ Proper(Item(i)) /\ Item(i) \in HookPacket
    BY <1>10, LineTypes DEF RInv, Chunks
  <2>2. ASSUME NEW a \in HookPacket, Behind(a), Proper(a), IsCsi(a)
        PROVE  InOrder(a, x)
    <3>1. a.id.n \in Nat /\ a.core \in Nat /\ a.nss \in Nat
      BY <2>2, ChunkNumbers
    <3>2. CASE a.id.n < nrx
      BY <1>2, <1>4, <3>2 DEF InOrder, Service!Earlier, Meas
    <3>3. CASE a.id = lastrx /\ (\/ a.core < core
                                 \/ a.core = core /\ a.nss < txstream)
      BY <1>2, <3>3 DEF InOrder, Service!Earlier, Meas
    <3>4. CASE /\ a.id = lastrx /\ a.core = core /\ a.nss = txstream
               /\ left < Fw!Missing(a)
      BY <1>2, <2>2, <3>4 DEF InOrder, Meas, Proper
    <3>5. QED
      BY <1>1, <2>2, <3>2, <3>3, <3>4 DEF Behind
  <2>3. QED
    BY <1>10, <2>1, <2>2
<1>11. Ordered'
  BY <1>3, <1>10, OrderedGrows DEF RInv
<1>12. Continued'
  <2>1. Fw!Missing(x) > 1 =>
          pc' = "push" /\ Current' = Meas(x) /\ left' = Fw!Missing(x) - 1
    BY <1>1, <1>2 DEF Current, ToExtract
  <2>2. QED
    BY <1>1, <1>2, <1>3, <2>1, ContinuedGrows DEF RInv
<1>13. Follows'
  <2>1. x.id = IF Size = 0 THEN last_rssi ELSE Item(Size).id
    BY <1>1, <1>2 DEF RInv, Follows, Extracting
  <2>2. QED
    BY <1>1, <1>2, <1>3, <2>1, FollowsGrows DEF RInv
<1>14. Assembly'
  BY <1>1, AssemblyKept DEF RInv
<1>15. StillOwed'
  BY <1>1, StillOwedKept, AdvanceByOne DEF RInv
<1>16. QED
  BY <1>9, <1>11, <1>12, <1>13, <1>14, <1>15 DEF OnTheWay

-----------------------------------------------------------------------------
\* A new UDP frame for the measurement that chunk c starts.
Opened(udp, c) ==
    /\ Fw!IsNew(c) /\ udp.blocks = <<>> /\ udp.rssi = last_rssi
    /\ udp.chanspec = chanspec
    /\ udp.alloc = Fw!Missing(c) * Fw!TonesPerChunk

\* What becomes of udp when chunk c is stored in it, with n chunks missing.
Kept(udp, c, n) ==
    /\ p_csi' # Null /\ p_csi'.blocks = Append(udp.blocks, c)
    /\ p_csi'.rssi = udp.rssi /\ p_csi'.chanspec = udp.chanspec
    /\ p_csi'.alloc = udp.alloc
    /\ missing_csi_frames' = n - 1 /\ UNCHANGED sent

HandedOver(udp, c, inserted) ==
    /\ p_csi' = Null /\ out' # <<>> /\ sent' = out'[Len(out')]
    /\ sent'.blocks = Append(udp.blocks, c)
    /\ sent'.rssi = udp.rssi /\ sent'.chanspec = udp.chanspec
    /\ sent'.csiconf = udp.csiconf
    /\ sent'.src = c.src /\ sent'.phy = phystatus
    /\ sent'.words = inserted + c.tones

LEMMA InsertEffect ==
    ASSUME FwP!FwIInv, ArmHook, NEW udp \in Fw!UdpFrame, NEW c \in HookPacket,
           NEW n \in 1..255, NEW inserted, NEW own,
           Fw!Insert(udp, c, n, inserted, own)
    PROVE  IF n = 1 THEN HandedOver(udp, c, inserted) ELSE Kept(udp, c, n)
<1>0. Fw!Insert(udp, c, n, inserted, own)
  OBVIOUS
<1>1. missing_csi_frames' = n - 1
  <2>1. missing_csi_frames' = IF n = 0 THEN Fw!MaxUint16 ELSE n - 1
    BY ONLY <1>0 DEF Fw!Insert
  <2>2. QED
    BY <2>1
<1>2. sent' = IF Len(out') > Len(out) THEN out'[Len(out')] ELSE sent
  BY DEF ArmHook
<1>3. CASE n # 1
  <2> DEFINE f == Fw!Filled(udp, c)
  <2>1. p_csi' = f /\ out' = out
    BY <1>1, <1>3 DEF Fw!Insert
  <2>2. out \in Seq(FwP!UdpFrame)
    BY DEF FwP!FwIInv, FwP!FwTypeOK
  <2>3. sent' = sent
    BY <1>2, <2>1, <2>2
  <2>4. c \in AnyPacket
    BY DEF HookPacket
  <2>5. /\ f.blocks = Append(udp.blocks, c) /\ f.rssi = udp.rssi
        /\ f.chanspec = udp.chanspec /\ f.alloc = udp.alloc
        /\ f \in Fw!UdpFrame
    BY <2>4 DEF Fw!Filled, Fw!UdpFrame
  <2>6. f # Null
    BY <2>5, NullAssumption
  <2> HIDE DEF f
  <2>7. QED
    BY <1>1, <1>3, <2>1, <2>3, <2>5, <2>6 DEF Kept
<1>4. CASE n = 1
  <2> DEFINE u == Fw!Complete(udp, c, inserted)
  <2>1. out' = Append(out, u) /\ p_csi' = Null
    BY <1>1, <1>4 DEF Fw!Insert
  <2>2. /\ u.blocks = Append(udp.blocks, c) /\ u.rssi = udp.rssi
        /\ u.chanspec = udp.chanspec /\ u.csiconf = udp.csiconf
        /\ u.src = c.src /\ u.phy = phystatus
        /\ u.words = inserted + c.tones
    BY DEF Fw!Complete, Fw!Filled, Fw!UdpFrame
  <2> HIDE DEF u
  <2>3. Len(out') = Len(out) + 1 /\ out'[Len(out')] = u /\ Len(out) \in Nat
    BY <2>1 DEF FwP!FwIInv, FwP!FwTypeOK
  <2>4. sent' = u /\ sent' = out'[Len(out')]
    BY <1>2, <2>3
  <2>5. out' # <<>>
    BY <2>3
  <2>6. QED
    BY <1>4, <2>1, <2>2, <2>4, <2>5 DEF HandedOver
<1>5. QED
  BY <1>3, <1>4

\* What the hook does with the packet c it is called with.
Passed(c) ==
    /\ ~ IsCsi(c) /\ last_rssi' = c.id /\ phystatus' = c.id
    /\ UNCHANGED <<p_csi, missing_csi_frames, sent>>

\* There is no place for a chunk: no buffer for a new UDP frame, or none that
\* waits for it.
Unplaced(c) ==
    IF Fw!IsNew(c) THEN HeapFails \/ Fw!Pool \cup Fw!Held = {}
                   ELSE p_csi = Null \/ Fw!Missing(c) # missing_csi_frames

Dropped(c) ==
    /\ IsCsi(c) /\ Unplaced(c)
    /\ p_csi' = Null /\ UNCHANGED <<last_rssi, phystatus, sent>>

Stored(udp, c, inserted) ==
    /\ IsCsi(c) /\ UNCHANGED <<last_rssi, phystatus>>
    /\ IF Fw!Missing(c) = 1 THEN HandedOver(udp, c, inserted)
                            ELSE Kept(udp, c, Fw!Missing(c))

LEMMA HookEffect ==
    ASSUME FwP!FwIInv, ArmHook, NEW c \in HookPacket, c = rx.pkt
    PROVE  /\ chanspec' = chanspec
           /\ \/ Passed(c)
              \/ Dropped(c)
              \/ \E udp : Opened(udp, c) /\ Stored(udp, c, 0)
              \/ /\ p_csi # Null /\ Fw!Missing(c) = missing_csi_frames
                 /\ Stored(p_csi, c, inserted_csi_values)
<1>1. /\ FwP!FwTypeOK /\ Fw!FwTypeOK /\ rx # Null
      /\ out \in Seq(FwP!UdpFrame)
  BY HookTypesAgree DEF FwP!FwIInv, ArmHook, Fw!process_frame_hook,
     FwP!FwTypeOK
<1>2. Fw!IsChunk(c) <=> IsCsi(c)
  BY DEF Fw!IsChunk, IsCsi
<1>3. /\ Fw!IsChunk(c) => Fw!Missing(c) \in 1..255 /\ Fw!CsiConf(c) \in Nat
      /\ Fw!TonesPerChunk \in Nat
  BY DEF Fw!IsChunk, HookPacket, Fw!IsPacket, Fw!MaxCount, Fw!TonesPerChunk
<1>4. UNCHANGED out => UNCHANGED sent
  <2>1. ASSUME UNCHANGED out
        PROVE  ~ Len(out') > Len(out)
    BY <1>1, <2>1
  <2>2. QED
    BY <2>1 DEF ArmHook
<1>5. CASE Fw!IsChunk(c) /\ Fw!NewChunk(c)
  <2> DEFINE n == Fw!Missing(c)
             words == n * Fw!TonesPerChunk
  <2>1. PICK b \in Buf :
          Fw!Insert(Fw!NewUdp(b, Fw!CsiConf(c), words), c, n, 0,
                    Fw!Give(Fw!Give(owner, Fw!Held, "pool"), {b}, "fw"))
    BY <1>1, <1>5 DEF Fw!NewChunk, Fw!Allocatable, Fw!Pool, Fw!Held,
       Fw!FwTypeOK, Fw!UdpFrame
  <2>2. n \in 1..255 /\ words \in Nat /\ Fw!IsNew(c)
    BY <1>3, <1>5 DEF Fw!NewChunk
  <2>3. words = Fw!Missing(c) * Fw!TonesPerChunk /\ n = Fw!Missing(c)
    OBVIOUS
  <2> HIDE DEF words, n
  <2> DEFINE udp == Fw!NewUdp(b, Fw!CsiConf(c), words)
  <2>4. udp \in Fw!UdpFrame
    BY <1>1, <1>3, <1>5, <2>2 DEF Fw!NewUdp, Fw!UdpFrame, Fw!FwTypeOK
  <2>5. Opened(udp, c)
    BY <2>2, <2>3 DEF Opened, Fw!NewUdp
  <2> HIDE DEF udp
  <2>6. IF n = 1 THEN HandedOver(udp, c, 0) ELSE Kept(udp, c, n)
    BY <2>1, <2>2, <2>4, InsertEffect DEF udp
  <2>7. UNCHANGED <<last_rssi, phystatus, chanspec>>
    BY <1>5 DEF Fw!NewChunk
  <2>8. QED
    BY <1>2, <1>5, <2>3, <2>5, <2>6, <2>7 DEF Stored
<1>6. CASE Fw!IsChunk(c) /\ Fw!NextChunk(c)
  <2>1. /\ Fw!Missing(c) = missing_csi_frames /\ p_csi # Null
        /\ Fw!Insert(p_csi, c, missing_csi_frames, inserted_csi_values, owner)
        /\ UNCHANGED <<last_rssi, phystatus, chanspec>>
    BY <1>6 DEF Fw!NextChunk
  <2>2. p_csi \in Fw!UdpFrame /\ missing_csi_frames \in 1..255
    BY <1>1, <1>3, <1>6, <2>1 DEF Fw!FwTypeOK
  <2>3. IF missing_csi_frames = 1
        THEN HandedOver(p_csi, c, inserted_csi_values)
        ELSE Kept(p_csi, c, missing_csi_frames)
    BY <2>1, <2>2, InsertEffect
  <2>4. QED
    BY <1>2, <1>6, <2>1, <2>3 DEF Stored
<1>7. CASE Fw!IsChunk(c) /\ (\/ Fw!NewChunkNoBuffer(c) \/ Fw!StrayChunk(c)
                             \/ Fw!MismatchedChunk(c))
  <2>1. p_csi' = Null /\ UNCHANGED <<last_rssi, phystatus, chanspec, out>>
    BY <1>7 DEF Fw!NewChunkNoBuffer, Fw!StrayChunk, Fw!MismatchedChunk
  <2>2. Unplaced(c)
    BY <1>7 DEF Fw!NewChunkNoBuffer, Fw!StrayChunk, Fw!MismatchedChunk,
       Unplaced
  <2>3. QED
    BY <1>2, <1>4, <1>7, <2>1, <2>2 DEF Dropped
<1>8. CASE ~ Fw!IsChunk(c) /\ Fw!RegularFrame(c)
  BY <1>2, <1>4, <1>8 DEF Fw!RegularFrame, Passed
<1>9. QED
  BY <1>5, <1>6, <1>7, <1>8 DEF ArmHook, Fw!process_frame_hook

-----------------------------------------------------------------------------
(***************************************************************************)
(* What keeps each part of the invariant when the hook takes a packet.     *)
(***************************************************************************)
\* The hook changes nothing of the microcode.
UcStays ==
    UNCHANGED <<shm, pc, lastrx, RXCHAN, core, txstream, left, nrx, air,
                chanspec>>

\* All packets on their way move up by one.
Shrunk ==
    /\ Size \in Nat /\ Size' = Size - 1 /\ Size >= 1
    /\ \A i \in 1..(Size - 1) : Item(i)' = Item(i + 1)

LEMMA ChunksShrink ==
    ASSUME Chunks, Shrunk, UcStays,
           \A i \in 2..Size : IsCsi(Item(i)) => Meas(Item(i)) \in owed'
    PROVE  Chunks'
<1>1. ASSUME NEW i \in 1..(Size - 1), IsCsi(Item(i))'
      PROVE  /\ Proper(Item(i))' /\ Behind(Item(i))'
             /\ Meas(Item(i))' \in owed'
  <2>1. i + 1 \in 2..Size /\ i + 1 \in 1..Size
    BY DEF Shrunk
  <2>2. Item(i)' = Item(i + 1) /\ IsCsi(Item(i + 1))
    BY <1>1 DEF Shrunk, IsCsi
  <2>3. ASSUME NEW a, a = Item(i + 1)
        PROVE  /\ Proper(Item(i))' /\ Behind(Item(i))'
               /\ Meas(Item(i))' \in owed'
    <3>1. Proper(a) /\ Behind(a) /\ Meas(a) \in owed' /\ Item(i)' = a
      BY <2>1, <2>2, <2>3 DEF Chunks
    <3>2. Proper(Item(i))'
      BY <3>1 DEF Proper, UcStays
    <3>3. Behind(Item(i))'
      BY <3>1 DEF Behind, UcStays
    <3>4. Meas(Item(i))' \in owed'
      BY <3>1 DEF Meas
    <3>5. QED
      BY <3>2, <3>3, <3>4
  <2>4. QED
    BY <2>3
<1>2. QED
  BY <1>1 DEF Chunks, Shrunk

\* Their order.
LEMMA OrderedShrinks ==
    ASSUME Ordered, Shrunk
    PROVE  Ordered'
<1>1. ASSUME NEW i \in 1..(Size - 1), NEW j \in 1..(Size - 1), i < j,
             IsCsi(Item(i))', IsCsi(Item(j))'
      PROVE  InOrder(Item(i), Item(j))'
  <2>1. i + 1 \in 1..Size /\ j + 1 \in 1..Size /\ i + 1 < j + 1
    BY <1>1 DEF Shrunk
  <2>2. Item(i)' = Item(i + 1) /\ Item(j)' = Item(j + 1)
    BY DEF Shrunk
  <2>3. InOrder(Item(i + 1), Item(j + 1))
    BY <1>1, <2>1, <2>2 DEF Ordered, IsCsi
  <2>4. QED
    BY <2>2, <2>3 DEF InOrder, Meas, Service!Earlier
<1>2. QED
  BY <1>1 DEF Ordered, Shrunk

\* That none is missing.
LEMMA ContinuedShrinks ==
    ASSUME Continued, Shrunk, UcStays, NEW m, NEW k,
           p_csi' # Null => /\ Due(m, k, 2) /\ m = Meas(p_csi'.blocks[1])
                            /\ k = missing_csi_frames'
    PROVE  Continued'
<1>1. ASSUME NEW mm, NEW kk, NEW i \in 1..Size, Due(mm, kk, i + 1)
      PROVE  Due(mm, kk, i)'
  <2>1. CASE i + 1 <= Size
    <3>1. i \in 1..(Size - 1) /\ i <= Size'
      BY <2>1 DEF Shrunk
    <3>2. Item(i)' = Item(i + 1)
      BY <3>1 DEF Shrunk
    <3>3. /\ IsCsi(Item(i + 1)) /\ Meas(Item(i + 1)) = mm
          /\ Fw!Missing(Item(i + 1)) = kk
      BY <1>1, <2>1 DEF Due
    <3>4. QED
      BY <3>1, <3>2, <3>3 DEF Due, IsCsi, Meas
  <2>2. CASE ~ i + 1 <= Size
    <3>1. ~ i <= Size'
      BY <2>2 DEF Shrunk
    <3>2. pc = "push" /\ Current = mm /\ left = kk
      BY <1>1, <2>2 DEF Due
    <3>3. UNCHANGED Current
      BY DEF UcStays, Current, ToExtract
    <3>4. QED
      BY <3>1, <3>2, <3>3 DEF Due, UcStays
  <2>3. QED
    BY <2>1, <2>2
<1>2. p_csi' # Null =>
        Due(Meas(p_csi.blocks[1]), missing_csi_frames, 1)'
  <2>1. ASSUME p_csi' # Null
        PROVE  Due(Meas(p_csi.blocks[1]), missing_csi_frames, 1)'
    <3>1. Due(m, k, 1)'
      BY <1>1, <2>1 DEF Shrunk
    <3>2. m = Meas(p_csi.blocks[1])' /\ k = missing_csi_frames'
      BY <2>1 DEF Meas
    <3>3. QED
      BY <3>1, <3>2 DEF Due
  <2>2. QED
    BY <2>1
<1>3. ASSUME NEW i \in 1..(Size - 1), IsCsi(Item(i))',
             Fw!Missing(Item(i))' > 1
      PROVE  Due(Meas(Item(i)), Fw!Missing(Item(i)) - 1, i + 1)'
  <2>1. ASSUME NEW mm, NEW kk, mm = Meas(Item(i))',
               kk = (Fw!Missing(Item(i)) - 1)'
        PROVE  Due(Meas(Item(i)), Fw!Missing(Item(i)) - 1, i + 1)'
    <3>1. Item(i)' = Item(i + 1) /\ i + 1 \in 1..Size
      BY DEF Shrunk
    <3>2. /\ IsCsi(Item(i + 1)) /\ Fw!Missing(Item(i + 1)) > 1
          /\ mm = Meas(Item(i + 1)) /\ kk = Fw!Missing(Item(i + 1)) - 1
      BY <1>3, <2>1, <3>1 DEF IsCsi, Meas, Fw!Missing
    <3>3. Due(mm, kk, (i + 1) + 1)
      BY <3>1, <3>2 DEF Continued
    <3>4. Due(mm, kk, i + 1)'
      BY <1>1, <3>1, <3>3
    <3>5. QED
      BY <2>1, <3>4 DEF Due
  <2>2. QED
    BY <2>1
<1>4. QED
  BY <1>2, <1>3 DEF Continued, Shrunk

\* That they come behind their frame.
LEMMA FollowsShrinks ==
    ASSUME Follows, Shrunk, UcStays, last_rssi' = Item(1).id,
           phystatus' = Item(1).id
    PROVE  Follows'
<1>1. ASSUME NEW i \in 1..(Size - 1), IsCsi(Item(i))'
      PROVE  Item(i)'.id = IF i = 1 THEN last_rssi' ELSE Item(i - 1)'.id
  <2>1. Item(i)' = Item(i + 1) /\ i + 1 \in 1..Size /\ i + 1 # 1
        /\ (i + 1) - 1 = i
    BY DEF Shrunk
  <2>2. Item(i + 1).id = Item(i).id
    BY <1>1, <2>1 DEF Follows, IsCsi
  <2>3. CASE i = 1
    BY <2>1, <2>2, <2>3
  <2>4. CASE i # 1
    <3>1. i - 1 \in 1..(Size - 1) /\ (i - 1) + 1 = i
      BY <2>4 DEF Shrunk
    <3>2. Item(i - 1)' = Item(i)
      BY <3>1 DEF Shrunk
    <3>3. QED
      BY <2>1, <2>2, <2>4, <3>2
  <2>5. QED
    BY <2>3, <2>4
<1>2. Extracting' =>
        lastrx' = IF Size' = 0 THEN last_rssi' ELSE (Item(Size).id)'
  <2>1. Extracting' => lastrx' = Item(Size).id
    BY DEF Follows, Extracting, UcStays, Shrunk
  <2>2. CASE Size = 1
    BY <2>1, <2>2 DEF Shrunk
  <2>3. CASE Size # 1
    <3>1. ASSUME NEW k, k = Size'
          PROVE  Item(k)' = Item(Size) /\ k # 0
      <4>1. k \in 1..(Size - 1) /\ k + 1 = Size
        BY <2>3, <3>1 DEF Shrunk
      <4>2. QED
        BY <4>1 DEF Shrunk
    <3>2. QED
      BY <2>1, <3>1
  <2>4. QED
    BY <2>2, <2>3
<1>3. QED
  BY <1>1, <1>2 DEF Follows, Shrunk

\* That what is to be extracted is owed.
LEMMA StillOwedStays ==
    ASSUME UcStays,
           pc \in {"select", "mask", "push"} =>
              \A p \in SelectedPairs(shm) :
                  (p[1] > core \/ (p[1] = core /\ p[2] >= txstream)) =>
                      ToExtract(p[1], p[2]) \in owed'
    PROVE  StillOwed'
BY DEF UcStays, StillOwed, ToExtract, SelectedPairs, Uc!NCORES, Uc!NSS

-----------------------------------------------------------------------------
\* What the receiver reads in a UDP frame that is put together right.
LEMMA ReadAsMeasured ==
    ASSUME NEW u, NEW c \in HookPacket, Chip # "bcm4366c0", IsCsi(c),
           Len(u.blocks) \in Nat, Len(u.blocks) >= 1,
           Len(u.blocks) = Uc!CHUNKS(c.chan),
           \A k \in 1..Len(u.blocks) : Meas(u.blocks[k]) = Meas(c),
           u.src = c.id, u.rssi = c.id, u.phy = c.id, u.chanspec = c.chan,
           u.csiconf = Fw!CsiConf(c),
           u.words = (Uc!CHUNKS(c.chan) - 1) * Fw!TonesPerChunk
                        + Uc!TONES_LAST_CHUNK(c.chan)
    PROVE  Measured(u) = Meas(c)
<1>1. \A k \in 1..Len(u.blocks) :
          /\ u.blocks[k].id = c.id /\ u.blocks[k].core = c.core
          /\ u.blocks[k].nss = c.nss /\ u.blocks[k].chan = c.chan
  BY DEF Meas
<1>2. /\ u.blocks[1].id = c.id /\ u.blocks[1].core = c.core
      /\ u.blocks[1].nss = c.nss /\ u.blocks[1].chan = c.chan
  BY <1>1
<1>3. Unmixed(u)
  BY <1>1, <1>2 DEF Unmixed, SameMeasurement
<1>4. c.core \in 0..7 /\ c.nss \in 0..7 /\ u.csiconf = c.core + 8 * c.nss
  BY DEF HookPacket, IsCsi
<1>5. u.csiconf % 8 = c.core /\ (u.csiconf \div 8) % 8 = c.nss
  <2>1. PICK x, y, v : x = c.core /\ y = c.nss /\ v = u.csiconf
    OBVIOUS
  <2>2. /\ x \in Nat /\ x < 8 /\ y \in Nat /\ y < 8
        /\ v = x + 8 * y
    BY <1>4, <2>1
  <2>3. v % 8 = x
    BY ONLY <2>2
  <2>4. v \div 8 = y
    BY ONLY <2>2
  <2>5. y % 8 = y
    BY ONLY <2>2
  <2>6. QED
    BY <2>1, <2>3, <2>4, <2>5
<1>6. u.words = 64 * (IF BwCode[u.chanspec] = 4 THEN 4
                      ELSE IF BwCode[u.chanspec] = 3 THEN 2 ELSE 1)
  BY DEF Uc!CHUNKS, Uc!TONES_LAST_CHUNK, Fw!TonesPerChunk
<1>7. Measured(u) = [frame |-> u.src, chan |-> u.chanspec,
                     core |-> u.csiconf % 8, nss |-> (u.csiconf \div 8) % 8]
  BY <1>1, <1>2, <1>3, <1>4, <1>6 DEF Measured
<1>8. QED
  BY <1>5, <1>7 DEF Meas

\* The UDP frame under construction, when its last chunk comes.
LEMMA LastChunkComes ==
    ASSUME ExInv, FwP!FwIInv, RInv, Chip # "bcm4366c0", p_csi # Null,
           missing_csi_frames = 1, Size >= 1,
           NEW c \in HookPacket, c = Item(1), IsCsi(c), Fw!Missing(c) = 1
    PROVE  /\ c.chan = chanspec /\ c.src = c.id
           /\ phystatus = c.id /\ p_csi.rssi = c.id
           /\ p_csi.chanspec = chanspec /\ p_csi.csiconf = Fw!CsiConf(c)
           /\ Len(p_csi.blocks) = Uc!CHUNKS(chanspec) - 1
           /\ \A k \in 1..Len(p_csi.blocks) :
                 Meas(p_csi.blocks[k]) = Meas(c)
           /\ inserted_csi_values + c.tones =
                 (Uc!CHUNKS(chanspec) - 1) * Fw!TonesPerChunk
                    + Uc!TONES_LAST_CHUNK(chanspec)
<1>1. /\ p_csi.blocks \in Seq(HookPacket) /\ Len(p_csi.blocks) \in Nat
      /\ Len(p_csi.blocks) >= 1
  BY HandFacts
<1>2. /\ 1 \in 1..Size /\ chanspec \in Chanspec
      /\ Uc!CHUNKS(chanspec) \in 4..19 /\ Fw!TonesPerChunk = 14
  BY LineTypes, ChunkCounts DEF ExInv, UcTypeOK
<1>3. /\ Proper(c) /\ c.src = c.id /\ c.id = last_rssi /\ phystatus = last_rssi
      /\ Fw!CsiConf(c) = c.core + 8 * c.nss
  BY <1>2 DEF RInv, Chunks, Follows, HookPacket, IsCsi
<1>4. /\ \A k \in 1..Len(p_csi.blocks) :
            Meas(p_csi.blocks[k]) = Meas(p_csi.blocks[1])
      /\ IsCsi(p_csi.blocks[1]) /\ Proper(p_csi.blocks[1])
      /\ p_csi.rssi = p_csi.blocks[1].id
      /\ p_csi.chanspec = chanspec
      /\ p_csi.alloc = Uc!CHUNKS(chanspec) * Fw!TonesPerChunk
  BY DEF RInv, Assembly
<1>5. Meas(p_csi.blocks[1]) = Meas(c)
  BY <1>2 DEF RInv, Continued, Due
<1>6. /\ p_csi.blocks[1].id = c.id /\ p_csi.blocks[1].core = c.core
      /\ p_csi.blocks[1].nss = c.nss
  BY <1>5 DEF Meas
<1>7. /\ inserted_csi_values \in Nat
      /\ inserted_csi_values + Fw!TonesPerChunk = p_csi.alloc
      /\ Fw!Missing(p_csi.blocks[1]) = Len(p_csi.blocks) + 1
      /\ Fw!IsNew(p_csi.blocks[1])
      /\ p_csi.csiconf = Fw!CsiConf(p_csi.blocks[1])
  <2>1. FwP!ConstructionOK /\ inserted_csi_values \in Nat
    BY DEF FwP!FwIInv, FwP!FwTypeOK
  <2>2. 1 \in 1..Len(p_csi.blocks)
    BY <1>1
  <2>3. /\ inserted_csi_values + 1 * FwP!TonesPerChunk = p_csi.alloc
        /\ FwP!Missing(p_csi.blocks[1]) = Len(p_csi.blocks) + 1 + 1 - 1
        /\ FwP!IsNew(p_csi.blocks[1])
        /\ p_csi.csiconf = FwP!CsiConf(p_csi.blocks[1])
    BY <2>1, <2>2 DEF FwP!ConstructionOK
  <2>4. QED
    BY <1>1, <1>2, <2>1, <2>3, SameReads
<1>8. Len(p_csi.blocks) = Uc!CHUNKS(chanspec) - 1
  BY <1>1, <1>2, <1>4, <1>7 DEF Proper
<1>9. p_csi.csiconf = Fw!CsiConf(c)
  <2>1. p_csi.blocks[1] \in HookPacket
    BY <1>1
  <2>2. QED
    BY <1>3, <1>4, <1>6, <1>7, <2>1 DEF HookPacket, IsCsi
<1>10. c.tones = Uc!TONES_LAST_CHUNK(chanspec) /\ c.chan = chanspec
  BY <1>3 DEF Proper
<1>11. inserted_csi_values = (Uc!CHUNKS(chanspec) - 1) * Fw!TonesPerChunk
  <2>1. ASSUME NEW n \in 4..19, NEW i \in Nat, i + 14 = n * 14
        PROVE  i = (n - 1) * 14
    BY <2>1
  <2>2. QED
    BY <1>2, <1>4, <1>7, <2>1
<1>12. QED
  BY <1>3, <1>4, <1>5, <1>6, <1>8, <1>9, <1>10, <1>11

\* The UDP frame handed over is read as the measurement of its last chunk.
LEMMA HandedOverAsMeasured ==
    ASSUME ExInv, FwP!FwIInv, RInv, Chip # "bcm4366c0", p_csi # Null,
           missing_csi_frames = 1, Size >= 1,
           NEW c \in HookPacket, c = Item(1), IsCsi(c), Fw!Missing(c) = 1,
           HandedOver(p_csi, c, inserted_csi_values)
    PROVE  Measured(sent') = Meas(c)
<1>1. p_csi.blocks \in Seq(HookPacket) /\ Len(p_csi.blocks) \in Nat
  BY HandFacts
<1>2. Uc!CHUNKS(chanspec) \in 4..19
  BY ChunkCounts DEF ExInv, UcTypeOK
<1>3. PICK u : u = sent'
  OBVIOUS
<1>4. PICK bs : bs = p_csi.blocks
  OBVIOUS
<1>5. u.blocks = Append(bs, c) /\ bs \in Seq(HookPacket)
  BY <1>1, <1>3, <1>4 DEF HandedOver
<1>6. /\ Len(u.blocks) = Len(bs) + 1 /\ Len(bs) \in Nat
      /\ u.blocks[Len(bs) + 1] = c
      /\ \A k \in 1..Len(bs) : u.blocks[k] = bs[k]
  BY <1>5
<1>7. /\ c.chan = chanspec /\ Len(bs) = Uc!CHUNKS(chanspec) - 1
      /\ \A k \in 1..Len(bs) : Meas(bs[k]) = Meas(c)
  BY <1>4, LastChunkComes
<1>8. ASSUME NEW k \in 1..Len(u.blocks)
      PROVE  Meas(u.blocks[k]) = Meas(c)
  <2>1. k \in 1..Len(bs) \/ k = Len(bs) + 1
    BY <1>6
  <2>2. QED
    BY <1>6, <1>7, <2>1
<1>9. /\ u.src = c.id /\ u.rssi = c.id /\ u.phy = c.id /\ u.chanspec = c.chan
      /\ u.csiconf = Fw!CsiConf(c)
      /\ u.words = (Uc!CHUNKS(c.chan) - 1) * Fw!TonesPerChunk
                      + Uc!TONES_LAST_CHUNK(c.chan)
  BY <1>3, LastChunkComes DEF HandedOver
<1>10. /\ Len(u.blocks) = Uc!CHUNKS(c.chan)
       /\ Len(u.blocks) \in Nat /\ Len(u.blocks) >= 1
  <2>1. ASSUME NEW n \in 4..19, NEW l, NEW k, k = n - 1, l = k + 1
        PROVE  l = n /\ l \in Nat /\ l >= 1
    BY <2>1
  <2>2. QED
    BY <1>2, <1>6, <1>7, <2>1
<1>11. Measured(u) = Meas(c)
  BY <1>8, <1>9, <1>10, ReadAsMeasured, Zenon
<1>12. QED
  BY <1>3, <1>11 DEF Measured, Unmixed, SameMeasurement, Corrupt, Uc!CHUNKS

\* The chunk the hook adds to a UDP frame makes it the frame of one
\* measurement.
LEMMA AssemblyGrows ==
    ASSUME ExInv, FwP!FwIInv, RInv, Shrunk, UcStays, UNCHANGED owed,
           NEW c \in HookPacket, c = Item(1), IsCsi(c),
           NEW udp, Kept(udp, c, Fw!Missing(c)),
           \/ Opened(udp, c)
           \/ p_csi # Null /\ udp = p_csi /\ Fw!Missing(c) = missing_csi_frames
    PROVE  /\ Assembly'
           /\ Meas(p_csi'.blocks[1]) = Meas(c)
<1>1. 1 \in 1..Size
  BY DEF Shrunk
<1>2. Proper(c) /\ Meas(c) \in owed /\ c.id = last_rssi
  BY <1>1 DEF RInv, Chunks, Follows
<1>3. PICK q : q = p_csi'
  OBVIOUS
<1>4. /\ q.blocks = Append(udp.blocks, c) /\ q.rssi = udp.rssi
      /\ q.chanspec = udp.chanspec /\ q.alloc = udp.alloc
  BY <1>3 DEF Kept
<1>5. /\ \A k \in 1..Len(q.blocks) : Meas(q.blocks[k]) = Meas(q.blocks[1])
      /\ IsCsi(q.blocks[1]) /\ Proper(q.blocks[1])
      /\ q.rssi = q.blocks[1].id /\ q.chanspec = chanspec
      /\ q.alloc = Uc!CHUNKS(chanspec) * Fw!TonesPerChunk
      /\ Meas(q.blocks[1]) = Meas(c)
  <2>1. CASE Opened(udp, c)
    <3>1. Len(q.blocks) = 1 /\ q.blocks[1] = c
      BY <1>4, <2>1 DEF Opened
    <3>2. Fw!Missing(c) = Uc!CHUNKS(chanspec)
      BY <1>2, <2>1 DEF Opened, Proper
    <3>3. QED
      BY <1>2, <1>4, <2>1, <3>1, <3>2 DEF Opened
  <2>2. CASE p_csi # Null /\ udp = p_csi /\ Fw!Missing(c) = missing_csi_frames
    <3>1. Due(Meas(p_csi.blocks[1]), missing_csi_frames, 1)
      BY <2>2 DEF RInv, Continued
    <3>2. Meas(p_csi.blocks[1]) = Meas(c)
      BY <1>1, <3>1 DEF Due
    <3>3. PICK bs : bs = p_csi.blocks
      OBVIOUS
    <3>4. bs \in Seq(HookPacket) /\ Len(bs) \in Nat /\ Len(bs) >= 1
      BY <2>2, <3>3, HandFacts
    <3>5. /\ \A k \in 1..Len(bs) : Meas(bs[k]) = Meas(bs[1])
          /\ IsCsi(bs[1]) /\ Proper(bs[1]) /\ q.rssi = bs[1].id
          /\ q.chanspec = chanspec
          /\ q.alloc = Uc!CHUNKS(chanspec) * Fw!TonesPerChunk
      BY <1>4, <2>2, <3>3 DEF RInv, Assembly
    <3>6. /\ q.blocks = Append(bs, c) /\ Len(q.blocks) = Len(bs) + 1
          /\ q.blocks[Len(bs) + 1] = c
          /\ \A k \in 1..Len(bs) : q.blocks[k] = bs[k]
      BY <1>4, <2>2, <3>3, <3>4
    <3>7. q.blocks[1] = bs[1]
      BY <3>4, <3>6
    <3>8. ASSUME NEW k \in 1..Len(q.blocks)
          PROVE  Meas(q.blocks[k]) = Meas(q.blocks[1])
      <4>1. k \in 1..Len(bs) \/ k = Len(bs) + 1
        BY <3>4, <3>6
      <4>2. QED
        BY <3>2, <3>3, <3>5, <3>6, <3>7, <4>1
    <3>9. QED
      BY <3>2, <3>3, <3>5, <3>7, <3>8
  <2>3. QED
    BY <2>1, <2>2
<1>6. Assembly'
  BY <1>2, <1>3, <1>5 DEF Assembly, UcStays, Proper, IsCsi, Meas
<1>7. QED
  BY <1>3, <1>5, <1>6

\* A chunk that is not the last one leaves the measurements owed.
LEMMA ChunkAdded ==
    ASSUME ExInv, FwP!FwIInv, RInv, Shrunk, UcStays, UNCHANGED owed,
           NEW c \in HookPacket, c = Item(1), NEW udp, NEW inserted,
           Stored(udp, c, inserted), Fw!Missing(c) # 1,
           \/ Opened(udp, c)
           \/ p_csi # Null /\ udp = p_csi /\ Fw!Missing(c) = missing_csi_frames
    PROVE  OnTheWay'
<1>1. 1 \in 1..Size /\ Size >= 1 /\ Size \in Nat
  BY DEF Shrunk
<1>2. IsCsi(c) /\ Kept(udp, c, Fw!Missing(c))
  BY DEF Stored
<1>3. Assembly' /\ Meas(p_csi'.blocks[1]) = Meas(c)
  BY <1>2, AssemblyGrows
<1>4. \A i \in 2..Size : IsCsi(Item(i)) => Meas(Item(i)) \in owed'
  BY <1>1 DEF RInv, Chunks
<1>5. Continued'
  <2>1. Fw!Missing(c) > 1
    BY <1>2, ChunkNumbers
  <2>2. Due(Meas(c), Fw!Missing(c) - 1, 1 + 1)
    BY <1>1, <1>2, <2>1 DEF RInv, Continued
  <2>3. Due(Meas(c), Fw!Missing(c) - 1, 2)
    BY <2>2
  <2>4. missing_csi_frames' = Fw!Missing(c) - 1
    BY <1>2 DEF Kept
  <2>5. QED
    BY <1>3, <2>3, <2>4, ContinuedShrinks DEF RInv
<1>6. Follows'
  BY <1>1, <1>2, FollowsShrinks DEF RInv, Follows, Stored
<1>7. QED
  BY <1>3, <1>4, <1>5, <1>6, ChunksShrink, OrderedShrinks, StillOwedStays
     DEF RInv, OnTheWay, StillOwed

\* What comes after the measurement of the last chunk is not given up with it.
LEMMA LaterKept ==
    ASSUME ExInv, FwP!FwIInv, RInv, Size >= 1,
           NEW c \in HookPacket, c = Item(1), IsCsi(c), Fw!Missing(c) = 1
    PROVE  /\ \A i \in 2..Size :
                 IsCsi(Item(i)) => Service!Earlier(Meas(c), Meas(Item(i)))
           /\ pc \in {"select", "mask", "push"} =>
                 \A p \in SelectedPairs(shm) :
                    (p[1] > core \/ (p[1] = core /\ p[2] >= txstream)) =>
                        Service!Earlier(Meas(c), ToExtract(p[1], p[2]))
<1>1. Size \in Nat
  BY LineTypes
<1>2. ASSUME NEW i \in 2..Size, IsCsi(Item(i))
      PROVE  Service!Earlier(Meas(c), Meas(Item(i)))
  <2>1. i \in 1..Size /\ 1 \in 1..Size /\ 1 < i
    BY <1>1
  <2>2. InOrder(Item(1), Item(i))
    BY <1>2, <2>1 DEF RInv, Ordered
  <2>3. Item(i) \in HookPacket
    BY <2>1, LineTypes
  <2>4. Fw!Missing(Item(i)) \in Nat /\ Fw!Missing(Item(i)) >= 1
    BY <1>2, <2>3, ChunkNumbers
  <2>5. QED
    BY <2>2, <2>4 DEF InOrder
<1>3. ASSUME NEW p \in SelectedPairs(shm), pc \in {"select", "mask", "push"},
             p[1] > core \/ (p[1] = core /\ p[2] >= txstream)
      PROVE  Service!Earlier(Meas(c), ToExtract(p[1], p[2]))
  <2>1. /\ c.id.n \in Nat /\ c.core \in Nat /\ c.nss \in Nat
        /\ core \in Nat /\ txstream \in Nat /\ nrx \in Nat
    BY ChunkNumbers, ChunkCounts DEF ExInv, UcTypeOK
  <2>2. p[1] \in Nat /\ p[2] \in Nat
    BY ChunkCounts DEF SelectedPairs, Uc!NSS
  <2>3. lastrx.n = nrx
    BY <1>3, NullAssumption DEF ExInv, Reception, RInv, Filtered
  <2>4. Behind(c)
    BY <1>1 DEF RInv, Chunks
  <2>5. pc = "push" => left >= 1
    BY ChunkCounts DEF ExInv, Reception
  <2>6. PICK m : m = Meas(c)
    OBVIOUS
  <2>7. PICK t : t = ToExtract(p[1], p[2])
    OBVIOUS
  <2>8. /\ m.frame = c.id /\ m.core = c.core /\ m.nss = c.nss
        /\ t.frame = lastrx /\ t.core = p[1] /\ t.nss = p[2]
    BY <2>6, <2>7 DEF Meas, ToExtract
  <2>9. Service!Earlier(m, t)
    <3>1. CASE c.id.n < nrx
      BY <2>3, <2>8, <3>1 DEF Service!Earlier
    <3>2. CASE c.id = lastrx /\ (\/ c.core < core
                                 \/ c.core = core /\ c.nss < txstream)
      BY <1>3, <2>1, <2>2, <2>8, <3>2 DEF Service!Earlier
    <3>3. CASE pc = "push" /\ left < Fw!Missing(c)
      <4>1. left \in Nat
        BY DEF ExInv, UcTypeOK
      <4>2. QED
        BY <2>5, <3>3, <4>1
    <3>4. QED
      BY <1>3, <2>4, <3>1, <3>2, <3>3 DEF Behind
  <2>10. QED
    BY <2>6, <2>7, <2>9
<1>4. QED
  BY <1>2, <1>3

\* The last chunk hands a measurement over that is owed.
LEMMA LastChunkAdded ==
    ASSUME ExInv, FwP!FwIInv, RInv, Shrunk, UcStays, Chip # "bcm4366c0",
           NEW c \in HookPacket, c = Item(1), Fw!Missing(c) = 1,
           p_csi # Null, Fw!Missing(c) = missing_csi_frames,
           Stored(p_csi, c, inserted_csi_values),
           \/ owed' = owed
           \/ owed' = {x \in owed : Service!Earlier(Measured(sent'), x)}
    PROVE  OnTheWay' /\ Measured(sent') \in owed
<1>1. 1 \in 1..Size /\ Size >= 1 /\ Size \in Nat
  BY DEF Shrunk
<1>2. IsCsi(c) /\ HandedOver(p_csi, c, inserted_csi_values)
  BY DEF Stored
<1>3. Measured(sent') = Meas(c)
  BY <1>1, <1>2, HandedOverAsMeasured
<1>4. Meas(c) \in owed
  BY <1>1, <1>2 DEF RInv, Chunks
<1>5. \A x \in owed : Service!Earlier(Meas(c), x) => x \in owed'
  <2>1. PICK m : m = Meas(c) /\ m = Measured(sent')
    BY <1>3
  <2>2. owed' = owed \/ owed' = {x \in owed : Service!Earlier(m, x)}
    BY <2>1
  <2>3. QED
    BY <2>1, <2>2
<1>6. \A i \in 2..Size : IsCsi(Item(i)) => Meas(Item(i)) \in owed'
  <2>1. ASSUME NEW i \in 2..Size, IsCsi(Item(i))
        PROVE  Meas(Item(i)) \in owed'
    <3>1. i \in 1..Size
      BY <1>1
    <3>2. Meas(Item(i)) \in owed
      BY <2>1, <3>1 DEF RInv, Chunks
    <3>3. Service!Earlier(Meas(c), Meas(Item(i)))
      BY <1>1, <1>2, <2>1, LaterKept
    <3>4. QED
      BY <1>5, <3>2, <3>3
  <2>2. QED
    BY <2>1
<1>7. StillOwed'
  <2>1. ASSUME NEW p \in SelectedPairs(shm), pc \in {"select", "mask", "push"},
               p[1] > core \/ (p[1] = core /\ p[2] >= txstream)
        PROVE  ToExtract(p[1], p[2]) \in owed'
    <3>1. ToExtract(p[1], p[2]) \in owed
      BY <2>1 DEF RInv, StillOwed
    <3>2. Service!Earlier(Meas(c), ToExtract(p[1], p[2]))
      BY <1>1, <1>2, <2>1, LaterKept
    <3>3. QED
      BY <1>5, <3>1, <3>2
  <2>2. QED
    BY <2>1, StillOwedStays
<1>8. p_csi' = Null
  BY <1>2 DEF HandedOver
<1>9. Continued' /\ Assembly'
  BY <1>8, ContinuedShrinks DEF RInv, Assembly
<1>10. Follows'
  BY <1>1, <1>2, FollowsShrinks DEF RInv, Follows, Stored
<1>11. QED
  BY <1>3, <1>4, <1>6, <1>7, <1>9, <1>10, ChunksShrink, OrderedShrinks
     DEF RInv, OnTheWay

\* Every step of the hook keeps what is on its way, and what it hands over is
\* a measurement that is owed.
LEMMA HookDelivers ==
    ASSUME ExInv, FwP!FwIInv, RInv, Undisturbed, Undisturbed', [Next]_vars,
           Chip # "bcm4366c0", ArmHook,
           owed' = IF sent' = sent \/ Measured(sent') \notin owed THEN owed
                   ELSE {x \in owed : Service!Earlier(Measured(sent'), x)}
    PROVE  OnTheWay' /\ (sent' # sent => Measured(sent') \in owed)
<1>1. Shrunk
  BY LineTaken DEF Shrunk
<1>2. UcStays
  BY NoIoctl DEF UcStays, RInv, ArmHook, ucOwn
<1>3. PICK c : c = Item(1)
  OBVIOUS
<1>4. c \in HookPacket /\ c = rx.pkt
  BY <1>3, LineTypes DEF ArmHook, Fw!process_frame_hook
<1>5. 1 \in 1..Size /\ Size \in Nat
  BY <1>1 DEF Shrunk
<1>6. \A i \in 2..Size : IsCsi(Item(i)) => Meas(Item(i)) \in owed
  BY <1>5 DEF RInv, Chunks
<1>7. CASE Passed(c)
  <2>1. UNCHANGED <<sent, owed>>
    BY <1>7 DEF Passed
  <2>2. p_csi = Null
    BY <1>3, <1>5, <1>7 DEF RInv, Continued, Due, Passed
  <2>3. p_csi' = Null
    BY <1>7, <2>2 DEF Passed
  <2>4. Follows'
    BY <1>1, <1>2, <1>3, <1>7, FollowsShrinks DEF RInv, Passed
  <2>5. Continued' /\ Assembly'
    BY <1>1, <1>2, <2>3, ContinuedShrinks DEF RInv, Assembly
  <2>6. QED
    BY <1>1, <1>2, <1>6, <2>1, <2>4, <2>5, ChunksShrink, OrderedShrinks,
       StillOwedStays DEF RInv, OnTheWay, StillOwed
<1>8. CASE Dropped(c)
  <2>1. UNCHANGED <<sent, owed>> /\ p_csi' = Null
    BY <1>8 DEF Dropped
  <2>2. Follows'
    BY <1>1, <1>2, <1>3, <1>5, <1>8, FollowsShrinks
       DEF RInv, Follows, Dropped
  <2>3. Continued' /\ Assembly'
    BY <1>1, <1>2, <2>1, ContinuedShrinks DEF RInv, Assembly
  <2>4. QED
    BY <1>1, <1>2, <1>6, <2>1, <2>2, <2>3, ChunksShrink, OrderedShrinks,
       StillOwedStays DEF RInv, OnTheWay, StillOwed
<1>9. ASSUME NEW udp, Opened(udp, c), Stored(udp, c, 0)
      PROVE  OnTheWay' /\ sent' = sent
  <2>1. Fw!Missing(c) # 1
    <3>1. Fw!Missing(c) = Uc!CHUNKS(chanspec)
      BY <1>3, <1>5, <1>9 DEF RInv, Chunks, Proper, Opened, Stored
    <3>2. Uc!CHUNKS(chanspec) \in 4..19
      BY ChunkCounts DEF ExInv, UcTypeOK
    <3>3. QED
      BY <3>1, <3>2
  <2>2. UNCHANGED <<sent, owed>>
    BY <1>9, <2>1 DEF Stored, Kept
  <2>3. QED
    BY <1>1, <1>2, <1>3, <1>4, <1>9, <2>1, <2>2, ChunkAdded
<1>10. CASE /\ p_csi # Null /\ Fw!Missing(c) = missing_csi_frames
            /\ Stored(p_csi, c, inserted_csi_values)
  <2>1. CASE Fw!Missing(c) # 1
    <3>1. UNCHANGED <<sent, owed>>
      BY <1>10, <2>1 DEF Stored, Kept
    <3>2. QED
      BY <1>1, <1>2, <1>3, <1>4, <1>10, <2>1, <3>1, ChunkAdded
  <2>2. CASE Fw!Missing(c) = 1
    <3>1. \/ owed' = owed
          \/ owed' = {x \in owed : Service!Earlier(Measured(sent'), x)}
      OBVIOUS
    <3>2. QED
      BY <1>1, <1>2, <1>3, <1>4, <1>10, <2>2, <3>1, LastChunkAdded
  <2>3. QED
    BY <2>1, <2>2
<1>11. QED
  BY <1>4, <1>7, <1>8, <1>9, <1>10, HookEffect

-----------------------------------------------------------------------------
\* At first nothing is on its way.
LEMMA InitRInv == RInit => RInv
<1> SUFFICES ASSUME RInit PROVE RInv
  OBVIOUS
<1>1. /\ shm \in InitShm /\ pc = "force" /\ air = Uc!NoAir /\ lastrx = Null
      /\ ~ DUMP_CSI /\ fifo = <<>> /\ nrx = 0 /\ ioctl = Null /\ rx = Null
      /\ p_csi = Null /\ last_rssi = Null /\ phystatus = Null
      /\ completed = Null
  BY DEF RInit, Init, Uc!UcInit, Io!IoInit, Fw!FwInit
<1>2. air.phase = "none"
  BY <1>1 DEF Uc!NoAir
<1>3. Size = 0
  BY <1>1 DEF Size
<1>4. Quiet /\ Filtered /\ Completed
  BY <1>1, <1>2 DEF Quiet, Filtered, Completed, Extracting
<1>5. Chunks /\ Ordered
  BY <1>3 DEF Chunks, Ordered
<1>6. Continued /\ Follows /\ Assembly /\ StillOwed
  BY <1>1, <1>3 DEF Continued, Follows, Assembly, StillOwed, Extracting
<1>7. QED
  BY <1>4, <1>5, <1>6 DEF RInv

\* A frame is complete: the service hears it.
LEMMA FrameHeard ==
    ASSUME ExInv, RInv, \E cfg : InitShm = {cfg}, Microcode,
           Uc!RxComplete \/ Uc!RxCompleteDump, History
    PROVE  /\ owed' = owed \cup Asked(completed')
           /\ Service!Next
<1>1. /\ pc = "event" /\ air.phase = "done" /\ sent' = sent
      /\ completed' = [frame |-> lastrx, chan |-> air.chan]
  BY DEF Uc!RxComplete, Uc!RxCompleteDump, Microcode
<1>2. lastrx \in Frame /\ lastrx # Null /\ lastrx.n = nrx
  BY <1>1, NullAssumption DEF ExInv, Reception, RInv, Filtered
<1>3. air.chan \in Chanspec
  BY <1>1 DEF ExInv, UcTypeOK, Uc!NoAir
<1>4. PICK f \in Frame, cs \in Chanspec : f = lastrx /\ cs = air.chan
  BY <1>2, <1>3
<1>5. completed' = [frame |-> f, chan |-> cs] /\ completed' # Null
  BY <1>1, <1>4, NullAssumption
<1>6. f.n \in Nat /\ f.n > 0
  BY BoundAssumption DEF Frame
<1>7. completed # Null => completed.frame.n < f.n
  BY <1>1, <1>2, <1>4 DEF RInv, Completed
<1>8. completed' # completed
  <2>1. CASE completed = Null
    BY <1>5, <2>1
  <2>2. CASE completed # Null
    BY <1>5, <1>6, <1>7, <2>2
  <2>3. QED
    BY <2>1, <2>2
<1>9. owed' = owed \cup Asked(completed') /\ delivered' = delivered
  BY <1>1, <1>8 DEF History
<1>10. PICK cfg : InitShm = {cfg} /\ shm = cfg
  BY DEF RInv, Quiet
<1>11. (CHOOSE c \in InitShm : TRUE) = shm
  BY <1>10
<1>12. Service!Batch(f, cs) = Asked(completed')
  <2>1. f \in {g \in Frame : \E c \in InitShm : Matches(c, g)}
           <=> Matches(shm, f)
    BY <1>10
  <2>2. completed'.frame = f /\ completed'.chan = cs
    BY <1>5
  <2>3. QED
    BY <1>11, <2>1, <2>2 DEF Service!Batch, Asked
<1>13. Service!Hear(f, cs)
  BY <1>5, <1>6, <1>7, <1>9, <1>12 DEF Service!Hear
<1>14. QED
  BY <1>9, <1>13 DEF Service!Next

\* The steps in which nothing is completed and nothing handed over.
LEMMA NothingHeard ==
    ASSUME UNCHANGED <<completed, sent>>, History
    PROVE  UNCHANGED owed /\ UNCHANGED Service!serviceVars
BY DEF History, Service!serviceVars

\* No measurement that is owed comes before the one handed over.
FirstInLine == \A x \in owed : ~ Service!Earlier(x, Measured(sent'))

\* Every step keeps the invariant, and is a step of the service, which must
\* not leave out a measurement if none may be lost.
LEMMA NextRefines ==
    ASSUME ExInv, FwP!FwIInv, RInv, Undisturbed, Undisturbed',
           [RNext]_rvars, Chip # "bcm4366c0", \E cfg : InitShm = {cfg},
           (ArmHook /\ sent' # sent) => Lossy \/ FirstInLine
    PROVE  RInv' /\ [Service!Next]_Service!serviceVars
<1>1. [Next]_vars
  BY DEF RNext, rvars
<1>2. Quiet' /\ Filtered' /\ Completed'
  BY <1>1, QuietKept, FilteredKept DEF RInv
<1>3. SUFFICES OnTheWay' /\ [Service!Next]_Service!serviceVars
  BY <1>2 DEF RInv, OnTheWay
<1>4. CASE UNCHANGED rvars
  <2>1. UNCHANGED vars /\ UNCHANGED owed /\ UNCHANGED Service!serviceVars
    BY <1>4 DEF rvars, vars, Service!serviceVars
  <2>2. QED
    BY <2>1, NothingTaken
<1>5. CASE RNext
  <2>0. History /\ Next
    BY <1>5 DEF RNext
  <2>1. CASE Microcode /\ (Uc!RxComplete \/ Uc!RxCompleteDump)
    BY <1>1, <2>0, <2>1, FramePushed, FrameHeard
  <2>2. CASE \/ Microcode /\ ~ (Uc!RxComplete \/ Uc!RxCompleteDump)
             \/ OnAir \/ FrameEnds
    <3>1. UNCHANGED <<completed, sent>>
      <4>1. CASE Microcode /\ ~ (Uc!RxComplete \/ Uc!RxCompleteDump)
        <5>1. ~ (pc = "event" /\ air.phase = "done")
          BY <4>1 DEF Microcode, Uc!Microcode, Uc!PollForce, Uc!PollClean,
             Uc!NoEvent, Uc!RxPlcp, Uc!RxHeader, Uc!RxAddress, Uc!RxMacs,
             Uc!RxMacLoop, Uc!RxMacSlot, Uc!SelectFrame, Uc!Select,
             Uc!SelectStream, Uc!SelectCore, Uc!PushChunk, Uc!Finish, Uc!CsiEnd
        <5>2. QED
          BY <4>1, <5>1 DEF Microcode
      <4>2. CASE OnAir \/ FrameEnds
        BY <4>2 DEF OnAir, FrameEnds
      <4>3. QED
        BY <2>2, <4>1, <4>2
    <3>2. UNCHANGED owed /\ UNCHANGED Service!serviceVars
      BY <2>0, <3>1, NothingHeard
    <3>3. OnTheWay'
      <4>1. CASE Microcode /\ Uc!PushChunk
        BY <1>1, <3>2, <4>1, ChunkPushed
      <4>2. CASE ~ (Microcode /\ Uc!PushChunk)
        BY <1>1, <2>2, <3>1, <3>2, <4>2, NothingPushed
      <4>3. QED
        BY <4>1, <4>2
    <3>4. QED
      BY <3>2, <3>3
  <2>3. CASE ArmReceive \/ Buffers
    <3>1. UNCHANGED <<completed, sent>>
      BY <2>3 DEF ArmReceive, Buffers
    <3>2. UNCHANGED owed /\ UNCHANGED Service!serviceVars
      BY <2>0, <3>1, NothingHeard
    <3>3. QED
      BY <2>3, <3>2, NothingTaken
  <2>4. CASE ArmHook
    <3>1. UNCHANGED completed
      BY <2>4 DEF ArmHook
    <3>2. PICK m : m = Measured(sent')
      OBVIOUS
    <3>3. /\ owed' = IF sent' = sent \/ m \notin owed THEN owed
                     ELSE {x \in owed : Service!Earlier(m, x)}
          /\ delivered' = IF sent' = sent THEN delivered
                          ELSE Append(delivered, m)
      BY <2>0, <3>1, <3>2 DEF History
    <3>4. owed' = IF sent' = sent \/ Measured(sent') \notin owed THEN owed
                  ELSE {x \in owed : Service!Earlier(Measured(sent'), x)}
      BY <2>0, <3>1 DEF History
    <3>5. OnTheWay' /\ (sent' # sent => m \in owed)
      BY <1>1, <2>4, <3>2, <3>4, HookDelivers
    <3>6. CASE sent' = sent
      BY <3>1, <3>3, <3>5, <3>6 DEF Service!serviceVars
    <3>7. CASE sent' # sent
      <4>1. m \in owed /\ delivered' = Append(delivered, m)
            /\ owed' = {x \in owed : Service!Earlier(m, x)}
        BY <3>3, <3>5, <3>7
      <4>2. Lossy \/ \A x \in owed : ~ Service!Earlier(x, m)
        BY <2>4, <3>2, <3>7 DEF FirstInLine
      <4>3. Service!Deliver(m)
        BY <3>1, <4>1, <4>2 DEF Service!Deliver
      <4>4. QED
        BY <3>5, <4>1, <4>3 DEF Service!Next, Service!DeliverOne
    <3>8. QED
      BY <3>6, <3>7
  <2>5. QED
    BY <1>1, <2>0, <2>1, <2>2, <2>3, <2>4, NoIoctl DEF Next, RInv
<1>6. QED
  BY <1>4, <1>5

\* The extractor with its history is the extractor.
LEMMA RSpecRuns == RSpec => Spec
<1>1. RInit => Init
  BY DEF RInit
<1>2. [RNext]_rvars => [Next]_vars
  BY DEF RNext, rvars
<1>3. QED
  BY <1>1, <1>2, PTL DEF RSpec, Spec

(***************************************************************************)
(* README.md:47,51: as long as no ioctl is issued and the receive FIFO has *)
(* room, a UDP frame carries one measurement, complete, of a frame that    *)
(* matches the filter and of a core and a stream that are selected; no     *)
(* measurement is delivered twice, and they come in the order they were    *)
(* taken in, whatever frames and chunks the hook drops for want of a       *)
(* buffer.  This is the whole of Service!Spec when measurements may be     *)
(* lost, which puts no condition of fairness on the delivery.              *)
(***************************************************************************)
THEOREM RefinesService ==
    ASSUME Chip # "bcm4366c0", \E cfg : InitShm = {cfg}, Lossy = TRUE
    PROVE  RSpec /\ []Undisturbed => ImplementsService
<1>1. RInit => RInv /\ Service!Init
  BY InitRInv DEF RInit, Init, Service!Init
<1>2. ExInv /\ FwP!FwIInv /\ RInv /\ Undisturbed /\ Undisturbed'
         /\ [RNext]_rvars
      => RInv' /\ [Service!Next]_Service!serviceVars
  BY NextRefines
<1>3. RSpec => []ExInv /\ []FwP!FwIInv
  BY RSpecRuns, ExtractorInvariant, HookHolds, PTL
<1>4. ~ Lossy => FALSE
  OBVIOUS
<1>5. QED
  BY <1>1, <1>2, <1>3, <1>4, PTL DEF RSpec, ImplementsService, Service!Spec
-----------------------------------------------------------------------------
(***************************************************************************)
(* Nothing is left out, as long as there is a buffer for every chunk: a    *)
(* measurement that is owed is still to be extracted, or its first chunk   *)
(* is on its way, or the hook is putting its UDP frame together.           *)
(***************************************************************************)
\* The extraction of stream s of core c has not begun.
NotBegun(c, s) ==
    \/ c > core
    \/ c = core /\ s > txstream
    \/ /\ c = core /\ s = txstream
       /\ pc \in {"select", "mask"} \/ left = Uc!CHUNKS(RXCHAN)

Upcoming(x) ==
    /\ pc \in {"select", "mask", "push"}
    /\ \E p \in SelectedPairs(shm) :
          x = ToExtract(p[1], p[2]) /\ NotBegun(p[1], p[2])

\* Chunk a is the first one of measurement x.
Starts(a, x) == IsCsi(a) /\ Fw!IsNew(a) /\ Meas(a) = x

Underway(x) ==
    \/ Upcoming(x)
    \/ \E i \in 1..Size : Starts(Item(i), x)
    \/ p_csi # Null /\ Meas(p_csi.blocks[1]) = x

NoneMissing == \A x \in owed : Underway(x)

\* The filter has let the frame pass if it matches, or has not come to the
\* slot with its address.
Admitted ==
    (air.phase \in {"rx", "done"} /\ Matches(shm, lastrx)) =>
        \/ pc \in {"header", "macs"} \/ DUMP_CSI
        \/ /\ pc \in {"macloop", "macslot"}
           /\ \A j \in 0..3 : j < slot => lastrx.mac # Uc!CMP_SRC_MAC(j)

\* The measurement handed over last comes before all that are owed.
SentBefore ==
    sent # Null =>
        /\ Measured(sent).frame \in Frame
        /\ Measured(sent).frame.n <= nrx
        /\ air.phase # "none" => Measured(sent).frame.n < nrx
        /\ \A x \in owed : Service!Earlier(Measured(sent), x)

CompleteInv == NoneMissing /\ Admitted /\ SentBefore

\* A configuration whose words have one of the values makecsiparams gives
\* them.
WellFormed(cfg) == cfg.n_mac_addr <= 4 /\ cfg.use_pkt_filter \in 0..1

\* What completeness needs besides: the hook finds a buffer for a UDP frame.
BufferLeft == ~ HeapFails /\ Fw!Pool \cup Fw!Held # {}

\* A frame that matches passes the first part of the filter, and its address
\* is in one of the slots the second part looks at.
LEMMA MatchPasses ==
    ASSUME shm \in InitShm, WellFormed(shm), Matches(shm, lastrx),
           Chip # "bcm4366c0"
    PROVE  /\ Uc!HeaderPasses
           /\ shm.n_mac_addr # 0 =>
                 \E j \in 0..3 : /\ j < shm.n_mac_addr
                                 /\ lastrx.mac = Uc!CMP_SRC_MAC(j)
<1>1. Uc!HeaderPasses
  BY DEF WellFormed, Matches, Uc!HeaderPasses, Uc!Collecting
<1>2. ASSUME shm.n_mac_addr # 0
      PROVE  \E j \in 0..3 : /\ j < shm.n_mac_addr
                             /\ lastrx.mac = Uc!CMP_SRC_MAC(j)
  <2> DEFINE macs == <<shm.mac0, shm.mac1, shm.mac2, shm.mac3>>
  <2>1. shm.n_mac_addr \in 1..4
    BY <1>2, ShmAssumption DEF WellFormed
  <2>2. PICK i \in 1..shm.n_mac_addr : lastrx.mac = macs[i]
    BY <2>1 DEF Matches
  <2>3. PICK j \in 0..3 : i = j + 1 /\ j < shm.n_mac_addr
    <3>1. i - 1 \in 0..3 /\ i = (i - 1) + 1 /\ i - 1 < shm.n_mac_addr
      BY <2>1
    <3>2. QED
      BY <3>1
  <2>4. lastrx.mac = macs[j + 1]
    BY <2>2, <2>3
  <2>5. lastrx.mac = Uc!CMP_SRC_MAC(j)
    BY <2>3, <2>4 DEF Uc!CMP_SRC_MAC
  <2>6. QED
    BY <2>3, <2>5
<1>3. QED
  BY <1>1, <1>2

\* Counting up from a slot there is.
LEMMA NextSlot ==
    ASSUME NEW n \in 0..3
    PROVE  (n + 1) % Uc!WORD = n + 1
<1>1. \/ n = 0 \/ n = 1 \/ n = 2 \/ n = 3
  OBVIOUS
<1>2. 1 % 65536 = 1 /\ 2 % 65536 = 2 /\ 3 % 65536 = 3 /\ 4 % 65536 = 4
  BY SMT
<1>3. Uc!WORD = 65536
  BY DEF Uc!WORD
<1>4. QED
  BY <1>1, <1>2, <1>3

\* Nor does the second part miss one.
LEMMA AddressAdmitted ==
    ASSUME ExInv, Quiet, Filtered, Admitted, Uc!RxAddress, UNCHANGED shm,
           WellFormed(shm), Chip # "bcm4366c0"
    PROVE  Admitted'
<1> SUFFICES ASSUME air.phase \in {"rx", "done"}, Matches(shm, lastrx)
             PROVE  Admitted'
  BY DEF Admitted, Matches, Uc!RxAddress, Uc!RxMacs, Uc!RxMacLoop,
     Uc!RxMacSlot
<1>0. /\ shm \in InitShm /\ slot \in Nat /\ shm.n_mac_addr \in Nat
      /\ shm.n_mac_addr <= 4 /\ UNCHANGED lastrx
  BY ShmAssumption DEF Quiet, ExInv, UcTypeOK, WellFormed, Uc!RxAddress,
     Uc!RxMacs, Uc!RxMacLoop, Uc!RxMacSlot
<1>1. \A j : Uc!CMP_SRC_MAC(j)' = Uc!CMP_SRC_MAC(j)
  BY DEF Uc!CMP_SRC_MAC
<1>2. CASE DUMP_CSI'
  BY <1>2 DEF Admitted
<1>3. CASE Uc!RxMacs /\ ~ DUMP_CSI'
  <2>1. pc' = "macloop" /\ slot' = 0
    BY <1>3 DEF Uc!RxMacs, Uc!SelectFrame
  <2>2. QED
    BY <2>1 DEF Admitted
<1>4. ASSUME pc \in {"macloop", "macslot"}, ~ DUMP_CSI
      PROVE  \A j \in 0..3 : j < slot => lastrx.mac # Uc!CMP_SRC_MAC(j)
  BY <1>4 DEF Admitted
<1>5. CASE Uc!RxMacLoop /\ ~ DUMP_CSI'
  <2>1. /\ pc = "macloop" /\ ~ DUMP_CSI /\ slot' = slot
        /\ pc' = IF slot = shm.n_mac_addr THEN "force" ELSE "macslot"
    BY <1>5 DEF Uc!RxMacLoop
  <2>2. shm.n_mac_addr # 0
    BY <2>1 DEF Filtered
  <2>3. slot # shm.n_mac_addr
    <3>1. PICK j \in 0..3 : j < shm.n_mac_addr /\ lastrx.mac = Uc!CMP_SRC_MAC(j)
      BY <1>0, <2>2, MatchPasses
    <3>2. ~ (j < slot)
      BY <1>4, <2>1, <3>1
    <3>3. QED
      BY <1>0, <3>1, <3>2
  <2>4. QED
    BY <1>0, <1>1, <1>4, <2>1, <2>3 DEF Admitted
<1>6. CASE Uc!RxMacSlot /\ ~ DUMP_CSI'
  <2>1. /\ pc = "macslot" /\ ~ DUMP_CSI /\ pc' = "macloop"
        /\ lastrx.mac # Uc!CMP_SRC_MAC(slot)
        /\ slot' = (slot + 1) % Uc!WORD /\ slot < shm.n_mac_addr
    BY <1>6 DEF Uc!RxMacSlot, Uc!SelectFrame, Filtered
  <2>2. slot \in 0..3 /\ slot' = slot + 1
    BY <1>0, <2>1, NextSlot
  <2>3. \A j \in 0..3 : j < slot' => lastrx.mac # Uc!CMP_SRC_MAC(j)
    <3>1. SUFFICES ASSUME NEW j \in 0..3, j < slot'
                   PROVE  lastrx.mac # Uc!CMP_SRC_MAC(j)
      OBVIOUS
    <3>2. j < slot \/ j = slot
      BY <2>2, <3>1
    <3>3. QED
      BY <1>4, <2>1, <3>2
  <2>4. QED
    BY <1>0, <1>1, <2>1, <2>3 DEF Admitted
<1>7. QED
  BY <1>2, <1>3, <1>5, <1>6 DEF Uc!RxAddress

\* The microcode misses no frame that matches.
LEMMA AdmittedKept ==
    ASSUME ExInv, Quiet, Filtered, Admitted, Undisturbed, Undisturbed',
           [Next]_vars, WellFormed(shm), Chip # "bcm4366c0"
    PROVE  Admitted'
<1>0. UNCHANGED shm /\ shm \in InitShm
  BY NoIoctl DEF Quiet
<1>slots. \A j : Uc!CMP_SRC_MAC(j)' = Uc!CMP_SRC_MAC(j)
  BY <1>0 DEF Uc!CMP_SRC_MAC
<1>1. CASE Microcode /\ Uc!RxHeader
  <2>1. UNCHANGED <<lastrx, DUMP_CSI, air>> /\ pc = "header"
        /\ (Uc!HeaderPasses => pc' = "macs")
    BY <1>1 DEF Uc!RxHeader
  <2>2. Matches(shm, lastrx) => pc' = "macs"
    BY <1>0, <2>1, MatchPasses
  <2>3. QED
    BY <1>0, <2>1, <2>2 DEF Admitted, Matches
<1>2. CASE Microcode /\ Uc!RxAddress
  BY <1>0, <1>2, AddressAdmitted
<1>3. CASE Microcode /\ (Uc!RxComplete \/ Uc!RxCompleteDump)
  <2>1. air'.phase = "none"
    BY <1>3 DEF Uc!RxComplete, Uc!RxCompleteDump, Uc!NoAir
  <2>2. QED
    BY <2>1 DEF Admitted
<1>4. CASE Microcode /\ Uc!RxPlcp
  <2>1. pc' = "header"
    BY <1>4 DEF Uc!RxPlcp
  <2>2. QED
    BY <2>1 DEF Admitted
<1>5. CASE Microcode /\ (\/ Uc!PollForce \/ Uc!PollClean \/ Uc!NoEvent
                         \/ Uc!Select \/ Uc!PushChunk \/ Uc!Finish
                         \/ Uc!CsiEnd)
  <2>1. /\ UNCHANGED <<lastrx, DUMP_CSI, air>>
        /\ pc \notin {"header", "macs", "macloop", "macslot"}
    BY <1>5 DEF Uc!PollForce, Uc!PollClean, Uc!NoEvent, Uc!Select,
       Uc!SelectStream, Uc!SelectCore, Uc!PushChunk, Uc!Finish, Uc!CsiEnd
  <2>2. QED
    BY <1>0, <2>1 DEF Admitted, Matches
<1>6. CASE OnAir
  <2>1. air'.phase \in {"plcp", "none"}
    BY <1>6 DEF OnAir, Uc!Detect, Uc!AirAbort, Uc!NoAir
  <2>2. QED
    BY <2>1 DEF Admitted
<1>7. CASE FrameEnds
  <2>1. UNCHANGED <<pc, lastrx, DUMP_CSI, slot>> /\ air.phase = "rx"
    BY <1>7 DEF FrameEnds, Uc!AirEnd, Uc!loopVars
  <2>2. QED
    BY <1>0, <1>slots, <2>1 DEF Admitted, Matches
<1>8. CASE ArmReceive \/ ArmHook \/ Buffers \/ UNCHANGED vars
  <2>1. UNCHANGED <<pc, lastrx, DUMP_CSI, slot, air>>
    BY <1>8 DEF ArmReceive, ArmHook, Buffers, vars, ucOwn
  <2>2. QED
    BY <1>0, <1>slots, <2>1 DEF Admitted, Matches
<1>9. QED
  BY <1>1, <1>2, <1>3, <1>4, <1>5, <1>6, <1>7, <1>8, NoIoctl
     DEF Next, Microcode, Uc!Microcode

-----------------------------------------------------------------------------
\* A measurement stays on its way as long as no packet moves,
LEMMA UnderwayKept ==
    ASSUME SameLine, UNCHANGED p_csi, NEW x, Underway(x),
           Upcoming(x) => Upcoming(x)'
    PROVE  Underway(x)'
<1>1. ASSUME NEW i \in 1..Size, Starts(Item(i), x)
      PROVE  Underway(x)'
  <2>1. i \in 1..Size' /\ Item(i)' = Item(i)
    BY DEF SameLine
  <2>2. Starts(Item(i), x)'
    BY <1>1, <2>1 DEF Starts, IsCsi, Meas, Fw!IsNew
  <2>3. QED
    BY <2>1, <2>2 DEF Underway
<1>2. CASE p_csi # Null /\ Meas(p_csi.blocks[1]) = x
  BY <1>2 DEF Underway, Meas
<1>3. QED
  BY <1>1, <1>2 DEF Underway

\* when a packet is pushed behind it, or starts it,
LEMMA UnderwayGrows ==
    ASSUME Size \in Nat, NEW y, Grown(y), UNCHANGED p_csi, NEW x, Underway(x),
           Upcoming(x) => Upcoming(x)' \/ Starts(y, x)
    PROVE  Underway(x)'
<1>1. ASSUME NEW i \in 1..Size, Starts(Item(i), x)
      PROVE  Underway(x)'
  <2>1. i \in 1..Size' /\ Item(i)' = Item(i)
    BY DEF Grown
  <2>2. Starts(Item(i), x)'
    BY <1>1, <2>1 DEF Starts, IsCsi, Meas, Fw!IsNew
  <2>3. QED
    BY <2>1, <2>2 DEF Underway
<1>2. ASSUME Starts(y, x)
      PROVE  Underway(x)'
  <2>1. PICK n : n = Size + 1
    OBVIOUS
  <2>2. n \in 1..Size' /\ Item(n)' = y
    BY <2>1 DEF Grown
  <2>3. Starts(Item(n), x)'
    BY <1>2, <2>2 DEF Starts, IsCsi, Meas, Fw!IsNew
  <2>4. QED
    BY <2>2, <2>3 DEF Underway
<1>3. CASE p_csi # Null /\ Meas(p_csi.blocks[1]) = x
  BY <1>3 DEF Underway, Meas
<1>4. QED
  BY <1>1, <1>2, <1>3 DEF Underway

\* and when the hook takes the first packet, if that is no loss.
LEMMA UnderwayShrinks ==
    ASSUME Shrunk, UcStays, NEW x, Underway(x),
           (\/ Starts(Item(1), x)
            \/ p_csi # Null /\ Meas(p_csi.blocks[1]) = x) =>
               p_csi' # Null /\ Meas(p_csi'.blocks[1]) = x
    PROVE  Underway(x)'
<1>1. ASSUME NEW i \in 2..Size, Starts(Item(i), x)
      PROVE  Underway(x)'
  <2>1. PICK j : j = i - 1
    OBVIOUS
  <2>2. j \in 1..(Size - 1) /\ i = j + 1
    BY <2>1 DEF Shrunk
  <2>3. j \in 1..Size' /\ Item(j)' = Item(i)
    BY <2>2 DEF Shrunk
  <2>4. Starts(Item(j), x)'
    BY <1>1, <2>3 DEF Starts, IsCsi, Meas, Fw!IsNew
  <2>5. QED
    BY <2>3, <2>4 DEF Underway
<1>2. CASE Upcoming(x)
  <2>1. Upcoming(x)'
    BY <1>2 DEF Upcoming, UcStays, NotBegun, ToExtract, SelectedPairs,
       Uc!NCORES, Uc!NSS, Uc!CHUNKS
  <2>2. QED
    BY <2>1 DEF Underway
<1>3. ASSUME p_csi' # Null, Meas(p_csi'.blocks[1]) = x
      PROVE  Underway(x)'
  BY <1>3 DEF Underway, Meas
<1>4. \A i \in 1..Size : i = 1 \/ i \in 2..Size
  BY DEF Shrunk
<1>5. QED
  BY <1>1, <1>2, <1>3, <1>4 DEF Underway

\* The next stream or core leaves out none that comes later.
LEMMA AdvanceSkipsNone ==
    ASSUME ExInv, Uc!Advance, NEW p \in SelectedPairs(shm),
           p[1] > core \/ (p[1] = core /\ p[2] > txstream)
    PROVE  /\ pc' = "select"
           /\ p[1] > core' \/ (p[1] = core' /\ p[2] >= txstream')
<1>1. PICK c, s : p = <<c, s>> /\ c \in 0..(Uc!NCORES - 1) /\ s \in 0..3
  BY DEF SelectedPairs, Uc!NSS
<1>2. /\ core \in 0..(Uc!NCORES - 1) /\ txstream \in 0..3
      /\ Uc!NCORES \in 1..4
  BY ChipAssumption DEF ExInv, UcTypeOK, Uc!NCORES
<1>3. c > core \/ (c = core /\ s > txstream)
  BY <1>1
<1>4. /\ pc' = "select"
      /\ c > core' \/ (c = core' /\ s >= txstream')
  BY <1>1, <1>2, <1>3 DEF Uc!Advance, Uc!NSS
<1>5. QED
  BY <1>1, <1>4

\* Skipping a pair that is not selected, or beginning with one that is.
LEMMA SelectSkipsNone ==
    ASSUME ExInv, Uc!Select, UNCHANGED shm, NEW x, Upcoming(x)
    PROVE  Upcoming(x)'
<1>1. /\ pc \in {"select", "mask"} /\ UNCHANGED <<lastrx, RXCHAN>>
      /\ \/ pc' = "mask" /\ UNCHANGED <<core, txstream>>
         \/ /\ pc' = "push" /\ UNCHANGED <<core, txstream>>
            /\ left' = Uc!CHUNKS(RXCHAN)
         \/ /\ Uc!Advance
            /\ txstream \notin shm.nss_mask \/ core \notin shm.core_mask
  BY DEF Uc!Select, Uc!SelectStream, Uc!SelectCore
<1>2. PICK p \in SelectedPairs(shm) :
         x = ToExtract(p[1], p[2]) /\ NotBegun(p[1], p[2])
  BY DEF Upcoming
<1>3. /\ SelectedPairs(shm)' = SelectedPairs(shm)
      /\ ToExtract(p[1], p[2])' = ToExtract(p[1], p[2])
      /\ Uc!CHUNKS(RXCHAN)' = Uc!CHUNKS(RXCHAN)
  BY <1>1 DEF SelectedPairs, ToExtract, Uc!NCORES, Uc!NSS, Uc!CHUNKS
<1>4. NotBegun(p[1], p[2])' /\ pc' \in {"select", "mask", "push"}
  <2>1. CASE \/ pc' = "mask" /\ UNCHANGED <<core, txstream>>
             \/ /\ pc' = "push" /\ UNCHANGED <<core, txstream>>
                /\ left' = Uc!CHUNKS(RXCHAN)
    BY <1>2, <1>3, <2>1 DEF NotBegun
  <2>2. CASE /\ Uc!Advance
             /\ txstream \notin shm.nss_mask \/ core \notin shm.core_mask
    <3>1. ~ (p[1] = core /\ p[2] = txstream)
      BY <2>2 DEF SelectedPairs
    <3>2. p[1] > core \/ (p[1] = core /\ p[2] > txstream)
      BY <1>2, <3>1 DEF NotBegun
    <3>3. /\ pc' = "select"
          /\ p[1] > core' \/ (p[1] = core' /\ p[2] >= txstream')
      BY <2>2, <3>2, AdvanceSkipsNone
    <3>4. core' \in Nat /\ txstream' \in Nat /\ p[1] \in Nat /\ p[2] \in Nat
      BY <2>2, AdvanceKeeps, ChunkCounts
         DEF ExInv, SelectedPairs, Uc!NSS, Uc!NCORES
    <3>5. QED
      BY <3>3, <3>4 DEF NotBegun
  <2>3. QED
    BY <1>1, <2>1, <2>2
<1>5. QED
  BY <1>2, <1>3, <1>4 DEF Upcoming

\* Pushing a chunk begins with the current pair only.
LEMMA PushSkipsNone ==
    ASSUME ExInv, Uc!PushChunk, UNCHANGED shm, NEW x, Upcoming(x)
    PROVE  Upcoming(x)' \/ (x = Current /\ left = Uc!CHUNKS(RXCHAN))
<1>1. /\ pc = "push" /\ UNCHANGED <<lastrx, RXCHAN>>
      /\ IF left = 1 THEN Uc!Advance ELSE UNCHANGED <<pc, core, txstream>>
  BY DEF Uc!PushChunk
<1>2. PICK p \in SelectedPairs(shm) :
         x = ToExtract(p[1], p[2]) /\ NotBegun(p[1], p[2])
  BY DEF Upcoming
<1>3. /\ SelectedPairs(shm)' = SelectedPairs(shm)
      /\ ToExtract(p[1], p[2])' = ToExtract(p[1], p[2])
  BY <1>1 DEF SelectedPairs, ToExtract, Uc!NCORES, Uc!NSS
<1>4. CASE p[1] = core /\ p[2] = txstream
  <2>1. core \in Nat /\ txstream \in Nat
    BY ChunkCounts DEF ExInv, UcTypeOK
  <2>2. left = Uc!CHUNKS(RXCHAN)
    BY <1>1, <1>2, <1>4, <2>1 DEF NotBegun
  <2>3. x = Current
    BY <1>2, <1>4 DEF Current
  <2>4. QED
    BY <2>2, <2>3
<1>5. CASE ~ (p[1] = core /\ p[2] = txstream)
  <2>1. p[1] > core \/ (p[1] = core /\ p[2] > txstream)
    BY <1>2, <1>5 DEF NotBegun
  <2>2. CASE left = 1
    <3>1. /\ pc' = "select"
          /\ p[1] > core' \/ (p[1] = core' /\ p[2] >= txstream')
      BY <1>1, <2>1, <2>2, AdvanceSkipsNone
    <3>2. core' \in Nat /\ txstream' \in Nat /\ p[1] \in Nat /\ p[2] \in Nat
      BY <1>1, <2>2, AdvanceKeeps, ChunkCounts
         DEF ExInv, SelectedPairs, Uc!NSS, Uc!NCORES
    <3>3. NotBegun(p[1], p[2])'
      BY <3>1, <3>2 DEF NotBegun
    <3>4. QED
      BY <1>2, <1>3, <3>1, <3>3 DEF Upcoming
  <2>3. CASE left # 1
    <3>1. NotBegun(p[1], p[2])' /\ pc' = "push"
      BY <1>1, <2>1, <2>3 DEF NotBegun
    <3>2. QED
      BY <1>2, <1>3, <3>1 DEF Upcoming
  <2>4. QED
    BY <2>2, <2>3
<1>6. QED
  BY <1>4, <1>5

-----------------------------------------------------------------------------
\* What the hook waits for comes next, and starts no measurement.
LEMMA ExpectedComes ==
    ASSUME ExInv, FwP!FwIInv, RInv, Size >= 1, p_csi # Null,
           NEW c \in HookPacket, c = Item(1)
    PROVE  /\ IsCsi(c) /\ ~ Fw!IsNew(c)
           /\ Fw!Missing(c) = missing_csi_frames
           /\ Meas(c) = Meas(p_csi.blocks[1])
<1>1. Size \in Nat /\ 1 \in 1..Size
  BY LineTypes
<1>2. /\ IsCsi(c) /\ Meas(c) = Meas(p_csi.blocks[1])
      /\ Fw!Missing(c) = missing_csi_frames
  BY <1>1 DEF RInv, Continued, Due
<1>3. /\ p_csi.blocks \in Seq(HookPacket) /\ Len(p_csi.blocks) \in Nat
      /\ Len(p_csi.blocks) >= 1
  BY HandFacts
<1>4. Fw!Missing(p_csi.blocks[1]) = Len(p_csi.blocks) + missing_csi_frames
  <2>1. FwP!ConstructionOK /\ missing_csi_frames \in Nat
    BY DEF FwP!FwIInv, FwP!FwTypeOK
  <2>2. 1 \in 1..Len(p_csi.blocks)
    BY <1>3
  <2>3. FwP!Missing(p_csi.blocks[1])
           = Len(p_csi.blocks) + missing_csi_frames + 1 - 1
    BY <2>1, <2>2 DEF FwP!ConstructionOK
  <2>4. QED
    BY <1>3, <2>1, <2>3, SameReads
<1>5. Fw!Missing(p_csi.blocks[1]) <= Uc!CHUNKS(chanspec)
  BY DEF RInv, Assembly, Proper
<1>6. Uc!CHUNKS(chanspec) \in 4..19 /\ missing_csi_frames \in Nat
  BY ChunkCounts DEF ExInv, UcTypeOK, FwP!FwIInv, FwP!FwTypeOK
<1>7. missing_csi_frames # Uc!CHUNKS(chanspec)
  <2>1. PICK n, k, l : /\ n = Uc!CHUNKS(chanspec) /\ k = missing_csi_frames
                       /\ l = Len(p_csi.blocks)
    OBVIOUS
  <2>2. n \in 4..19 /\ k \in Nat /\ l \in Nat /\ l >= 1 /\ l + k <= n
    BY <1>3, <1>4, <1>5, <1>6, <2>1
  <2>3. k # n
    BY ONLY <2>2
  <2>4. QED
    BY <2>1, <2>3
<1>8. Fw!IsNew(c) <=> Fw!Missing(c) = Uc!CHUNKS(chanspec)
  BY <1>1, <1>2 DEF RInv, Chunks, Proper
<1>9. ~ Fw!IsNew(c)
  BY ONLY <1>2, <1>7, <1>8
<1>10. QED
  BY ONLY <1>2, <1>9

\* A chunk that is not the last one is no loss to any measurement.
LEMMA ChunkLosesNone ==
    ASSUME ExInv, FwP!FwIInv, RInv, Shrunk, UcStays,
           NEW c \in HookPacket, c = Item(1), NEW udp, NEW inserted,
           Stored(udp, c, inserted), Fw!Missing(c) # 1,
           \/ Opened(udp, c)
           \/ /\ p_csi # Null /\ udp = p_csi
              /\ Fw!Missing(c) = missing_csi_frames,
           UNCHANGED owed, NoneMissing
    PROVE  NoneMissing'
<1>1. Size \in Nat /\ Size >= 1
  BY DEF Shrunk
<1>2. IsCsi(c) /\ Kept(udp, c, Fw!Missing(c))
  BY DEF Stored
<1>3. /\ p_csi' # Null /\ Meas(p_csi'.blocks[1]) = Meas(c)
  BY <1>2, AssemblyGrows DEF Kept
<1>4. ASSUME NEW x \in owed,
             \/ Starts(Item(1), x)
             \/ p_csi # Null /\ Meas(p_csi.blocks[1]) = x
      PROVE  p_csi' # Null /\ Meas(p_csi'.blocks[1]) = x
  <2>1. Meas(c) = x
    BY <1>1, <1>4, ExpectedComes DEF Starts
  <2>2. QED
    BY <1>3, <2>1
<1>5. ASSUME NEW x \in owed
      PROVE  Underway(x)'
  BY <1>4, <1>5, UnderwayShrinks DEF NoneMissing
<1>6. QED
  BY <1>5 DEF NoneMissing

\* What the orders of measurement compare.
LEMMA UnderwayTypes ==
    ASSUME ExInv, FwP!FwIInv, RInv, NEW x, Underway(x)
    PROVE  x.frame.n \in Nat /\ x.core \in Nat /\ x.nss \in Nat
<1>1. ASSUME NEW a \in HookPacket, IsCsi(a), Meas(a) = x
      PROVE  x.frame.n \in Nat /\ x.core \in Nat /\ x.nss \in Nat
  BY <1>1, ChunkNumbers DEF Meas
<1>2. ASSUME NEW i \in 1..Size, Starts(Item(i), x)
      PROVE  x.frame.n \in Nat /\ x.core \in Nat /\ x.nss \in Nat
  BY <1>1, <1>2, LineTypes DEF Starts
<1>3. CASE p_csi # Null /\ Meas(p_csi.blocks[1]) = x
  <2>1. p_csi.blocks[1] \in HookPacket
    BY <1>3, HandFacts
  <2>2. QED
    BY <1>1, <1>3, <2>1 DEF RInv, Assembly
<1>4. CASE Upcoming(x)
  <2>1. PICK p \in SelectedPairs(shm) : x = ToExtract(p[1], p[2])
    BY <1>4 DEF Upcoming
  <2>2. p[1] \in Nat /\ p[2] \in Nat
    BY ChunkCounts DEF SelectedPairs, Uc!NSS
  <2>3. lastrx.n \in Nat
    BY <1>4, NullAssumption
       DEF Upcoming, ExInv, Reception, RInv, Filtered, UcTypeOK
  <2>4. QED
    BY <2>1, <2>2, <2>3 DEF ToExtract
<1>5. QED
  BY <1>2, <1>3, <1>4 DEF Underway

\* When the last chunk of a measurement comes, it is the first one owed.
LEMMA FirstOwed ==
    ASSUME ExInv, FwP!FwIInv, RInv, NoneMissing, Size >= 1,
           NEW c \in HookPacket, c = Item(1), IsCsi(c), Fw!Missing(c) = 1,
           p_csi # Null
    PROVE  \A x \in owed :
              x = Meas(c) \/ Service!Earlier(Meas(c), x)
<1>1. Size \in Nat
  BY LineTypes
<1>2. SUFFICES ASSUME NEW x \in owed
               PROVE  x = Meas(c) \/ Service!Earlier(Meas(c), x)
  OBVIOUS
<1>3. Underway(x)
  BY DEF NoneMissing
<1>4. ~ Starts(c, x) /\ Meas(c) = Meas(p_csi.blocks[1])
  BY ExpectedComes DEF Starts
<1>5. ASSUME NEW i \in 1..Size, Starts(Item(i), x)
      PROVE  Service!Earlier(Meas(c), x)
  <2>1. i \in 2..Size
    BY <1>1, <1>4, <1>5
  <2>2. QED
    BY <1>5, <2>1, LaterKept DEF Starts
<1>6. CASE Upcoming(x)
  <2>1. PICK p \in SelectedPairs(shm) :
           x = ToExtract(p[1], p[2]) /\ NotBegun(p[1], p[2])
    BY <1>6 DEF Upcoming
  <2>2. /\ p[1] \in Nat /\ p[2] \in Nat /\ core \in Nat /\ txstream \in Nat
    BY ChunkCounts DEF SelectedPairs, Uc!NSS, ExInv, UcTypeOK
  <2>3. p[1] > core \/ (p[1] = core /\ p[2] >= txstream)
    BY <2>1, <2>2 DEF NotBegun
  <2>4. QED
    BY <1>6, <2>1, <2>3, LaterKept DEF Upcoming
<1>7. QED
  BY <1>3, <1>4, <1>5, <1>6 DEF Underway

\* The order of measurement is strict.
LEMMA EarlierIsStrict ==
    ASSUME NEW a, NEW b, Service!Earlier(a, b),
           a.frame.n \in Nat, a.core \in Nat, a.nss \in Nat,
           b.frame.n \in Nat, b.core \in Nat, b.nss \in Nat
    PROVE  ~ Service!Earlier(b, a) /\ a # b
BY DEF Service!Earlier

\* The last chunk hands over the measurement that is owed first.
LEMMA LastChunkLosesNone ==
    ASSUME ExInv, FwP!FwIInv, FwP!FwIInv', RInv, NoneMissing, SentBefore,
           Shrunk, UcStays, Chip # "bcm4366c0",
           NEW c \in HookPacket, c = Item(1), Fw!Missing(c) = 1,
           p_csi # Null, Fw!Missing(c) = missing_csi_frames,
           Stored(p_csi, c, inserted_csi_values),
           owed' = IF sent' = sent \/ Measured(sent') \notin owed THEN owed
                   ELSE {x \in owed : Service!Earlier(Measured(sent'), x)}
    PROVE  NoneMissing' /\ SentBefore' /\ FirstInLine
<1>1. 1 \in 1..Size /\ Size >= 1 /\ Size \in Nat
  BY DEF Shrunk
<1>2. IsCsi(c) /\ HandedOver(p_csi, c, inserted_csi_values)
  BY DEF Stored
<1>3. PICK m : m = Meas(c)
  OBVIOUS
<1>4. Measured(sent') = m /\ m \in owed
  <2>1. Measured(sent') = Meas(c)
    BY <1>1, <1>2, HandedOverAsMeasured
  <2>2. QED
    BY <1>1, <1>2, <1>3, <2>1 DEF RInv, Chunks
<1>5. /\ m.frame = c.id /\ m.frame \in Frame /\ m.frame.n \in Nat
      /\ m.core \in Nat /\ m.nss \in Nat
  BY <1>2, <1>3, ChunkNumbers DEF Meas
<1>6. \A x \in owed : x = m \/ Service!Earlier(m, x)
  BY <1>1, <1>2, <1>3, FirstOwed
<1>7. \A x \in owed : x.frame.n \in Nat /\ x.core \in Nat /\ x.nss \in Nat
  BY UnderwayTypes DEF NoneMissing
<1>8. ASSUME NEW x \in owed
      PROVE  /\ ~ Service!Earlier(x, m)
             /\ Service!Earlier(m, x) => x # m
  BY <1>5, <1>6, <1>7, EarlierIsStrict
<1>9. FirstInLine
  BY <1>4, <1>8 DEF FirstInLine
<1>10. sent' # Null
  <2>1. out' \in Seq(FwP!UdpFrame) /\ out' # <<>>
    BY <1>2 DEF FwP!FwIInv, FwP!FwTypeOK, HandedOver
  <2>2. sent' \in FwP!UdpFrame
    BY <1>2, <2>1 DEF HandedOver
  <2>3. FwP!UdpFrame \subseteq Fw!UdpFrame
    BY DEF FwP!UdpFrame, Fw!UdpFrame, HookPacket
  <2>4. QED
    BY <2>2, <2>3, NullAssumption
<1>11. sent' # sent
  <2>1. SUFFICES ASSUME sent' = sent PROVE FALSE
    OBVIOUS
  <2>2. Service!Earlier(Measured(sent), m) /\ Measured(sent) = m
    BY <1>4, <1>10, <2>1 DEF SentBefore
  <2>3. QED
    BY <1>4, <1>8, <2>2
<1>12. owed' = {x \in owed : Service!Earlier(m, x)}
  BY <1>4, <1>11
<1>13. ASSUME NEW x \in owed'
       PROVE  Underway(x)'
  <2>1. x \in owed /\ x # m
    BY <1>8, <1>12, <1>13
  <2>2. ~ Starts(Item(1), x) /\ Meas(p_csi.blocks[1]) # x
    BY <1>1, <1>3, <2>1, ExpectedComes DEF Starts
  <2>3. QED
    BY <2>1, <2>2, UnderwayShrinks DEF NoneMissing
<1>14. SentBefore'
  <2>1. Behind(c)
    BY <1>1, <1>2 DEF RInv, Chunks
  <2>2. PICK t : t = Measured(sent')
    OBVIOUS
  <2>3. /\ t = m /\ m.frame.n <= nrx'
        /\ air'.phase # "none" => m.frame.n < nrx'
    BY <1>4, <1>5, <2>1, <2>2 DEF Behind, UcStays
  <2>4. \A x \in owed' : Service!Earlier(t, x)
    BY <1>12, <2>3
  <2>5. Measured(sent)' = t
    BY <2>2
  <2>6. QED
    BY <1>5, <2>3, <2>4, <2>5 DEF SentBefore, Service!Earlier
<1>15. QED
  BY <1>9, <1>13, <1>14 DEF NoneMissing

\* What was handed over last stays before what is owed.
LEMMA SentStays ==
    ASSUME SentBefore, UNCHANGED <<sent, owed>>, nrx \in Nat,
           \/ nrx' = nrx /\ (air'.phase # "none" => air.phase # "none")
           \/ nrx' = nrx + 1
    PROVE  SentBefore'
<1>1. sent # Null =>
         /\ Measured(sent).frame.n \in Nat
         /\ Measured(sent).frame.n <= nrx'
         /\ air'.phase # "none" => Measured(sent).frame.n < nrx'
  BY BoundAssumption DEF SentBefore, Frame
<1>2. Measured(sent)' = Measured(sent)
  BY DEF Measured, Unmixed, SameMeasurement, Corrupt, Uc!CHUNKS
<1>3. QED
  BY <1>1, <1>2 DEF SentBefore, Service!Earlier

\* No step of the hook leaves out a measurement.
LEMMA HookLosesNone ==
    ASSUME ExInv, FwP!FwIInv, FwP!FwIInv', RInv, NoneMissing, SentBefore,
           Undisturbed, Undisturbed', [Next]_vars, BufferLeft,
           Chip # "bcm4366c0", ArmHook,
           owed' = IF sent' = sent \/ Measured(sent') \notin owed THEN owed
                   ELSE {x \in owed : Service!Earlier(Measured(sent'), x)}
    PROVE  NoneMissing' /\ SentBefore' /\ (sent' # sent => FirstInLine)
<1>1. Shrunk
  BY LineTaken DEF Shrunk
<1>2. UcStays
  BY NoIoctl DEF UcStays, RInv, ArmHook, ucOwn
<1>3. PICK c : c = Item(1)
  OBVIOUS
<1>4. c \in HookPacket /\ c = rx.pkt
  BY <1>3, LineTypes DEF ArmHook, Fw!process_frame_hook
<1>5. Size \in Nat /\ Size >= 1
  BY <1>1 DEF Shrunk
<1>6. UNCHANGED <<sent, owed>> => SentBefore'
  BY <1>2, SentStays DEF UcStays, ExInv, UcTypeOK
<1>7. ASSUME UNCHANGED <<sent, owed>>, p_csi = Null,
             \A x : ~ Starts(c, x)
      PROVE  NoneMissing' /\ SentBefore'
  <2>1. \A x \in owed : Underway(x)'
    BY <1>1, <1>2, <1>3, <1>7, UnderwayShrinks DEF NoneMissing
  <2>2. QED
    BY <1>6, <1>7, <2>1 DEF NoneMissing
<1>8. CASE Passed(c)
  <2>1. p_csi = Null
    BY <1>3, <1>4, <1>5, <1>8, ExpectedComes DEF Passed
  <2>2. UNCHANGED <<sent, owed>> /\ \A x : ~ Starts(c, x)
    BY <1>8 DEF Passed, Starts
  <2>3. QED
    BY <1>7, <2>1, <2>2
<1>9. CASE Dropped(c)
  <2>1. ~ Fw!IsNew(c)
           /\ (p_csi = Null \/ Fw!Missing(c) # missing_csi_frames)
    BY <1>9 DEF Dropped, Unplaced, BufferLeft
  <2>2. p_csi = Null
    BY <1>3, <1>4, <1>5, <2>1, ExpectedComes
  <2>3. UNCHANGED <<sent, owed>> /\ \A x : ~ Starts(c, x)
    BY <1>9, <2>1 DEF Dropped, Starts
  <2>4. QED
    BY <1>7, <2>2, <2>3
<1>10. ASSUME NEW udp, NEW inserted, Stored(udp, c, inserted),
              Fw!Missing(c) # 1,
              \/ Opened(udp, c)
              \/ /\ p_csi # Null /\ udp = p_csi
                 /\ Fw!Missing(c) = missing_csi_frames
       PROVE  NoneMissing' /\ SentBefore' /\ sent' = sent
  <2>1. UNCHANGED <<sent, owed>>
    BY <1>10 DEF Stored, Kept
  <2>2. NoneMissing'
    BY <1>1, <1>2, <1>3, <1>4, <1>10, <2>1, ChunkLosesNone
  <2>3. QED
    BY <1>6, <2>1, <2>2
<1>11. ASSUME NEW udp, Opened(udp, c), Stored(udp, c, 0)
       PROVE  NoneMissing' /\ SentBefore' /\ sent' = sent
  <2>1. Fw!Missing(c) # 1
    <3>1. 1 \in 1..Size
      BY <1>5
    <3>2. Fw!Missing(c) = Uc!CHUNKS(chanspec)
      BY <1>3, <1>11, <3>1 DEF RInv, Chunks, Proper, Opened, Stored
    <3>3. Uc!CHUNKS(chanspec) \in 4..19
      BY ChunkCounts DEF ExInv, UcTypeOK
    <3>4. QED
      BY <3>2, <3>3
  <2>2. QED
    BY <1>10, <1>11, <2>1
<1>12. CASE /\ p_csi # Null /\ Fw!Missing(c) = missing_csi_frames
            /\ Stored(p_csi, c, inserted_csi_values)
  <2>1. CASE Fw!Missing(c) # 1
    BY <1>10, <1>12, <2>1
  <2>2. CASE Fw!Missing(c) = 1
    BY <1>1, <1>2, <1>3, <1>4, <1>12, <2>2, LastChunkLosesNone
  <2>3. QED
    BY <2>1, <2>2
<1>13. QED
  BY <1>4, <1>8, <1>9, <1>11, <1>12, HookEffect DEF Passed, Dropped

\* A frame that is complete: all that is asked for is to be extracted.
LEMMA FrameLosesNone ==
    ASSUME ExInv, FwP!FwIInv, RInv, NoneMissing, Admitted, SentBefore,
           Undisturbed, Undisturbed', [Next]_vars, Microcode,
           Uc!RxComplete \/ Uc!RxCompleteDump,
           owed' = owed \cup Asked(completed')
    PROVE  NoneMissing' /\ SentBefore'
<1> DEFINE y == [kind |-> "frame", id |-> lastrx]
<1>1. /\ UNCHANGED <<shm, rx, p_csi, sent, nrx>>
      /\ pc = "event" /\ air.phase = "done" /\ air'.phase = "none"
      /\ completed' = [frame |-> lastrx, chan |-> air.chan]
      /\ Uc!Push(y)
  BY NoIoctl DEF RInv, Microcode, fwOwn, Uc!RxComplete, Uc!RxCompleteDump,
     Uc!NoAir
<1>2. /\ lastrx \in Frame /\ lastrx # Null /\ lastrx.n = nrx /\ nrx \in Nat
      /\ y \in HookPacket
  BY <1>1, FrameIsPacket, NullAssumption
     DEF ExInv, Reception, RInv, Filtered, UcTypeOK
<1>3. Grown(y) /\ Size \in Nat
  BY <1>1, <1>2, LinePushed, LineTypes
<1> HIDE DEF y
<1>4. ASSUME NEW x \in owed
      PROVE  Underway(x)'
  <2>1. ~ Upcoming(x)
    BY <1>1 DEF Upcoming
  <2>2. QED
    BY <1>1, <1>3, <2>1, UnderwayGrows DEF NoneMissing
<1>5. ASSUME NEW x \in Asked(completed')
      PROVE  /\ Underway(x)' /\ x.frame = lastrx
  <2>1. Matches(shm, lastrx)
    BY <1>1 DEF Asked
  <2>2. PICK p \in SelectedPairs(shm) :
           x = [frame |-> lastrx, chan |-> air.chan, core |-> p[1],
                nss |-> p[2]]
    BY <1>1, <2>1 DEF Asked
  <2>3. Uc!RxCompleteDump
    BY <1>1, <2>1 DEF Admitted, Uc!RxComplete
  <2>4. /\ pc' = "select" /\ core' = 0 /\ txstream' = 0
        /\ RXCHAN' = air.chan /\ lastrx' = lastrx
    BY <2>3 DEF Uc!RxCompleteDump
  <2>5. /\ SelectedPairs(shm)' = SelectedPairs(shm)
        /\ ToExtract(p[1], p[2])' = x
    BY <1>1, <2>2, <2>4 DEF SelectedPairs, ToExtract, Uc!NCORES, Uc!NSS
  <2>6. p[1] \in Nat /\ p[2] \in Nat
    BY ChunkCounts DEF SelectedPairs, Uc!NSS
  <2>7. NotBegun(p[1], p[2])'
    BY <2>4, <2>6 DEF NotBegun
  <2>8. Upcoming(x)'
    BY <2>4, <2>5, <2>7 DEF Upcoming
  <2>9. QED
    BY <2>2, <2>8 DEF Underway
<1>6. SentBefore'
  <2>1. PICK m : m = Measured(sent)
    OBVIOUS
  <2>2. sent # Null =>
           /\ m.frame \in Frame /\ m.frame.n \in Nat /\ m.frame.n < nrx
           /\ \A x \in owed : Service!Earlier(m, x)
    BY <1>1, <2>1, BoundAssumption DEF SentBefore, Frame
  <2>3. sent # Null => \A x \in owed' : Service!Earlier(m, x)
    BY <1>2, <1>5, <2>2 DEF Service!Earlier
  <2>4. Measured(sent)' = m
    BY <1>1, <2>1 DEF Measured, Unmixed, SameMeasurement, Corrupt, Uc!CHUNKS
  <2>5. QED
    BY <1>1, <1>2, <2>2, <2>3, <2>4 DEF SentBefore, Service!Earlier
<1>7. QED
  BY <1>4, <1>5, <1>6 DEF NoneMissing

\* The first chunk of a measurement takes the place of what is to be
\* extracted.
LEMMA PushLosesNone ==
    ASSUME ExInv, FwP!FwIInv, RInv, NoneMissing, Undisturbed, Undisturbed',
           [Next]_vars, Chip # "bcm4366c0", Microcode, Uc!PushChunk,
           UNCHANGED owed
    PROVE  NoneMissing'
<1>1. PICK y : y = Uc!Chunk
  OBVIOUS
<1>2. UNCHANGED <<shm, rx, p_csi>> /\ pc = "push" /\ Uc!Push(y)
  BY <1>1, NoIoctl DEF RInv, Microcode, fwOwn, Uc!PushChunk
<1>3. /\ y \in HookPacket /\ IsCsi(y) /\ Meas(y) = Current
      /\ Fw!IsNew(y) <=> left = Uc!CHUNKS(RXCHAN)
  BY <1>1, <1>2, NewChunkFacts, ChunkIsPacket DEF ExInv
<1>4. Grown(y) /\ Size \in Nat
  BY <1>2, <1>3, LinePushed, LineTypes
<1>5. ASSUME NEW x \in owed
      PROVE  Underway(x)'
  <2>1. Upcoming(x) => Upcoming(x)' \/ Starts(y, x)
    BY <1>2, <1>3, PushSkipsNone DEF Starts
  <2>2. QED
    BY <1>2, <1>4, <2>1, UnderwayGrows DEF NoneMissing
<1>6. QED
  BY <1>5 DEF NoneMissing

\* The other steps move nothing.
LEMMA NothingLost ==
    ASSUME ExInv, FwP!FwIInv, RInv, NoneMissing, Undisturbed, Undisturbed',
           [Next]_vars, UNCHANGED owed,
           \/ Microcode /\ ~ (\/ Uc!RxComplete \/ Uc!RxCompleteDump
                              \/ Uc!PushChunk)
           \/ OnAir \/ FrameEnds \/ ArmReceive \/ Buffers \/ UNCHANGED vars
    PROVE  NoneMissing'
<1>1. SameLine /\ UNCHANGED <<shm, p_csi>>
  <2>1. CASE ArmReceive
    BY <2>1, LineReceived DEF ArmReceive, Fw!Receive
  <2>2. CASE Buffers \/ UNCHANGED vars
    BY <2>2, LineKept DEF Buffers, Fw!XmitDone, Fw!StackDone, vars, fwOwn
  <2>3. CASE \/ Microcode /\ ~ (\/ Uc!RxComplete \/ Uc!RxCompleteDump
                                \/ Uc!PushChunk)
             \/ OnAir \/ FrameEnds
    <3>1. UNCHANGED <<shm, fifo, rx, p_csi>>
      BY <2>3, NoIoctl DEF RInv, Microcode, OnAir, FrameEnds, fwOwn,
         Uc!Microcode, Uc!PollForce, Uc!PollClean, Uc!NoEvent, Uc!RxPlcp,
         Uc!RxHeader, Uc!RxAddress, Uc!RxMacs, Uc!RxMacLoop, Uc!RxMacSlot,
         Uc!SelectFrame, Uc!Select, Uc!SelectStream, Uc!SelectCore, Uc!Finish,
         Uc!CsiEnd, Uc!Detect, Uc!AirAbort, Uc!AirEnd
    <3>2. QED
      BY <3>1, LineKept
  <2>4. QED
    BY <2>1, <2>2, <2>3
<1>2. ASSUME NEW x \in owed
      PROVE  Upcoming(x) => Upcoming(x)'
  <2>1. CASE Microcode /\ Uc!Select
    BY <1>1, <2>1, SelectSkipsNone
  <2>2. CASE \/ Microcode /\ ~ (\/ Uc!RxComplete \/ Uc!RxCompleteDump
                                \/ Uc!PushChunk \/ Uc!Select)
             \/ OnAir \/ FrameEnds
    <3>1. pc \notin {"select", "mask", "push"}
      <4>1. CASE Microcode /\ ~ (\/ Uc!RxComplete \/ Uc!RxCompleteDump
                                 \/ Uc!PushChunk \/ Uc!Select)
        BY <4>1 DEF Microcode, Uc!Microcode, Uc!PollForce, Uc!PollClean,
           Uc!NoEvent, Uc!RxPlcp, Uc!RxHeader, Uc!RxAddress, Uc!RxMacs,
           Uc!RxMacLoop, Uc!RxMacSlot, Uc!SelectFrame, Uc!Finish, Uc!CsiEnd
      <4>2. CASE OnAir \/ FrameEnds
        BY <4>2 DEF OnAir, FrameEnds, Uc!Detect, Uc!AirAbort, Uc!AirEnd,
           ExInv, Reception, Uc!NoAir
      <4>3. QED
        BY <2>2, <4>1, <4>2
    <3>2. QED
      BY <3>1 DEF Upcoming
  <2>3. CASE ArmReceive \/ Buffers \/ UNCHANGED vars
    <3>1. UNCHANGED <<shm, pc, lastrx, RXCHAN, core, txstream, left>>
      BY <2>3 DEF ArmReceive, Buffers, vars, ucOwn
    <3>2. QED
      BY <3>1 DEF Upcoming, NotBegun, ToExtract, SelectedPairs, Uc!NCORES,
         Uc!NSS, Uc!CHUNKS
  <2>4. QED
    BY <2>1, <2>2, <2>3
<1>3. ASSUME NEW x \in owed
      PROVE  Underway(x)'
  BY <1>1, <1>2, UnderwayKept DEF NoneMissing
<1>4. QED
  BY <1>3 DEF NoneMissing

\* What the steps that complete no frame and hand nothing over do to the
\* count of frames.
LEMMA FramesCounted ==
    ASSUME ExInv, Quiet, Undisturbed, Undisturbed', [Next]_vars,
           ~ (Microcode /\ (Uc!RxComplete \/ Uc!RxCompleteDump)), ~ ArmHook
    PROVE  /\ UNCHANGED <<completed, sent>>
           /\ \/ /\ nrx' = nrx
                 /\ air'.phase # "none" => air.phase # "none"
              \/ nrx' = nrx + 1
<1>1. CASE Microcode /\ ~ (Uc!RxComplete \/ Uc!RxCompleteDump)
  <2>1. ~ (pc = "event" /\ air.phase = "done")
    BY <1>1 DEF Microcode, Uc!Microcode, Uc!PollForce, Uc!PollClean,
       Uc!NoEvent, Uc!RxPlcp, Uc!RxHeader, Uc!RxAddress, Uc!RxMacs,
       Uc!RxMacLoop, Uc!RxMacSlot, Uc!SelectFrame, Uc!Select, Uc!SelectStream,
       Uc!SelectCore, Uc!PushChunk, Uc!Finish, Uc!CsiEnd
  <2>2. nrx' = nrx /\ (air'.phase # "none" => air.phase # "none")
    BY <1>1 DEF Microcode, Uc!Microcode, Uc!PollForce, Uc!PollClean,
       Uc!NoEvent, Uc!RxPlcp, Uc!RxHeader, Uc!RxAddress, Uc!RxMacs,
       Uc!RxMacLoop, Uc!RxMacSlot, Uc!SelectFrame, Uc!Select, Uc!SelectStream,
       Uc!SelectCore, Uc!PushChunk, Uc!Finish, Uc!CsiEnd
  <2>3. QED
    BY <1>1, <2>1, <2>2 DEF Microcode
<1>2. CASE OnAir \/ FrameEnds
  <2>1. UNCHANGED <<completed, sent>>
    BY <1>2 DEF OnAir, FrameEnds
  <2>2. \/ nrx' = nrx /\ (air'.phase # "none" => air.phase # "none")
        \/ nrx' = nrx + 1
    BY <1>2 DEF OnAir, FrameEnds, Uc!Detect, Uc!AirAbort, Uc!AirEnd, Uc!NoAir
  <2>3. QED
    BY <2>1, <2>2
<1>3. CASE ArmReceive \/ Buffers \/ UNCHANGED vars
  BY <1>3 DEF ArmReceive, Buffers, vars, ucOwn
<1>4. QED
  BY <1>1, <1>2, <1>3, NoIoctl DEF Next

\* No step leaves out a measurement.
LEMMA NextLosesNone ==
    ASSUME ExInv, FwP!FwIInv, FwP!FwIInv', RInv, CompleteInv, Undisturbed,
           Undisturbed', BufferLeft, [RNext]_rvars, Chip # "bcm4366c0",
           \E cfg : InitShm = {cfg} /\ WellFormed(cfg)
    PROVE  CompleteInv' /\ ((ArmHook /\ sent' # sent) => FirstInLine)
<1>1. [Next]_vars /\ NoneMissing /\ Admitted /\ SentBefore /\ nrx \in Nat
  BY DEF RNext, rvars, CompleteInv, ExInv, UcTypeOK
<1>2. WellFormed(shm) /\ \E cfg : InitShm = {cfg}
  BY DEF RInv, Quiet
<1>3. Admitted'
  BY <1>1, <1>2, AdmittedKept DEF RInv
<1>4. CASE RNext /\ Microcode /\ (Uc!RxComplete \/ Uc!RxCompleteDump)
  <2>1. owed' = owed \cup Asked(completed') /\ sent' = sent
    BY <1>2, <1>4, FrameHeard DEF RNext, Microcode
  <2>2. QED
    BY <1>1, <1>3, <1>4, <2>1, FrameLosesNone DEF CompleteInv
<1>5. CASE RNext /\ ArmHook
  <2>1. completed' = completed
    BY <1>5 DEF ArmHook
  <2>2. owed' = IF sent' = sent \/ Measured(sent') \notin owed THEN owed
                ELSE {x \in owed : Service!Earlier(Measured(sent'), x)}
    BY <1>5, <2>1 DEF RNext, History
  <2>3. QED
    BY <1>1, <1>3, <1>5, <2>2, HookLosesNone DEF CompleteInv
<1>6. CASE /\ ~ (Microcode /\ (Uc!RxComplete \/ Uc!RxCompleteDump))
           /\ ~ ArmHook
  <2>1. /\ UNCHANGED <<completed, sent>>
        /\ \/ /\ nrx' = nrx
              /\ air'.phase # "none" => air.phase # "none"
           \/ nrx' = nrx + 1
    BY <1>1, <1>6, FramesCounted DEF RInv
  <2>2. UNCHANGED owed
    BY <2>1 DEF RNext, rvars, History
  <2>3. SentBefore'
    BY <1>1, <2>1, <2>2, SentStays
  <2>4. NoneMissing'
    <3>1. CASE Microcode /\ Uc!PushChunk
      BY <1>1, <2>2, <3>1, PushLosesNone
    <3>2. CASE ~ (Microcode /\ Uc!PushChunk)
      BY <1>1, <1>6, <2>2, <3>2, NothingLost, NoIoctl DEF Next, RInv
    <3>3. QED
      BY <3>1, <3>2
  <2>5. QED
    BY <1>3, <1>6, <2>3, <2>4 DEF CompleteInv
<1>7. QED
  <2>1. RNext \/ UNCHANGED vars
    BY DEF rvars
  <2>2. ~ RNext => ~ (Microcode /\ (Uc!RxComplete \/ Uc!RxCompleteDump))
    BY <2>1 DEF vars, ucOwn, Uc!RxComplete, Uc!RxCompleteDump, Uc!NoAir
  <2>3. ~ RNext => ~ ArmHook
    BY <2>1 DEF vars, fwOwn, ArmHook, Fw!process_frame_hook
  <2>4. QED
    BY <1>4, <1>5, <1>6, <2>2, <2>3

\* At first nothing is owed.
LEMMA InitCompleteInv == RInit => CompleteInv
BY DEF RInit, Init, Uc!UcInit, Uc!NoAir, CompleteInv, NoneMissing, Admitted,
   SentBefore

(***************************************************************************)
(* README.md:47: none is left out.  As long as no ioctl is issued, the     *)
(* receive FIFO has room and the hook finds a buffer, a measurement of a   *)
(* matching frame and a selected core and stream is only handed over after *)
(* all those that come before it, and every one that has not been handed   *)
(* over is under way: still to be extracted, with its first chunk behind   *)
(* the others in the FIFO, or in the UDP frame under construction.  This   *)
(* is Service!Spec, without its fairness, when nothing may be lost.        *)
(***************************************************************************)
THEOREM NoneLeftOut ==
    ASSUME Chip # "bcm4366c0", Lossy = FALSE,
           \E cfg : InitShm = {cfg} /\ WellFormed(cfg)
    PROVE  RSpec /\ []Undisturbed /\ []BufferLeft
              => /\ Service!Init /\ [][Service!Next]_Service!serviceVars
                 /\ []NoneMissing
<1>1. RInit => RInv /\ CompleteInv /\ Service!Init
  BY InitRInv, InitCompleteInv DEF RInit, Init, Service!Init
<1>2. ASSUME ExInv, FwP!FwIInv, FwP!FwIInv', RInv, CompleteInv, Undisturbed,
             Undisturbed', BufferLeft, [RNext]_rvars
      PROVE  /\ RInv' /\ CompleteInv'
             /\ [Service!Next]_Service!serviceVars
  <2>1. CompleteInv' /\ ((ArmHook /\ sent' # sent) => FirstInLine)
    BY <1>2, NextLosesNone
  <2>2. \E cfg : InitShm = {cfg}
    OBVIOUS
  <2>3. QED
    BY <1>2, <2>1, <2>2, NextRefines
<1>3. RSpec => []ExInv /\ []FwP!FwIInv
  BY RSpecRuns, ExtractorInvariant, HookHolds, PTL
<1>4. CompleteInv => NoneMissing
  BY DEF CompleteInv
<1>5. QED
  BY <1>1, <1>2, <1>3, <1>4, PTL DEF RSpec
=============================================================================
