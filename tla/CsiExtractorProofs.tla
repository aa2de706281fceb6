------------------------- MODULE CsiExtractorProofs -------------------------
(***************************************************************************)
(* Proofs about the whole extractor, for every chip, channel, FIFO depth,  *)
(* pool of buffers, set of frames and sequence of ioctls.                  *)
(*                                                                         *)
(* 1. ExInv: what the microcode knows of the frame it is at, and that only *)
(*    packets of the form HookPacket are in the FIFO.                      *)
(* 2. RunsHook: the ARM core's part of the extractor is the hook of        *)
(*    CsiFirmware, called with packets of that form.  So the microcode     *)
(*    meets the assumption the theorems of CsiFirmwareProofs make about    *)
(*    the lengths the hook never checks, and those theorems hold here.     *)
(* 3. OrderInv: wherever chunks are (FIFO, hook, UDP frame), they are in   *)
(*    the order they were pushed in, and a chunk of a later measurement    *)
(*    comes at least that measurement's number of chunks later.            *)
(* 4. AckInv: a frame heard after a configuration was acknowledged passes  *)
(*    each stage of the filter only if it matches, and so do its chunks.   *)
(***************************************************************************)
EXTENDS CsiExtractor, TLAPS

-----------------------------------------------------------------------------
\* A packet as the microcode makes it: what the hook relies on, and that the
\* counters in the header and the addresses are those of the history fields.
HookPacket ==
    {p \in AnyPacket :
        /\ Fw!IsPacket(p)
        /\ p.kind = "csi" =>
              /\ Chip # "bcm4366c0" =>
                    /\ Fw!CsiConf(p) = p.core + 8 * p.nss
                    /\ p.core \in 0..7 /\ p.nss \in 0..7
              /\ Fw!Missing(p) = 1 => p.src = p.id
              /\ (Fw!Missing(p) = 1 /\ Chip = "bcm43455c0") => p.fc = p.src}

FwP == INSTANCE CsiFirmwareProofs WITH Packet <- HookPacket
IoP == INSTANCE CsiIoctlProofs

\* The microcode's variables and the radio.
UcTypeOK ==
    /\ pc \in {"force", "clean", "event", "header", "macs", "macloop",
               "macslot", "select", "mask", "push", "finish", "csi_end"}
    /\ FORCEDEAF \in 0..1 /\ CLEANDEAF \in 0..1
    /\ deaf \in BOOLEAN /\ DUMP_CSI \in BOOLEAN
    /\ lastrx \in Frame \cup {Null} /\ cache \in Frame \cup {Null}
    /\ slot \in 0..(Uc!WORD - 1)
    /\ core \in 0..(Uc!NCORES - 1) /\ txstream \in 0..3 /\ left \in 0..19
    /\ nrx \in 0..MaxFrames /\ emitted \in Nat
    /\ chanspec \in Chanspec
    /\ air \in {Uc!NoAir} \cup [phase : {"plcp", "rx", "done"},
                                chan : Chanspec]
    /\ DOMAIN shm = DOMAIN Io!ShmReset

\* Which frame the microcode is at.
Reception ==
    /\ air.phase # "none" => lastrx \in Frame
    /\ pc \in {"header", "macs", "macloop", "macslot"} =>
          air.phase \in {"rx", "done"}
    /\ (DUMP_CSI /\ air.phase \in {"rx", "done"}) => cache = lastrx
    /\ pc \in {"select", "mask", "push", "finish"} =>
          /\ deaf /\ air = Uc!NoAir
          /\ lastrx \in Frame /\ cache = lastrx
          /\ completed # Null /\ completed.frame = lastrx
          /\ RXCHAN \in Chanspec
    /\ pc = "push" => left \in 1..Uc!CHUNKS(RXCHAN)

FifoOK == fifo \in Seq(HookPacket) /\ Len(fifo) <= FifoDepth

ExInv == UcTypeOK /\ Reception /\ FifoOK

-----------------------------------------------------------------------------
\* The constants of the microcode agree with those of the hook.
LEMMA ChunkCounts ==
    ASSUME NEW cs \in Chanspec
    PROVE  /\ Uc!CHUNKS(cs) \in 4..19
           /\ Chip # "bcm4366c0" => Uc!CHUNKS(cs) \in 5..19
           /\ Uc!TONES_LAST_CHUNK(cs) \in 1..Uc!TONES_PER_CHUNK
           /\ Uc!TONES_PER_CHUNK = Fw!TonesPerChunk
           /\ Fw!TonesPerChunk = IF Chip = "bcm4366c0" THEN 16 ELSE 14
           /\ Uc!NCORES \in 1..4
           /\ Chip # "bcm4366c0" => Uc!NCORES \in 1..2
BY ChipAssumption DEF Uc!CHUNKS, Uc!TONES_LAST_CHUNK, Uc!TONES_PER_CHUNK,
   Fw!TonesPerChunk, Uc!NCORES

\* A chunk of the chips with the header in one word.
LEMMA ChunkIsPacket ==
    ASSUME UcTypeOK, Reception, pc = "push", Chip # "bcm4366c0"
    PROVE  /\ Uc!Chunk \in HookPacket
           /\ Fw!Missing(Uc!Chunk) = left
           /\ Fw!IsNew(Uc!Chunk) <=> left = Uc!CHUNKS(RXCHAN)
<1> DEFINE c == Uc!Chunk
<1> SUFFICES /\ c \in HookPacket /\ Fw!Missing(c) = left
             /\ Fw!IsNew(c) <=> left = Uc!CHUNKS(RXCHAN)
  OBVIOUS
<1>1. /\ lastrx \in Frame /\ cache = lastrx /\ RXCHAN \in Chanspec
      /\ left \in 1..Uc!CHUNKS(RXCHAN) /\ left \in 1..19
      /\ core \in 0..1 /\ txstream \in 0..3 /\ emitted \in Nat
  BY ChunkCounts DEF UcTypeOK, Reception
<1> DEFINE new == IF left = Uc!CHUNKS(RXCHAN) THEN 16384 ELSE 0
<1>2. /\ c.kind = "csi" /\ c.cfg = left + (core + 8 * txstream) * 256 + new
      /\ c.csiconf = 0 /\ c.start = FALSE
      /\ c.tones = IF left = 1 THEN Uc!TONES_LAST_CHUNK(RXCHAN)
                               ELSE Uc!TONES_PER_CHUNK
      /\ c.src = (IF left = 1 THEN cache ELSE Null)
      /\ c.fc = Uc!FrameControl
      /\ c.id = lastrx /\ c.core = core /\ c.nss = txstream
      /\ c.chan = RXCHAN /\ c.pos = emitted + 1
  BY DEF Uc!Chunk
<1>3. /\ c.cfg \in Nat /\ c.cfg % 256 = left
      /\ (c.cfg \div 256) % 64 = core + 8 * txstream
      /\ (c.cfg \div 16384) % 2 = 1 <=> left = Uc!CHUNKS(RXCHAN)
  <2>1. new \in {0, 16384} /\ (new = 16384 <=> left = Uc!CHUNKS(RXCHAN))
    OBVIOUS
  <2> HIDE DEF new, c
  <2>2. /\ left \in 1..19 /\ core \in 0..1 /\ txstream \in 0..3
        /\ new \in {0, 16384}
        /\ c.cfg = left + (core + 8 * txstream) * 256 + new
    BY <1>1, <1>2, <2>1
  <2>3. /\ c.cfg \in Nat /\ c.cfg % 256 = left
        /\ (c.cfg \div 256) % 64 = core + 8 * txstream
        /\ (c.cfg \div 16384) % 2 = 1 <=> new = 16384
    BY ONLY <2>2
  <2>4. QED
    BY <2>1, <2>3
<1>4. /\ Fw!Missing(c) = left /\ Fw!CsiConf(c) = core + 8 * txstream
      /\ Fw!IsNew(c) <=> left = Uc!CHUNKS(RXCHAN)
      /\ Fw!IsNew(c) \in BOOLEAN
  <2> HIDE DEF c
  <2>1. QED
    BY <1>3 DEF Fw!Missing, Fw!CsiConf, Fw!IsNew
<1>5. /\ c.fc \in Frame \cup {Null}
      /\ Chip = "bcm43455c0" /\ left = 1 => c.fc = lastrx
  BY <1>1, <1>2 DEF Uc!FrameControl
<1>6. /\ c.tones \in 1..Fw!TonesPerChunk
      /\ left > 1 => c.tones = Fw!TonesPerChunk
      /\ Fw!TonesPerChunk = 14 /\ Uc!CHUNKS(RXCHAN) \in 5..19
  BY <1>1, <1>2, ChunkCounts
<1>7. c \in AnyPacket
  <2>1. c.tones \in Nat
    BY <1>6
  <2>2. c \in [kind : {"csi"}, cfg : Nat, csiconf : Nat, start : BOOLEAN,
               tones : Nat, src : Frame \cup {Null}, fc : Frame \cup {Null},
               id : Frame, core : Nat, nss : Nat, chan : Chanspec, pos : Nat]
    BY <1>1, <1>2, <1>3, <1>5, <2>1 DEF Uc!Chunk
  <2>3. QED
    BY <2>2 DEF AnyPacket
<1> HIDE DEF c
<1>8. Fw!IsPacket(c)
  <2>1. left \in 1..Fw!MaxCount
    BY <1>1 DEF Fw!MaxCount
  <2>2. Fw!IsNew(c) => left * Fw!TonesPerChunk
                        >= 28 + Fw!PhyWords + Fw!TonesPerChunk
    BY <1>4, <1>6 DEF Fw!PhyWords
  <2>3. Fw!CsiConf(c) \in Nat
    BY <1>1, <1>4
  <2>4. c.src \in Frame \cup {Null}
    BY <1>1, <1>2
  <2>5. QED
    BY <1>2, <1>4, <1>5, <1>6, <2>1, <2>2, <2>3, <2>4 DEF Fw!IsPacket
<1>9. QED
  BY <1>1, <1>2, <1>4, <1>5, <1>7, <1>8 DEF HookPacket

\* A chunk of the bcm4366c0.
LEMMA Chunk4366IsPacket ==
    ASSUME UcTypeOK, Reception, pc = "push", Chip = "bcm4366c0"
    PROVE  /\ Uc!Chunk4366 \in HookPacket
           /\ Fw!Missing(Uc!Chunk4366) = left
<1> DEFINE c == Uc!Chunk4366
<1> SUFFICES c \in HookPacket /\ Fw!Missing(c) = left
  OBVIOUS
<1>1. /\ lastrx \in Frame /\ RXCHAN \in Chanspec
      /\ left \in 1..Uc!CHUNKS(RXCHAN) /\ left \in 1..19
      /\ core \in 0..3 /\ txstream \in 0..3 /\ emitted \in Nat
  BY ChunkCounts DEF UcTypeOK, Reception
<1>2. /\ c.kind = "csi" /\ c.cfg = left + core * 1024 + txstream * 256
      /\ c.csiconf = (core + 8 * txstream) * 256
      /\ c.tones = Uc!TONES_PER_CHUNK
      /\ c.src = lastrx /\ c.fc = Null
      /\ c.id = lastrx /\ c.core = core /\ c.nss = txstream
      /\ c.chan = RXCHAN /\ c.pos = emitted + 1
  BY DEF Uc!Chunk4366
<1> DEFINE new == left = Uc!CHUNKS(RXCHAN)
<1>new. new \in BOOLEAN /\ c.start = new
  BY DEF Uc!Chunk4366
<1>3. c.cfg \in Nat /\ c.cfg % 256 = left /\ c.csiconf \in Nat
  <2> HIDE DEF c
  <2>1. /\ left \in 1..19 /\ core \in 0..3 /\ txstream \in 0..3
        /\ c.cfg = left + core * 1024 + txstream * 256
        /\ c.csiconf = (core + 8 * txstream) * 256
    BY <1>1, <1>2
  <2>2. QED
    BY ONLY <2>1
<1>4. /\ Fw!Missing(c) = left /\ Fw!CsiConf(c) \in Nat
      /\ Fw!IsNew(c) <=> new
      /\ Fw!IsNew(c) \in BOOLEAN
  <2> HIDE DEF c, new
  <2>1. Fw!Missing(c) = left /\ Fw!CsiConf(c) \in Nat
    BY <1>3 DEF Fw!Missing, Fw!CsiConf
  <2>2. Fw!IsNew(c) = new
    BY <1>new DEF Fw!IsNew
  <2>3. QED
    BY <1>new, <2>1, <2>2
<1>6. /\ c.tones = Fw!TonesPerChunk /\ Fw!TonesPerChunk = 16
      /\ Uc!CHUNKS(RXCHAN) \in 4..19
  BY <1>1, <1>2, ChunkCounts
<1>7. c \in AnyPacket
  <2>1. c.tones \in Nat
    BY <1>6
  <2>2. c \in [kind : {"csi"}, cfg : Nat, csiconf : Nat, start : BOOLEAN,
               tones : Nat, src : Frame \cup {Null}, fc : Frame \cup {Null},
               id : Frame, core : Nat, nss : Nat, chan : Chanspec, pos : Nat]
    <3>1. c = [kind |-> "csi", cfg |-> c.cfg, csiconf |-> c.csiconf,
               start |-> new, tones |-> c.tones, src |-> lastrx,
               fc |-> Null, id |-> lastrx, core |-> core, nss |-> txstream,
               chan |-> RXCHAN, pos |-> emitted + 1]
      BY DEF Uc!Chunk4366
    <3> HIDE DEF c, new
    <3>2. core \in Nat /\ txstream \in Nat /\ emitted + 1 \in Nat
      BY <1>1
    <3>3. QED
      BY <1>1, <1>new, <1>3, <2>1, <3>1, <3>2
  <2>3. QED
    BY <2>2 DEF AnyPacket
<1> HIDE DEF c
<1>8. Fw!IsPacket(c)
  <2>1. left \in 1..Fw!MaxCount
    BY <1>1 DEF Fw!MaxCount
  <2>2. new => left * Fw!TonesPerChunk >= 28 + Fw!PhyWords + Fw!TonesPerChunk
    BY <1>6 DEF Fw!PhyWords
  <2>3. Fw!IsNew(c) => left * Fw!TonesPerChunk
                        >= 28 + Fw!PhyWords + Fw!TonesPerChunk
    BY <1>4, <2>2
  <2> HIDE DEF new
  <2>5. QED
    BY <1>1, <1>2, <1>4, <1>6, <2>1, <2>3 DEF Fw!IsPacket
<1>9. QED
  BY <1>1, <1>2, <1>4, <1>7, <1>8 DEF HookPacket

-----------------------------------------------------------------------------
\* What the FIFO is given.
LEMMA FrameIsPacket ==
    ASSUME NEW f \in Frame
    PROVE  [kind |-> "frame", id |-> f] \in HookPacket
BY DEF HookPacket, AnyPacket, Fw!IsPacket

\* The FIFO takes a packet or drops it.
LEMMA PushKeeps ==
    ASSUME FifoOK, NEW x \in HookPacket, Uc!Push(x)
    PROVE  FifoOK'
<1>1. fifo \in Seq(HookPacket) /\ FifoDepth \in Nat /\ Len(fifo) <= FifoDepth
  BY BoundAssumption DEF FifoOK
<1>2. CASE Len(fifo) < FifoDepth
  <2>1. fifo' = Append(fifo, x)
    BY <1>2 DEF Uc!Push
  <2>2. /\ Append(fifo, x) \in Seq(HookPacket)
        /\ Len(Append(fifo, x)) = Len(fifo) + 1
    BY <1>1
  <2>3. QED
    BY <1>1, <1>2, <2>1, <2>2 DEF FifoOK
<1>3. CASE ~ Len(fifo) < FifoDepth
  BY <1>1, <1>3 DEF FifoOK, Uc!Push
<1>4. QED
  BY <1>2, <1>3

\* The next stream, the next core, or the end.
LEMMA AdvanceKeeps ==
    ASSUME UcTypeOK, Uc!Advance
    PROVE  /\ core' \in 0..(Uc!NCORES - 1) /\ txstream' \in 0..3
           /\ pc' \in {"select", "finish"}
<1>1. core \in 0..(Uc!NCORES - 1) /\ txstream \in 0..3 /\ Uc!NCORES \in 1..4
      /\ Uc!NSS = 4
  BY DEF UcTypeOK, Uc!NCORES, Uc!NSS
<1>2. QED
  BY <1>1 DEF Uc!Advance

\* Counting up in a register.
LEMMA NextWord ==
    ASSUME NEW n \in Nat
    PROVE  /\ (n + 1) % Uc!WORD \in 0..(Uc!WORD - 1)
           /\ (n + 1) % Uc!WORD <= n + 1
<1>1. PICK m \in Nat : m = n + 1
  OBVIOUS
<1>2. /\ m % 65536 >= 0 /\ m % 65536 <= 65535 /\ m % 65536 \in Nat
      /\ m % 65536 <= m
  BY SMT
<1>3. Uc!WORD = 65536
  BY DEF Uc!WORD
<1>4. m % Uc!WORD = m % 65536 /\ Uc!WORD - 1 = 65535
  BY <1>3
<1> DEFINE d == m % Uc!WORD
<1>5. d \in Nat /\ d <= m /\ d <= Uc!WORD - 1 /\ Uc!WORD - 1 \in Nat
  BY <1>2, <1>4
<1> HIDE DEF d
<1>6. d \in 0..(Uc!WORD - 1) /\ d <= m
  BY <1>5
<1>7. QED
  BY <1>1, <1>6 DEF d

\* A step of the microcode: its own variables.
LEMMA MicrocodeKeeps ==
    ASSUME ExInv, Microcode
    PROVE  UcTypeOK' /\ Reception'
<1> USE DEF ExInv
<1>0. UNCHANGED chanspec
  BY DEF Microcode
<1>1. CASE Uc!PollForce
  <2>1. UNCHANGED completed
    BY <1>1 DEF Microcode, Uc!PollForce
  <2>2. UcTypeOK'
    <3>1. deaf' \in BOOLEAN
      BY <1>1 DEF UcTypeOK, Uc!PollForce, Uc!enable_carrier_search
    <3>2. QED
      BY <1>0, <1>1, <3>1 DEF UcTypeOK, Uc!PollForce, Uc!loopVars
  <2>3. Reception'
    BY <1>0, <1>1, <2>1 DEF UcTypeOK, Reception, Uc!PollForce, Uc!NoAir,
       Uc!enable_carrier_search, Uc!loopVars
  <2>4. QED
    BY <2>2, <2>3
<1>2. CASE Uc!PollClean
  <2>1. UNCHANGED completed
    BY <1>2 DEF Microcode, Uc!PollClean
  <2>2. UcTypeOK'
    <3>1. deaf' \in BOOLEAN
      BY <1>2 DEF UcTypeOK, Uc!PollClean, Uc!disable_carrier_search
    <3>2. QED
      BY <1>0, <1>2, <3>1 DEF UcTypeOK, Uc!PollClean, Uc!loopVars
  <2>3. Reception'
    BY <1>0, <1>2, <2>1 DEF UcTypeOK, Reception, Uc!PollClean, Uc!NoAir,
       Uc!disable_carrier_search, Uc!loopVars
  <2>4. QED
    BY <2>2, <2>3
<1>3. CASE Uc!NoEvent
  <2>1. UNCHANGED completed
    BY <1>3 DEF Microcode, Uc!NoEvent
  <2>2. UcTypeOK'
    BY <1>0, <1>3 DEF UcTypeOK, Uc!NoEvent, Uc!loopVars
  <2>3. Reception'
    BY <1>0, <1>3, <2>1 DEF UcTypeOK, Reception, Uc!NoEvent, Uc!NoAir,
       Uc!loopVars
  <2>4. QED
    BY <2>2, <2>3
<1>4. CASE Uc!RxPlcp
  <2>1. UNCHANGED completed
    BY <1>4 DEF Microcode, Uc!RxPlcp
  <2>2. UcTypeOK'
    <3>1. air \in [phase : {"plcp", "rx", "done"}, chan : Chanspec]
      BY <1>4 DEF UcTypeOK, Uc!RxPlcp, Uc!NoAir
    <3>2. air' \in [phase : {"plcp", "rx", "done"}, chan : Chanspec]
      BY <1>4, <3>1 DEF Uc!RxPlcp
    <3>3. QED
      BY <1>0, <1>4, <3>2 DEF UcTypeOK, Uc!RxPlcp, Uc!loopVars
  <2>3. Reception'
    BY <1>0, <1>4, <2>1 DEF UcTypeOK, Reception, Uc!RxPlcp, Uc!NoAir,
       Uc!loopVars
  <2>4. QED
    BY <2>2, <2>3
<1>5. CASE Uc!RxHeader
  <2>1. UNCHANGED completed
    BY <1>5 DEF Microcode, Uc!RxHeader
  <2>2. UcTypeOK'
    BY <1>0, <1>5 DEF UcTypeOK, Uc!RxHeader, Uc!loopVars
  <2>3. Reception'
    BY <1>0, <1>5, <2>1 DEF UcTypeOK, Reception, Uc!RxHeader, Uc!NoAir,
       Uc!loopVars
  <2>4. QED
    BY <2>2, <2>3
<1>6. CASE Uc!RxAddress
  <2>1. UNCHANGED completed
    BY <1>6 DEF Microcode, Uc!RxAddress, Uc!RxMacs, Uc!RxMacLoop, Uc!RxMacSlot,
       Uc!SelectFrame
  <2>2. UcTypeOK'
    <3>1. slot' \in 0..(Uc!WORD - 1)
      <4>1. slot' = slot \/ slot' = 0 \/ slot' = (slot + 1) % Uc!WORD
        BY <1>6 DEF Uc!RxAddress, Uc!RxMacs, Uc!RxMacLoop, Uc!RxMacSlot
      <4>2. 0 \in 0..(Uc!WORD - 1) /\ slot \in Nat
        <5>1. slot \in 0..(Uc!WORD - 1)
          BY DEF UcTypeOK
        <5>2. 0 \in 0..(Uc!WORD - 1) /\ 0..(Uc!WORD - 1) \subseteq Nat
          BY SMT DEF Uc!WORD
        <5>3. QED
          BY <5>1, <5>2
      <4>3. (slot + 1) % Uc!WORD \in 0..(Uc!WORD - 1)
        BY <4>2, NextWord
      <4>4. QED
        BY <4>1, <4>2, <4>3 DEF UcTypeOK
    <3>2. /\ pc' \in {"force", "macloop", "macslot"}
          /\ DUMP_CSI' \in {DUMP_CSI, TRUE} /\ cache' \in {cache, lastrx}
      BY <1>6 DEF Uc!RxAddress, Uc!RxMacs, Uc!RxMacLoop, Uc!RxMacSlot,
         Uc!SelectFrame
    <3>3. UNCHANGED <<shm, FORCEDEAF, CLEANDEAF, air, lastrx, core, txstream,
                      left, deaf, nrx, emitted>>
      BY <1>6 DEF Uc!RxAddress, Uc!RxMacs, Uc!RxMacLoop, Uc!RxMacSlot
    <3>4. QED
      BY <1>0, <3>1, <3>2, <3>3 DEF UcTypeOK
  <2>3. Reception'
    BY <1>0, <1>6, <2>1 DEF UcTypeOK, Reception, Uc!RxAddress, Uc!RxMacs,
       Uc!RxMacLoop, Uc!RxMacSlot, Uc!SelectFrame, Uc!NoAir, Uc!loopVars
  <2>4. QED
    BY <2>2, <2>3
<1>7. CASE Uc!RxComplete
  <2>1. UcTypeOK'
    BY <1>0, <1>7 DEF UcTypeOK, Uc!RxComplete, Uc!loopVars
  <2>2. Reception'
    BY <1>0, <1>7 DEF Reception, Uc!RxComplete, Uc!NoAir, Uc!loopVars
  <2>3. QED
    BY <2>1, <2>2
<1>8. CASE Uc!RxCompleteDump
  <2>1. /\ pc = "event" /\ air.phase = "done" /\ DUMP_CSI
        /\ air.chan \in Chanspec /\ lastrx \in Frame /\ cache = lastrx
    BY <1>8 DEF UcTypeOK, Reception, Uc!RxCompleteDump, Uc!NoAir
  <2>2. completed' = [frame |-> lastrx, chan |-> air.chan]
    BY <2>1 DEF Microcode
  <2>3. completed' # Null /\ completed'.frame = lastrx
    BY <2>1, <2>2, NullAssumption
  <2>4. 0 \in 0..(Uc!NCORES - 1) /\ 0 \in 0..3 /\ 0 \in 0..19 /\ 1 \in 0..1
    BY <2>1, ChunkCounts
  <2>5. UcTypeOK'
    BY <1>0, <1>8, <2>1, <2>4 DEF UcTypeOK, Uc!RxCompleteDump,
       Uc!enable_carrier_search, Uc!loopVars
  <2>6. Reception'
    BY <1>0, <1>8, <2>1, <2>3 DEF Reception, Uc!RxCompleteDump, Uc!NoAir,
       Uc!enable_carrier_search, Uc!loopVars
  <2>7. QED
    BY <2>5, <2>6
<1>9. CASE Uc!SelectStream
  <2>1. pc = "select" /\ UNCHANGED completed
    BY <1>9 DEF Uc!SelectStream, Microcode
  <2>2. /\ core' \in 0..(Uc!NCORES - 1) /\ txstream' \in 0..3
        /\ pc' \in {"select", "mask", "finish"}
    BY <1>9, AdvanceKeeps DEF Uc!SelectStream, UcTypeOK
  <2>3. QED
    BY <1>0, <1>9, <2>1, <2>2 DEF UcTypeOK, Reception, Uc!SelectStream
<1>9a. CASE Uc!SelectCore
  <2>1. /\ pc = "mask" /\ UNCHANGED completed
        /\ RXCHAN \in Chanspec /\ Uc!CHUNKS(RXCHAN) \in 1..19
    BY <1>9a, ChunkCounts DEF UcTypeOK, Reception, Uc!SelectCore, Microcode
  <2>2. /\ left' \in 0..19 /\ core' \in 0..(Uc!NCORES - 1)
        /\ txstream' \in 0..3 /\ pc' \in {"push", "select", "finish"}
        /\ pc' = "push" => left' \in 1..Uc!CHUNKS(RXCHAN)
    <3>1. CASE core \in shm.core_mask
      BY <1>9a, <2>1, <3>1 DEF Uc!SelectCore, UcTypeOK
    <3>2. CASE core \notin shm.core_mask
      BY <1>9a, <3>2, AdvanceKeeps DEF Uc!SelectCore, UcTypeOK
    <3>3. QED
      BY <3>1, <3>2
  <2>3. QED
    BY <1>0, <1>9a, <2>1, <2>2 DEF UcTypeOK, Reception, Uc!SelectCore
<1>10. CASE Uc!PushChunk
  <2>1. /\ pc = "push" /\ UNCHANGED completed /\ emitted' \in Nat
        /\ RXCHAN \in Chanspec /\ Uc!CHUNKS(RXCHAN) \in 1..19
        /\ left \in 1..Uc!CHUNKS(RXCHAN) /\ left' = left - 1
    BY <1>10, ChunkCounts DEF UcTypeOK, Reception, Uc!PushChunk, Microcode
  <2>2. /\ left' \in 0..19 /\ core' \in 0..(Uc!NCORES - 1)
        /\ txstream' \in 0..3 /\ pc' \in {"push", "select", "finish"}
        /\ pc' = "push" => left' \in 1..Uc!CHUNKS(RXCHAN)
    <3>1. CASE left = 1
      BY <1>10, <2>1, <3>1, AdvanceKeeps DEF Uc!PushChunk, UcTypeOK
    <3>2. CASE left # 1
      BY <1>10, <2>1, <3>2 DEF Uc!PushChunk, UcTypeOK
    <3>3. QED
      BY <3>1, <3>2
  <2>3. QED
    BY <1>0, <1>10, <2>1, <2>2 DEF UcTypeOK, Reception, Uc!PushChunk
<1>11. CASE Uc!Finish
  <2>1. UNCHANGED completed
    BY <1>11 DEF Microcode, Uc!Finish
  <2>2. UcTypeOK'
    BY <1>0, <1>11 DEF UcTypeOK, Uc!Finish, Uc!disable_carrier_search,
       Uc!loopVars
  <2>3. Reception'
    BY <1>0, <1>11, <2>1 DEF UcTypeOK, Reception, Uc!Finish, Uc!NoAir,
       Uc!disable_carrier_search, Uc!loopVars
  <2>4. QED
    BY <2>2, <2>3
<1>12. CASE Uc!CsiEnd
  <2>1. UNCHANGED completed
    BY <1>12 DEF Microcode, Uc!CsiEnd
  <2>2. UcTypeOK'
    BY <1>0, <1>12 DEF UcTypeOK, Uc!CsiEnd, Uc!loopVars
  <2>3. Reception'
    BY <1>0, <1>12, <2>1 DEF UcTypeOK, Reception, Uc!CsiEnd, Uc!NoAir,
       Uc!loopVars
  <2>4. QED
    BY <2>2, <2>3
<1>13. QED
  BY <1>1, <1>2, <1>3, <1>4, <1>5, <1>6, <1>7, <1>8, <1>9, <1>9a,
     <1>10, <1>11, <1>12 DEF Microcode, Uc!Microcode, Uc!Select

\* A step of the microcode: the FIFO.
LEMMA MicrocodeFifo ==
    ASSUME ExInv, Microcode
    PROVE  FifoOK'
<1>1. CASE UNCHANGED fifo
  BY <1>1 DEF ExInv, FifoOK
<1>2. CASE Uc!RxComplete \/ Uc!RxCompleteDump
  <2>1. /\ Uc!Push([kind |-> "frame", id |-> lastrx])
        /\ air.phase = "done"
    BY <1>2 DEF Uc!RxComplete, Uc!RxCompleteDump
  <2>2. lastrx \in Frame
    BY <2>1 DEF ExInv, Reception
  <2>3. QED
    BY <2>1, <2>2, FrameIsPacket, PushKeeps DEF ExInv
<1>3. CASE Uc!PushChunk
  <2>1. /\ pc = "push"
        /\ Uc!Push(IF Chip = "bcm4366c0" THEN Uc!Chunk4366 ELSE Uc!Chunk)
    BY <1>3 DEF Uc!PushChunk
  <2>2. (IF Chip = "bcm4366c0" THEN Uc!Chunk4366 ELSE Uc!Chunk) \in HookPacket
    BY <2>1, ChunkIsPacket, Chunk4366IsPacket DEF ExInv
  <2>3. QED
    BY <2>1, <2>2, PushKeeps DEF ExInv
<1>4. UNCHANGED fifo \/ Uc!RxComplete \/ Uc!RxCompleteDump \/ Uc!PushChunk
  BY DEF Microcode, Uc!Microcode, Uc!PollForce, Uc!PollClean, Uc!NoEvent,
     Uc!RxPlcp, Uc!RxHeader, Uc!RxAddress, Uc!RxMacs, Uc!RxMacLoop,
     Uc!RxMacSlot, Uc!SelectFrame, Uc!Select, Uc!SelectStream, Uc!SelectCore,
     Uc!Finish, Uc!CsiEnd
<1>5. QED
  BY <1>1, <1>2, <1>3, <1>4

\* Frames come and go while nothing is extracted.
LEMMA OnAirKeeps ==
    ASSUME ExInv, OnAir \/ FrameEnds
    PROVE  ExInv'
<1>1. ASSUME NEW r \in Radio, OnAir, Uc!Detect(r, chanspec)
      PROVE  ExInv'
  <2>1. lastrx' \in Frame /\ nrx' \in 0..MaxFrames
    BY <1>1, BoundAssumption DEF Uc!Detect, Frame, ExInv, UcTypeOK
  <2>2. QED
    BY <1>1, <2>1 DEF ExInv, UcTypeOK, Reception, FifoOK, OnAir, Uc!Detect,
       Uc!loopVars, Uc!NoAir
<1>2. CASE OnAir /\ Uc!AirAbort
  BY <1>2 DEF ExInv, UcTypeOK, Reception, FifoOK, OnAir, Uc!AirAbort,
     Uc!loopVars, Uc!NoAir
<1>3. CASE FrameEnds
  BY <1>3 DEF ExInv, UcTypeOK, Reception, FifoOK, FrameEnds, Uc!AirEnd,
     Uc!loopVars, Uc!NoAir
<1>4. QED
  BY <1>1, <1>2, <1>3 DEF OnAir

\* The ARM core only takes packets out.
LEMMA ArmKeeps ==
    ASSUME ExInv, ArmReceive \/ ArmHook \/ Buffers
    PROVE  ExInv'
<1>1. UNCHANGED <<shm, FORCEDEAF, CLEANDEAF, ucOwn, completed>>
  BY DEF ArmReceive, ArmHook, Buffers
<1>2. UNCHANGED chanspec
  BY DEF ArmReceive, ArmHook, Buffers, Fw!Receive, Fw!process_frame_hook,
     Fw!XmitDone, Fw!StackDone, Fw!NewChunk, Fw!NewChunkNoBuffer,
     Fw!StrayChunk, Fw!MismatchedChunk, Fw!NextChunk, Fw!RegularFrame
<1>3. FifoOK'
  <2>1. CASE UNCHANGED fifo
    BY <2>1 DEF ExInv, FifoOK
  <2>2. CASE ArmReceive
    BY <2>2, BoundAssumption DEF ExInv, FifoOK, ArmReceive
  <2>3. QED
    BY <2>1, <2>2 DEF ArmHook, Buffers
<1>4. QED
  BY <1>1, <1>2, <1>3 DEF ExInv, UcTypeOK, Reception, ucOwn

\* An ioctl changes no variable of the reception.
LEMMA IoctlKeeps ==
    ASSUME ExInv, ArmIoctl \/ ArmIoctlStep
    PROVE  ExInv'
<1>1. UNCHANGED <<fifo, ucOwn, completed>>
  BY DEF ArmIoctl, ArmIoctlStep
<1>2. /\ FORCEDEAF' \in 0..1 /\ CLEANDEAF' \in 0..1
      /\ chanspec' \in Chanspec
      /\ DOMAIN shm' = DOMAIN shm
  <2>1. CASE ArmIoctlStep
    BY <2>1 DEF ArmIoctlStep, Io!WriteShm, Io!SetCsiDone, ExInv, UcTypeOK
  <2>2. ASSUME NEW r \in Request, Io!Handle(r)
        PROVE  <1>2
    BY <2>2 DEF ExInv, UcTypeOK, Io!Handle, Io!SetCsi, Io!GetCollect,
       Io!ForceDeaf, Io!CleanDeaf, Io!SetPhaseJumps, Io!ReadObjmem
  <2>3. QED
    BY <2>1, <2>2 DEF ArmIoctl
<1>3. QED
  BY <1>1, <1>2 DEF ExInv, UcTypeOK, Reception, FifoOK, ucOwn

\* It holds at first.
LEMMA InitExInv == Init => ExInv
<1> SUFFICES ASSUME Init PROVE ExInv
  OBVIOUS
<1>1. /\ Uc!UcInit(InitShm) /\ chanspec \in Chanspec /\ completed = Null
      /\ shm \in InitShm
  BY DEF Init, Fw!FwInit, Uc!UcInit
<1>2. /\ 0 \in 0..(Uc!NCORES - 1) /\ 0 \in 0..MaxFrames /\ 0 <= FifoDepth
      /\ 0 \in 0..3 /\ 0 \in 0..19 /\ 0 \in 0..1 /\ 0 \in Nat
  BY <1>1, ChunkCounts, BoundAssumption
<1>3. 0 \in 0..(Uc!WORD - 1)
  BY SMT DEF Uc!WORD
<1>4. UcTypeOK
  BY <1>1, <1>2, <1>3, ShmAssumption DEF Uc!UcInit, UcTypeOK
<1>5. Reception /\ FifoOK
  BY <1>1, <1>2 DEF Uc!UcInit, Reception, FifoOK, Uc!NoAir
<1>6. QED
  BY <1>4, <1>5 DEF ExInv

\* And every step keeps it.
LEMMA NextExInv == ExInv /\ [Next]_vars => ExInv'
<1> SUFFICES ASSUME ExInv, [Next]_vars PROVE ExInv'
  OBVIOUS
<1>1. CASE Microcode
  BY <1>1, MicrocodeKeeps, MicrocodeFifo DEF ExInv
<1>2. CASE OnAir \/ FrameEnds
  BY <1>2, OnAirKeeps
<1>3. CASE ArmReceive \/ ArmHook \/ Buffers
  BY <1>3, ArmKeeps
<1>4. CASE ArmIoctl \/ ArmIoctlStep
  BY <1>4, IoctlKeeps
<1>5. CASE UNCHANGED vars
  BY <1>5 DEF vars, ucOwn, ExInv, UcTypeOK, Reception, FifoOK
<1>6. QED
  BY <1>1, <1>2, <1>3, <1>4, <1>5 DEF Next

\* The invariant of the microcode, the radio and the FIFO.
THEOREM ExtractorInvariant == Spec => []ExInv
BY InitExInv, NextExInv, PTL DEF Spec

\* CsiUcode's extraction reads the frame that was just completed, with the
\* radio deaf, whatever else was received and given up before.
THEOREM ExtractsCompleted == Spec => []ExtractsCompletedFrame
<1>1. ExInv => ExtractsCompletedFrame
  BY DEF ExInv, Reception, ExtractsCompletedFrame, Extracting
<1>2. QED
  BY <1>1, ExtractorInvariant, PTL

\* Whatever the loop count, core and stream, the lengths csi_extractor.c
\* never checks are right.
THEOREM PacketsMeetAssumptions == Spec => []HookAssumptionsMet
<1>1. ExInv => HookAssumptionsMet
  BY DEF ExInv, FifoOK, HookAssumptionsMet, HookPacket
<1>2. QED
  BY <1>1, ExtractorInvariant, PTL

-----------------------------------------------------------------------------
\* The hook of CsiFirmwareProofs is that of the extractor.
LEMMA SameReads ==
    ASSUME NEW c
    PROVE  /\ FwP!IsNew(c) = Fw!IsNew(c)
           /\ FwP!Missing(c) = Fw!Missing(c)
           /\ FwP!CsiConf(c) = Fw!CsiConf(c)
           /\ FwP!IsPacket(c) = Fw!IsPacket(c)
           /\ FwP!TonesPerChunk = Fw!TonesPerChunk
BY DEF Fw!IsNew, FwP!IsNew, Fw!Missing, FwP!Missing, Fw!CsiConf, FwP!CsiConf,
   Fw!IsPacket, FwP!IsPacket, Fw!TonesPerChunk, FwP!TonesPerChunk,
   Fw!MaxCount, FwP!MaxCount, Fw!PhyWords, FwP!PhyWords

\* The hook's operators do not depend on which packets there are: reads.
LEMMA SameParts ==
    /\ Fw!Pool = FwP!Pool /\ Fw!Held = FwP!Held
    /\ Fw!MaxUint16 = FwP!MaxUint16
    /\ \A own, S, who : Fw!Give(own, S, who) = FwP!Give(own, S, who)
    /\ \A S : Fw!Allocatable(S) = FwP!Allocatable(S)
    /\ \A b, conf, n : Fw!NewUdp(b, conf, n) = FwP!NewUdp(b, conf, n)
    /\ \A udp, c : Fw!Filled(udp, c) = FwP!Filled(udp, c)
    /\ \A udp, c, n : Fw!Complete(udp, c, n) = FwP!Complete(udp, c, n)
BY DEF Fw!Pool, FwP!Pool, Fw!Held, FwP!Held, Fw!MaxUint16, FwP!MaxUint16,
   Fw!Give, FwP!Give, Fw!Allocatable, FwP!Allocatable, Fw!NewUdp,
   FwP!NewUdp, Fw!Filled, FwP!Filled, Fw!Complete, FwP!Complete

\* Storing a chunk is the same for both.
LEMMA SameInsert ==
    ASSUME NEW udp, NEW c, NEW missing, NEW inserted, NEW own,
           Fw!Insert(udp, c, missing, inserted, own)
    PROVE  FwP!Insert(udp, c, missing, inserted, own)
BY SameParts DEF Fw!Insert, FwP!Insert

\* And so is the hook as a whole.
LEMMA SameHook == Fw!process_frame_hook => FwP!process_frame_hook
<1> SUFFICES ASSUME Fw!process_frame_hook PROVE FwP!process_frame_hook
  OBVIOUS
<1> DEFINE c == rx.pkt
<1>1. rx # Null /\ rx' = Null
  BY DEF Fw!process_frame_hook
<1>2. CASE Fw!IsChunk(c) /\ Fw!NewChunk(c)
  <2>1. PICK b \in Fw!Allocatable(Fw!Pool \cup Fw!Held) :
          Fw!Insert(Fw!NewUdp(b, Fw!CsiConf(c), Fw!Missing(c) * Fw!TonesPerChunk),
                    c, Fw!Missing(c), 0,
                    Fw!Give(Fw!Give(owner, Fw!Held, "pool"), {b}, "fw"))
    BY <1>2 DEF Fw!NewChunk
  <2>2. FwP!Insert(Fw!NewUdp(b, Fw!CsiConf(c), Fw!Missing(c) * Fw!TonesPerChunk),
                   c, Fw!Missing(c), 0,
                   Fw!Give(Fw!Give(owner, Fw!Held, "pool"), {b}, "fw"))
    BY <2>1, SameInsert
  <2>3. FwP!Insert(FwP!NewUdp(b, FwP!CsiConf(c), FwP!Missing(c) * FwP!TonesPerChunk),
                   c, FwP!Missing(c), 0,
                   FwP!Give(FwP!Give(owner, FwP!Held, "pool"), {b}, "fw"))
    BY <2>2, SameParts, SameReads, Zenon
  <2>4. b \in FwP!Allocatable(FwP!Pool \cup FwP!Held)
    BY SameParts
  <2>5. FwP!NewChunk(c)
    BY <1>2, <2>3, <2>4, SameReads DEF Fw!NewChunk, FwP!NewChunk
  <2>6. QED
    BY <1>1, <1>2, <2>5 DEF FwP!process_frame_hook, Fw!IsChunk, FwP!IsChunk
<1>3. CASE Fw!IsChunk(c) /\ Fw!NextChunk(c)
  <2>1. FwP!NextChunk(c)
    BY <1>3, SameInsert, SameReads DEF Fw!NextChunk, FwP!NextChunk
  <2>2. QED
    BY <1>1, <1>3, <2>1 DEF FwP!process_frame_hook, Fw!IsChunk, FwP!IsChunk
<1>4. CASE Fw!IsChunk(c) /\ (\/ Fw!NewChunkNoBuffer(c) \/ Fw!StrayChunk(c)
                             \/ Fw!MismatchedChunk(c))
  <2>1. \/ FwP!NewChunkNoBuffer(c) \/ FwP!StrayChunk(c)
        \/ FwP!MismatchedChunk(c)
    BY <1>4, SameParts, SameReads DEF Fw!NewChunkNoBuffer, FwP!NewChunkNoBuffer,
       Fw!StrayChunk, FwP!StrayChunk, Fw!MismatchedChunk, FwP!MismatchedChunk
  <2>2. QED
    BY <1>1, <1>4, <2>1 DEF FwP!process_frame_hook, Fw!IsChunk, FwP!IsChunk
<1>5. CASE ~ Fw!IsChunk(c) /\ Fw!RegularFrame(c)
  BY <1>1, <1>5, SameParts DEF FwP!process_frame_hook, Fw!IsChunk,
     FwP!IsChunk, Fw!RegularFrame, FwP!RegularFrame
<1>6. QED
  BY <1>2, <1>3, <1>4, <1>5 DEF Fw!process_frame_hook

\* Taking a buffer and returning one, too.
LEMMA SameSurroundings ==
    /\ \A f : Fw!Receive(f) => FwP!Receive(f)
    /\ Fw!XmitDone => FwP!XmitDone
    /\ \A b : Fw!StackDone(b) => FwP!StackDone(b)
BY DEF Fw!Receive, FwP!Receive, Fw!XmitDone, FwP!XmitDone, Fw!StackDone,
   FwP!StackDone, Fw!Allocatable, FwP!Allocatable, Fw!Pool, FwP!Pool, Fw!Give,
   FwP!Give

\* The two initial states.
LEMMA HookInit == Init => FwP!FwInit
BY DEF Init, Fw!FwInit, FwP!FwInit

\* Every step of the extractor is a step of the hook, or leaves it alone.
LEMMA HookStep == ExInv /\ [Next]_vars => [FwP!FwNext]_FwP!fwVars
<1> SUFFICES ASSUME ExInv, [Next]_vars PROVE [FwP!FwNext]_FwP!fwVars
  OBVIOUS
<1>1. CASE Microcode \/ OnAir \/ FrameEnds \/ ArmIoctlStep
  BY <1>1 DEF Microcode, OnAir, FrameEnds, ArmIoctlStep, FwP!fwVars, fwOwn,
     Io!WriteShm, Io!SetCsiDone
<1>2. CASE ArmReceive
  <2>1. Head(fifo) \in HookPacket
    BY <1>2 DEF ArmReceive, ExInv, FifoOK
  <2>2. FwP!Receive(Head(fifo))
    BY <1>2, SameSurroundings DEF ArmReceive
  <2>3. QED
    BY <2>1, <2>2 DEF FwP!FwNext
<1>3. CASE ArmHook
  BY <1>3, SameHook DEF ArmHook, FwP!FwNext
<1>4. CASE Buffers
  BY <1>4, SameSurroundings DEF Buffers, FwP!FwNext
<1>5. CASE ArmIoctl
  <2>1. rx = Null /\ UNCHANGED fwOwn
    BY <1>5 DEF ArmIoctl
  <2>2. chanspec' \in Chanspec
    BY <1>5, IoctlKeeps DEF ExInv, UcTypeOK
  <2>3. FwP!set_chanspec(chanspec')
    BY <2>1 DEF fwOwn, FwP!set_chanspec
  <2>4. QED
    BY <2>2, <2>3 DEF FwP!FwNext
<1>6. CASE UNCHANGED vars
  BY <1>6 DEF vars, fwOwn, FwP!fwVars
<1>7. QED
  BY <1>1, <1>2, <1>3, <1>4, <1>5, <1>6 DEF Next

\* With the microcode in front of it, the hook runs as CsiFirmware says.
THEOREM RunsHook == Spec => FwP!FwSpec
<1>1. Init => FwP!FwInit
  BY HookInit
<1>2. ExInv /\ [Next]_vars => [FwP!FwNext]_FwP!fwVars
  BY HookStep
<1>3. QED
  BY <1>1, <1>2, ExtractorInvariant, PTL DEF Spec, FwP!FwSpec

\* So the hook's invariant holds behind the microcode: one owner for every
\* buffer, no write out of bounds, blocks in place.
THEOREM HookHolds == Spec => []FwP!FwIInv
<1>1. Chip \in {"bcm4339", "bcm43455c0", "bcm4358", "bcm4366c0"}
  BY ChipAssumption
<1>2. BwCode \in [Chanspec -> 0..7]
  BY ChipAssumption
<1>3. HeapFails \in BOOLEAN /\ AnyBuffer \in BOOLEAN
  BY HeapAssumption
<1>4. \A f \in HookPacket : FwP!IsPacket(f)
  BY SameReads DEF HookPacket
<1>5. Null \notin FwP!UdpFrame /\ Null \notin FwP!Received
  <2>1. /\ FwP!UdpFrame \subseteq Fw!UdpFrame
        /\ FwP!Received \subseteq Fw!Received
    BY DEF FwP!UdpFrame, Fw!UdpFrame, FwP!Received, Fw!Received, HookPacket
  <2>2. QED
    BY <2>1, NullAssumption
<1>6. FwP!FwSpec => []FwP!FwIInv
  BY ONLY <1>1, <1>2, <1>3, <1>4, <1>5, FwP!HookInvariant
<1>7. QED
  BY <1>6, RunsHook, PTL

-----------------------------------------------------------------------------
\* The hook's types are the extractor's, with fewer packets.
LEMMA HookTypesAgree == FwP!FwTypeOK => Fw!FwTypeOK
<1> SUFFICES ASSUME FwP!FwTypeOK PROVE Fw!FwTypeOK
  OBVIOUS
<1>1. HookPacket \subseteq AnyPacket
  BY DEF HookPacket
<1>2. /\ FwP!UdpFrame \subseteq Fw!UdpFrame
      /\ FwP!Received \subseteq Fw!Received
  BY <1>1 DEF FwP!UdpFrame, Fw!UdpFrame, FwP!Received, Fw!Received
<1>3. out \in Seq(Fw!UdpFrame)
  BY <1>2 DEF FwP!FwTypeOK
<1>4. /\ rx \in Fw!Received \cup {Null}
      /\ p_csi \in Fw!UdpFrame \cup {Null}
  BY <1>2 DEF FwP!FwTypeOK
<1>5. missing_csi_frames \in 0..Fw!MaxUint16
  <2>1. missing_csi_frames \in 0..FwP!MaxUint16
    BY DEF FwP!FwTypeOK
  <2>2. FwP!MaxUint16 = Fw!MaxUint16
    BY DEF Fw!MaxUint16, FwP!MaxUint16
  <2>3. QED
    BY ONLY <2>1, <2>2
<1>6. QED
  BY <1>3, <1>4, <1>5 DEF FwP!FwTypeOK, Fw!FwTypeOK

\* Every variable of the extractor has its type.
THEOREM TypeCorrect == Spec => []TypeOK
<1>1. ExInv /\ FwP!FwIInv => TypeOK
  BY HookTypesAgree DEF ExInv, UcTypeOK, FifoOK, FwP!FwIInv, TypeOK
<1>2. QED
  BY <1>1, ExtractorInvariant, HookHolds, PTL

-----------------------------------------------------------------------------
\* The position after the last chunk of the measurement of a.
EndOf(a) == a.pos + Fw!Missing(a)

\* Chunk a was pushed before chunk b.
Before(a, b) ==
    (a.kind = "csi" /\ b.kind = "csi") =>
        \/ SameMeasurement(a, b)
        \/ EndOf(b) >= EndOf(a) + Uc!CHUNKS(b.chan)

\* Chunk a was pushed some time ago.
ToCome == IF pc = "push" THEN left ELSE 0
Past(a) ==
    a.kind = "csi" =>
        /\ EndOf(a) <= emitted + 1 + ToCome
        /\ pc = "push" =>
              \/ a.id = lastrx /\ a.core = core /\ a.nss = txstream
              \/ emitted + 1 + left >= EndOf(a) + Uc!CHUNKS(RXCHAN)

\* The packets that have left the FIFO and are still used.
LastBlock(u) == u.blocks[Len(u.blocks)]
InHand == IF rx = Null THEN {} ELSE {rx.pkt}
Assembled == IF p_csi = Null THEN {} ELSE {LastBlock(p_csi)}

Chained(bs) ==
    /\ \A k \in 1..Len(bs) : bs[k].kind = "csi"
    /\ \A k \in 2..Len(bs) :
          \/ SameMeasurement(bs[k - 1], bs[k])
          \/ bs[k].pos - bs[k - 1].pos > Uc!CHUNKS(bs[k].chan)

Queue == {fifo[i] : i \in 1..Len(fifo)}

OrderInv ==
    /\ \A a \in Queue \cup InHand \cup Assembled : Past(a)
    /\ \A i, j \in 1..Len(fifo) : i < j => Before(fifo[i], fifo[j])
    /\ \A a \in InHand \cup Assembled, b \in Queue : Before(a, b)
    /\ \A a \in Assembled, b \in InHand : Before(a, b)
    /\ p_csi # Null => Chained(p_csi.blocks)

\* The numbers in a chunk are natural numbers.
LEMMA PacketNumbers ==
    ASSUME NEW a \in HookPacket, a.kind = "csi"
    PROVE  /\ a.pos \in Nat /\ Fw!Missing(a) \in Nat /\ EndOf(a) \in Nat
           /\ a.chan \in Chanspec
<1>1. a.pos \in Nat /\ a.cfg \in Nat /\ a.chan \in Chanspec
  BY DEF HookPacket, AnyPacket
<1>2. Fw!Missing(a) \in Nat
  BY <1>1 DEF Fw!Missing
<1>3. QED
  BY <1>1, <1>2 DEF EndOf

\* A chunk that was pushed some time ago stays so: the microcode either
\* pushes the next one of it or starts with a full count.
LEMMA PastKept ==
    ASSUME ExInv, [Next]_vars, NEW a \in HookPacket, Past(a)
    PROVE  Past(a)'
<1> SUFFICES ASSUME a.kind = "csi" PROVE Past(a)'
  BY DEF Past
<1>1. /\ EndOf(a) \in Nat /\ emitted \in Nat /\ left \in Nat
      /\ EndOf(a) <= emitted + 1 + ToCome
      /\ EndOf(a)' = EndOf(a)
  BY PacketNumbers DEF ExInv, UcTypeOK, Past, EndOf, Fw!Missing
<1>2. CASE pc # "push" /\ pc' # "push" /\ emitted' = emitted
  BY <1>1, <1>2 DEF Past, ToCome
<1>3. CASE UNCHANGED <<pc, left, emitted, lastrx, core, txstream, RXCHAN>>
  BY <1>1, <1>3 DEF Past, ToCome, Uc!CHUNKS
<1>4. CASE Microcode /\ Uc!SelectCore /\ pc' = "push"
  <2>1. /\ pc = "mask" /\ emitted' = emitted /\ RXCHAN' = RXCHAN
        /\ left' = Uc!CHUNKS(RXCHAN) /\ Uc!CHUNKS(RXCHAN) \in Nat
    BY <1>4, ChunkCounts DEF Uc!SelectCore, ExInv, Reception, Uc!Advance
  <2>2. Uc!CHUNKS(RXCHAN)' = Uc!CHUNKS(RXCHAN)
    BY <2>1 DEF Uc!CHUNKS
  <2>3. QED
    BY <1>1, <1>4, <2>1, <2>2 DEF Past, ToCome
<1>5. CASE Microcode /\ Uc!PushChunk
  <2>1. /\ pc = "push" /\ emitted' = emitted + 1 /\ left' = left - 1
        /\ left \in 1..Uc!CHUNKS(RXCHAN) /\ RXCHAN' = RXCHAN
        /\ lastrx' = lastrx /\ Uc!CHUNKS(RXCHAN) \in Nat
    BY <1>5, ChunkCounts DEF Uc!PushChunk, ExInv, Reception
  <2>2. Uc!CHUNKS(RXCHAN)' = Uc!CHUNKS(RXCHAN)
    BY <2>1 DEF Uc!CHUNKS
  <2>3. CASE left = 1
    <3>1. pc' # "push"
      BY <1>5, <2>3, AdvanceKeeps DEF Uc!PushChunk, ExInv
    <3>2. QED
      BY <1>1, <2>1, <2>3, <3>1 DEF Past, ToCome
  <2>4. CASE left # 1
    <3>1. UNCHANGED <<pc, core, txstream>>
      BY <1>5, <2>4 DEF Uc!PushChunk
    <3>2. QED
      BY <1>1, <2>1, <2>2, <2>4, <3>1 DEF Past, ToCome
  <2>5. QED
    BY <2>3, <2>4
<1>6. CASE Microcode /\ ~ Uc!PushChunk /\ ~ (Uc!SelectCore /\ pc' = "push")
  <2>1. Uc!Select => pc # "push" /\ pc' # "push" /\ emitted' = emitted
    BY <1>6, AdvanceKeeps DEF ExInv, Uc!Select, Uc!SelectStream, Uc!SelectCore
  <2>2. QED
    BY <1>2, <1>6, <2>1 DEF Microcode, Uc!Microcode, Uc!PollForce,
       Uc!PollClean, Uc!NoEvent, Uc!RxPlcp, Uc!RxHeader, Uc!RxAddress,
       Uc!RxMacs, Uc!RxMacLoop, Uc!RxMacSlot, Uc!SelectFrame, Uc!RxComplete,
       Uc!RxCompleteDump, Uc!Finish, Uc!CsiEnd
<1>7. CASE OnAir \/ FrameEnds
  BY <1>2, <1>3, <1>7 DEF OnAir, FrameEnds, Uc!Detect, Uc!AirAbort, Uc!AirEnd,
     Uc!loopVars
<1>8. CASE ArmReceive \/ ArmHook \/ Buffers \/ ArmIoctl \/ ArmIoctlStep
  BY <1>3, <1>8 DEF ArmReceive, ArmHook, Buffers, ArmIoctl, ArmIoctlStep, ucOwn
<1>9. CASE UNCHANGED vars
  BY <1>3, <1>9 DEF vars, ucOwn
<1>10. QED
  BY <1>4, <1>5, <1>6, <1>7, <1>8, <1>9 DEF Next

\* What is in hand and under construction is made of the microcode's packets.
LEMMA HandFacts ==
    ASSUME FwP!FwIInv
    PROVE  /\ InHand \subseteq HookPacket /\ Assembled \subseteq HookPacket
           /\ p_csi # Null => /\ p_csi \in FwP!UdpFrame
                              /\ p_csi.blocks \in Seq(HookPacket)
                              /\ Len(p_csi.blocks) \in Nat
                              /\ Len(p_csi.blocks) >= 1
           /\ rx # Null => rx \in FwP!Received
<1>1. rx # Null => rx \in FwP!Received /\ rx.pkt \in HookPacket
  BY DEF FwP!FwIInv, FwP!FwTypeOK, FwP!Received
<1>2. p_csi # Null => /\ p_csi \in FwP!UdpFrame
                      /\ p_csi.blocks \in Seq(HookPacket)
                      /\ Len(p_csi.blocks) >= 1
  BY DEF FwP!FwIInv, FwP!FwTypeOK, FwP!UdpFrame, FwP!ConstructionOK
<1>3. p_csi # Null => LastBlock(p_csi) \in HookPacket
  BY <1>2 DEF LastBlock
<1>4. QED
  BY <1>1, <1>2, <1>3 DEF InHand, Assembled

\* The FIFO keeps its order when it takes a packet, or does not.
LEMMA FifoGrows ==
    ASSUME ExInv, FwP!FwIInv, OrderInv, [Next]_vars,
           UNCHANGED <<rx, p_csi>>,
           NEW x \in HookPacket, fifo' \in {fifo, Append(fifo, x)},
           x.kind = "csi" => Past(x)',
           \A a \in HookPacket : Past(a) => Before(a, x)
    PROVE  OrderInv'
<1>1. fifo \in Seq(HookPacket)
  BY DEF ExInv, FifoOK
<1>2. /\ InHand' = InHand /\ Assembled' = Assembled
      /\ InHand \cup Assembled \subseteq HookPacket
  BY HandFacts DEF InHand, Assembled
<1>3. Queue \subseteq HookPacket
  BY <1>1 DEF Queue
<1>4. Queue' \subseteq Queue \cup {x}
  BY <1>1 DEF Queue
<1>5. \A a \in (Queue \cup InHand \cup Assembled)' : Past(a)'
  <2>1. TAKE a \in (Queue \cup InHand \cup Assembled)'
  <2>2. CASE a = x
    BY <2>2 DEF Past
  <2>3. CASE a # x
    BY <1>2, <1>3, <1>4, <2>1, <2>3, PastKept DEF OrderInv
  <2>4. QED
    BY <2>2, <2>3
<1>6. \A i, j \in 1..Len(fifo') : i < j => Before(fifo'[i], fifo'[j])
  <2>1. CASE fifo' = fifo
    BY <2>1 DEF OrderInv
  <2>2. CASE fifo' = Append(fifo, x)
    <3> DEFINE n == Len(fifo)
    <3>1. /\ n \in Nat /\ Len(fifo') = n + 1 /\ fifo'[n + 1] = x
          /\ \A i \in 1..n : fifo'[i] = fifo[i] /\ fifo[i] \in HookPacket
      BY <1>1, <2>2
    <3>2. \A i \in 1..n : Before(fifo[i], x)
      BY <3>1 DEF OrderInv, Queue
    <3>3. \A i, j \in 1..n : i < j => Before(fifo[i], fifo[j])
      BY DEF OrderInv
    <3> HIDE DEF n
    <3>4. SUFFICES ASSUME NEW i \in 1..(n + 1), NEW j \in 1..(n + 1), i < j
                   PROVE  Before(fifo'[i], fifo'[j])
      BY <3>1
    <3>5. i \in 1..n
      BY <3>1, <3>4
    <3>6. CASE j = n + 1
      BY <3>1, <3>2, <3>5, <3>6
    <3>7. CASE j \in 1..n
      BY <3>1, <3>3, <3>4, <3>5, <3>7
    <3>8. QED
      BY <3>1, <3>6, <3>7
  <2>3. QED
    BY <2>1, <2>2
<1>7. \A a \in (InHand \cup Assembled)', b \in Queue' : Before(a, b)
  BY <1>2, <1>4 DEF OrderInv
<1>8. \A a \in Assembled', b \in InHand' : Before(a, b)
  BY <1>2 DEF OrderInv
<1>9. p_csi' # Null => Chained(p_csi'.blocks)
  BY DEF OrderInv
<1>10. QED
  BY <1>5, <1>6, <1>7, <1>8, <1>9 DEF OrderInv, Before, SameMeasurement,
     EndOf, Chained

\* A step that touches none of these packets.
LEMMA OrderStays ==
    ASSUME ExInv, FwP!FwIInv, OrderInv, [Next]_vars,
           UNCHANGED <<fifo, rx, p_csi>>
    PROVE  OrderInv'
<1>1. /\ Queue' = Queue /\ InHand' = InHand /\ Assembled' = Assembled
      /\ Queue \cup InHand \cup Assembled \subseteq HookPacket
  BY HandFacts DEF Queue, InHand, Assembled, ExInv, FifoOK
<1>2. \A a \in (Queue \cup InHand \cup Assembled)' : Past(a)'
  BY <1>1, PastKept DEF OrderInv
<1>3. QED
  BY <1>1, <1>2 DEF OrderInv, Before, SameMeasurement, EndOf, Chained

\* A chunk that has just been pushed is not yet overtaken, and every chunk
\* before it is of its measurement or ended at least that many chunks ago.
LEMMA PushedChunk ==
    ASSUME ExInv, Microcode, Uc!PushChunk, NEW x \in HookPacket,
           x.kind = "csi", Fw!Missing(x) = left, x.pos = emitted + 1,
           x.id = lastrx, x.core = core, x.nss = txstream, x.chan = RXCHAN
    PROVE  /\ Past(x)'
           /\ \A a \in HookPacket : Past(a) => Before(a, x)
<1>1. /\ emitted \in Nat /\ left \in 1..Uc!CHUNKS(RXCHAN) /\ pc = "push"
      /\ emitted' = emitted + 1 /\ left' = left - 1
      /\ RXCHAN' = RXCHAN /\ RXCHAN \in Chanspec /\ lastrx' = lastrx
      /\ Uc!CHUNKS(RXCHAN) \in Nat /\ left \in Nat
  BY ChunkCounts DEF Uc!PushChunk, ExInv, UcTypeOK, Reception
<1>2. EndOf(x) = emitted + 1 + left /\ EndOf(x)' = EndOf(x)
  BY DEF EndOf, Fw!Missing
<1>3. Past(x)'
  <2>1. CASE left = 1
    <3>1. pc' # "push"
      BY <2>1, AdvanceKeeps DEF Uc!PushChunk, ExInv
    <3>2. QED
      BY <1>1, <1>2, <2>1, <3>1 DEF Past, ToCome
  <2>2. CASE left # 1
    <3>1. UNCHANGED <<pc, core, txstream>>
      BY <2>2 DEF Uc!PushChunk
    <3>2. QED
      BY <1>1, <1>2, <2>2, <3>1 DEF Past, ToCome
  <2>3. QED
    BY <2>1, <2>2
<1>4. ASSUME NEW a \in HookPacket, Past(a)
      PROVE  Before(a, x)
  BY <1>1, <1>2, <1>4 DEF Past, Before, SameMeasurement
<1>5. QED
  BY <1>3, <1>4

\* The microcode pushes at the end.
LEMMA MicrocodeOrder ==
    ASSUME ExInv, FwP!FwIInv, OrderInv, Microcode
    PROVE  OrderInv'
<1>1. UNCHANGED <<rx, p_csi>> /\ [Next]_vars
  BY DEF Microcode, Next, fwOwn
<1>2. CASE Uc!RxComplete \/ Uc!RxCompleteDump
  <2> DEFINE f == [kind |-> "frame", id |-> lastrx]
  <2>1. lastrx \in Frame
    BY <1>2 DEF ExInv, Reception, Uc!RxComplete, Uc!RxCompleteDump
  <2>2. f \in HookPacket /\ f.kind = "frame"
    BY <2>1, FrameIsPacket
  <2>3. fifo' \in {fifo, Append(fifo, f)}
    BY <1>2 DEF Uc!RxComplete, Uc!RxCompleteDump, Uc!Push
  <2> HIDE DEF f
  <2>4. \A a \in HookPacket : Before(a, f)
    BY <2>2 DEF Before
  <2>5. QED
    BY <1>1, <2>2, <2>3, <2>4, FifoGrows
<1>3. CASE Uc!PushChunk
  <2>1. CASE Chip = "bcm4366c0"
    <3> DEFINE x == Uc!Chunk4366
    <3>1. /\ x \in HookPacket /\ Fw!Missing(x) = left
      BY <1>3, <2>1, Chunk4366IsPacket DEF ExInv, Uc!PushChunk
    <3>2. /\ x.kind = "csi" /\ x.pos = emitted + 1 /\ x.id = lastrx
          /\ x.core = core /\ x.nss = txstream /\ x.chan = RXCHAN
      BY DEF Uc!Chunk4366
    <3>3. fifo' \in {fifo, Append(fifo, x)}
      BY <1>3, <2>1 DEF Uc!PushChunk, Uc!Push
    <3> HIDE DEF x
    <3>4. QED
      BY <1>1, <1>3, <3>1, <3>2, <3>3, PushedChunk, FifoGrows
  <2>2. CASE Chip # "bcm4366c0"
    <3> DEFINE x == Uc!Chunk
    <3>1. /\ x \in HookPacket /\ Fw!Missing(x) = left
      BY <1>3, <2>2, ChunkIsPacket DEF ExInv, Uc!PushChunk
    <3>2. /\ x.kind = "csi" /\ x.pos = emitted + 1 /\ x.id = lastrx
          /\ x.core = core /\ x.nss = txstream /\ x.chan = RXCHAN
      BY DEF Uc!Chunk
    <3>3. fifo' \in {fifo, Append(fifo, x)}
      BY <1>3, <2>2 DEF Uc!PushChunk, Uc!Push
    <3> HIDE DEF x
    <3>4. QED
      BY <1>1, <1>3, <3>1, <3>2, <3>3, PushedChunk, FifoGrows
  <2>3. QED
    BY <2>1, <2>2
<1>4. CASE ~ (Uc!RxComplete \/ Uc!RxCompleteDump \/ Uc!PushChunk)
  <2>1. fifo' = fifo
    BY <1>4 DEF Microcode, Uc!Microcode, Uc!PollForce, Uc!PollClean,
       Uc!NoEvent, Uc!RxPlcp, Uc!RxHeader, Uc!RxAddress, Uc!RxMacs,
       Uc!RxMacLoop, Uc!RxMacSlot, Uc!SelectFrame, Uc!Select, Uc!SelectStream,
       Uc!SelectCore, Uc!Finish, Uc!CsiEnd
  <2>2. QED
    BY <1>1, <2>1, OrderStays
<1>5. QED
  BY <1>2, <1>3, <1>4

\* The ARM core takes the oldest packet.
LEMMA ReceiveOrder ==
    ASSUME ExInv, FwP!FwIInv, OrderInv, ArmReceive
    PROVE  OrderInv'
<1>1. /\ fifo \in Seq(HookPacket) /\ fifo # <<>> /\ fifo' = Tail(fifo)
      /\ [Next]_vars
  BY DEF ExInv, FifoOK, ArmReceive, Next
<1>2. /\ rx = Null /\ rx' # Null /\ rx'.pkt = Head(fifo) /\ p_csi' = p_csi
  <2>1. PICK b \in Buf : rx' = [buf |-> b, pkt |-> Head(fifo)]
    BY DEF ArmReceive, Fw!Receive, Fw!Allocatable, Fw!Pool
  <2>2. HookPacket \subseteq AnyPacket /\ Head(fifo) \in HookPacket
    BY <1>1 DEF HookPacket
  <2>3. rx' \in Fw!Received
    BY <2>1, <2>2 DEF Fw!Received
  <2>4. rx' # Null
    BY <2>3, NullAssumption
  <2>5. QED
    BY <2>1, <2>4 DEF ArmReceive, Fw!Receive
<1>3. /\ InHand' = {fifo[1]} /\ Assembled' = Assembled /\ InHand = {}
      /\ Assembled \subseteq HookPacket
  BY <1>1, <1>2, HandFacts DEF InHand, Assembled
<1>4. /\ Len(fifo) \in Nat /\ Len(fifo) >= 1 /\ Len(fifo') = Len(fifo) - 1
      /\ \A i \in 1..Len(fifo') : fifo'[i] = fifo[i + 1]
  BY <1>1
<1>5. /\ fifo[1] \in Queue
      /\ Queue' \subseteq {fifo[i] : i \in 2..Len(fifo)}
      /\ Queue' \subseteq Queue /\ Queue \subseteq HookPacket
  <2>1. Queue \subseteq HookPacket
    BY <1>1 DEF Queue
  <2>2. \A i \in 1..Len(fifo') : i + 1 \in 2..Len(fifo)
    BY <1>4
  <2>3. QED
    BY <1>4, <2>1, <2>2 DEF Queue
<1>6. \A a \in (Queue \cup InHand \cup Assembled)' : Past(a)'
  BY <1>1, <1>3, <1>5, PastKept DEF OrderInv
<1>7. \A i, j \in 1..Len(fifo') : i < j => Before(fifo'[i], fifo'[j])
  <2>1. \A i \in 1..Len(fifo') : i + 1 \in 1..Len(fifo)
    BY <1>4
  <2>2. SUFFICES ASSUME NEW i \in 1..Len(fifo'), NEW j \in 1..Len(fifo'),
                        i < j
                 PROVE  Before(fifo[i + 1], fifo[j + 1])
    BY <1>4
  <2>3. i + 1 < j + 1
    BY <2>2
  <2>4. QED
    BY <2>1, <2>3 DEF OrderInv
<1>8. \A b \in Queue' : Before(fifo[1], b)
  <2>1. \A i \in 2..Len(fifo) : Before(fifo[1], fifo[i])
    BY <1>4 DEF OrderInv
  <2>2. QED
    BY <1>5, <2>1
<1>9. \A a \in (InHand \cup Assembled)', b \in Queue' : Before(a, b)
  BY <1>3, <1>5, <1>8 DEF OrderInv
<1>10. \A a \in Assembled', b \in InHand' : Before(a, b)
  BY <1>3, <1>5 DEF OrderInv
<1>11. p_csi' # Null => Chained(p_csi'.blocks)
  BY <1>2 DEF OrderInv
<1>12. QED
  BY <1>6, <1>7, <1>9, <1>10, <1>11 DEF OrderInv, Before, SameMeasurement,
     EndOf, Chained

-----------------------------------------------------------------------------
\* What Insert does with chunk c and the blocks bs of a UDP frame, when
\* n chunks, c included, are missing.
Inserted(bs, c, n) ==
    \/ /\ n # 1
       /\ p_csi'.blocks = Append(bs, c)
       /\ out' = out
    \/ /\ n = 1
       /\ p_csi' = Null
       /\ \E u : /\ u.blocks = Append(bs, c)
                 /\ u.src = c.src
                 /\ Chip # "bcm4366c0" => u.fc = c.fc
                 /\ out' = Append(out, u)

\* Storing a chunk has one of two outcomes.
LEMMA InsertOutcome ==
    ASSUME NEW udp \in Fw!UdpFrame, NEW c \in HookPacket, NEW n \in 1..255,
           NEW inserted, NEW own, Fw!Insert(udp, c, n, inserted, own)
    PROVE  Inserted(udp.blocks, c, n)
<1>0. Fw!Insert(udp, c, n, inserted, own)
  OBVIOUS
<1>1. missing_csi_frames' = n - 1
  <2>1. missing_csi_frames' = IF n = 0 THEN Fw!MaxUint16 ELSE n - 1
    BY ONLY <1>0 DEF Fw!Insert
  <2>2. QED
    BY <2>1
<1>2. Fw!Filled(udp, c).blocks = Append(udp.blocks, c)
  BY DEF Fw!Filled, Fw!UdpFrame
<1>3. CASE n # 1
  <2>1. p_csi' = Fw!Filled(udp, c) /\ out' = out
    BY <1>1, <1>3 DEF Fw!Insert
  <2>2. QED
    BY <1>2, <1>3, <2>1 DEF Inserted
<1>4. CASE n = 1
  <2> DEFINE u == Fw!Complete(udp, c, inserted)
  <2>1. out' = Append(out, u) /\ p_csi' = Null
    BY <1>1, <1>4 DEF Fw!Insert
  <2>2. /\ u.blocks = Append(udp.blocks, c) /\ u.src = c.src
        /\ Chip # "bcm4366c0" => u.fc = c.fc
    BY DEF Fw!Complete, Fw!Filled, Fw!UdpFrame
  <2> HIDE DEF u
  <2>3. QED
    BY <1>4, <2>1, <2>2 DEF Inserted
<1>5. QED
  BY <1>3, <1>4

\* A step of the hook drops the UDP frame under construction or leaves it
\* alone, or adds the chunk to an empty frame or to the one that waits for it.
LEMMA HookOutcome ==
    ASSUME FwP!FwIInv, ArmHook
    PROVE  \/ p_csi' \in {p_csi, Null} /\ out' = out
           \/ /\ rx.pkt.kind = "csi" /\ rx.pkt \in HookPacket
              /\ \/ Inserted(<<>>, rx.pkt, Fw!Missing(rx.pkt))
                 \/ /\ p_csi # Null
                    /\ Fw!Missing(rx.pkt) = missing_csi_frames
                    /\ Inserted(p_csi.blocks, rx.pkt, Fw!Missing(rx.pkt))
<1> DEFINE c == rx.pkt
<1>1. /\ FwP!FwTypeOK /\ Fw!FwTypeOK
      /\ rx # Null /\ rx.pkt \in HookPacket
  BY HookTypesAgree, HandFacts DEF FwP!FwIInv, ArmHook,
     Fw!process_frame_hook, FwP!Received
<1>2. CASE Fw!IsChunk(c) /\ Fw!NewChunk(c)
  <2>1. c.kind = "csi" /\ Fw!Missing(c) \in 1..255 /\ Fw!CsiConf(c) \in Nat
    BY <1>1, <1>2 DEF Fw!IsChunk, HookPacket, Fw!IsPacket, Fw!MaxCount
  <2>2. Fw!TonesPerChunk \in Nat
    BY DEF Fw!TonesPerChunk
  <2> DEFINE m == Fw!Missing(c)
             words == m * Fw!TonesPerChunk
  <2>3. PICK b \in Buf :
          Fw!Insert(Fw!NewUdp(b, Fw!CsiConf(c), words), c, m, 0,
                    Fw!Give(Fw!Give(owner, Fw!Held, "pool"), {b}, "fw"))
    BY <1>1, <1>2 DEF Fw!NewChunk, Fw!Allocatable, Fw!Pool, Fw!Held,
       Fw!FwTypeOK, Fw!UdpFrame
  <2>4. words \in Nat
    BY <2>1, <2>2
  <2>5. m \in 1..255
    BY <2>1
  <2> HIDE DEF words, m
  <2> DEFINE udp == Fw!NewUdp(b, Fw!CsiConf(c), words)
  <2>6. udp \in Fw!UdpFrame /\ udp.blocks = <<>>
    BY <1>1, <2>1, <2>4 DEF Fw!NewUdp, Fw!UdpFrame, Fw!FwTypeOK
  <2> HIDE DEF udp
  <2>7. Inserted(udp.blocks, c, m)
    BY <1>1, <2>3, <2>5, <2>6, InsertOutcome DEF udp
  <2>8. QED
    BY <1>1, <2>1, <2>6, <2>7 DEF m
<1>3. CASE Fw!IsChunk(c) /\ Fw!NextChunk(c)
  <2>1. /\ c.kind = "csi" /\ Fw!Missing(c) \in 1..255
        /\ Fw!Missing(c) = missing_csi_frames /\ p_csi # Null
        /\ Fw!Insert(p_csi, c, missing_csi_frames, inserted_csi_values, owner)
    BY <1>1, <1>3 DEF Fw!IsChunk, Fw!NextChunk, HookPacket, Fw!IsPacket,
       Fw!MaxCount
  <2>2. p_csi \in Fw!UdpFrame
    BY <1>1, <2>1 DEF Fw!FwTypeOK
  <2>3. Inserted(p_csi.blocks, c, Fw!Missing(c))
    BY <1>1, <2>1, <2>2, InsertOutcome
  <2>4. QED
    BY <1>1, <2>1, <2>3
<1>4. CASE ~ (Fw!IsChunk(c) /\ (Fw!NewChunk(c) \/ Fw!NextChunk(c)))
  BY <1>4 DEF ArmHook, Fw!process_frame_hook, Fw!NewChunkNoBuffer,
     Fw!StrayChunk, Fw!MismatchedChunk, Fw!RegularFrame
<1>5. QED
  BY <1>2, <1>3, <1>4

\* The blocks stay in order when a chunk is added.
LEMMA ChainGrows ==
    ASSUME NEW bs \in Seq(HookPacket), NEW c \in HookPacket, c.kind = "csi",
           Chained(bs),
           bs # <<>> => /\ Before(bs[Len(bs)], c)
                        /\ Fw!Missing(bs[Len(bs)]) = Fw!Missing(c) + 1
    PROVE  Chained(Append(bs, c))
<1> DEFINE n == Len(bs)
           cs == Append(bs, c)
<1>1. /\ n \in Nat /\ Len(cs) = n + 1 /\ cs[n + 1] = c
      /\ \A k \in 1..n : cs[k] = bs[k] /\ bs[k] \in HookPacket
  OBVIOUS
<1>2. /\ \A k \in 1..n : bs[k].kind = "csi"
      /\ \A k \in 2..n : \/ SameMeasurement(bs[k - 1], bs[k])
                         \/ bs[k].pos - bs[k - 1].pos > Uc!CHUNKS(bs[k].chan)
  BY DEF Chained
<1>3. bs # <<>> => n >= 1 /\ Before(bs[n], c)
                   /\ Fw!Missing(bs[n]) = Fw!Missing(c) + 1
  BY <1>1
<1>4. bs = <<>> => n = 0
  OBVIOUS
<1> HIDE DEF n, cs
<1>5. \A k \in 1..(n + 1) : cs[k].kind = "csi"
  <2>1. TAKE k \in 1..(n + 1)
  <2>2. k \in 1..n \/ k = n + 1
    BY <1>1
  <2>3. QED
    BY <1>1, <1>2, <2>2
<1>6. \A k \in 2..(n + 1) :
        \/ SameMeasurement(cs[k - 1], cs[k])
        \/ cs[k].pos - cs[k - 1].pos > Uc!CHUNKS(cs[k].chan)
  <2>1. SUFFICES ASSUME NEW k \in 2..(n + 1)
                 PROVE  \/ SameMeasurement(cs[k - 1], cs[k])
                        \/ cs[k].pos - cs[k - 1].pos > Uc!CHUNKS(cs[k].chan)
    OBVIOUS
  <2>2. CASE k \in 2..n
    BY <1>1, <1>2, <2>2
  <2>3. CASE k = n + 1
    <3> DEFINE a == bs[n]
    <3>1. n >= 1 /\ n \in 1..n /\ cs[k - 1] = bs[n] /\ cs[k] = c
      BY <1>1, <2>1, <2>3
    <3>2. a \in HookPacket /\ a.kind = "csi" /\ Before(a, c)
          /\ Fw!Missing(a) = Fw!Missing(c) + 1
      BY <1>1, <1>2, <1>3, <1>4, <3>1
    <3>3. cs[k - 1] = a /\ cs[k] = c
      BY <3>1
    <3> HIDE DEF a
    <3>4. /\ a.pos \in Nat /\ Fw!Missing(a) \in Nat /\ c.pos \in Nat
          /\ Fw!Missing(c) \in Nat /\ c.chan \in Chanspec
      BY <3>2, PacketNumbers
    <3>5. Uc!CHUNKS(c.chan) \in Nat
      <4>1. Uc!CHUNKS(c.chan) \in 4..19
        BY ONLY <3>4, ChunkCounts
      <4>2. QED
        BY ONLY <4>1
    <3>6. SameMeasurement(a, c) \/ c.pos - a.pos > Uc!CHUNKS(c.chan)
      <4>1. \/ SameMeasurement(a, c)
            \/ EndOf(c) >= EndOf(a) + Uc!CHUNKS(c.chan)
        BY <3>2 DEF Before
      <4>2. /\ EndOf(c) = c.pos + Fw!Missing(c)
            /\ EndOf(a) = a.pos + (Fw!Missing(c) + 1)
        BY <3>2 DEF EndOf
      <4>3. QED
        BY ONLY <3>4, <3>5, <4>1, <4>2
    <3>7. QED
      BY <3>3, <3>6
  <2>4. QED
    BY <1>1, <2>1, <2>2, <2>3
<1>7. QED
  BY <1>1, <1>5, <1>6 DEF Chained, cs

\* The chunk the hook is called with fits behind what has been assembled.
LEMMA HandFollows ==
    ASSUME FwP!FwIInv, OrderInv, rx # Null, p_csi # Null,
           rx.pkt.kind = "csi", Fw!Missing(rx.pkt) = missing_csi_frames
    PROVE  Chained(Append(p_csi.blocks, rx.pkt))
<1> DEFINE bs == p_csi.blocks
           a == bs[Len(bs)]
<1>1. /\ bs \in Seq(HookPacket) /\ Len(bs) \in Nat /\ Len(bs) >= 1
      /\ rx.pkt \in HookPacket
  BY HandFacts DEF FwP!Received
<1>2. a \in HookPacket /\ a = LastBlock(p_csi)
  BY <1>1 DEF LastBlock
<1>3. Chained(bs) /\ Before(a, rx.pkt)
  BY <1>2 DEF OrderInv, InHand, Assembled
<1>4. Fw!Missing(a) = Fw!Missing(rx.pkt) + 1
  <2> DEFINE n == Len(bs)
             m == missing_csi_frames
  <2>1. FwP!ConstructionOK /\ p_csi # Null
    BY DEF FwP!FwIInv
  <2>2. m \in 1..FwP!MaxCount
    BY ONLY <2>1 DEF FwP!ConstructionOK
  <2>3. \A k \in 1..n : FwP!Missing(bs[k]) = n + m + 1 - k
    BY ONLY <2>1, Zenon DEF FwP!ConstructionOK
  <2>4. m \in Nat
    BY ONLY <2>2 DEF FwP!MaxCount
  <2> HIDE DEF n, m, bs
  <2>5. FwP!Missing(a) = n + m + 1 - n /\ n \in Nat /\ m \in Nat
    BY <1>1, <2>4, <2>3 DEF n
  <2>6. FwP!Missing(a) = Fw!Missing(a)
    BY DEF FwP!Missing, Fw!Missing
  <2> HIDE DEF a
  <2>7. Fw!Missing(rx.pkt) = m
    BY DEF m
  <2>8. QED
    BY <2>5, <2>6, <2>7
<1> HIDE DEF a, bs
<1>5. QED
  BY <1>1, <1>3, <1>4, ChainGrows DEF bs, a

\* A single chunk is in order.
LEMMA OneChunkChained ==
    ASSUME NEW c \in HookPacket, c.kind = "csi"
    PROVE  Chained(Append(<<>>, c))
BY DEF Chained

\* After the hook, the frame under construction ends with the chunk it was
\* called with, or as before.
LEMMA HookAssembles ==
    ASSUME FwP!FwIInv, ArmHook
    PROVE  Assembled' \subseteq Assembled \cup InHand
<1> DEFINE c == rx.pkt
<1>1. rx # Null /\ InHand = {c}
  BY DEF ArmHook, Fw!process_frame_hook, InHand
<1>2. CASE p_csi' \in {p_csi, Null}
  BY <1>2 DEF Assembled, LastBlock
<1>3. ASSUME NEW bs \in Seq(HookPacket), c \in HookPacket,
             Inserted(bs, c, Fw!Missing(c)), p_csi' # Null
      PROVE  Assembled' = {c}
  <2>1. p_csi'.blocks = Append(bs, c)
    BY <1>3 DEF Inserted
  <2>2. Append(bs, c)[Len(Append(bs, c))] = c
    BY <1>3
  <2>3. QED
    BY <1>3, <2>1, <2>2 DEF Assembled, LastBlock
<1>4. <<>> \in Seq(HookPacket)
  OBVIOUS
<1>5. p_csi # Null => p_csi.blocks \in Seq(HookPacket)
  BY HandFacts
<1>6. QED
  BY <1>1, <1>2, <1>3, <1>4, <1>5, HookOutcome

\* The hook keeps the order.
LEMMA HookOrder ==
    ASSUME ExInv, FwP!FwIInv, OrderInv, ArmHook
    PROVE  OrderInv'
<1> DEFINE c == rx.pkt
<1>1. /\ rx # Null /\ rx' = Null /\ fifo' = fifo /\ [Next]_vars
  BY DEF ArmHook, Fw!process_frame_hook, Next
<1>2. /\ Queue' = Queue /\ InHand' = {} /\ InHand = {c}
      /\ Queue \cup InHand \cup Assembled \subseteq HookPacket
      /\ Assembled' \subseteq Assembled \cup InHand
  BY <1>1, HandFacts, HookAssembles DEF Queue, InHand, ExInv, FifoOK
<1>3. p_csi' # Null => Chained(p_csi'.blocks)
  <2>1. CASE p_csi' \in {p_csi, Null}
    BY <2>1 DEF OrderInv
  <2>2. CASE /\ c.kind = "csi" /\ c \in HookPacket
             /\ Inserted(<<>>, c, Fw!Missing(c)) /\ p_csi' # Null
    BY <2>2, OneChunkChained DEF Inserted
  <2>3. CASE /\ c.kind = "csi" /\ c \in HookPacket /\ p_csi # Null
             /\ Fw!Missing(c) = missing_csi_frames
             /\ Inserted(p_csi.blocks, c, Fw!Missing(c)) /\ p_csi' # Null
    <3>1. Chained(Append(p_csi.blocks, c))
      BY <1>1, <2>3, HandFollows
    <3>2. QED
      BY <2>3, <3>1 DEF Inserted
  <2>4. QED
    BY <2>1, <2>2, <2>3, HookOutcome
<1>4. \A a \in (Queue \cup InHand \cup Assembled)' : Past(a)'
  BY <1>1, <1>2, PastKept DEF OrderInv
<1>5. \A i, j \in 1..Len(fifo') : i < j => Before(fifo'[i], fifo'[j])
  BY <1>1 DEF OrderInv
<1>6. \A a \in (InHand \cup Assembled)', b \in Queue' : Before(a, b)
  BY <1>2 DEF OrderInv
<1>7. QED
  BY <1>2, <1>3, <1>4, <1>5, <1>6 DEF OrderInv, Before, SameMeasurement,
     EndOf, Chained

\* Every step keeps the order.
LEMMA NextOrder ==
    ASSUME ExInv, FwP!FwIInv, OrderInv, [Next]_vars
    PROVE  OrderInv'
<1>1. CASE OnAir \/ FrameEnds \/ ArmIoctl \/ ArmIoctlStep \/ UNCHANGED vars
           \/ Buffers
  <2>1. UNCHANGED <<fifo, rx, p_csi>>
    BY <1>1 DEF OnAir, FrameEnds, ArmIoctl, ArmIoctlStep, Buffers, vars,
       fwOwn, Uc!Detect, Uc!AirAbort, Uc!AirEnd, Fw!XmitDone, Fw!StackDone
  <2>2. QED
    BY <2>1, OrderStays
<1>2. QED
  BY <1>1, MicrocodeOrder, ReceiveOrder, HookOrder DEF Next

\* What is known of the last UDP frame handed to the bus.
SentOK ==
    sent # Null =>
        /\ sent \in FwP!UdpFrame
        /\ FwP!InPlace(sent)
        /\ Len(sent.blocks) >= 1
        /\ Chained(sent.blocks)
        /\ Chip = "bcm43455c0" => sent.fc = sent.src

\* A UDP frame handed to the bus ends with the chunk in hand.
LEMMA Transmitted ==
    ASSUME FwP!FwIInv, ArmHook, Len(out') > Len(out)
    PROVE  /\ sent' = out'[Len(out')]
           /\ rx # Null /\ rx.pkt \in HookPacket /\ rx.pkt.kind = "csi"
           /\ Fw!Missing(rx.pkt) = 1
           /\ sent'.src = rx.pkt.src
           /\ Chip # "bcm4366c0" => sent'.fc = rx.pkt.fc
           /\ \E bs \in Seq(HookPacket) :
                 /\ sent'.blocks = Append(bs, rx.pkt)
                 /\ \/ bs = <<>>
                    \/ /\ p_csi # Null /\ bs = p_csi.blocks
                       /\ Fw!Missing(rx.pkt) = missing_csi_frames
<1> DEFINE c == rx.pkt
<1>1. out \in Seq(FwP!UdpFrame) /\ rx # Null
  BY DEF FwP!FwIInv, FwP!FwTypeOK, ArmHook, Fw!process_frame_hook
<1>2. out' # out
  BY <1>1
<1>3. sent' = out'[Len(out')]
  BY DEF ArmHook
<1>4. /\ c.kind = "csi" /\ c \in HookPacket
      /\ \E bs \in Seq(HookPacket) :
            /\ Inserted(bs, c, Fw!Missing(c))
            /\ \/ bs = <<>>
               \/ /\ p_csi # Null /\ bs = p_csi.blocks
                  /\ Fw!Missing(c) = missing_csi_frames
  <2>1. <<>> \in Seq(HookPacket)
    OBVIOUS
  <2>2. p_csi # Null => p_csi.blocks \in Seq(HookPacket)
    BY HandFacts
  <2>3. QED
    BY <1>2, <2>1, <2>2, HookOutcome
<1>5. ASSUME NEW bs \in Seq(HookPacket), Inserted(bs, c, Fw!Missing(c))
      PROVE  /\ sent'.blocks = Append(bs, c) /\ sent'.src = c.src
             /\ Chip # "bcm4366c0" => sent'.fc = c.fc
             /\ Fw!Missing(c) = 1
  <2>1. PICK u : /\ u.blocks = Append(bs, c)
                 /\ u.src = c.src
                 /\ Chip # "bcm4366c0" => u.fc = c.fc
                 /\ out' = Append(out, u)
                 /\ Fw!Missing(c) = 1
    BY <1>2, <1>5 DEF Inserted
  <2>2. out'[Len(out')] = u
    BY <1>1, <2>1
  <2>3. QED
    BY <1>3, <2>1, <2>2
<1>6. QED
  BY <1>1, <1>3, <1>4, <1>5

\* The last UDP frame handed to the bus is in order and in place.
LEMMA NextSent ==
    ASSUME FwP!FwIInv, FwP!FwIInv', OrderInv, SentOK, [Next]_vars
    PROVE  SentOK'
<1>1. CASE UNCHANGED sent
  BY <1>1 DEF SentOK, Chained, SameMeasurement, Uc!CHUNKS, FwP!UdpFrame,
     FwP!InPlace, FwP!Missing, FwP!IsNew, FwP!CsiConf
<1>2. CASE ArmHook /\ Len(out') > Len(out)
  <2> DEFINE c == rx.pkt
  <2>1. PICK bs \in Seq(HookPacket) :
          /\ sent'.blocks = Append(bs, c)
          /\ \/ bs = <<>>
             \/ /\ p_csi # Null /\ bs = p_csi.blocks
                /\ Fw!Missing(c) = missing_csi_frames
    BY <1>2, Transmitted
  <2>2. /\ sent' = out'[Len(out')] /\ rx # Null
        /\ c \in HookPacket /\ c.kind = "csi" /\ Fw!Missing(c) = 1
        /\ sent'.src = c.src
        /\ Chip # "bcm4366c0" => sent'.fc = c.fc
    BY <1>2, Transmitted
  <2>3. sent' \in FwP!UdpFrame /\ FwP!InPlace(sent')
    <3>1. out \in Seq(FwP!UdpFrame) /\ out' \in Seq(FwP!UdpFrame)
      BY DEF FwP!FwIInv, FwP!FwTypeOK
    <3>2. Len(out') \in 1..Len(out')
      BY <1>2, <3>1
    <3>3. QED
      BY <2>2, <3>1, <3>2 DEF FwP!FwIInv, FwP!BlocksInPlace
  <2>4. Chained(Append(bs, c))
    BY <2>1, <2>2, OneChunkChained, HandFollows
  <2>5. Len(sent'.blocks) >= 1
    BY <2>1, <2>2
  <2>6. Chip = "bcm43455c0" => sent'.fc = sent'.src
    BY <2>2 DEF HookPacket
  <2>7. Chained(sent'.blocks)
    BY <2>1, <2>4
  <2>8. QED
    BY ONLY <2>3, <2>5, <2>6, <2>7 DEF SentOK
<1>3. QED
  BY <1>1, <1>2 DEF Next, Microcode, OnAir, FrameEnds, ArmReceive, ArmHook,
     Buffers, ArmIoctl, ArmIoctlStep, vars

\* Nothing has been pushed at first.
LEMMA InitOrder == Init => OrderInv /\ SentOK
<1> SUFFICES ASSUME Init PROVE OrderInv /\ SentOK
  OBVIOUS
<1>1. fifo = <<>> /\ rx = Null /\ p_csi = Null /\ sent = Null
  BY DEF Init, Uc!UcInit, Fw!FwInit
<1>2. QED
  BY <1>1 DEF OrderInv, SentOK, Queue, InHand, Assembled

\* Chunks are never reordered between the microcode and the bus.
THEOREM KeepsOrder == Spec => [](OrderInv /\ SentOK)
<1>1. /\ ExInv /\ FwP!FwIInv /\ FwP!FwIInv' /\ (OrderInv /\ SentOK)
      /\ [Next]_vars
      => (OrderInv /\ SentOK)'
  BY NextOrder, NextSent
<1>2. QED
  BY <1>1, InitOrder, ExtractorInvariant, HookHolds, PTL DEF Spec

\* csi_extractor.c:220 compares only a count, so the head of one measurement
\* can be joined to the tail of another; that takes the loss of at least a
\* whole measurement's worth of chunks in a row.
THEOREM SplicesTakeBursts == Spec => []SpliceNeedsBurst
<1>1. SentOK => SpliceNeedsBurst
  BY DEF SentOK, Chained, SpliceNeedsBurst
<1>2. QED
  BY <1>1, KeepsOrder, PTL

\* README.md:51, "the lowest three bits indicate the core and the next three
\* bits the spatial stream number", for the chips with the header in one
\* word.
THEOREM ConfReadable ==
    ASSUME Chip # "bcm4366c0"
    PROVE  Spec => []CsiConfReadable
<1>1. SentOK => CsiConfReadable
  <2>1. SUFFICES ASSUME SentOK, sent # Null PROVE CsiConfReadable
    BY DEF CsiConfReadable
  <2> DEFINE b == sent.blocks[1]
  <2>2. b \in HookPacket /\ b.kind = "csi" /\ sent.csiconf = FwP!CsiConf(b)
    BY <2>1 DEF SentOK, FwP!UdpFrame, FwP!InPlace, Chained
  <2>3. FwP!CsiConf(b) = Fw!CsiConf(b)
    BY DEF FwP!CsiConf, Fw!CsiConf
  <2>4. /\ Fw!CsiConf(b) = b.core + 8 * b.nss
        /\ b.core \in 0..7 /\ b.nss \in 0..7
    BY <2>2 DEF HookPacket
  <2> DEFINE x == b.core
             y == b.nss
  <2> HIDE DEF b
  <2>5. sent.csiconf = x + 8 * y /\ x \in 0..7 /\ y \in 0..7
    BY <2>2, <2>3, <2>4
  <2> HIDE DEF x, y
  <2>6. (x + 8 * y) % 8 = x /\ ((x + 8 * y) \div 8) % 8 = y
    BY <2>5
  <2>7. QED
    BY <2>5, <2>6 DEF CsiConfReadable, x, y, b
<1>2. QED
  BY <1>1, KeepsOrder, PTL

\* csi_extractor.c:262: on the bcm43455c0 the frame control byte next to the
\* source address is that of the same frame.
THEOREM FrameControlMatches ==
    ASSUME Chip = "bcm43455c0"
    PROVE  Spec => []FrameControlOfFrame
<1>1. SentOK => FrameControlOfFrame
  BY DEF SentOK, FrameControlOfFrame
<1>2. QED
  BY <1>1, KeepsOrder, PTL

-----------------------------------------------------------------------------
\* The configuration between two ioctls, and a frame heard since it was
\* acknowledged.
Idle == ioctl = Null /\ installed # Null
Fresh(f) == Idle /\ f.n > ackrx

\* What the first part of the filter looks at.
HeaderMatches(cfg, f) ==
    /\ cfg.csi_collect = 1
    /\ f.type = "ofdm"
    /\ cfg.use_pkt_filter = 1 => f.byte = cfg.first_pkt_byte

\* What is known of the frame the microcode is at, if it is fresh: which part
\* of the filter it has passed, and that it is selected only if it matches.
Selected ==
    /\ pc \in {"macs", "macloop", "macslot"} => HeaderMatches(installed, lastrx)
    /\ pc = "macloop" => slot <= installed.n_mac_addr
    /\ pc = "macslot" => slot < installed.n_mac_addr
    /\ (DUMP_CSI /\ air.phase \in {"rx", "done"}) \/ Extracting
          => Matches(installed, lastrx)
    /\ pc \in {"mask", "push"} => txstream \in installed.nss_mask
    /\ pc = "push" => core \in installed.core_mask

\* How far the frame at the microcode is known to match the configuration.
SelectInv ==
    /\ ackrx \in 0..nrx
    /\ lastrx # Null => lastrx.n = nrx
    /\ installed # Null => installed.n_mac_addr \in Nat
    /\ (lastrx # Null /\ Fresh(lastrx)) => Selected

\* A chunk answers the configuration, unless it is older.
Answers(a) ==
    a.kind = "csi" =>
        /\ a.id.n <= nrx
        /\ Fresh(a.id) => /\ Matches(installed, a.id)
                          /\ a.core \in installed.core_mask
                          /\ a.nss \in installed.nss_mask

AckInv ==
    /\ SelectInv
    /\ \A a \in Queue \cup InHand \cup Assembled : Answers(a)
    /\ sent # Null => Answers(LastBlock(sent))

\* The ioctl handler's own invariant holds next to the microcode.
LEMMA IoInvKept ==
    ASSUME IoP!IoIInv, [Next]_vars
    PROVE  IoP!IoIInv'
<1>1. \A r \in Request, i \in 1..Len(IoP!Words) + 1 :
        r.cmd = 500 => [params |-> r.params, next |-> i] # Null
  BY NullAssumption DEF IoP!Words, Io!Words
<1>2. CASE ArmIoctl \/ ArmIoctlStep
  <2>1. IoP!IoNext
    BY <1>2 DEF ArmIoctl, ArmIoctlStep, IoP!IoNext, IoP!wlc_ioctl_hook,
       Io!Handle, IoP!Handle, Io!WriteShm, IoP!WriteShm, Io!SetCsiDone,
       IoP!SetCsiDone, Io!SetCsi, IoP!SetCsi, Io!GetCollect, IoP!GetCollect,
       Io!ForceDeaf, IoP!ForceDeaf, Io!CleanDeaf, IoP!CleanDeaf,
       Io!SetPhaseJumps, IoP!SetPhaseJumps, Io!ReadObjmem, IoP!ReadObjmem,
       Io!Accept, IoP!Accept, Io!Words, IoP!Words, Io!NEX_READ_OBJMEM,
       IoP!NEX_READ_OBJMEM
  <2>2. IoP!IoIInv /\ [IoP!IoNext]_(IoP!ioVars) => IoP!IoIInv'
    BY ONLY <1>1, IoP!IoNextKeeps
  <2>3. QED
    BY <2>1, <2>2
<1>3. CASE ~ (ArmIoctl \/ ArmIoctlStep)
  <2>1. UNCHANGED <<shm, ioctl, installed>>
    BY <1>3 DEF Next, Microcode, OnAir, FrameEnds, ArmReceive, ArmHook,
       Buffers, vars, ioOwn, Uc!Microcode, Uc!PollForce, Uc!PollClean,
       Uc!NoEvent, Uc!RxPlcp, Uc!RxHeader, Uc!RxAddress, Uc!RxMacs,
       Uc!RxMacLoop, Uc!RxMacSlot, Uc!SelectFrame, Uc!RxComplete,
       Uc!RxCompleteDump, Uc!Select, Uc!SelectStream, Uc!SelectCore,
       Uc!PushChunk, Uc!Finish, Uc!CsiEnd, Uc!Detect, Uc!AirAbort, Uc!AirEnd
  <2>2. IoP!IoIInv /\ UNCHANGED <<shm, ioctl, installed>> => IoP!IoIInv'
    BY ONLY <1>1, IoP!QuietKeeps
  <2>3. QED
    BY <2>1, <2>2
<1>4. QED
  BY <1>2, <1>3

\* Between two ioctls the microcode filters by the words acknowledged.
LEMMA FilterIsInstalled ==
    ASSUME IoP!IoIInv, Idle
    PROVE  /\ shm.csi_collect = installed.csi_collect
           /\ shm.nss_mask = installed.nss_mask
           /\ shm.core_mask = installed.core_mask
           /\ shm.n_mac_addr = installed.n_mac_addr
           /\ shm.use_pkt_filter = installed.use_pkt_filter
           /\ shm.first_pkt_byte = installed.first_pkt_byte
           /\ shm.mac0 = installed.mac0 /\ shm.mac1 = installed.mac1
           /\ shm.mac2 = installed.mac2 /\ shm.mac3 = installed.mac3
<1>1. \A i \in 1..11 : shm[IoP!Words[i]] = installed[IoP!Words[i]]
  BY DEF Idle, IoP!IoIInv, IoP!AcknowledgedIsInstalled, IoP!Words
<1>2. QED
  BY <1>1 DEF IoP!Words

\* Either an ioctl is acknowledged, and no frame is fresh any more, or
\* nothing is newly acknowledged.
LEMMA AckStep ==
    ASSUME ExInv, SelectInv, IoP!IoIInv, [Next]_vars
    PROVE  /\ nrx \in Nat /\ nrx' \in Nat /\ nrx' >= nrx
           /\ \/ ArmIoctlStep /\ ackrx' = nrx /\ nrx' = nrx
              \/ ackrx' = ackrx /\ (Idle' => Idle /\ installed' = installed)
<1>1. nrx \in Nat
  BY BoundAssumption DEF ExInv, UcTypeOK
<1>2. CASE Microcode \/ FrameEnds \/ ArmReceive \/ ArmHook \/ Buffers
           \/ UNCHANGED vars
  <2>1. UNCHANGED <<nrx, ackrx, ioctl, installed>>
    BY <1>2 DEF Microcode, FrameEnds, ArmReceive, ArmHook, Buffers, vars,
       ioOwn, ucOwn, Uc!Microcode, Uc!PollForce, Uc!PollClean, Uc!NoEvent,
       Uc!RxPlcp, Uc!RxHeader, Uc!RxAddress, Uc!RxMacs, Uc!RxMacLoop,
       Uc!RxMacSlot, Uc!SelectFrame, Uc!RxComplete, Uc!RxCompleteDump,
       Uc!Select, Uc!SelectStream, Uc!SelectCore, Uc!PushChunk, Uc!Finish,
       Uc!CsiEnd, Uc!AirEnd
  <2>2. QED
    BY <1>1, <2>1 DEF Idle
<1>3. CASE OnAir
  <2>1. UNCHANGED <<ackrx, ioctl, installed>> /\ nrx' \in {nrx, nrx + 1}
    BY <1>3 DEF OnAir, ioOwn, Uc!Detect, Uc!AirAbort
  <2>2. QED
    BY <1>1, <2>1 DEF Idle
<1>4. CASE ArmIoctl
  <2>1. /\ UNCHANGED <<nrx, ackrx, installed>>
        /\ ioctl = Null
    BY <1>4 DEF ArmIoctl, ucOwn, Io!Handle, Io!SetCsi, Io!GetCollect,
       Io!ForceDeaf, Io!CleanDeaf, Io!SetPhaseJumps, Io!ReadObjmem, Io!Accept
  <2>2. QED
    BY <1>1, <2>1 DEF Idle
<1>5. CASE ArmIoctlStep /\ Io!SetCsiDone /\ ackrx' = nrx
  BY <1>1, <1>5 DEF ArmIoctlStep, ucOwn
<1>6. CASE ArmIoctlStep /\ Io!WriteShm /\ UNCHANGED ackrx
  <2>1. UNCHANGED <<nrx, installed>> /\ ioctl # Null
    BY <1>6 DEF ArmIoctlStep, ucOwn, Io!WriteShm
  <2>2. PICK r \in Request, n \in 1..12 :
               r.cmd = 500 /\ ioctl = [params |-> r.params, next |-> n]
    BY <2>1 DEF IoP!IoIInv, IoP!WrittenSoFar, IoP!Started, IoP!Words
  <2>3. n + 1 \in 1..12 /\ ioctl' = [params |-> r.params, next |-> n + 1]
    BY <1>6, <2>2 DEF Io!WriteShm, Io!Words
  <2>4. ioctl' # Null
    BY <2>2, <2>3, NullAssumption DEF Io!Words
  <2>5. QED
    BY <1>1, <1>6, <2>1, <2>4 DEF Idle
<1>7. QED
  BY <1>2, <1>3, <1>4, <1>5, <1>6 DEF Next, ArmIoctlStep

\* A chunk that answers the configuration, or is old, stays so.
LEMMA AnswersKept ==
    ASSUME ExInv, SelectInv, IoP!IoIInv, [Next]_vars,
           NEW a \in HookPacket, Answers(a)
    PROVE  Answers(a)'
<1> SUFFICES ASSUME a.kind = "csi" PROVE Answers(a)'
  BY DEF Answers
<1>1. a.id.n \in Nat
  BY DEF HookPacket, AnyPacket, Frame
<1>2. ackrx \in Nat /\ nrx \in Nat
  BY BoundAssumption DEF SelectInv, ExInv, UcTypeOK
<1>3. CASE ackrx' = nrx /\ nrx' = nrx
  BY <1>1, <1>2, <1>3 DEF Answers, Fresh
<1>4. CASE ackrx' = ackrx /\ (Idle' => Idle /\ installed' = installed)
  <2>1. a.id.n <= nrx'
    BY <1>1, <1>2, AckStep DEF Answers
  <2>2. ASSUME Fresh(a.id)'
        PROVE  /\ Matches(installed, a.id)'
               /\ a.core \in installed'.core_mask
               /\ a.nss \in installed'.nss_mask
    <3>1. Fresh(a.id) /\ installed' = installed
      BY <1>4, <2>2 DEF Fresh
    <3>2. QED
      BY <3>1 DEF Answers, Matches
  <2>3. QED
    BY <2>1, <2>2 DEF Answers
<1>5. QED
  BY <1>3, <1>4, AckStep

\* The filter, word by word, is the one the definition of Matches gives.
LEMMA HeaderFilter ==
    ASSUME IoP!IoIInv, Idle, lastrx \in Frame, Uc!HeaderPasses,
           Chip # "bcm4366c0"
    PROVE  HeaderMatches(installed, lastrx)
<1>1. lastrx.type \in {"ofdm", "cck", "short"}
  BY InputAssumption DEF Frame
<1>2. shm.csi_collect = 1 /\ lastrx.type = "ofdm"
  BY <1>1 DEF Uc!HeaderPasses, Uc!Collecting
<1>3. shm.use_pkt_filter = 1 => lastrx.byte = shm.first_pkt_byte
  BY DEF Uc!HeaderPasses
<1>4. QED
  BY <1>2, <1>3, FilterIsInstalled DEF HeaderMatches

\* The slots the MAC filter compares with are in use.
LEMMA MacFilter ==
    ASSUME IoP!IoIInv, Idle, HeaderMatches(installed, lastrx),
           Chip # "bcm4366c0", slot \in Nat,
           installed.n_mac_addr \in Nat, slot < installed.n_mac_addr,
           lastrx.mac = Uc!CMP_SRC_MAC(slot)
    PROVE  Matches(installed, lastrx)
<1> DEFINE macs == <<installed.mac0, installed.mac1, installed.mac2,
                     installed.mac3>>
           i == IF slot \in 0..3 THEN slot + 1 ELSE 1
<1>1. lastrx.mac = macs[i]
  BY FilterIsInstalled DEF Uc!CMP_SRC_MAC
<1>2. i \in 1..installed.n_mac_addr
  OBVIOUS
<1>3. QED
  BY <1>1, <1>2 DEF Matches, HeaderMatches

\* The microcode learns more of a frame only from its filter.
LEMMA SelectSteps ==
    ASSUME ExInv, SelectInv, IoP!IoIInv, Microcode, Chip # "bcm4366c0",
           lastrx # Null, Fresh(lastrx), UNCHANGED <<lastrx, installed>>
    PROVE  Selected'
<1>1. /\ lastrx \in Frame /\ Idle /\ Selected
      /\ slot \in Nat /\ installed.n_mac_addr \in Nat
  BY DEF ExInv, UcTypeOK, Fresh, Idle, SelectInv
<1>2. /\ HeaderMatches(installed, lastrx)' = HeaderMatches(installed, lastrx)
      /\ Matches(installed, lastrx)' = Matches(installed, lastrx)
  BY DEF HeaderMatches, Matches
<1>3. CASE Uc!RxHeader
  BY <1>1, <1>2, <1>3, HeaderFilter DEF Selected, Uc!RxHeader, Extracting
<1>4. CASE Uc!RxMacs
  <2>1. HeaderMatches(installed, lastrx) /\ ~ Extracting'
    BY <1>1, <1>4 DEF Selected, Uc!RxMacs, Uc!SelectFrame, Extracting
  <2>2. CASE shm.n_mac_addr = 0
    <3>1. Matches(installed, lastrx)
      BY <1>1, <2>1, <2>2, FilterIsInstalled DEF Matches, HeaderMatches
    <3>2. QED
      BY <1>2, <1>4, <2>1, <2>2, <3>1 DEF Selected, Uc!RxMacs, Uc!SelectFrame
  <2>3. CASE shm.n_mac_addr # 0
    BY <1>1, <1>2, <1>4, <2>1, <2>3 DEF Selected, Uc!RxMacs
  <2>4. QED
    BY <2>2, <2>3
<1>5. CASE Uc!RxMacLoop
  <2>1. /\ HeaderMatches(installed, lastrx) /\ ~ Extracting'
        /\ nmac' = installed.n_mac_addr
        /\ pc' = IF slot = installed.n_mac_addr THEN "force" ELSE "macslot"
    BY <1>1, <1>5, FilterIsInstalled
       DEF Selected, Uc!RxMacLoop, Extracting
  <2>2. QED
    BY <1>1, <1>2, <1>5, <2>1 DEF Selected, Uc!RxMacLoop
<1>6. CASE Uc!RxMacSlot
  <2>1. /\ HeaderMatches(installed, lastrx) /\ ~ Extracting'
        /\ slot' <= installed.n_mac_addr
    BY <1>1, <1>6, NextWord DEF Selected, Uc!RxMacSlot, Uc!SelectFrame, Extracting
  <2>2. CASE lastrx.mac = Uc!CMP_SRC_MAC(slot)
    <3>1. Matches(installed, lastrx)
      BY <1>1, <1>6, <2>1, <2>2, MacFilter DEF Selected, Uc!RxMacSlot
    <3>2. QED
      BY <1>2, <1>6, <2>1, <2>2, <3>1 DEF Selected, Uc!RxMacSlot, Uc!SelectFrame
  <2>3. CASE lastrx.mac # Uc!CMP_SRC_MAC(slot)
    BY <1>1, <1>2, <1>6, <2>1, <2>3 DEF Selected, Uc!RxMacSlot
  <2>4. QED
    BY <2>2, <2>3
<1>7. CASE Uc!RxComplete \/ Uc!RxCompleteDump
  BY <1>1, <1>2, <1>7
     DEF Selected, Uc!RxComplete, Uc!RxCompleteDump, Extracting, Uc!NoAir
<1>8. CASE Uc!SelectStream
  <2>1. Matches(installed, lastrx) /\ pc = "select"
    BY <1>1, <1>8 DEF Selected, Uc!SelectStream, Extracting
  <2>2. /\ pc' \in {"mask", "select", "finish"}
        /\ pc' = "mask" => txstream' \in installed.nss_mask
    BY <1>1, <1>8, FilterIsInstalled, AdvanceKeeps DEF ExInv, Uc!SelectStream
  <2>3. QED
    BY <1>2, <2>1, <2>2 DEF Selected
<1>9. CASE Uc!SelectCore
  <2>1. /\ Matches(installed, lastrx) /\ pc = "mask"
        /\ txstream \in installed.nss_mask
    BY <1>1, <1>9 DEF Selected, Uc!SelectCore, Extracting
  <2>2. /\ pc' \in {"push", "select", "finish"}
        /\ pc' = "push" => /\ core' \in installed.core_mask
                           /\ txstream' = txstream
    BY <1>1, <1>9, FilterIsInstalled, AdvanceKeeps DEF ExInv, Uc!SelectCore
  <2>3. QED
    BY <1>2, <2>1, <2>2 DEF Selected
<1>10. CASE Uc!PushChunk
  <2>1. Matches(installed, lastrx) /\ pc = "push"
    BY <1>1, <1>10 DEF Selected, Uc!PushChunk, Extracting
  <2>2. /\ pc' \in {"push", "select", "finish"}
        /\ pc' = "push" => UNCHANGED <<core, txstream>>
    BY <1>10, <2>1, AdvanceKeeps DEF ExInv, Uc!PushChunk
  <2>3. QED
    BY <1>1, <1>2, <2>1, <2>2 DEF Selected
<1>11. CASE \/ Uc!PollForce \/ Uc!PollClean \/ Uc!NoEvent \/ Uc!RxPlcp
            \/ Uc!Finish \/ Uc!CsiEnd
  BY <1>1, <1>2, <1>11 DEF Selected, Uc!PollForce, Uc!PollClean, Uc!NoEvent,
     Uc!RxPlcp, Uc!Finish, Uc!CsiEnd, Extracting
<1>12. QED
  BY <1>3, <1>4, <1>5, <1>6, <1>7, <1>8, <1>9, <1>10, <1>11
     DEF Microcode, Uc!Microcode, Uc!RxAddress, Uc!Select

\* Every step keeps what is known of the frame at the microcode.
LEMMA NextSelect ==
    ASSUME ExInv, SelectInv, IoP!IoIInv, [Next]_vars, Chip # "bcm4366c0"
    PROVE  SelectInv'
<1>1. ackrx' \in 0..nrx'
  BY AckStep DEF SelectInv
<1>2. lastrx' # Null => lastrx'.n = nrx'
  <2>1. CASE UNCHANGED <<lastrx, nrx>>
    BY <2>1 DEF SelectInv
  <2>2. CASE \E r \in Radio : Uc!Detect(r, chanspec)
    BY <2>2 DEF Uc!Detect
  <2>3. QED
    BY <2>1, <2>2 DEF Next, Microcode, OnAir, FrameEnds, ArmReceive, ArmHook,
       Buffers, ArmIoctl, ArmIoctlStep, vars, ucOwn, Uc!Microcode,
       Uc!PollForce, Uc!PollClean, Uc!NoEvent, Uc!RxPlcp, Uc!RxHeader,
       Uc!RxAddress, Uc!RxMacs, Uc!RxMacLoop, Uc!RxMacSlot, Uc!SelectFrame,
       Uc!RxComplete, Uc!RxCompleteDump, Uc!Select, Uc!SelectStream,
       Uc!SelectCore, Uc!PushChunk, Uc!Finish, Uc!CsiEnd, Uc!AirAbort,
       Uc!AirEnd
<1>3. installed' # Null => installed'.n_mac_addr \in Nat
  <2>1. CASE installed' = installed
    BY <2>1 DEF SelectInv
  <2>2. CASE Io!SetCsiDone
    <3>1. PICK r \in Request, n \in 1..12 :
                 r.cmd = 500 /\ ioctl = [params |-> r.params, next |-> n]
      BY <2>2 DEF IoP!IoIInv, IoP!WrittenSoFar, IoP!Started, IoP!Words,
         Io!SetCsiDone
    <3>2. installed' = r.params
      BY <2>2, <3>1 DEF Io!SetCsiDone
    <3>3. QED
      BY <3>1, <3>2, InputAssumption
  <2>3. QED
    BY <2>1, <2>2 DEF Next, Microcode, OnAir, FrameEnds, ArmReceive,
       ArmHook, Buffers, ArmIoctl, ArmIoctlStep, vars, ioOwn, Io!WriteShm,
       Io!Handle, Io!SetCsi, Io!GetCollect, Io!ForceDeaf, Io!CleanDeaf,
       Io!SetPhaseJumps, Io!ReadObjmem
<1>4. ASSUME lastrx' # Null, Fresh(lastrx)'
      PROVE  Selected'
  <2>1. lastrx'.n = nrx' /\ nrx' \in Nat /\ nrx \in Nat
    BY <1>2, <1>4, AckStep
  <2>2. ackrx' # nrx'
    BY <1>4, <2>1 DEF Fresh
  <2>3. /\ Idle /\ installed' = installed /\ ackrx' = ackrx
        /\ ~ ArmIoctlStep
    <3>1. ~ (ackrx' = nrx /\ nrx' = nrx)
      BY <2>2
    <3>2. Idle'
      BY <1>4 DEF Fresh
    <3>3. Idle /\ installed' = installed /\ ackrx' = ackrx
      BY <3>1, <3>2, AckStep
    <3>4. ArmIoctlStep => ioctl # Null \/ ackrx' = nrx
      BY DEF ArmIoctlStep, Io!WriteShm
    <3>5. ArmIoctlStep => nrx' = nrx
      BY DEF ArmIoctlStep, ucOwn
    <3>6. QED
      BY <2>2, <3>3, <3>4, <3>5 DEF Idle
  <2>4. CASE lastrx' = lastrx
    <3>1. lastrx # Null /\ Fresh(lastrx) /\ Selected
      BY <1>4, <2>3, <2>4 DEF Fresh, SelectInv
    <3>2. CASE Microcode
      BY <2>3, <2>4, <3>1, <3>2, SelectSteps
    <3>3. CASE OnAir \/ FrameEnds
      <4>1. /\ UNCHANGED <<pc, DUMP_CSI, slot, core, txstream>>
            /\ air'.phase \in {"rx", "done"} => air.phase \in {"rx", "done"}
        BY <3>3 DEF OnAir, FrameEnds, Uc!Detect, Uc!AirAbort, Uc!AirEnd,
           Uc!loopVars, Uc!NoAir
      <4>2. QED
        BY <2>3, <2>4, <3>1, <4>1
           DEF Selected, HeaderMatches, Matches, Extracting
    <3>4. CASE ArmReceive \/ ArmHook \/ Buffers \/ ArmIoctl \/ UNCHANGED vars
      <4>1. UNCHANGED <<pc, DUMP_CSI, slot, core, txstream, air>>
        BY <3>4 DEF ArmReceive, ArmHook, Buffers, ArmIoctl, vars, ucOwn
      <4>2. QED
        BY <2>3, <2>4, <3>1, <4>1
           DEF Selected, HeaderMatches, Matches, Extracting
    <3>5. QED
      BY <2>3, <3>2, <3>3, <3>4 DEF Next
  <2>5. CASE lastrx' # lastrx
    <3>1. PICK r \in Radio : Uc!Detect(r, chanspec)
      BY <2>5 DEF Next, Microcode, OnAir, FrameEnds, ArmReceive, ArmHook,
         Buffers, ArmIoctl, ArmIoctlStep, vars, ucOwn, Uc!Microcode,
         Uc!PollForce, Uc!PollClean, Uc!NoEvent, Uc!RxPlcp, Uc!RxHeader,
         Uc!RxAddress, Uc!RxMacs, Uc!RxMacLoop, Uc!RxMacSlot, Uc!SelectFrame,
         Uc!RxComplete, Uc!RxCompleteDump, Uc!Select, Uc!SelectStream,
         Uc!SelectCore, Uc!PushChunk, Uc!Finish, Uc!CsiEnd, Uc!AirAbort,
         Uc!AirEnd
    <3>2. pc' \in {"force", "clean", "event"} /\ air'.phase = "plcp"
      BY <3>1 DEF Uc!Detect
    <3>3. QED
      BY <3>2 DEF Selected, Extracting
  <2>6. QED
    BY <2>4, <2>5
<1>5. QED
  BY <1>1, <1>2, <1>3, <1>4 DEF SelectInv

\* A chunk that has just been pushed answers the configuration.
LEMMA PushedAnswers ==
    ASSUME ExInv, SelectInv, Microcode, Uc!PushChunk, NEW x \in HookPacket,
           x.kind = "csi", x.id = lastrx, x.core = core, x.nss = txstream
    PROVE  Answers(x)'
<1>1. /\ UNCHANGED <<lastrx, nrx, ackrx, ioctl, installed>>
      /\ pc = "push" /\ lastrx \in Frame /\ lastrx # Null
  BY NullAssumption DEF Microcode, Uc!PushChunk, ioOwn, ExInv, Reception
<1>2. lastrx.n <= nrx
  BY <1>1, BoundAssumption DEF SelectInv, ExInv, UcTypeOK
<1>3. Fresh(lastrx) => /\ Matches(installed, lastrx)
                       /\ core \in installed.core_mask
                       /\ txstream \in installed.nss_mask
  BY <1>1 DEF SelectInv, Selected, Extracting
<1>4. QED
  BY <1>1, <1>2, <1>3 DEF Answers, Fresh, Idle, Matches

\* The packets there are after a step were there before, or were pushed.
LEMMA NextPackets ==
    ASSUME ExInv, FwP!FwIInv, SelectInv, [Next]_vars, Chip # "bcm4366c0",
           NEW a \in (Queue \cup InHand \cup Assembled)'
    PROVE  \/ a \in Queue \cup InHand \cup Assembled
           \/ a.kind = "frame"
           \/ a \in HookPacket /\ Answers(a)'
<1>1. fifo \in Seq(HookPacket)
  BY DEF ExInv, FifoOK
<1>2. CASE Microcode
  <2>1. InHand' = InHand /\ Assembled' = Assembled
    BY <1>2 DEF Microcode, fwOwn, InHand, Assembled
  <2>2. CASE fifo' = fifo
    BY <2>1, <2>2 DEF Queue
  <2>3. ASSUME NEW x, fifo' = Append(fifo, x)
        PROVE  Queue' \subseteq Queue \cup {x}
    BY <1>1, <2>3 DEF Queue
  <2>4. CASE Uc!RxComplete \/ Uc!RxCompleteDump
    <3> DEFINE f == [kind |-> "frame", id |-> lastrx]
    <3>1. fifo' = fifo \/ fifo' = Append(fifo, f)
      BY <2>4 DEF Uc!RxComplete, Uc!RxCompleteDump, Uc!Push
    <3>2. f.kind = "frame"
      OBVIOUS
    <3> HIDE DEF f
    <3>3. QED
      BY <2>1, <2>2, <2>3, <3>1, <3>2
  <2>5. CASE Uc!PushChunk
    <3> DEFINE x == Uc!Chunk
    <3>1. x \in HookPacket
      BY <2>5, ChunkIsPacket DEF ExInv, Uc!PushChunk
    <3>2. /\ x.kind = "csi" /\ x.id = lastrx
          /\ x.core = core /\ x.nss = txstream
      BY DEF Uc!Chunk
    <3>3. fifo' = fifo \/ fifo' = Append(fifo, x)
      BY <2>5 DEF Uc!PushChunk, Uc!Push
    <3> HIDE DEF x
    <3>4. ASSUME NEW y \in HookPacket, y = x PROVE Answers(y)'
      BY <1>2, <2>5, <3>1, <3>2, <3>4, PushedAnswers
    <3>5. QED
      BY <2>1, <2>2, <2>3, <3>1, <3>3, <3>4
  <2>6. QED
    BY <1>2, <2>2, <2>4, <2>5 DEF Microcode, Uc!Microcode, Uc!PollForce,
       Uc!PollClean, Uc!NoEvent, Uc!RxPlcp, Uc!RxHeader, Uc!RxAddress,
       Uc!RxMacs, Uc!RxMacLoop, Uc!RxMacSlot, Uc!SelectFrame, Uc!Select,
       Uc!SelectStream, Uc!SelectCore, Uc!Finish, Uc!CsiEnd
<1>3. CASE ArmReceive
  <2>1. /\ fifo # <<>> /\ fifo' = Tail(fifo) /\ p_csi' = p_csi
        /\ \E b \in Buf : rx' = [buf |-> b, pkt |-> Head(fifo)]
    BY <1>3 DEF ArmReceive, Fw!Receive, Fw!Allocatable, Fw!Pool
  <2>2. Assembled' = Assembled /\ InHand' \subseteq {fifo[1]}
    BY <1>1, <2>1 DEF Assembled, InHand
  <2>3. 1 \in 1..Len(fifo) /\ Queue' \subseteq Queue
    BY <1>1, <2>1 DEF Queue
  <2>4. fifo[1] \in Queue
    BY <2>3 DEF Queue
  <2>5. QED
    BY <2>2, <2>3, <2>4
<1>4. CASE ArmHook
  <2>1. Queue' = Queue /\ InHand' = {}
    BY <1>4 DEF ArmHook, Fw!process_frame_hook, Queue, InHand
  <2>2. Assembled' \subseteq Assembled \cup InHand
    BY <1>4, HookAssembles
  <2>3. QED
    BY <2>1, <2>2
<1>5. CASE ~ (Microcode \/ ArmReceive \/ ArmHook)
  <2>1. UNCHANGED <<fifo, rx, p_csi>>
    BY <1>5 DEF Next, OnAir, FrameEnds, ArmIoctl, ArmIoctlStep, Buffers,
       vars, fwOwn, Uc!Detect, Uc!AirAbort, Uc!AirEnd, Fw!XmitDone,
       Fw!StackDone
  <2>2. QED
    BY <2>1 DEF Queue, InHand, Assembled
<1>6. QED
  BY <1>2, <1>3, <1>4, <1>5

\* Every step keeps what is known of frames, chunks and the last UDP frame.
LEMMA NextAck ==
    ASSUME ExInv, FwP!FwIInv, SentOK, IoP!IoIInv, AckInv,
           [Next]_vars, Chip # "bcm4366c0"
    PROVE  AckInv'
<1>1. SelectInv /\ SelectInv'
  BY NextSelect DEF AckInv
<1>2. Queue \cup InHand \cup Assembled \subseteq HookPacket
  BY HandFacts DEF Queue, ExInv, FifoOK
<1>3. \A a \in (Queue \cup InHand \cup Assembled)' : Answers(a)'
  <2>1. TAKE a \in (Queue \cup InHand \cup Assembled)'
  <2>2. CASE a \in Queue \cup InHand \cup Assembled
    BY <1>1, <1>2, <2>2, AnswersKept DEF AckInv
  <2>3. CASE a.kind = "frame"
    BY <2>3 DEF Answers
  <2>4. QED
    BY <1>1, <2>1, <2>2, <2>3, NextPackets
<1>4. sent' # Null => Answers(LastBlock(sent))'
  <2>1. CASE UNCHANGED sent /\ sent # Null
    <3>1. LastBlock(sent) \in HookPacket /\ Answers(LastBlock(sent))
      BY <2>1 DEF SentOK, LastBlock, FwP!UdpFrame, AckInv
    <3>2. PICK a \in HookPacket : a = LastBlock(sent) /\ Answers(a)
      BY <3>1
    <3>3. Answers(a)' /\ LastBlock(sent') = a
      BY <1>1, <2>1, <3>2, AnswersKept
    <3>4. QED
      BY <3>3 DEF Answers, LastBlock, Fresh, Idle, Matches
  <2>2. CASE ArmHook /\ Len(out') > Len(out)
    <3>1. PICK bs \in Seq(HookPacket), a \in HookPacket :
                 a = rx.pkt /\ rx # Null /\ sent'.blocks = Append(bs, a)
      BY <2>2, Transmitted
    <3>2. Answers(a)
      BY <3>1 DEF AckInv, InHand
    <3>3. Answers(a)'
      BY <1>1, <3>2, AnswersKept
    <3>4. LastBlock(sent') = a
      BY <3>1 DEF LastBlock
    <3>5. QED
      BY <3>3, <3>4 DEF Answers, LastBlock, Fresh, Idle, Matches
  <2>3. QED
    BY <2>1, <2>2 DEF Next, Microcode, OnAir, FrameEnds, ArmReceive,
       ArmHook, Buffers, ArmIoctl, ArmIoctlStep, vars
<1>5. QED
  BY <1>1, <1>3, <1>4 DEF AckInv

\* Nothing is acknowledged at first.
LEMMA InitAck == Init => AckInv /\ IoP!IoIInv
<1> SUFFICES ASSUME Init PROVE AckInv /\ IoP!IoIInv
  OBVIOUS
<1>1. /\ fifo = <<>> /\ rx = Null /\ p_csi = Null /\ sent = Null
      /\ ackrx = 0 /\ nrx = 0 /\ lastrx = Null /\ ioctl = Null
      /\ installed = Null /\ shm \in InitShm
  BY DEF Init, Uc!UcInit, Fw!FwInit, Io!IoInit
<1>2. AckInv
  BY <1>1 DEF AckInv, SelectInv, Queue, InHand, Assembled
<1>3. DOMAIN shm = DOMAIN IoP!ShmReset
  BY <1>1, ShmAssumption DEF IoP!ShmReset, Io!ShmReset
<1>4. IoP!IoIInv
  BY <1>1, <1>3 DEF IoP!IoIInv, IoP!WrittenSoFar, IoP!AcknowledgedIsInstalled
<1>5. QED
  BY <1>2, <1>4

\* From ioctl 500's acknowledgement on, until another ioctl, every UDP frame
\* of one measurement that was heard since comes from a frame that matches
\* the configuration, on a core and a stream it selects, however the filter
\* words, the reception and the FIFO were interleaved with the ioctl.
THEOREM ConfigHolds ==
    ASSUME Chip # "bcm4366c0"
    PROVE  Spec => []AcknowledgedConfigHolds
<1>1. SentOK /\ AckInv => AcknowledgedConfigHolds
  <2>1. SUFFICES ASSUME SentOK, AckInv, sent # Null, Idle,
                        sent.src.n > ackrx, Unmixed(sent)
                 PROVE  /\ Matches(installed, sent.src)
                        /\ sent.blocks[1].core \in installed.core_mask
                        /\ sent.blocks[1].nss \in installed.nss_mask
    BY DEF AcknowledgedConfigHolds, Idle
  <2> DEFINE bs == sent.blocks
             a == LastBlock(sent)
  <2>2. /\ bs \in Seq(HookPacket) /\ Len(bs) \in 1..Len(bs)
        /\ a = bs[Len(bs)] /\ a \in HookPacket /\ a.kind = "csi"
    BY <2>1 DEF SentOK, FwP!UdpFrame, LastBlock, Chained
  <2>3. sent.src = a.src /\ FwP!Missing(a) = 1
    BY <2>1, <2>2 DEF SentOK, FwP!InPlace
  <2>4. a.src = a.id
    BY <2>2, <2>3 DEF HookPacket, FwP!Missing, Fw!Missing
  <2>5. bs[1].core = a.core /\ bs[1].nss = a.nss
    BY <2>1, <2>2 DEF Unmixed, SameMeasurement
  <2>6. Answers(a) /\ Fresh(a.id)
    BY <2>1, <2>3, <2>4 DEF AckInv, Fresh
  <2> HIDE DEF a
  <2>7. QED
    BY <2>2, <2>3, <2>4, <2>5, <2>6 DEF Answers
<1>2. /\ ExInv /\ FwP!FwIInv /\ SentOK /\ [Next]_vars
      /\ (AckInv /\ IoP!IoIInv)
      => (AckInv /\ IoP!IoIInv)'
  BY NextAck, IoInvKept
<1>3. QED
  BY <1>1, <1>2, InitAck, ExtractorInvariant, HookHolds, KeepsOrder, PTL
     DEF Spec
=============================================================================
