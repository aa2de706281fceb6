-------------------------- MODULE CsiFirmwareProofs --------------------------
(***************************************************************************)
(* Proofs about the hook of CsiFirmware, for every chip, every number of   *)
(* buffers, every set of frames, channels and packets, and every order in  *)
(* which the packets come.                                                 *)
(*                                                                         *)
(* The inductive invariant is FwIInv: the type invariant, the ownership of *)
(* the buffers, the agreement of the counters with the UDP frame under     *)
(* construction, and what holds of the UDP frames sent.                    *)
(***************************************************************************)
EXTENDS CsiFirmware, TLAPS

FwIInv ==
    /\ FwTypeOK
    /\ BuffersOwnedOnce
    /\ ConstructionOK
    /\ WritesInBounds
    /\ BlocksInPlace

-----------------------------------------------------------------------------
\* The chunk size is a positive constant of the chip.
LEMMA ChunkSize == TonesPerChunk \in {14, 16} /\ PhyWords = 3
BY DEF TonesPerChunk, PhyWords

\* A count of chunks fits in a uint16.
LEMMA CountBound ==
    /\ MaxCount \in Nat /\ MaxUint16 \in Nat
    /\ MaxCount <= MaxUint16
BY DEF MaxCount, MaxUint16

\* What is known of a packet, by the assumption on Packet.
LEMMA ChunkFacts ==
    ASSUME NEW c \in Packet, IsChunk(c)
    PROVE  /\ IsNew(c) \in BOOLEAN
           /\ Missing(c) \in 1..MaxCount
           /\ CsiConf(c) \in Nat
           /\ c.src \in Frame \cup {Null}
           /\ c.fc \in Frame \cup {Null}
           /\ c.tones \in 1..TonesPerChunk
           /\ Missing(c) > 1 => c.tones = TonesPerChunk
           /\ IsNew(c) => Missing(c) * TonesPerChunk
                              >= 28 + PhyWords + TonesPerChunk
BY PacketAssumption DEF IsPacket, IsChunk

LEMMA FrameFacts ==
    ASSUME NEW f \in Packet, ~ IsChunk(f)
    PROVE  f.id \in Frame
BY PacketAssumption DEF IsPacket, IsChunk

\* What a sequence is with one element more, or without its first one.
LEMMA AppendFacts ==
    ASSUME NEW S, NEW s \in Seq(S), NEW e \in S
    PROVE  /\ Append(s, e) \in Seq(S)
           /\ Len(Append(s, e)) = Len(s) + 1
           /\ Append(s, e)[Len(s) + 1] = e
           /\ \A i \in 1..Len(s) : Append(s, e)[i] = s[i]
OBVIOUS

LEMMA TailFacts ==
    ASSUME NEW S, NEW s \in Seq(S), s # <<>>
    PROVE  /\ Tail(s) \in Seq(S)
           /\ Len(s) \in Nat /\ Len(s) >= 1
           /\ Len(Tail(s)) = Len(s) - 1
           /\ Head(s) = s[1] /\ Head(s) \in S
           /\ \A i \in 1..Len(Tail(s)) : Tail(s)[i] = s[i + 1]
OBVIOUS

\* Giving buffers away keeps the map of owners a map of owners.
LEMMA GiveType ==
    ASSUME NEW own \in [Buf -> {"pool", "fw", "bus", "stack"}], NEW S,
           NEW who \in {"pool", "fw", "bus", "stack"}
    PROVE  /\ Give(own, S, who) \in [Buf -> {"pool", "fw", "bus", "stack"}]
           /\ \A b \in Buf : Give(own, S, who)[b] =
                                IF b \in S THEN who ELSE own[b]
BY DEF Give

\* The header a new measurement starts with.
LEMMA NewUdpType ==
    ASSUME FwTypeOK, NEW b \in Buf, NEW n \in Nat, NEW conf \in Nat
    PROVE  /\ NewUdp(b, conf, n) \in UdpFrame
           /\ NewUdp(b, conf, n).buf = b
           /\ NewUdp(b, conf, n).alloc = n
           /\ NewUdp(b, conf, n).blocks = <<>>
           /\ NewUdp(b, conf, n).csiconf = conf
BY DEF NewUdp, UdpFrame, FwTypeOK

-----------------------------------------------------------------------------
\* The UDP frames Insert builds.
LEMMA WithBlocks ==
    ASSUME NEW udp \in UdpFrame, NEW s \in Seq(Packet)
    PROVE  LET v == [udp EXCEPT !.blocks = s]
           IN  /\ v \in UdpFrame
               /\ v.buf = udp.buf
               /\ v.alloc = udp.alloc
               /\ v.csiconf = udp.csiconf
               /\ v.blocks = s
BY DEF UdpFrame

LEMMA FilledFacts ==
    ASSUME NEW udp \in UdpFrame, NEW c \in Packet
    PROVE  /\ Filled(udp, c) \in UdpFrame
           /\ Filled(udp, c).buf = udp.buf
           /\ Filled(udp, c).alloc = udp.alloc
           /\ Filled(udp, c).csiconf = udp.csiconf
           /\ Filled(udp, c).blocks = Append(udp.blocks, c)
<1>1. Append(udp.blocks, c) \in Seq(Packet)
  BY DEF UdpFrame
<1>2. QED
  BY <1>1, WithBlocks DEF Filled

LEMMA CompleteFacts ==
    ASSUME FwTypeOK, NEW udp \in UdpFrame, NEW c \in Packet, IsChunk(c),
           NEW inserted \in Nat
    PROVE  /\ Complete(udp, c, inserted) \in UdpFrame
           /\ Complete(udp, c, inserted).buf = udp.buf
           /\ Complete(udp, c, inserted).alloc = udp.alloc
           /\ Complete(udp, c, inserted).csiconf = udp.csiconf
           /\ Complete(udp, c, inserted).blocks = Append(udp.blocks, c)
           /\ Complete(udp, c, inserted).src = c.src
           /\ Complete(udp, c, inserted).words = inserted + c.tones
<1> DEFINE F == Filled(udp, c)
           fc == IF Chip = "bcm4366c0" THEN F.fc ELSE c.fc
           n == inserted + c.tones
           C == [F EXCEPT !.src = c.src, !.fc = fc, !.phy = phystatus,
                          !.words = n]
<1>1. F \in UdpFrame
  BY FilledFacts
<1>2. /\ c.src \in Frame \cup {Null}
      /\ c.fc \in Frame \cup {Null}
      /\ n \in Nat
  BY ChunkFacts, ChunkSize
<1>3. fc \in Frame \cup {Null}
  BY <1>1, <1>2 DEF UdpFrame
<1>4. phystatus \in Frame \cup {Null}
  BY DEF FwTypeOK
<1>5. Complete(udp, c, inserted) = C
  BY DEF Complete
<1>6. /\ C \in UdpFrame
      /\ C.buf = F.buf
      /\ C.alloc = F.alloc
      /\ C.csiconf = F.csiconf
      /\ C.blocks = F.blocks
      /\ C.src = c.src
      /\ C.words = n
  <2> HIDE DEF F, fc, n
  <2> QED
    BY <1>1, <1>2, <1>3, <1>4 DEF UdpFrame
<1>7. /\ F.buf = udp.buf
      /\ F.alloc = udp.alloc
      /\ F.csiconf = udp.csiconf
      /\ F.blocks = Append(udp.blocks, c)
  BY FilledFacts
<1>8. QED
  <2> HIDE DEF F, C
  <2> QED
    BY <1>5, <1>6, <1>7

\* The PHY status lies within the first 31 words on every channel.
LEMMA OverlayLow ==
    ASSUME NEW cs \in Chanspec
    PROVE  PhyOffset(cs) \in Nat /\ PhyOffset(cs) + PhyWords <= 31
BY DEF PhyOffset, PhyWords

-----------------------------------------------------------------------------
(***************************************************************************)
(* What ConstructionOK says, of any UDP frame, before the first or a later *)
(* chunk is inserted.                                                      *)
(***************************************************************************)
Building(udp, missing, inserted) ==
    /\ missing \in 1..MaxCount
    /\ inserted + missing * TonesPerChunk = udp.alloc
    /\ udp.alloc >= 28 + PhyWords + TonesPerChunk
    /\ \A k \in 1..Len(udp.blocks) :
          /\ Missing(udp.blocks[k]) = Len(udp.blocks) + missing + 1 - k
          /\ IsNew(udp.blocks[k]) <=> (k = 1)
    /\ Len(udp.blocks) >= 1 => udp.csiconf = CsiConf(udp.blocks[1])

\* Chunk c goes next into udp.
Fits(udp, c, missing) ==
    /\ Missing(c) = missing
    /\ IsNew(c) <=> (Len(udp.blocks) = 0)
    /\ Len(udp.blocks) = 0 => udp.csiconf = CsiConf(c)

\* The owners own, in which the firmware holds udp and its argument.
Holding(own, udp) ==
    /\ own \in [Buf -> {"pool", "fw", "bus", "stack"}]
    /\ udp.buf # rx.buf
    /\ \A b \in Buf : own[b] = "fw" <=> (b = udp.buf \/ b = rx.buf)
    /\ \A b \in Buf : own[b] = "bus" <=> owner[b] = "bus"

\* One more block at the end of a UDP frame that is being built.
LEMMA OneMoreBlock ==
    ASSUME NEW udp \in UdpFrame, NEW c \in Packet, IsChunk(c),
           NEW missing \in Nat, NEW inserted \in Nat,
           Building(udp, missing, inserted), Fits(udp, c, missing)
    PROVE  LET bs == Append(udp.blocks, c)
           IN  /\ Len(bs) = Len(udp.blocks) + 1
               /\ Len(bs) >= 1
               /\ bs[Len(bs)] = c
               /\ \A k \in 1..Len(bs) :
                     /\ Missing(bs[k]) = Len(bs) + (missing - 1) + 1 - k
                     /\ IsNew(bs[k]) <=> (k = 1)
               /\ udp.csiconf = CsiConf(bs[1])
<1> DEFINE bs == Append(udp.blocks, c)
           n == Len(udp.blocks)
<1>1. udp.blocks \in Seq(Packet) /\ n \in Nat
  BY DEF UdpFrame
<1>2. /\ Len(bs) = n + 1
      /\ bs[n + 1] = c
      /\ \A k \in 1..n : bs[k] = udp.blocks[k]
  BY <1>1
<1>3. ASSUME NEW k \in 1..(n + 1)
      PROVE  /\ Missing(bs[k]) = (n + 1) + (missing - 1) + 1 - k
             /\ IsNew(bs[k]) <=> (k = 1)
  <2>1. CASE k \in 1..n
    BY <1>1, <1>2, <2>1 DEF Building
  <2>2. CASE k = n + 1
    BY <1>1, <1>2, <2>2 DEF Building, Fits
  <2>3. QED
    BY <1>1, <2>1, <2>2
<1>4. udp.csiconf = CsiConf(bs[1])
  BY <1>1, <1>2 DEF Building, Fits
<1>5. QED
  BY <1>1, <1>2, <1>3, <1>4

\* The index after a chunk: the buffer is filled exactly as far as the
\* chunks still missing leave it, and completely enough at the end.
LEMMA RoomAfter ==
    ASSUME NEW udp \in UdpFrame, NEW c \in Packet, IsChunk(c),
           NEW missing \in Nat, NEW inserted \in Nat,
           Building(udp, missing, inserted), Fits(udp, c, missing)
    PROVE  /\ inserted + c.tones \in Nat
           /\ missing > 1 => inserted + c.tones
                               + (missing - 1) * TonesPerChunk = udp.alloc
           /\ missing = 1 => /\ inserted + c.tones <= udp.alloc
                             /\ inserted + c.tones >= 31
<1>1. /\ c.tones \in 1..TonesPerChunk
      /\ missing > 1 => c.tones = TonesPerChunk
      /\ udp.alloc \in Nat
  BY ChunkFacts DEF Fits, UdpFrame
<1>2. CASE TonesPerChunk = 14
  <2>1. /\ missing \in 1..MaxCount
        /\ inserted + missing * 14 = udp.alloc
        /\ udp.alloc >= 31 + 14
    BY <1>1, <1>2, ChunkSize DEF Building
  <2>2. c.tones \in 1..14 /\ (missing > 1 => c.tones = 14)
    BY <1>1, <1>2
  <2>3. missing > 1 => inserted + 14 + (missing - 1) * 14 = udp.alloc
    BY <2>1
  <2>4. missing = 1 => /\ inserted + c.tones <= udp.alloc
                       /\ inserted + c.tones >= 31
    BY <1>1, <2>1, <2>2
  <2>5. QED
    BY <1>2, <2>2, <2>3, <2>4
<1>3. CASE TonesPerChunk = 16
  <2>1. /\ missing \in 1..MaxCount
        /\ inserted + missing * 16 = udp.alloc
        /\ udp.alloc >= 31 + 16
    BY <1>1, <1>3, ChunkSize DEF Building
  <2>2. c.tones \in 1..16 /\ (missing > 1 => c.tones = 16)
    BY <1>1, <1>3
  <2>3. missing > 1 => inserted + 16 + (missing - 1) * 16 = udp.alloc
    BY <2>1
  <2>4. missing = 1 => /\ inserted + c.tones <= udp.alloc
                       /\ inserted + c.tones >= 31
    BY <1>1, <2>1, <2>2
  <2>5. QED
    BY <1>3, <2>2, <2>3, <2>4
<1>4. QED
  BY <1>2, <1>3, ChunkSize

-----------------------------------------------------------------------------
(***************************************************************************)
(* The common tail of the hook keeps the invariant, whatever UDP frame udp *)
(* it is given that is being built and that chunk c fits next.             *)
(***************************************************************************)
LEMMA InsertKeeps ==
    ASSUME FwIInv, rx \in Received, rx' = Null,
           NEW c \in Packet, IsChunk(c),
           NEW udp \in UdpFrame, NEW missing \in Nat, NEW inserted \in Nat,
           NEW own,
           Building(udp, missing, inserted), Fits(udp, c, missing),
           Holding(own, udp), \A i \in 1..Len(out) : out[i].buf # udp.buf,
           Insert(udp, c, missing, inserted, own),
           UNCHANGED <<last_rssi, phystatus, chanspec>>
    PROVE  FwIInv'
<1> DEFINE F == Filled(udp, c)
           C == Complete(udp, c, inserted)
           bs == Append(udp.blocks, c)
<1>1. /\ F \in UdpFrame
      /\ F.buf = udp.buf /\ F.alloc = udp.alloc
      /\ F.csiconf = udp.csiconf /\ F.blocks = bs
  BY FilledFacts
<1>2. /\ C \in UdpFrame
      /\ C.buf = udp.buf /\ C.alloc = udp.alloc
      /\ C.csiconf = udp.csiconf /\ C.blocks = bs
      /\ C.src = c.src /\ C.words = inserted + c.tones
  BY CompleteFacts DEF FwIInv
<1>3. /\ Len(bs) = Len(udp.blocks) + 1
      /\ Len(bs) >= 1
      /\ bs[Len(bs)] = c
      /\ \A k \in 1..Len(bs) :
            /\ Missing(bs[k]) = Len(bs) + (missing - 1) + 1 - k
            /\ IsNew(bs[k]) <=> (k = 1)
      /\ udp.csiconf = CsiConf(bs[1])
  BY OneMoreBlock
<1>4. /\ inserted + c.tones \in Nat
      /\ missing > 1 => inserted + c.tones
                          + (missing - 1) * TonesPerChunk = udp.alloc
      /\ missing = 1 => /\ inserted + c.tones <= udp.alloc
                        /\ inserted + c.tones >= 31
  BY RoomAfter
<1>5. /\ missing \in 1..MaxCount
      /\ udp.alloc >= 28 + PhyWords + TonesPerChunk
  BY DEF Building
<1>6. /\ inserted_csi_values' = inserted + c.tones
      /\ missing_csi_frames' = missing - 1
      /\ missing = 1 =>
            /\ out' = Append(out, C)
            /\ p_csi' = Null
            /\ owner' = Give(Give(own, {rx.buf}, "pool"), {udp.buf}, "bus")
      /\ missing > 1 =>
            /\ p_csi' = F
            /\ owner' = Give(own, {rx.buf}, "pool")
            /\ out' = out
  <2>1. (missing - 1 = 0) <=> (missing = 1)
    BY <1>5
  <2>2. QED
    BY <2>1, <1>5 DEF Insert
<1>7. /\ owner \in [Buf -> {"pool", "fw", "bus", "stack"}]
      /\ out \in Seq(UdpFrame)
      /\ rx.buf \in Buf /\ udp.buf \in Buf
      /\ own \in [Buf -> {"pool", "fw", "bus", "stack"}]
  <2>1. owner \in [Buf -> {"pool", "fw", "bus", "stack"}]
        /\ out \in Seq(UdpFrame)
    BY DEF FwIInv, FwTypeOK
  <2>2. rx.buf \in Buf
    BY DEF Received
  <2>3. udp.buf \in Buf
    BY DEF UdpFrame
  <2>4. QED
    BY <2>1, <2>2, <2>3 DEF Holding
<1> HIDE DEF F, C, bs
<1>8. CASE missing = 1
  <2> /\ out' = Append(out, C)
      /\ p_csi' = Null
      /\ owner' = Give(Give(own, {rx.buf}, "pool"), {udp.buf}, "bus")
    BY <1>6, <1>8
  <2>1. /\ Len(out) \in Nat
        /\ Len(out') = Len(out) + 1 /\ out'[Len(out) + 1] = C
        /\ \A i \in 1..Len(out) : out'[i] = out[i]
        /\ out' \in Seq(UdpFrame)
    BY <1>2, <1>7, AppendFacts
  <2>2. /\ owner' \in [Buf -> {"pool", "fw", "bus", "stack"}]
        /\ \A b \in Buf : owner'[b] = IF b = udp.buf THEN "bus"
                                      ELSE IF b = rx.buf THEN "pool"
                                      ELSE own[b]
    BY <1>7 DEF Give
  <2>3. FwTypeOK'
    <3>1. missing_csi_frames' \in 0..MaxUint16
      BY <1>6, <1>8, CountBound
    <3>2. /\ inserted_csi_values' \in Nat
          /\ rx' \in Received \cup {Null}
          /\ p_csi' \in UdpFrame \cup {Null}
      BY <1>4, <1>6
    <3>3. /\ last_rssi' \in Frame \cup {Null}
          /\ phystatus' \in Frame \cup {Null}
          /\ chanspec' \in Chanspec
      BY DEF FwIInv, FwTypeOK
    <3>4. QED
      BY <2>1, <2>2, <3>1, <3>2, <3>3 DEF FwTypeOK
  <2>4. BuffersOwnedOnce'
    <3>1. FirmwareHolds'
      <4>1. \A b \in Buf : owner'[b] # "fw"
        BY <2>2 DEF Holding
      <4>2. {b \in Buf : owner'[b] = "fw"} = {}
        BY <4>1, Zenon
      <4>3. QED
        BY <4>2 DEF FirmwareHolds, Held, Argument
    <3>2. /\ {b \in Buf : owner[b] = "bus"} =
                {out[i].buf : i \in 1..Len(out)}
          /\ \A i, j \in 1..Len(out) : out[i].buf = out[j].buf => i = j
      BY DEF FwIInv, BuffersOwnedOnce, BusHolds
    <3>3. \A b \in Buf : owner'[b] = "bus" <=> (owner[b] = "bus" \/ b = udp.buf)
      BY <2>2 DEF Holding
    <3>4. \A i \in 1..Len(out') : i \in 1..Len(out) \/ i = Len(out) + 1
      BY <2>1
    <3>5. {b \in Buf : owner'[b] = "bus"} = {out'[i].buf : i \in 1..Len(out')}
      <4>1. \A b \in Buf : owner'[b] = "bus" =>
                                \E i \in 1..Len(out') : b = out'[i].buf
        <5>1. ASSUME NEW b \in Buf, owner[b] = "bus"
              PROVE  \E i \in 1..Len(out') : b = out'[i].buf
          <6>1. PICK i \in 1..Len(out) : b = out[i].buf
            BY <3>2, <5>1
          <6>2. i \in 1..Len(out') /\ out'[i] = out[i]
            BY <2>1
          <6>3. QED
            BY <6>1, <6>2
        <5>2. Len(out) + 1 \in 1..Len(out')
          BY <2>1
        <5>3. QED
          BY <1>2, <2>1, <3>3, <5>1, <5>2
      <4>2. \A i \in 1..Len(out') : /\ out'[i].buf \in Buf
                                    /\ owner'[out'[i].buf] = "bus"
        <5>1. ASSUME NEW i \in 1..Len(out)
              PROVE  out[i].buf \in Buf /\ owner[out[i].buf] = "bus"
          <6>1. out[i].buf \in {out[j].buf : j \in 1..Len(out)}
            OBVIOUS
          <6>2. QED
            BY <6>1, <3>2
        <5>2. QED
          <6>1. ASSUME NEW i \in 1..Len(out)
                PROVE  /\ out'[i].buf \in Buf
                       /\ owner'[out'[i].buf] = "bus"
            <7>1. out'[i] = out[i]
              BY <2>1
            <7>2. owner'[out[i].buf] = "bus"
              BY <3>3, <5>1
            <7>3. QED
              BY <7>1, <7>2, <5>1
          <6>2. /\ out'[Len(out) + 1].buf = udp.buf
                /\ owner'[udp.buf] = "bus"
            BY <1>2, <1>7, <2>1, <3>3
          <6>3. QED
            BY <1>7, <3>4, <6>1, <6>2
      <4>3. QED
        <5>1. ASSUME NEW b \in {d \in Buf : owner'[d] = "bus"}
              PROVE  b \in {out'[i].buf : i \in 1..Len(out')}
          BY <4>1
        <5>2. ASSUME NEW i \in 1..Len(out')
              PROVE  out'[i].buf \in {d \in Buf : owner'[d] = "bus"}
          BY <4>2
        <5>3. QED
          BY <5>1, <5>2
    <3>6. \A i, j \in 1..Len(out') : out'[i].buf = out'[j].buf => i = j
      BY <1>2, <2>1, <3>2, <3>4
    <3>7. QED
      BY <3>1, <3>5, <3>6 DEF BuffersOwnedOnce, BusHolds
  <2>5. ConstructionOK'
    BY DEF ConstructionOK
  <2>6. WritesInBounds'
    <3>1. /\ PhyOffset(C.chanspec) \in Nat
          /\ PhyOffset(C.chanspec) + PhyWords <= 31
      BY <1>2, OverlayLow DEF UdpFrame
    <3>2. /\ C.words <= C.alloc
          /\ PhyOffset(C.chanspec) + PhyWords <= C.words
      BY <1>2, <1>4, <1>8, <3>1, ChunkSize DEF UdpFrame
    <3>3. \A i \in 1..Len(out') : i \in 1..Len(out) \/ i = Len(out) + 1
      BY <2>1
    <3>4. QED
      BY <2>1, <3>2, <3>3 DEF FwIInv, WritesInBounds
  <2>7. BlocksInPlace'
    <3>1. /\ Len(bs) = Missing(bs[1])
          /\ \A k \in 1..Len(bs) : /\ Missing(bs[k]) = Len(bs) + 1 - k
                                   /\ IsNew(bs[k]) <=> (k = 1)
          /\ udp.csiconf = CsiConf(bs[1])
          /\ c.src = bs[Len(bs)].src
      <4>1. Len(bs) \in Nat
        BY <1>3 DEF UdpFrame
      <4>2. QED
        BY <1>3, <1>8, <4>1
    <3>2. InPlace(C)
      BY <1>2, <3>1 DEF InPlace
    <3>3. \A i \in 1..Len(out') : i \in 1..Len(out) \/ i = Len(out) + 1
      BY <2>1
    <3>4. QED
      BY <2>1, <3>2, <3>3 DEF FwIInv, BlocksInPlace
  <2>8. QED
    BY <2>3, <2>4, <2>5, <2>6, <2>7 DEF FwIInv
<1>9. CASE missing > 1
  <2> /\ p_csi' = F
      /\ owner' = Give(own, {rx.buf}, "pool")
      /\ out' = out
    BY <1>6, <1>9
  <2>1. /\ owner' \in [Buf -> {"pool", "fw", "bus", "stack"}]
        /\ \A b \in Buf : owner'[b] = IF b = rx.buf THEN "pool" ELSE own[b]
    BY <1>7 DEF Give
  <2>2. FwTypeOK'
    <3>1. missing_csi_frames' \in 0..MaxUint16
      BY <1>5, <1>6, <1>9, CountBound
    <3>2. /\ inserted_csi_values' \in Nat
          /\ rx' \in Received \cup {Null}
          /\ p_csi' \in UdpFrame \cup {Null}
      BY <1>1, <1>4, <1>6
    <3>3. /\ last_rssi' \in Frame \cup {Null}
          /\ phystatus' \in Frame \cup {Null}
          /\ chanspec' \in Chanspec
          /\ out' \in Seq(UdpFrame)
      BY DEF FwIInv, FwTypeOK
    <3>4. QED
      BY <2>1, <3>1, <3>2, <3>3 DEF FwTypeOK
  <2>3. BuffersOwnedOnce'
    <3>1. F # Null
      BY <1>1, NullAssumption
    <3>2. {b \in Buf : owner'[b] = "fw"} = {F.buf}
      <4>1. \A b \in Buf : owner'[b] = "fw" <=> b = udp.buf
        BY <1>7, <2>1 DEF Holding
      <4>2. F.buf = udp.buf /\ udp.buf \in Buf
        BY <1>1, <1>7
      <4>3. QED
        BY <4>1, <4>2, Zenon
    <3>3. {b \in Buf : owner'[b] = "bus"} = {b \in Buf : owner[b] = "bus"}
      BY <1>7, <2>1 DEF Holding
    <3>4. FirmwareHolds'
      BY <3>1, <3>2 DEF FirmwareHolds, Held, Argument
    <3>5. BusHolds'
      <4>1. BusHolds
        BY DEF FwIInv, BuffersOwnedOnce
      <4>2. {out'[i].buf : i \in 1..Len(out')} = {out[i].buf : i \in 1..Len(out)}
        OBVIOUS
      <4>3. QED
        BY <3>3, <4>1, <4>2 DEF BusHolds
    <3>6. QED
      BY <3>4, <3>5 DEF BuffersOwnedOnce
  <2>4. ConstructionOK'
    <3>1. missing - 1 \in 1..MaxCount
      BY <1>5, <1>9, CountBound
    <3>2. QED
      BY <1>1, <1>3, <1>4, <1>5, <1>6, <1>9, <3>1 DEF ConstructionOK
  <2>5. WritesInBounds'
    <3>1. inserted_csi_values' + missing_csi_frames' * TonesPerChunk
             <= p_csi'.alloc
      BY <1>1, <1>4, <1>6, <1>9 DEF UdpFrame
    <3>2. QED
      BY <3>1 DEF FwIInv, WritesInBounds
  <2>6. BlocksInPlace'
    BY DEF FwIInv, BlocksInPlace
  <2>7. QED
    BY <2>2, <2>3, <2>4, <2>5, <2>6 DEF FwIInv
<1>10. QED
  BY <1>5, <1>8, <1>9

-----------------------------------------------------------------------------
(***************************************************************************)
(* The steps that send nothing: what the bus holds and what has been sent  *)
(* stay as they are.                                                       *)
(***************************************************************************)
LEMMA OutKept ==
    ASSUME FwIInv, UNCHANGED out,
           \A b \in Buf : owner'[b] = "bus" <=> owner[b] = "bus"
    PROVE  BusHolds' /\ BlocksInPlace'
<1>1. {b \in Buf : owner'[b] = "bus"} = {b \in Buf : owner[b] = "bus"}
  OBVIOUS
<1>2. BusHolds'
  BY <1>1 DEF FwIInv, BuffersOwnedOnce, BusHolds
<1>3. BlocksInPlace'
  BY DEF FwIInv, BlocksInPlace
<1>4. QED
  BY <1>2, <1>3

\* Early returns: the hook frees its argument, and the UDP frame under
\* construction if there is one.
LEMMA DropKeeps ==
    ASSUME FwIInv, rx \in Received, rx' = Null, p_csi' = Null,
           owner' = Give(owner, {rx.buf} \cup Held, "pool"),
           UNCHANGED <<missing_csi_frames, inserted_csi_values, last_rssi,
                       phystatus, chanspec, out>>
    PROVE  FwIInv'
<1>1. /\ owner \in [Buf -> {"pool", "fw", "bus", "stack"}]
      /\ \A b \in Buf : owner[b] = "fw" <=> b \in Held \cup {rx.buf}
  BY NullAssumption
  DEF FwIInv, FwTypeOK, BuffersOwnedOnce, FirmwareHolds, Argument
<1>2. /\ owner' \in [Buf -> {"pool", "fw", "bus", "stack"}]
      /\ \A b \in Buf : owner'[b] = IF b \in {rx.buf} \cup Held THEN "pool"
                                                                ELSE owner[b]
  BY <1>1 DEF Give
<1>3. FwTypeOK'
  BY <1>2 DEF FwIInv, FwTypeOK
<1>4. FirmwareHolds'
  BY <1>1, <1>2 DEF FirmwareHolds, Held, Argument
<1>5. BusHolds' /\ BlocksInPlace'
  BY <1>1, <1>2, OutKept
<1>6. ConstructionOK' /\ WritesInBounds'
  BY DEF FwIInv, ConstructionOK, WritesInBounds
<1>7. QED
  BY <1>3, <1>4, <1>5, <1>6 DEF FwIInv, BuffersOwnedOnce

\* Steps that leave the UDP frame under construction and the counters alone
\* and give buffers the hook does not hold, or its argument, to others.
LEMMA PassKeeps ==
    ASSUME FwIInv, FwTypeOK',
           FirmwareHolds',
           \A b \in Buf : owner'[b] = "bus" <=> owner[b] = "bus",
           UNCHANGED <<p_csi, missing_csi_frames, inserted_csi_values, out>>
    PROVE  FwIInv'
<1>1. BusHolds' /\ BlocksInPlace'
  BY OutKept
<1>2. ConstructionOK'
  BY DEF FwIInv, ConstructionOK
<1>3. WritesInBounds'
  BY DEF FwIInv, WritesInBounds
<1>4. QED
  BY <1>1, <1>2, <1>3 DEF FwIInv, BuffersOwnedOnce

-----------------------------------------------------------------------------
\* What the invariant says of the hook's argument and of the owners.
LEMMA ArgumentFacts ==
    ASSUME FwIInv, rx # Null
    PROVE  /\ rx \in Received /\ rx.buf \in Buf /\ rx.pkt \in Packet
           /\ owner \in [Buf -> {"pool", "fw", "bus", "stack"}]
           /\ \A b \in Buf : owner[b] = "fw" <=> b \in Held \cup {rx.buf}
           /\ rx.buf \notin Held
           /\ Held \subseteq Buf
<1>1. rx \in Received
  BY DEF FwIInv, FwTypeOK
<1>2. rx.buf \in Buf /\ rx.pkt \in Packet
  BY <1>1 DEF Received
<1>3. owner \in [Buf -> {"pool", "fw", "bus", "stack"}]
  BY DEF FwIInv, FwTypeOK
<1>4. /\ {b \in Buf : owner[b] = "fw"} = Held \cup {rx.buf}
      /\ Held \cap {rx.buf} = {}
  BY DEF FwIInv, BuffersOwnedOnce, FirmwareHolds, Argument
<1>5. QED
  BY <1>1, <1>2, <1>3, <1>4

\* A UDP frame on the bus and a buffer the bus does not hold are different.
LEMMA OutElsewhere ==
    ASSUME FwIInv, NEW b \in Buf, owner[b] # "bus"
    PROVE  \A i \in 1..Len(out) : out[i].buf # b
<1>1. {x \in Buf : owner[x] = "bus"} = {out[i].buf : i \in 1..Len(out)}
  BY DEF FwIInv, BuffersOwnedOnce, BusHolds
<1>2. QED
  BY <1>1

LEMMA NewChunkKeeps ==
    ASSUME FwIInv, rx # Null, rx' = Null, IsChunk(rx.pkt), NewChunk(rx.pkt)
    PROVE  FwIInv'
<1> DEFINE c == rx.pkt
<1>1. PICK b \in Allocatable(Pool \cup Held) :
         Insert(NewUdp(b, CsiConf(c), Missing(c) * TonesPerChunk), c,
                Missing(c), 0, Give(Give(owner, Held, "pool"), {b}, "fw"))
  BY DEF NewChunk
<1> DEFINE udp == NewUdp(b, CsiConf(c), Missing(c) * TonesPerChunk)
           own == Give(Give(owner, Held, "pool"), {b}, "fw")
<1>2. /\ c \in Packet /\ rx \in Received
      /\ rx.buf \in Buf /\ rx.buf \notin Held /\ Held \subseteq Buf
      /\ owner \in [Buf -> {"pool", "fw", "bus", "stack"}]
      /\ \A x \in Buf : owner[x] = "fw" <=> x \in Held \cup {rx.buf}
  BY ArgumentFacts
<1>3. /\ IsNew(c) /\ UNCHANGED <<last_rssi, phystatus, chanspec>>
  BY DEF NewChunk
<1>4. b \in Buf /\ (owner[b] = "pool" \/ b \in Held)
  BY <1>2 DEF Allocatable, Pool
<1>5. /\ Missing(c) \in 1..MaxCount /\ Missing(c) \in Nat
      /\ CsiConf(c) \in Nat
      /\ Missing(c) * TonesPerChunk \in Nat
      /\ Missing(c) * TonesPerChunk >= 28 + PhyWords + TonesPerChunk
  <2>1. /\ Missing(c) \in 1..MaxCount
        /\ CsiConf(c) \in Nat
        /\ Missing(c) * TonesPerChunk >= 28 + PhyWords + TonesPerChunk
    BY <1>2, <1>3, ChunkFacts
  <2>2. Missing(c) \in Nat
    BY <2>1, CountBound
  <2>3. Missing(c) * TonesPerChunk \in Nat
    <3>1. CASE TonesPerChunk = 14
      BY <2>2, <3>1
    <3>2. CASE TonesPerChunk = 16
      BY <2>2, <3>2
    <3>3. QED
      BY <3>1, <3>2, ChunkSize
  <2>4. QED
    BY <2>1, <2>2, <2>3
<1>6. /\ udp \in UdpFrame /\ udp.buf = b
      /\ udp.alloc = Missing(c) * TonesPerChunk
      /\ udp.blocks = <<>> /\ udp.csiconf = CsiConf(c)
  BY <1>4, <1>5, NewUdpType DEF FwIInv
<1>7. Holding(own, udp)
  <2>1. \A x \in Buf : own[x] = IF x = b THEN "fw"
                                ELSE IF x \in Held THEN "pool" ELSE owner[x]
    BY DEF Give
  <2>2. own \in [Buf -> {"pool", "fw", "bus", "stack"}]
    BY <1>2 DEF Give
  <2>3. b # rx.buf
    BY <1>2, <1>4
  <2>4. \A x \in Buf : own[x] = "fw" <=> (x = b \/ x = rx.buf)
    BY <1>2, <1>4, <2>1
  <2>5. \A x \in Buf : own[x] = "bus" <=> owner[x] = "bus"
    BY <1>2, <1>4, <2>1
  <2> HIDE DEF own, udp
  <2>6. QED
    BY <1>6, <2>2, <2>3, <2>4, <2>5 DEF Holding
<1>8. Building(udp, Missing(c), 0) /\ Fits(udp, c, Missing(c))
  <2> HIDE DEF udp
  <2>1. Len(udp.blocks) = 0
    BY <1>6
  <2>2. 0 + Missing(c) * TonesPerChunk = udp.alloc
    BY <1>5, <1>6
  <2>3. QED
    BY <1>3, <1>5, <1>6, <2>1, <2>2 DEF Building, Fits
<1>9. \A i \in 1..Len(out) : out[i].buf # b
  BY <1>2, <1>4, OutElsewhere
<1>10. Insert(udp, c, Missing(c), 0, own)
  BY <1>1
<1> HIDE DEF udp, own, c
<1>11. IsChunk(c)
  BY DEF c
<1>12. QED
  BY <1>2, <1>3, <1>5, <1>6, <1>7, <1>8, <1>9, <1>10, <1>11, InsertKeeps

LEMMA NextChunkKeeps ==
    ASSUME FwIInv, rx # Null, rx' = Null, IsChunk(rx.pkt), NextChunk(rx.pkt)
    PROVE  FwIInv'
<1> DEFINE c == rx.pkt
<1>1. /\ ~ IsNew(c) /\ p_csi # Null /\ Missing(c) = missing_csi_frames
      /\ Insert(p_csi, c, missing_csi_frames, inserted_csi_values, owner)
      /\ UNCHANGED <<last_rssi, phystatus, chanspec>>
  BY DEF NextChunk
<1>2. /\ p_csi \in UdpFrame /\ Held = {p_csi.buf}
      /\ inserted_csi_values \in Nat
  BY <1>1 DEF FwIInv, FwTypeOK, Held
<1>3. /\ c \in Packet /\ rx \in Received
      /\ rx.buf \notin Held /\ Held \subseteq Buf
      /\ owner \in [Buf -> {"pool", "fw", "bus", "stack"}]
      /\ \A x \in Buf : owner[x] = "fw" <=> x \in Held \cup {rx.buf}
  BY ArgumentFacts
<1>4. /\ missing_csi_frames \in 1..MaxCount
      /\ inserted_csi_values + missing_csi_frames * TonesPerChunk
            = p_csi.alloc
      /\ p_csi.alloc >= 28 + PhyWords + TonesPerChunk
      /\ Len(p_csi.blocks) >= 1
      /\ \A k \in 1..Len(p_csi.blocks) :
            /\ Missing(p_csi.blocks[k])
                  = Len(p_csi.blocks) + missing_csi_frames + 1 - k
            /\ IsNew(p_csi.blocks[k]) <=> (k = 1)
      /\ p_csi.csiconf = CsiConf(p_csi.blocks[1])
  BY <1>1 DEF FwIInv, ConstructionOK
<1>5. missing_csi_frames \in Nat
  BY <1>4, CountBound
<1>6. Holding(owner, p_csi)
  BY <1>2, <1>3 DEF Holding
<1>7. Building(p_csi, missing_csi_frames, inserted_csi_values)
  BY <1>4 DEF Building
<1>8. Fits(p_csi, c, missing_csi_frames)
  <2>1. Len(p_csi.blocks) \in Nat
    BY <1>2 DEF UdpFrame
  <2>2. QED
    BY <1>1, <1>4, <2>1 DEF Fits
<1>9. \A i \in 1..Len(out) : out[i].buf # p_csi.buf
  BY <1>2, <1>3, OutElsewhere
<1>10. IsChunk(c)
  OBVIOUS
<1> HIDE DEF c
<1>11. QED
  BY <1>1, <1>2, <1>3, <1>5, <1>6, <1>7, <1>8, <1>9, <1>10, InsertKeeps

LEMMA RegularFrameKeeps ==
    ASSUME FwIInv, rx # Null, rx' = Null, ~ IsChunk(rx.pkt),
           RegularFrame(rx.pkt)
    PROVE  FwIInv'
<1>1. /\ rx.pkt \in Packet /\ rx.buf \in Buf /\ rx.buf \notin Held
      /\ owner \in [Buf -> {"pool", "fw", "bus", "stack"}]
      /\ \A b \in Buf : owner[b] = "fw" <=> b \in Held \cup {rx.buf}
      /\ Held \subseteq Buf
  BY ArgumentFacts
<1>2. /\ last_rssi' = rx.pkt.id /\ phystatus' = rx.pkt.id
      /\ owner' = Give(owner, {rx.buf}, "stack")
      /\ UNCHANGED <<p_csi, missing_csi_frames, inserted_csi_values,
                     chanspec, out>>
  BY DEF RegularFrame
<1>3. rx.pkt.id \in Frame
  BY <1>1, FrameFacts
<1>4. /\ owner' \in [Buf -> {"pool", "fw", "bus", "stack"}]
      /\ \A b \in Buf : owner'[b] = IF b = rx.buf THEN "stack" ELSE owner[b]
  BY <1>1, <1>2 DEF Give
<1>5. FwTypeOK'
  BY <1>2, <1>3, <1>4 DEF FwIInv, FwTypeOK
<1>6. FirmwareHolds'
  <2>1. {b \in Buf : owner'[b] = "fw"} = Held
    BY <1>1, <1>4
  <2>2. Held' = Held /\ Argument' = {}
    BY <1>2 DEF Held, Argument
  <2>3. QED
    BY <2>1, <2>2 DEF FirmwareHolds
<1>7. \A b \in Buf : owner'[b] = "bus" <=> owner[b] = "bus"
  BY <1>1, <1>4
<1>8. QED
  BY <1>2, <1>5, <1>6, <1>7, PassKeeps

LEMMA HookKeeps ==
    ASSUME FwIInv, process_frame_hook
    PROVE  FwIInv'
<1> USE DEF process_frame_hook
<1>1. rx # Null /\ rx' = Null /\ rx \in Received
  BY ArgumentFacts
<1>2. CASE IsChunk(rx.pkt) /\ NewChunk(rx.pkt)
  BY <1>1, <1>2, NewChunkKeeps
<1>3. CASE IsChunk(rx.pkt) /\ NewChunkNoBuffer(rx.pkt)
  BY <1>1, <1>3, DropKeeps DEF NewChunkNoBuffer
<1>4. CASE IsChunk(rx.pkt) /\ StrayChunk(rx.pkt)
  <2>1. {rx.buf} \cup Held = {rx.buf}
    BY <1>4 DEF StrayChunk, Held
  <2>2. QED
    BY <1>1, <1>4, <2>1, DropKeeps DEF StrayChunk
<1>5. CASE IsChunk(rx.pkt) /\ MismatchedChunk(rx.pkt)
  BY <1>1, <1>5, DropKeeps DEF MismatchedChunk
<1>6. CASE IsChunk(rx.pkt) /\ NextChunk(rx.pkt)
  BY <1>1, <1>6, NextChunkKeeps
<1>7. CASE ~ IsChunk(rx.pkt) /\ RegularFrame(rx.pkt)
  BY <1>1, <1>7, RegularFrameKeeps
<1>8. QED
  BY <1>2, <1>3, <1>4, <1>5, <1>6, <1>7

LEMMA ReceiveKeeps ==
    ASSUME FwIInv, NEW f \in Packet, Receive(f)
    PROVE  FwIInv'
<1>1. PICK b \in Allocatable(Pool) : /\ rx' = [buf |-> b, pkt |-> f]
                                     /\ owner' = Give(owner, {b}, "fw")
  BY DEF Receive
<1>2. /\ rx = Null
      /\ UNCHANGED <<p_csi, missing_csi_frames, inserted_csi_values,
                     last_rssi, phystatus, chanspec, out>>
  BY DEF Receive
<1>3. /\ owner \in [Buf -> {"pool", "fw", "bus", "stack"}]
      /\ {x \in Buf : owner[x] = "fw"} = Held
  BY <1>2 DEF FwIInv, FwTypeOK, BuffersOwnedOnce, FirmwareHolds, Argument
<1>4. b \in Buf /\ owner[b] = "pool"
  BY DEF Allocatable, Pool
<1>5. rx' \in Received /\ rx'.buf = b
  BY <1>1, <1>4 DEF Received
<1>6. /\ owner' \in [Buf -> {"pool", "fw", "bus", "stack"}]
      /\ \A x \in Buf : owner'[x] = IF x = b THEN "fw" ELSE owner[x]
  BY <1>1, <1>3 DEF Give
<1>7. FwTypeOK'
  BY <1>2, <1>5, <1>6 DEF FwIInv, FwTypeOK
<1>8. FirmwareHolds'
  <2>1. Held' = Held
    BY <1>2 DEF Held
  <2>2. Argument' = {b}
    BY <1>5, NullAssumption DEF Argument
  <2>3. b \notin Held
    BY <1>3, <1>4
  <2>4. {x \in Buf : owner'[x] = "fw"} = Held \cup {b}
    BY <1>3, <1>4, <1>6
  <2>5. QED
    BY <2>1, <2>2, <2>3, <2>4 DEF FirmwareHolds
<1>9. \A x \in Buf : owner'[x] = "bus" <=> owner[x] = "bus"
  BY <1>4, <1>6
<1>10. QED
  BY <1>2, <1>7, <1>8, <1>9, PassKeeps

LEMMA StackDoneKeeps ==
    ASSUME FwIInv, NEW b \in Buf, StackDone(b)
    PROVE  FwIInv'
<1>1. /\ owner[b] = "stack" /\ owner' = Give(owner, {b}, "pool")
      /\ UNCHANGED <<rx, p_csi, missing_csi_frames, inserted_csi_values,
                     last_rssi, phystatus, chanspec, out>>
  BY DEF StackDone
<1>2. /\ owner \in [Buf -> {"pool", "fw", "bus", "stack"}]
      /\ FirmwareHolds
  BY DEF FwIInv, FwTypeOK, BuffersOwnedOnce
<1>3. /\ owner' \in [Buf -> {"pool", "fw", "bus", "stack"}]
      /\ \A x \in Buf : owner'[x] = IF x = b THEN "pool" ELSE owner[x]
  BY <1>1, <1>2 DEF Give
<1>4. FwTypeOK'
  BY <1>1, <1>3 DEF FwIInv, FwTypeOK
<1>5. {x \in Buf : owner'[x] = "fw"} = {x \in Buf : owner[x] = "fw"}
  BY <1>1, <1>3
<1>6. FirmwareHolds'
  BY <1>1, <1>2, <1>5 DEF FirmwareHolds, Held, Argument
<1>7. \A x \in Buf : owner'[x] = "bus" <=> owner[x] = "bus"
  BY <1>1, <1>3
<1>8. QED
  BY <1>1, <1>4, <1>6, <1>7, PassKeeps

\* A change of channel, and a step that changes nothing.
LEMMA RetuneKeeps ==
    ASSUME FwIInv, chanspec' \in Chanspec,
           UNCHANGED <<owner, rx, p_csi, missing_csi_frames,
                       inserted_csi_values, last_rssi, phystatus, out>>
    PROVE  FwIInv'
<1>1. FwTypeOK'
  BY DEF FwIInv, FwTypeOK
<1>2. FirmwareHolds'
  BY DEF FwIInv, BuffersOwnedOnce, FirmwareHolds, Held, Argument
<1>3. QED
  BY <1>1, <1>2, PassKeeps

LEMMA XmitDoneKeeps ==
    ASSUME FwIInv, XmitDone
    PROVE  FwIInv'
<1> DEFINE h == Head(out)
<1>1. /\ out # <<>> /\ out' = Tail(out)
      /\ owner' = Give(owner, {h.buf}, "pool")
      /\ UNCHANGED <<rx, p_csi, missing_csi_frames, inserted_csi_values,
                     last_rssi, phystatus, chanspec>>
  BY DEF XmitDone
<1>2. /\ owner \in [Buf -> {"pool", "fw", "bus", "stack"}]
      /\ out \in Seq(UdpFrame)
      /\ FirmwareHolds /\ BusHolds
  BY DEF FwIInv, FwTypeOK, BuffersOwnedOnce
<1>3. /\ out' \in Seq(UdpFrame)
      /\ Len(out) \in Nat /\ Len(out) >= 1
      /\ Len(out') = Len(out) - 1
      /\ h = out[1] /\ h \in UdpFrame
      /\ \A i \in 1..Len(out') : out'[i] = out[i + 1]
  BY <1>1, <1>2, TailFacts
<1>4. \A i \in 1..Len(out') : i + 1 \in 1..Len(out) /\ i + 1 # 1
  BY <1>3
<1>5. h.buf \in Buf /\ owner[h.buf] = "bus"
  <2>1. 1 \in 1..Len(out)
    BY <1>3
  <2>2. out[1].buf \in {out[i].buf : i \in 1..Len(out)}
    BY <2>1
  <2>3. QED
    BY <1>2, <1>3, <2>2 DEF BusHolds
<1> HIDE DEF h
<1>6. /\ owner' \in [Buf -> {"pool", "fw", "bus", "stack"}]
      /\ \A x \in Buf : owner'[x] = IF x = h.buf THEN "pool" ELSE owner[x]
  BY <1>1, <1>2 DEF Give
<1>7. FwTypeOK'
  BY <1>1, <1>3, <1>6 DEF FwIInv, FwTypeOK
<1>8. FirmwareHolds'
  <2>1. {x \in Buf : owner'[x] = "fw"} = {x \in Buf : owner[x] = "fw"}
    BY <1>5, <1>6
  <2>2. QED
    BY <1>1, <1>2, <2>1 DEF FirmwareHolds, Held, Argument
<1>9. BusHolds'
  <2>1. \A i, j \in 1..Len(out) : out[i].buf = out[j].buf => i = j
    BY <1>2 DEF BusHolds
  <2>2. \A i, j \in 1..Len(out') : out'[i].buf = out'[j].buf => i = j
    <3>1. ASSUME NEW i \in 1..Len(out'), NEW j \in 1..Len(out'),
                 out'[i].buf = out'[j].buf
          PROVE  i = j
      <4>1. i + 1 = j + 1
        BY <1>3, <1>4, <2>1, <3>1
      <4>2. i \in Nat /\ j \in Nat
        BY <1>3
      <4>3. QED
        BY <4>1, <4>2
    <3>2. QED
      BY <3>1
  <2>3. ASSUME NEW x \in Buf, owner'[x] = "bus"
        PROVE  x \in {out'[i].buf : i \in 1..Len(out')}
    <3>1. owner[x] = "bus" /\ x # h.buf
      BY <1>6, <2>3
    <3>2. PICK k \in 1..Len(out) : x = out[k].buf
      BY <1>2, <3>1 DEF BusHolds
    <3>3. k # 1
      BY <1>3, <3>1, <3>2
    <3>4. k - 1 \in 1..Len(out') /\ (k - 1) + 1 = k
      BY <1>3, <3>2, <3>3
    <3>5. out'[k - 1] = out[k]
      BY <1>3, <3>4
    <3>6. QED
      BY <3>2, <3>4, <3>5
  <2>4. ASSUME NEW i \in 1..Len(out')
        PROVE  out'[i].buf \in Buf /\ owner'[out'[i].buf] = "bus"
    <3>1. out'[i] = out[i + 1] /\ i + 1 \in 1..Len(out) /\ i + 1 # 1
      BY <1>3, <1>4
    <3>2. out[i + 1].buf \in {out[k].buf : k \in 1..Len(out)}
      BY <3>1
    <3>3. out[i + 1].buf \in Buf /\ owner[out[i + 1].buf] = "bus"
      BY <1>2, <3>2 DEF BusHolds
    <3>4. 1 \in 1..Len(out)
      BY <1>3
    <3>5. out[i + 1].buf # h.buf
      BY <1>3, <2>1, <3>1, <3>4
    <3>6. QED
      BY <1>6, <3>1, <3>3, <3>5
  <2>5. {x \in Buf : owner'[x] = "bus"} = {out'[i].buf : i \in 1..Len(out')}
    BY <2>3, <2>4
  <2>6. QED
    BY <2>2, <2>5 DEF BusHolds
<1>10. ConstructionOK'
  BY <1>1 DEF FwIInv, ConstructionOK
<1>11. WritesInBounds'
  BY <1>1, <1>3, <1>4 DEF FwIInv, WritesInBounds
<1>12. BlocksInPlace'
  BY <1>3, <1>4 DEF FwIInv, BlocksInPlace
<1>13. QED
  BY <1>7, <1>8, <1>9, <1>10, <1>11, <1>12 DEF FwIInv, BuffersOwnedOnce

-----------------------------------------------------------------------------
\* In the initial state everything is empty.
LEMMA InitEstablishes == FwInit => FwIInv
<1> SUFFICES ASSUME FwInit PROVE FwIInv
  OBVIOUS
<1> USE DEF FwInit
<1>1. FwTypeOK
  BY CountBound DEF FwTypeOK
<1>2. FirmwareHolds /\ BusHolds
  BY DEF FirmwareHolds, BusHolds, Held, Argument
<1>3. ConstructionOK /\ WritesInBounds /\ BlocksInPlace
  BY DEF ConstructionOK, WritesInBounds, BlocksInPlace
<1>4. QED
  BY <1>1, <1>2, <1>3 DEF FwIInv, BuffersOwnedOnce

\* One case per action.
LEMMA NextKeeps == FwIInv /\ [FwNext]_fwVars => FwIInv'
<1> SUFFICES ASSUME FwIInv, [FwNext]_fwVars PROVE FwIInv'
  OBVIOUS
<1>1. ASSUME NEW f \in Packet, Receive(f) PROVE FwIInv'
  BY <1>1, ReceiveKeeps
<1>2. CASE process_frame_hook
  BY <1>2, HookKeeps
<1>3. CASE XmitDone
  BY <1>3, XmitDoneKeeps
<1>4. ASSUME NEW b \in Buf, StackDone(b) PROVE FwIInv'
  BY <1>4, StackDoneKeeps
<1>5. ASSUME NEW cs \in Chanspec, set_chanspec(cs) PROVE FwIInv'
  BY <1>5, RetuneKeeps DEF set_chanspec
<1>6. CASE UNCHANGED fwVars
  <2>1. chanspec \in Chanspec
    BY DEF FwIInv, FwTypeOK
  <2>2. QED
    BY <1>6, <2>1, RetuneKeeps DEF fwVars
<1>7. QED
  BY <1>1, <1>2, <1>3, <1>4, <1>5, <1>6 DEF FwNext

(***************************************************************************)
(* The strengthened invariant holds in every reachable state.              *)
(***************************************************************************)
THEOREM HookInvariant == FwSpec => []FwIInv
<1>1. FwInit => FwIInv
  BY InitEstablishes
<1>2. FwIInv /\ [FwNext]_fwVars => FwIInv'
  BY NextKeeps
<1>3. QED
  BY <1>1, <1>2, PTL DEF FwSpec

\* The globals of csi_extractor.c:150-154 and the UDP frames keep their types.
THEOREM HookTypes == FwSpec => []FwTypeOK
<1>1. FwIInv => FwTypeOK
  BY DEF FwIInv
<1>2. QED
  BY <1>1, HookInvariant, PTL

\* No packet buffer is leaked, freed twice or used after it was handed over,
\* on any path through process_frame_hook.
THEOREM HookOwnsBuffersOnce == FwSpec => []BuffersOwnedOnce
<1>1. FwIInv => BuffersOwnedOnce
  BY DEF FwIInv
<1>2. QED
  BY <1>1, HookInvariant, PTL

\* The two counters agree with the UDP frame under construction.
THEOREM HookCountsRight == FwSpec => []ConstructionOK
<1>1. FwIInv => ConstructionOK
  BY DEF FwIInv
<1>2. QED
  BY <1>1, HookInvariant, PTL

\* process_frame_hook writes only into the buffer it allocated.
THEOREM HookWritesInBounds == FwSpec => []WritesInBounds
<1>1. FwIInv => WritesInBounds
  BY DEF FwIInv
<1>2. QED
  BY <1>1, HookInvariant, PTL

\* Whatever is lost, repeated or reordered, a transmitted UDP frame has as
\* many blocks as its first chunk announced, counting down to the last.
THEOREM HookBlocksInPlace == FwSpec => []BlocksInPlace
<1>1. FwIInv => BlocksInPlace
  BY DEF FwIInv
<1>2. QED
  BY <1>1, HookInvariant, PTL
=============================================================================
