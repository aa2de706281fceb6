------------------------- MODULE BcdcAnswersProofs --------------------------
(***************************************************************************)
(* Proofs about the driver's side of the bus (SdioBus and BcdcControl),    *)
(* for any number of interfaces and callers, any number of requests and    *)
(* frames, and any modulus, number of credits and length of the queue that *)
(* the assumptions of BcdcControl allow.                                   *)
(*                                                                         *)
(* 1. The types of the records, queues and numbers (Types).                *)
(* 2. Whose answer an ioctl returns.  The invariant Control follows a      *)
(*    request through the one buffer, the offer ctrl_frame_stat, the chip  *)
(*    and the slot rxctl:                                                  *)
(*      ChipKnows      what the chip has is a request, was not given up,   *)
(*                     and is not the one still pending;                   *)
(*      AnswersKnown   what comes back, and what is in the slot, bears the *)
(*                     id of a request that was made;                      *)
(*      BufferHolds    while a request is offered, the buffer holds it;    *)
(*      OneAtATime     only who holds proto_block is between lock and      *)
(*                     unlock.                                             *)
(* 3. What becomes of a request that was given up: the invariant Line adds *)
(*    the order they go in.                                                *)
(***************************************************************************)
EXTENDS BcdcControl, FiniteSetTheorems, SequenceTheorems, TLAPS

\* The records have their fields.
Shapes ==
    /\ DOMAIN bus = {"state", "tx_seq", "tx_max", "ctrl_frame_stat",
                     "ctrl_frame_err", "rxctl", "rxpending", "rxskip", "intstatus",
                     "txq", "txoff", "dpc_triggered", "queued"}
    /\ DOMAIN dpc = {"pc", "left", "pktq", "err", "todo"}
    /\ DOMAIN net = {"stopped", "netif_stop", "pc", "skb", "ret", "todo",
                     "pend_8021x", "woken", "overtaken"}
    /\ DOMAIN dongle = {"rx", "exec", "tx", "int", "nak", "grant", "told"}

\* What is queued, and what is on its way to and from the chip.
Frame == [from : Interface, pae : BOOLEAN]
ToChip == [chan : {"control"}, body : Message, seq : Seq8]
            \cup [chan : {"data"}, body : {Null}, seq : Seq8]
FromChip == [chan : {"control"}, body : Message, max : Seq8]
              \cup [chan : {"event"}, body : {Null}, max : Seq8]

QueueTypes ==
    /\ bus.txq \in Seq(Frame) /\ Len(bus.txq) <= TXQLEN
    /\ dpc.pktq \in Seq(Frame)
    /\ net.skb \in [Interface -> BOOLEAN] /\ net.pend_8021x \in Int
ChipTypes ==
    /\ dongle.rx \in Seq(ToChip) /\ dongle.tx \in Seq(FromChip)
    /\ dongle.exec \in Message \cup {Null} /\ dongle.grant \in Seq8
MessageTypes ==
    /\ bus.tx_seq \in Seq8 /\ bus.tx_max \in Seq8
    /\ bus.rxctl \in Message \cup {Null} /\ msg \in Message \cup {Null}
    /\ bus.ctrl_frame_stat => msg \in Message
CallerTypes ==
    /\ DOMAIN proto = {"block", "reqno", "unsent", "unanswered"}
    /\ proto.block \in Caller \cup {Null} /\ proto.reqno \in Nat
    /\ DOMAIN caller = Caller
    /\ \A c \in Caller :
         /\ DOMAIN caller[c] = {"pc", "req", "ret", "got"}
         /\ caller[c].req \in Nat /\ caller[c].got \in Nat
         /\ At(c, "txctl") => msg \in Message
Types == Shapes /\ QueueTypes /\ ChipTypes /\ MessageTypes /\ CallerTypes

-----------------------------------------------------------------------------
\* A remainder is in the range of its modulus.
LEMMA Modulo ==
    ASSUME NEW M \in Nat \ {0}, NEW x \in Int
    PROVE  x % M \in 0..(M - 1)
OBVIOUS

\* What division and remainder are.
LEMMA Division ==
    ASSUME NEW M \in Nat \ {0}, NEW x \in Int
    PROVE  x = (x \div M) * M + (x % M)
OBVIOUS

\* The remainder is the only number of its range that differs by a multiple.
LEMMA Remainder ==
    ASSUME NEW M \in Nat \ {0}, NEW x \in Int, NEW r \in 0..(M - 1), NEW k \in Int,
           x = k * M + r
    PROVE  x % M = r
<1> DEFINE p == x \div M
           s == x % M
<1>1. x = p * M + s
  BY Division
<1>2. p \in Int /\ s \in 0..(M - 1)
  BY Modulo
<1> HIDE DEF p, s
<1>3. s - r = (k - p) * M
  BY <1>1, <1>2
<1>4. /\ k - p >= 1 => (k - p) * M >= M
      /\ k - p <= -1 => (k - p) * M <= -M
      /\ k - p = 0 => (k - p) * M = 0
  BY <1>2
<1>5. s = r
  BY <1>2, <1>3, <1>4
<1>6. QED
  BY <1>5 DEF s

\* Two numbers with the same id are equal or IdMod apart (for any modulus).
LEMMA SameId ==
    ASSUME NEW M \in Nat \ {0}, NEW a \in Nat, NEW b \in Nat, a <= b, a % M = b % M
    PROVE  a = b \/ b - a >= M
<1> DEFINE p == a \div M
           q == b \div M
<1>1. a = p * M + (a % M) /\ b = q * M + (b % M)
  BY Division
<1>2. p \in Int /\ q \in Int /\ a % M \in Int
  OBVIOUS
<1> HIDE DEF p, q
<1>3. b - a = (q - p) * M
  BY <1>1, <1>2
<1>4. /\ q - p >= 1 => (q - p) * M >= M
      /\ q - p <= -1 => (q - p) * M < 0
      /\ q - p = 0 => (q - p) * M = 0
  BY <1>2
<1>5. QED
  BY <1>2, <1>3, <1>4

\* Sequence numbers are remainders ...
LEMMA SeqModulo ==
    ASSUME NEW x \in Int
    PROVE  x % SDPCM_SEQ_WRAP \in Seq8
BY Modulo, WindowAssumption DEF Seq8

\* ... and integers.
LEMMA SeqInt == Seq8 \subseteq Int
BY WindowAssumption DEF Seq8

\* The window taken from a header is a sequence number.
LEMMA WindowType ==
    ASSUME MessageTypes, NEW max \in Seq8
    PROVE  NewWindow(max) \in Seq8
<1>1. bus.tx_seq + 2 \in Int
  BY WindowAssumption DEF MessageTypes, Seq8
<1>2. (bus.tx_seq + 2) % SDPCM_SEQ_WRAP \in Seq8
  BY <1>1, SeqModulo
<1>3. QED
  BY <1>2 DEF NewWindow

\* So is every number after tx_seq.
LEMMA SeqNext ==
    ASSUME MessageTypes, NEW n \in Int
    PROVE  (bus.tx_seq + n) % SDPCM_SEQ_WRAP \in Seq8
<1>1. bus.tx_seq + n \in Int
  BY WindowAssumption DEF MessageTypes, Seq8
<1>2. QED
  BY <1>1, SeqModulo

\* What txfinalize leaves of the counter is an integer.
LEMMA FinalizedType ==
    ASSUME QueueTypes
    PROVE  Finalized(dpc.pktq) \in Int
<1> DEFINE S == {k \in DOMAIN dpc.pktq : dpc.pktq[k].pae}
<1>1. DOMAIN dpc.pktq = 1..Len(dpc.pktq) /\ Len(dpc.pktq) \in Nat
  BY DEF QueueTypes
<1>2. IsFiniteSet(S)
  <2>1. IsFiniteSet(1..Len(dpc.pktq))
    BY <1>1, FS_Interval
  <2>2. S \subseteq 1..Len(dpc.pktq)
    BY <1>1
  <2>3. QED
    BY <2>1, <2>2, FS_Subset
<1>3. Cardinality(S) \in Nat
  BY <1>2, FS_CardinalityType
<1>4. QED
  BY <1>3 DEF Finalized, QueueTypes

\* The steps of the worker, the interrupt and the faults that touch no queue.
LEMMA PassTypes ==
    ASSUME Types,
           WorkerStart \/ WorkerLoop \/ DpcStatus \/ ReadNoMore \/ ReadLeft
             \/ DpcCtrl \/ CtrlGone \/ DpcData \/ FillEnds \/ TxOn
             \/ DpcHalts \/ DpcEnds \/ CardRemoved \/ Suspend \/ Isr
             \/ CtrlFails
    PROVE  Shapes' /\ QueueTypes' /\ ChipTypes' /\ MessageTypes'
<1> USE DEF Types, Shapes, QueueTypes, ChipTypes, MessageTypes
<1>1. CASE WorkerStart
  BY <1>1 DEF WorkerStart, Goto, Reading
<1>2. CASE WorkerLoop
  <2>1. CASE bus.dpc_triggered
    <3>1. /\ bus' = [bus EXCEPT !.dpc_triggered = FALSE]
          /\ dpc' = [dpc EXCEPT !.pc = "status", !.err = FALSE]
          /\ UNCHANGED <<msg, net, dongle>>
      BY <1>2, <2>1 DEF WorkerLoop
    <3>2. QED
      BY <3>1
  <2>2. CASE ~bus.dpc_triggered
    BY <1>2, <2>2 DEF WorkerLoop, Goto
  <2>3. QED
    BY <2>1, <2>2
<1>3. CASE DpcStatus
  BY <1>3 DEF DpcStatus, Goto, Reading
<1>4. CASE ReadNoMore
  BY <1>4 DEF ReadNoMore, Goto, Reading
<1>5. CASE ReadLeft
  BY <1>5 DEF ReadLeft, Goto, Reading
<1>6. CASE DpcCtrl
  BY <1>6 DEF DpcCtrl, Goto, Reading
<1>7. CASE CtrlGone
  BY <1>7 DEF CtrlGone, Goto, Reading
<1>8. CASE DpcData
  BY <1>8 DEF DpcData, Goto, Reading
<1>9. CASE FillEnds
  BY <1>9 DEF FillEnds, Goto, Reading
<1>10. CASE TxOn
  BY <1>10 DEF TxOn, Goto, Reading
<1>11. CASE DpcHalts
  BY <1>11 DEF DpcHalts, Goto, Reading
<1>12. CASE DpcEnds
  BY <1>12 DEF DpcEnds, Goto, Reading
<1>13. CASE CardRemoved
  BY <1>13 DEF CardRemoved, Goto, Reading
<1>14. CASE Suspend
  BY <1>14 DEF Suspend, Goto, Reading
<1>15. CASE Isr
  BY <1>15 DEF Isr, Goto, Reading
<1>16. CASE CtrlFails
  BY <1>16 DEF CtrlFails, Goto, Reading
<1>17. QED
  BY <1>1, <1>2, <1>3, <1>4, <1>5, <1>6, <1>7, <1>8, <1>9, <1>10, <1>11, <1>12,
     <1>13, <1>14, <1>15, <1>16

\* A frame is read: the answer and the window it carries have their types.
LEMMA ReadFrameTypes ==
    ASSUME Types, ReadFrame
    PROVE  Shapes' /\ QueueTypes' /\ ChipTypes' /\ MessageTypes'
<1> USE DEF Types, Shapes, QueueTypes, ChipTypes, MessageTypes
<1>1. dongle.tx # <<>> /\ dongle.tx \in Seq(FromChip)
  BY DEF ReadFrame
<1>2. PICK f \in FromChip : f = Head(dongle.tx)
  BY <1>1
<1>3. NewWindow(f.max) \in Seq8
  BY <1>2, WindowType DEF FromChip
<1>4. Tail(dongle.tx) \in Seq(FromChip)
  BY <1>1
<1>5. f.chan = "control" => f.body \in Message
  BY <1>2 DEF FromChip
<1>6. QED
  BY <1>2, <1>3, <1>4, <1>5 DEF ReadFrame, read_control

\* Its transfer fails: of the window, too, if it had come so far.
LEMMA ReadFailsTypes ==
    ASSUME Types, ReadFails
    PROVE  Shapes' /\ QueueTypes' /\ ChipTypes' /\ MessageTypes'
<1> USE DEF Types, Shapes, QueueTypes, ChipTypes, MessageTypes
<1>1. Head(dongle.tx) \in FromChip
  BY DEF ReadFails
<1>2. NewWindow(Head(dongle.tx).max) \in Seq8
  BY <1>1, WindowType DEF FromChip
<1>3. PICK max \in Seq8 : bus' = [bus EXCEPT !.rxskip = TRUE, !.tx_max = max]
  BY <1>2 DEF ReadFails
<1>4. /\ dongle' = [dongle EXCEPT !.nak = TRUE]
      /\ dpc' = [dpc EXCEPT !.left = @ - 1]
      /\ dpc.left > 0 /\ UNCHANGED <<msg, net>>
  BY DEF ReadFails, Reading
<1>5. QED
  BY <1>3, <1>4

\* A frame is lost: the queue of the chip is shorter.
LEMMA ReadTypes ==
    ASSUME Types, ReadBadHeader
    PROVE  Shapes' /\ QueueTypes' /\ ChipTypes' /\ MessageTypes'
<1> USE DEF Types, Shapes, QueueTypes, ChipTypes, MessageTypes
<1>1. CASE ReadBadHeader
  BY <1>1 DEF ReadBadHeader, Goto, Reading
<1>2. QED
  BY <1>1

\* The control frame is sent: the chip gets a request with its number.
LEMMA CtrlSentTypes ==
    ASSUME Types, CtrlSent
    PROVE  Shapes' /\ QueueTypes' /\ ChipTypes' /\ MessageTypes'
<1> USE DEF Types, Shapes, QueueTypes, ChipTypes, MessageTypes
<1>1. (bus.tx_seq + 1) % SDPCM_SEQ_WRAP \in Seq8
  BY SeqNext
<1>2. [chan |-> "control", seq |-> bus.tx_seq, body |-> msg] \in ToChip
  BY DEF CtrlSent, ToChip
<1>3. QED
  BY <1>1, <1>2 DEF CtrlSent, Goto

\* How many frames sendfromq puts into one transfer.
FillLength ==
    Smaller(Smaller(IF Glom > 1 THEN Window % SDPCM_SEQ_WRAP ELSE 1, Glom),
            Len(bus.txq))

\* It is never more than there are.
LEMMA FillLengthType ==
    ASSUME Types
    PROVE  FillLength \in 0..Len(bus.txq)
<1> USE DEF Types, QueueTypes, MessageTypes
<1>1. Window \in Int
  BY WindowAssumption DEF Window, Seq8
<1>2. Window % SDPCM_SEQ_WRAP \in Nat
  BY <1>1, SeqModulo, WindowAssumption DEF Seq8
<1>3. Len(bus.txq) \in Nat
  BY LenProperties
<1>4. QED
  BY <1>2, <1>3, WindowAssumption DEF FillLength, Smaller

\* Filling a transfer cuts the queue in two.
LEMMA FillTypes ==
    ASSUME Types, Fill
    PROVE  Shapes' /\ QueueTypes' /\ ChipTypes' /\ MessageTypes'
<1> USE DEF Types, Shapes, QueueTypes, ChipTypes, MessageTypes
<1> DEFINE n == FillLength
<1>1. n \in 0..Len(bus.txq)
  BY FillLengthType
<1>2. /\ SubSeq(bus.txq, 1, n) \in Seq(Frame)
      /\ SubSeq(bus.txq, n + 1, Len(bus.txq)) \in Seq(Frame)
      /\ Len(SubSeq(bus.txq, n + 1, Len(bus.txq))) <= Len(bus.txq)
  <2> HIDE DEF n
  <2>1. 1..n \subseteq 1..Len(bus.txq) /\ (n + 1)..Len(bus.txq) \subseteq 1..Len(bus.txq)
    BY <1>1
  <2>2. QED
    BY <1>1, <2>1, SubSeqProperties
<1>3. /\ dpc' = [dpc EXCEPT !.pc = "send", !.left = @ - n,
                             !.pktq = SubSeq(bus.txq, 1, n)]
      /\ bus' = [bus EXCEPT !.txq = SubSeq(@, n + 1, Len(@))]
      /\ UNCHANGED <<msg, net, dongle, budget>>
  BY DEF Fill, FillLength
<1>4. QED
  <2> HIDE DEF n
  <2>1. QED
    BY <1>2, <1>3, TxqAssumption

\* The frames of one transfer, as the chip gets them.
LEMMA ChainType ==
    ASSUME QueueTypes, MessageTypes
    PROVE  LET new == [k \in DOMAIN dpc.pktq |->
                        [chan |-> "data", body |-> Null,
                         seq |-> (bus.tx_seq + k - 1) % SDPCM_SEQ_WRAP]]
           IN  new \in Seq(ToChip) /\ Len(new) = Len(dpc.pktq)
<1> USE DEF QueueTypes, MessageTypes
<1> DEFINE new == [k \in DOMAIN dpc.pktq |->
                     [chan |-> "data", body |-> Null,
                      seq |-> (bus.tx_seq + k - 1) % SDPCM_SEQ_WRAP]]
<1>1. Len(dpc.pktq) \in Nat
  OBVIOUS
<1>2. ASSUME NEW k \in 1..Len(dpc.pktq)
      PROVE  new[k] \in ToChip
  <2>1. (bus.tx_seq + k - 1) % SDPCM_SEQ_WRAP \in Seq8
    <3>1. k - 1 \in Int /\ bus.tx_seq + k - 1 = bus.tx_seq + (k - 1)
      BY WindowAssumption DEF Seq8
    <3>2. QED
      BY <3>1, SeqNext
  <2>2. QED
    BY <2>1 DEF ToChip
<1>3. DOMAIN dpc.pktq = 1..Len(dpc.pktq)
  BY LenProperties
<1>4. new \in Seq(ToChip)
  <2>1. new \in [1..Len(dpc.pktq) -> ToChip]
    BY <1>2, <1>3
  <2> HIDE DEF new
  <2>2. QED
    BY <1>1, <2>1, SeqDef
<1>5. Len(new) = Len(dpc.pktq)
  <2>1. DOMAIN new = 1..Len(dpc.pktq)
    BY <1>3
  <2> HIDE DEF new
  <2>2. QED
    BY <1>1, <1>4, <2>1, LenProperties
<1>6. QED
  BY <1>4, <1>5

\* A transfer is sent.
LEMMA SentTypes ==
    ASSUME Types, Sent
    PROVE  Shapes' /\ QueueTypes' /\ ChipTypes' /\ MessageTypes'
<1> USE DEF Types, Shapes, QueueTypes, ChipTypes, MessageTypes
<1>1. Len(dpc.pktq) \in Nat
  OBVIOUS
<1>2. (bus.tx_seq + Len(dpc.pktq)) % SDPCM_SEQ_WRAP \in Seq8
  BY <1>1, SeqNext
<1>3. Finalized(dpc.pktq) \in Int
  BY FinalizedType
<1> DEFINE new == [k \in DOMAIN dpc.pktq |->
                     [chan |-> "data", body |-> Null,
                      seq |-> (bus.tx_seq + k - 1) % SDPCM_SEQ_WRAP]]
<1>4. new \in Seq(ToChip)
  BY ChainType
<1>5. dongle.rx \o new \in Seq(ToChip)
  BY <1>4, ConcatProperties
<1>6. QED
  BY <1>2, <1>3, <1>5 DEF Sent

\* A transfer that fails, the release of the interfaces, the end of a NAK.
LEMMA ChipStepTypes ==
    ASSUME Types, SendFails \/ Unblock \/ DongleNakHandled
    PROVE  Shapes' /\ QueueTypes' /\ ChipTypes' /\ MessageTypes'
<1> USE FinalizedType DEF Types, Shapes, QueueTypes, ChipTypes, MessageTypes
<1>1. CASE SendFails
  BY <1>1 DEF SendFails
<1>2. CASE Unblock
  BY <1>2 DEF Unblock, txflowblock_if
<1>3. CASE DongleNakHandled
  BY <1>3 DEF DongleNakHandled
<1>4. QED
  BY <1>1, <1>2, <1>3

\* The chip takes a frame, answers an ioctl or returns its credits.
LEMMA DongleTypes ==
    ASSUME Types, DongleTakes \/ DongleAnswers \/ DongleCredits
    PROVE  Shapes' /\ QueueTypes' /\ ChipTypes' /\ MessageTypes'
<1> USE DEF Types, Shapes, QueueTypes, ChipTypes, MessageTypes
<1>1. CASE DongleTakes
  <2>1. PICK f \in ToChip : f = Head(dongle.rx)
    BY <1>1 DEF DongleTakes
  <2>2. (f.seq + 1 + Credits) % SDPCM_SEQ_WRAP \in Seq8
    <3>1. f.seq + 1 + Credits \in Int
      BY <2>1, WindowAssumption DEF ToChip, Seq8
    <3>2. QED
      BY <3>1, SeqModulo
  <2>3. QED
    BY <1>1, <2>1, <2>2 DEF DongleTakes, ToChip
<1>2. CASE DongleAnswers
  <2>1. [dongle.exec EXCEPT !.kind = "answer"] \in Message
    BY <1>2 DEF DongleAnswers, Message
  <2>2. QED
    BY <1>2, <2>1 DEF DongleAnswers, DongleSends, FromChip
<1>3. CASE DongleCredits
  BY <1>3 DEF DongleCredits, DongleSends, FromChip
<1>4. QED
  BY <1>1, <1>2, <1>3

\* A resume wakes the queues.
LEMMA ResumeTypes ==
    ASSUME Types, Resume
    PROVE  Shapes' /\ QueueTypes' /\ ChipTypes' /\ MessageTypes'
<1> DEFINE held == net.woken \/ bus.txoff \/ \E i \in Interface : net.netif_stop[i]
           net1 == [[net EXCEPT !.stopped = [i \in Interface |-> FALSE]]
                      EXCEPT !.woken = held]
<1>1. DOMAIN net1 = DOMAIN net
  OBVIOUS
<1>2. net1.skb = net.skb /\ net1.pend_8021x = net.pend_8021x
  BY DEF Types, Shapes
<1>3. net' = net1 \/ net' = net
  BY DEF Resume
<1>4. net'.skb = net.skb /\ net'.pend_8021x = net.pend_8021x /\ DOMAIN net' = DOMAIN net
  BY <1>1, <1>2, <1>3
<1> HIDE DEF net1
<1>5. /\ UNCHANGED <<msg, dongle>> /\ Goto("idle")
      /\ bus' = bus \/ bus' = [bus EXCEPT !.state = "DATA"]
  BY DEF Resume
<1>6. QED
  BY <1>4, <1>5 DEF Goto, Types, Shapes, QueueTypes, ChipTypes, MessageTypes

\* The steps of the sending threads.
LEMMA SenderTypes ==
    ASSUME Types, NEW i \in Interface,
           Send(i) \/ \E pae \in BOOLEAN : Xmit(i, pae)
    PROVE  Shapes' /\ QueueTypes' /\ ChipTypes' /\ MessageTypes'
<1> USE DEF Types, Shapes, QueueTypes, ChipTypes, MessageTypes, Sender
<1>1. ASSUME NEW pae \in BOOLEAN, Xmit(i, pae)
      PROVE  Shapes' /\ QueueTypes' /\ ChipTypes' /\ MessageTypes'
  <2>1. UNCHANGED <<bus, msg, dpc, dongle>>
    BY <1>1 DEF Xmit
  <2>2. CASE bus.state = "DATA"
    <3>1. net' = [net EXCEPT !.pc[i] = "txdata", !.skb[i] = pae,
                             !.pend_8021x = @ + (IF pae THEN 1 ELSE 0)]
      BY <1>1, <2>2 DEF Xmit
    <3>2. net'.skb = [net.skb EXCEPT ![i] = pae] /\ DOMAIN net' = DOMAIN net
      BY <3>1
    <3>3. net'.pend_8021x = net.pend_8021x + (IF pae THEN 1 ELSE 0)
      BY <3>1
    <3>4. net'.skb \in [Interface -> BOOLEAN]
      BY <3>2
    <3>5. net'.pend_8021x \in Int
      BY <3>3
    <3>6. QED
      BY <2>1, <3>2, <3>4, <3>5
  <2>3. CASE bus.state # "DATA"
    BY <1>1, <2>1, <2>3 DEF Xmit
  <2>4. QED
    BY <2>2, <2>3
<1>2. CASE TxData(i)
  <2>1. [from |-> i, pae |-> net.skb[i]] \in Frame
    BY DEF Frame
  <2>2. QED
    BY <1>2, <2>1, TxqAssumption DEF TxData
<1>3. CASE TxBlock(i)
  BY <1>3 DEF TxBlock, txflowblock_if
<1>4. CASE TxTrigger(i)
  BY <1>4 DEF TxTrigger, trigger_dpc
<1>5. CASE XmitRejected(i) \/ TxRefused(i) \/ TxFinalize(i)
  BY <1>5 DEF XmitRejected, TxRefused, TxFinalize
<1>6. QED
  BY <1>1, <1>2, <1>3, <1>4, <1>5 DEF Send

-----------------------------------------------------------------------------
\* The driver and the chip begin with these types.
LEMMA InitTypes == Init => Types
<1> SUFFICES ASSUME Init PROVE Types
  OBVIOUS
<1> USE WindowAssumption, TxqAssumption
<1>1. Shapes /\ QueueTypes /\ ChipTypes /\ MessageTypes
  BY DEF Init, BusInit, Shapes, QueueTypes, ChipTypes, MessageTypes, Seq8
<1>2. CallerTypes
  BY DEF Init, CallerTypes, IdleCaller, At
<1>3. QED
  BY <1>1, <1>2 DEF Types

CallerFields(c) == DOMAIN caller[c] = {"pc", "req", "ret", "got"}

\* What Step changes, field by field: the place of one caller.
LEMMA StepFields ==
    ASSUME CallerTypes, NEW c \in Caller, NEW pc, Step(c, pc)
    PROVE  /\ DOMAIN caller' = Caller
           /\ \A d \in Caller :
                /\ CallerFields(d)' /\ caller'[d].pc = IF d = c THEN pc ELSE caller[d].pc
                /\ caller'[d].req = caller[d].req
                /\ caller'[d].ret = caller[d].ret
                /\ caller'[d].got = caller[d].got
BY DEF CallerTypes, CallerFields, Step

\* What Return changes: the place and the result of one caller.
LEMMA ReturnFields ==
    ASSUME CallerTypes, NEW c \in Caller, NEW ret, NEW got, Return(c, ret, got)
    PROVE  /\ DOMAIN caller' = Caller
           /\ \A d \in Caller \ {c} : caller'[d] = caller[d]
           /\ CallerFields(c)' /\ caller'[c].req = caller[c].req
           /\ caller'[c].pc = "done" /\ caller'[c].ret = ret /\ caller'[c].got = got
<1> DEFINE r1 == [caller[c] EXCEPT !.pc = "done"]
           r2 == [r1 EXCEPT !.ret = ret]
           r3 == [r2 EXCEPT !.got = got]
<1>1. caller' = [caller EXCEPT ![c] = r3]
  BY DEF Return, CallerTypes
<1>2. DOMAIN r3 = DOMAIN caller[c]
  OBVIOUS
<1>3. r3.pc = "done" /\ r3.ret = ret /\ r3.got = got /\ r3.req = caller[c].req
  BY DEF CallerTypes
<1>4. QED
  BY <1>1, <1>2, <1>3 DEF CallerTypes, CallerFields

ProtoTypes ==
    /\ DOMAIN proto = {"block", "reqno", "unsent", "unanswered"}
    /\ proto.block \in Caller \cup {Null} /\ proto.reqno \in Nat

\* A caller that returns, whatever the result, keeps the types.
LEMMA ReturnTypes ==
    ASSUME CallerTypes, NEW c \in Caller, NEW ret, NEW got \in Nat,
           Return(c, ret, got), ProtoTypes', msg' = msg \/ msg' \in Message
    PROVE  CallerTypes'
<1>1. ASSUME NEW d \in Caller
      PROVE  /\ caller'[d].req \in Nat /\ caller'[d].got \in Nat
             /\ DOMAIN caller'[d] = {"pc", "req", "ret", "got"}
             /\ caller'[d].pc = "txctl" => msg' \in Message
  BY ReturnFields DEF CallerTypes, CallerFields, At
<1>2. QED
  BY <1>1, ReturnFields DEF CallerTypes, ProtoTypes, At

\* A request is put together, or refused.
LEMMA LockTypes ==
    ASSUME Types, NEW c \in Caller, Lock(c)
    PROVE  Types'
<1> USE DEF Types, Shapes, QueueTypes, ChipTypes, MessageTypes, CallerTypes
<1>1. CASE bus.state = "DATA"
  <2>1. /\ msg' = [kind |-> "request", req |-> proto.reqno + 1,
                   id |-> (proto.reqno + 1) % IdMod]
        /\ proto' = [proto EXCEPT !.block = c, !.reqno = @ + 1]
        /\ caller' = [caller EXCEPT ![c].pc = "txctl",
                                     ![c].req = proto.reqno + 1]
        /\ UNCHANGED <<bus, dpc, net, dongle, budget>>
    BY <1>1 DEF Lock
  <2>2. (proto.reqno + 1) % IdMod \in 0..(IdMod - 1)
    <3>1. proto.reqno + 1 \in Int
      OBVIOUS
    <3>2. QED
      BY <3>1, IdModAssumption, Modulo
  <2>3. msg' \in Message
    BY <2>1, <2>2 DEF Message
  <2>4. CallerTypes'
    BY <2>1, <2>3 DEF At
  <2>5. QED
    BY <2>1, <2>3, <2>4
<1>2. CASE bus.state # "DATA"
  <2>1. /\ Return(c, "EIO", 0) /\ proto' = [proto EXCEPT !.block = c]
        /\ UNCHANGED <<bus, msg, dpc, net, dongle, budget>>
    BY <1>2 DEF Lock
  <2>2. ProtoTypes'
    BY <2>1 DEF ProtoTypes
  <2>3. CallerTypes'
    BY <2>1, <2>2, ReturnTypes
  <2>4. QED
    BY <2>1, <2>3
<1>3. QED
  BY <1>1, <1>2

\* A request that is not sent is added to the refused ones.
LEMMA NotSentTypes ==
    ASSUME CallerTypes, NEW c \in Caller, NEW ret, NotSent(c, ret), UNCHANGED msg
    PROVE  CallerTypes'
<1>1. ProtoTypes'
  BY DEF NotSent, CallerTypes, ProtoTypes
<1>2. QED
  BY <1>1, ReturnTypes DEF NotSent

\* One that is not answered is added to the unanswered ones.
LEMMA NoAnswerTypes ==
    ASSUME CallerTypes, NEW c \in Caller, NEW ret, NoAnswer(c, ret), UNCHANGED msg
    PROVE  CallerTypes'
<1>1. ProtoTypes'
  BY DEF NoAnswer, CallerTypes, ProtoTypes
<1>2. QED
  BY <1>1, ReturnTypes DEF NoAnswer

\* A caller that only goes on keeps the types.
LEMMA StepTypes ==
    ASSUME CallerTypes, NEW c \in Caller, NEW pc, Step(c, pc), ProtoTypes',
           msg' = msg \/ msg' \in Message,
           pc # "txctl"
    PROVE  CallerTypes'
<1>1. ASSUME NEW d \in Caller
      PROVE  /\ caller'[d].req \in Nat /\ caller'[d].got \in Nat
             /\ DOMAIN caller'[d] = {"pc", "req", "ret", "got"}
             /\ caller'[d].pc = "txctl" => msg' \in Message
  BY StepFields DEF CallerTypes, CallerFields, At
<1>2. QED
  BY <1>1, StepFields DEF CallerTypes, ProtoTypes, At

\* The steps of txctl.
LEMMA TxTypes ==
    ASSUME Types, NEW c \in Caller,
           TxCtl(c) \/ TriggerDpc(c) \/ TxDone(c) \/ TxTimeout(c) \/ TxClaim(c)
    PROVE  Types'
<1>1. UNCHANGED <<msg, dpc, net, dongle, budget>>
  BY DEF TxCtl, TriggerDpc, TxDone, TxTimeout, TxClaim
<1>2. CallerTypes /\ ProtoTypes
  BY DEF Types, CallerTypes, ProtoTypes
<1>3. CallerTypes'
  <2>1. CASE TxCtl(c)
    BY <1>1, <1>2, <2>1, NotSentTypes, StepTypes DEF TxCtl, ProtoTypes
  <2>2. CASE TriggerDpc(c)
    BY <1>1, <1>2, <2>2, StepTypes DEF TriggerDpc, ProtoTypes
  <2>3. CASE TxDone(c)
    BY <1>1, <1>2, <2>3, NotSentTypes, StepTypes DEF TxDone, TxResult, ProtoTypes
  <2>4. CASE TxTimeout(c)
    BY <1>1, <1>2, <2>4, StepTypes DEF TxTimeout, ProtoTypes
  <2>5. CASE TxClaim(c)
    BY <1>1, <1>2, <2>5, NotSentTypes, StepTypes DEF TxClaim, TxResult, ProtoTypes
  <2>6. QED
    BY <2>1, <2>2, <2>3, <2>4, <2>5
<1>4. Shapes' /\ QueueTypes' /\ ChipTypes' /\ MessageTypes'
  <2> USE DEF Types, Shapes, QueueTypes, ChipTypes, MessageTypes
  <2>1. CASE TxCtl(c)
    <3>1. bus' = bus \/ bus' = [bus EXCEPT !.ctrl_frame_stat = TRUE]
      BY <2>1 DEF TxCtl
    <3>2. msg \in Message
      BY <2>1 DEF TxCtl, CallerTypes
    <3>3. QED
      BY <1>1, <3>1, <3>2
  <2>2. CASE TriggerDpc(c)
    BY <1>1, <2>2 DEF TriggerDpc, trigger_dpc
  <2>3. CASE TxDone(c) \/ TxTimeout(c)
    BY <1>1, <2>3 DEF TxDone, TxTimeout
  <2>4. CASE TxClaim(c)
    BY <1>1, <2>4 DEF TxClaim
  <2>5. QED
    BY <2>1, <2>2, <2>3, <2>4
<1>5. QED
  BY <1>3, <1>4 DEF Types

\* The steps of rxctl, and the beginning and the end of a call.
LEMMA RxTypes ==
    ASSUME Types, NEW c \in Caller,
           RxCtl(c) \/ RxTake(c) \/ RxTimeout(c) \/ Unlock(c) \/ Call(c)
    PROVE  Types'
<1>1. UNCHANGED <<dpc, net, dongle>>
  BY DEF RxCtl, RxTake, RxTimeout, Unlock, Call
<1>2. CallerTypes /\ ProtoTypes
  BY DEF Types, CallerTypes, ProtoTypes
<1>3. CallerTypes'
  <2>1. CASE RxCtl(c)
    BY <1>2, <2>1, NoAnswerTypes, StepTypes DEF RxCtl, ProtoTypes
  <2>2. CASE RxTake(c)
    <3>1. msg' \in Message /\ msg'.req \in Nat
      BY <2>2 DEF RxTake, Message, Types, MessageTypes
    <3>2. QED
      BY <1>2, <2>2, <3>1, ReturnTypes, StepTypes DEF RxTake, ProtoTypes
  <2>3. CASE RxTimeout(c)
    BY <1>2, <2>3, NoAnswerTypes DEF RxTimeout
  <2>4. CASE Unlock(c)
    <3>1. ProtoTypes'
      BY <1>2, <2>4 DEF Unlock, ProtoTypes
    <3>2. QED
      BY <1>2, <2>4, <3>1, StepTypes DEF Unlock
  <2>5. CASE Call(c)
    BY <1>2, <2>5, StepTypes DEF Call, ProtoTypes
  <2>6. QED
    BY <2>1, <2>2, <2>3, <2>4, <2>5
<1>4. Shapes' /\ QueueTypes' /\ ChipTypes' /\ MessageTypes'
  BY <1>1 DEF Types, CallerTypes, Shapes, QueueTypes, ChipTypes, MessageTypes,
     RxCtl, RxTake, RxTimeout, Unlock, Call
<1>5. QED
  BY <1>3, <1>4 DEF Types

\* No step of the bus writes the one buffer of the ioctls.
LEMMA BusKeepsMsg == BusNext => UNCHANGED msg
<1>1. Worker => UNCHANGED msg
  BY DEF Worker, WorkerStart, WorkerLoop, DpcStatus, ReadFrame, ReadNoMore,
     ReadLeft, DpcCtrl, CtrlGone, CtrlSent, DpcData, Fill, FillEnds, Sent,
     TxOn, Unblock, DpcHalts, DpcEnds, Resume
<1>2. Isr \/ Faults => UNCHANGED msg
  BY DEF Isr, Faults, ReadBadHeader, ReadFails, CtrlFails, SendFails, Suspend,
     CardRemoved
<1>3. Chip => UNCHANGED msg
  BY DEF Chip, DongleTakes, DongleAnswers, DongleCredits, DongleNakHandled
<1>4. ASSUME NEW i \in Interface, Send(i) \/ \E pae \in BOOLEAN : Xmit(i, pae)
      PROVE  UNCHANGED msg
  BY <1>4 DEF Send, XmitRejected, TxData, TxBlock, TxTrigger, TxRefused,
     TxFinalize, Xmit
<1>5. QED
  BY <1>1, <1>2, <1>3, <1>4 DEF BusNext

\* The steps of the bus keep all types.
LEMMA BusTypes ==
    ASSUME Types, BusNext, UNCHANGED <<proto, caller>>
    PROVE  Types'
<1>1. Shapes' /\ QueueTypes' /\ ChipTypes' /\ MessageTypes'
  <2>1. CASE Isr \/ Worker \/ Faults
    BY <2>1, PassTypes, ReadFailsTypes, ReadFrameTypes, ReadTypes, CtrlSentTypes, FillTypes,
       SentTypes, ChipStepTypes, ResumeTypes
    DEF Worker, Faults
  <2>2. CASE Chip
    BY <2>2, DongleTypes, ChipStepTypes DEF Chip
  <2>3. CASE \E i \in Interface : Send(i) \/ \E pae \in BOOLEAN : Xmit(i, pae)
    BY <2>3, SenderTypes
  <2>4. QED
    BY <2>1, <2>2, <2>3 DEF BusNext
<1>2. CallerTypes'
  BY <1>1, BusKeepsMsg DEF Types, CallerTypes, At
<1>3. QED
  BY <1>1, <1>2 DEF Types

\* The records, queues and numbers of the driver keep their shapes and
\* types in every step: the basis of all that follows.
THEOREM TypesInvariant == Spec => []Types
<1>1. Types /\ [Next]_vars => Types'
  <2> SUFFICES ASSUME Types, [Next]_vars PROVE Types'
    OBVIOUS
  <2>1. CASE UNCHANGED vars
    BY <2>1 DEF vars, Types, Shapes, QueueTypes, ChipTypes, MessageTypes,
       CallerTypes, At
  <2>2. CASE Next
    BY <2>2, BusTypes, LockTypes, TxTypes, RxTypes DEF Next, CallerNext
  <2>3. QED
    BY <2>1, <2>2
<1>2. QED
  BY <1>1, InitTypes, PTL DEF Spec

\* The driver's sequence numbers, slots, queue and counters keep their types
\* (sdio.c, bcdc.c, core.c).
THEOREM TypeCorrect == Spec => []TypeOK
<1>1. Types => TypeOK
  BY DEF Types, QueueTypes, MessageTypes, CallerTypes, TypeOK
<1>2. QED
  BY <1>1, TypesInvariant, PTL

-----------------------------------------------------------------------------
\* Past txctl's offer, and past its end.
Offering(c) == caller[c].pc \in {"trigger", "txwait", "txclaim"}
Answering(c) == caller[c].pc \in {"rxctl", "rxwait"}

\* The current request has not been sent.
Pending ==
    \E c \in Caller :
      At(c, "txctl") \/ (Offering(c) /\ (bus.ctrl_frame_stat \/ bus.ctrl_frame_err))

\* A message with the id of a request; one the chip may have.
Known(m) == m.req <= proto.reqno /\ m.id = m.req % IdMod
Taken(m) == /\ Known(m) /\ m.kind = "request" /\ m.req \notin proto.unsent
            /\ Pending => m.req # proto.reqno

ChipKnows ==
    /\ \A k \in 1..Len(dongle.rx) :
         dongle.rx[k].chan = "control" => Taken(dongle.rx[k].body)
    /\ dongle.exec # Null => Taken(dongle.exec)
AnswersKnown ==
    /\ \A k \in 1..Len(dongle.tx) :
         dongle.tx[k].chan = "control" => Known(dongle.tx[k].body)
    /\ bus.rxctl # Null => Known(bus.rxctl)
BufferHolds ==
    /\ bus.ctrl_frame_stat => \E c \in Caller : Offering(c)
    /\ (bus.ctrl_frame_stat \/ \E c \in Caller : At(c, "txctl")) =>
         Known(msg) /\ msg.kind = "request" /\ msg.req = proto.reqno
OneAtATime ==
    /\ proto.unsent \subseteq 0..proto.reqno
    /\ \A c \in Caller :
         /\ caller[c].pc \notin {"idle", "lock"} => proto.block = c
         /\ (At(c, "txctl") \/ Offering(c) \/ Answering(c)) =>
              caller[c].req = proto.reqno
         /\ (At(c, "txctl") \/ Offering(c)) => proto.reqno \notin proto.unsent

Control ==
    ChipKnows /\ AnswersKnown /\ BufferHolds /\ OneAtATime /\ AnswersOwnRequest

\* What requests and answers are carried in.
Carried == <<dongle.rx, dongle.exec, dongle.tx, bus.rxctl, bus.ctrl_frame_stat,
             bus.ctrl_frame_err, msg>>

\* At first nothing has been requested.
LEMMA InitControl == Init => Control
BY CallerAssumption DEF Init, BusInit, IdleCaller, Control, ChipKnows,
   AnswersKnown, BufferHolds, OneAtATime, AnswersOwnRequest, At, Offering,
   Answering

\* Control depends on Carried and on the callers only.
LEMMA CarriedControl ==
    ASSUME Control, UNCHANGED <<Carried, proto, caller>>
    PROVE  Control'
BY DEF Carried, Control, ChipKnows, AnswersKnown, BufferHolds, OneAtATime,
   AnswersOwnRequest, At, Offering, Answering, Known, Taken, Pending

\* The steps of the bus that carry no request, no answer, and leave the offer.
LEMMA PassCarries ==
    ASSUME Types,
           Isr \/ WorkerStart \/ WorkerLoop \/ DpcStatus \/ ReadFails
             \/ ReadNoMore \/ ReadLeft \/ DpcCtrl \/ CtrlGone \/ DpcData
             \/ Fill \/ SendFails \/ FillEnds \/ TxOn \/ Unblock \/ DpcEnds
             \/ Suspend \/ Resume \/ CardRemoved \/ DongleNakHandled
    PROVE  UNCHANGED Carried
<1> USE DEF Types, Shapes, Carried, Goto
<1>1. CASE Isr
  BY <1>1 DEF Isr
<1>2. CASE WorkerStart
  BY <1>2 DEF WorkerStart
<1>3. CASE WorkerLoop
  BY <1>3 DEF WorkerLoop
<1>4. CASE DpcStatus
  BY <1>4 DEF DpcStatus
<1>5. CASE ReadFails
  BY <1>5 DEF ReadFails
<1>6. CASE ReadNoMore
  BY <1>6 DEF ReadNoMore
<1>7. CASE ReadLeft
  BY <1>7 DEF ReadLeft
<1>8. CASE DpcCtrl
  BY <1>8 DEF DpcCtrl
<1>9. CASE CtrlGone
  BY <1>9 DEF CtrlGone
<1>10. CASE DpcData
  BY <1>10 DEF DpcData
<1>11. CASE Fill
  BY <1>11 DEF Fill
<1>12. CASE SendFails
  BY <1>12 DEF SendFails
<1>13. CASE FillEnds
  BY <1>13 DEF FillEnds
<1>14. CASE TxOn
  BY <1>14 DEF TxOn
<1>15. CASE Unblock
  BY <1>15 DEF Unblock
<1>16. CASE DpcEnds
  BY <1>16 DEF DpcEnds
<1>17. CASE Suspend
  BY <1>17 DEF Suspend
<1>18. CASE Resume
  BY <1>18 DEF Resume
<1>19. CASE CardRemoved
  BY <1>19 DEF CardRemoved
<1>20. CASE DongleNakHandled
  BY <1>20 DEF DongleNakHandled
<1>21. QED
  BY <1>1, <1>2, <1>3, <1>4, <1>5, <1>6, <1>7, <1>8, <1>9, <1>10, <1>11, <1>12,
     <1>13, <1>14, <1>15, <1>16, <1>17, <1>18, <1>19, <1>20

\* Nor do the sending threads carry any.
LEMMA SenderCarries ==
    ASSUME Types, NEW i \in Interface, Send(i) \/ \E pae \in BOOLEAN : Xmit(i, pae)
    PROVE  UNCHANGED Carried
<1> USE DEF Types, Shapes, Carried
<1>1. CASE \E pae \in BOOLEAN : Xmit(i, pae)
  BY <1>1 DEF Xmit
<1>2. CASE TxData(i)
  BY <1>2 DEF TxData
<1>3. CASE TxTrigger(i)
  BY <1>3 DEF TxTrigger, trigger_dpc
<1>4. CASE TxBlock(i) \/ XmitRejected(i) \/ TxRefused(i) \/ TxFinalize(i)
  BY <1>4 DEF TxBlock, XmitRejected, TxRefused, TxFinalize
<1>5. QED
  BY <1>1, <1>2, <1>3, <1>4 DEF Send

\* A frame is read or lost: what the slot holds then came from the chip.
LEMMA ReadControl ==
    ASSUME Types, Control, ReadFrame \/ ReadBadHeader, UNCHANGED <<proto, caller>>
    PROVE  Control'
<1>1. /\ dongle.tx # <<>> /\ dongle.tx \in Seq(FromChip) /\ dongle'.tx = Tail(dongle.tx)
      /\ UNCHANGED <<msg, bus.ctrl_frame_stat, bus.ctrl_frame_err>>
      /\ UNCHANGED <<dongle.rx, dongle.exec>>
      /\ bus'.rxctl = bus.rxctl
           \/ (Head(dongle.tx).chan = "control" /\ bus'.rxctl = Head(dongle.tx).body)
  BY DEF Types, Shapes, ChipTypes, ReadFrame, ReadBadHeader, Reading, read_control
<1>2. /\ Head(dongle.tx) = dongle.tx[1] /\ Len(dongle.tx) \in Nat \ {0}
      /\ Len(dongle'.tx) = Len(dongle.tx) - 1
      /\ \A k \in 1..Len(dongle'.tx) : dongle'.tx[k] = dongle.tx[k + 1]
  BY <1>1
<1>3. AnswersKnown'
  BY <1>1, <1>2 DEF Control, AnswersKnown, Known
<1>4. ChipKnows' /\ BufferHolds' /\ OneAtATime' /\ AnswersOwnRequest'
  BY <1>1 DEF Control, ChipKnows, BufferHolds, OneAtATime, AnswersOwnRequest,
     Known, Taken, Pending, At, Offering, Answering
<1>5. QED
  BY <1>3, <1>4 DEF Control

\* The offered request is sent, and is no longer pending.
LEMMA CtrlSentControl ==
    ASSUME Types, Control, CtrlSent, UNCHANGED <<proto, caller>>
    PROVE  Control'
<1>1. /\ bus.ctrl_frame_stat /\ ~bus'.ctrl_frame_stat /\ ~bus'.ctrl_frame_err
      /\ UNCHANGED <<msg, bus.rxctl, dongle.exec, dongle.tx>>
      /\ dongle'.rx = Append(dongle.rx, [chan |-> "control", seq |-> bus.tx_seq,
                                        body |-> msg])
  BY DEF Types, Shapes, CtrlSent
<1>2. PICK o \in Caller : Offering(o)
  BY <1>1 DEF Control, BufferHolds
<1>3. ~Pending'
  BY <1>1, <1>2, CallerAssumption DEF Pending, Control, OneAtATime, At, Offering
<1>4. Taken(msg)'
  BY <1>1, <1>2, <1>3 DEF Control, BufferHolds, OneAtATime, Taken, Known
<1>5. ChipKnows'
  <2>1. \A m : Taken(m) => Taken(m)'
    BY <1>3 DEF Taken, Known
  <2>2. (dongle.exec # Null => Taken(dongle.exec))'
    BY <1>1, <2>1 DEF Control, ChipKnows
  <2>3. ASSUME NEW k \in 1..Len(dongle'.rx), dongle'.rx[k].chan = "control"
        PROVE  Taken(dongle.rx[k].body)'
    <3>1. /\ dongle.rx \in Seq(ToChip) /\ Len(dongle'.rx) = Len(dongle.rx) + 1
          /\ k \in 1..Len(dongle.rx) => dongle'.rx[k] = dongle.rx[k]
          /\ k = Len(dongle.rx) + 1 => dongle'.rx[k].body = msg
      BY <1>1 DEF Types, ChipTypes
    <3>2. CASE k \in 1..Len(dongle.rx)
      BY <2>1, <2>3, <3>1, <3>2 DEF Control, ChipKnows
    <3>3. CASE k = Len(dongle.rx) + 1
      BY <1>1, <1>4, <3>1, <3>3
    <3>4. QED
      BY <3>1, <3>2, <3>3
  <2>4. QED
    BY <2>2, <2>3 DEF ChipKnows
<1>6. AnswersKnown' /\ BufferHolds' /\ OneAtATime' /\ AnswersOwnRequest'
  BY <1>1, <1>2, CallerAssumption DEF Control, AnswersKnown, BufferHolds,
     OneAtATime, AnswersOwnRequest, Known, At, Offering, Answering
<1>7. QED
  BY <1>5, <1>6 DEF Control

\* An offer that failed is withdrawn, and its request stays unsent.
LEMMA CtrlEndsControl ==
    ASSUME Types, Control, CtrlFails \/ DpcHalts, UNCHANGED <<proto, caller>>
    PROVE  Control'
<1>1. /\ UNCHANGED <<msg, dongle>> /\ UNCHANGED bus.rxctl /\ ~bus'.ctrl_frame_stat
      /\ bus'.ctrl_frame_err => (bus.ctrl_frame_stat \/ bus.ctrl_frame_err)
  BY DEF Types, Shapes, CtrlFails, DpcHalts
<1>2. Pending' => Pending
  BY <1>1 DEF Pending, At, Offering
<1>3. QED
  BY <1>1, <1>2 DEF Control, ChipKnows, AnswersKnown, BufferHolds, OneAtATime,
     AnswersOwnRequest, Known, Taken, At, Offering, Answering

\* Data frames carry no request.
LEMMA SentFrames ==
    ASSUME Types, Sent
    PROVE  \A k \in 1..Len(dongle'.rx) :
             dongle'.rx[k].chan = "control" =>
               k \in 1..Len(dongle.rx) /\ dongle'.rx[k] = dongle.rx[k]
<1> DEFINE new == [k \in DOMAIN dpc.pktq |->
                     [chan |-> "data", body |-> Null,
                      seq |-> (bus.tx_seq + k - 1) % SDPCM_SEQ_WRAP]]
<1>1. /\ dongle'.rx = dongle.rx \o new /\ new \in Seq([chan : {"data"}, body : {Null}, seq : Int])
      /\ dongle.rx \in Seq(ToChip)
  <2>1. dongle'.rx = dongle.rx \o new /\ dongle.rx \in Seq(ToChip)
    BY DEF Types, Shapes, ChipTypes, Sent
  <2>2. Len(dpc.pktq) \in Nat /\ DOMAIN dpc.pktq = 1..Len(dpc.pktq)
    BY LenProperties DEF Types, QueueTypes
  <2>3. ASSUME NEW k \in 1..Len(dpc.pktq)
        PROVE  (bus.tx_seq + k - 1) % SDPCM_SEQ_WRAP \in Int
    <3>1. bus.tx_seq + k - 1 \in Int
      BY WindowAssumption DEF Types, MessageTypes, Seq8
    <3>2. QED
      BY <3>1, SeqModulo, SeqInt
  <2>4. QED
    BY <2>1, <2>2, <2>3, IsASeq
<1> HIDE DEF new
<1>2. ASSUME NEW k \in 1..Len(dongle'.rx), dongle'.rx[k].chan = "control"
      PROVE  k \in 1..Len(dongle.rx) /\ dongle'.rx[k] = dongle.rx[k]
  <2>1. /\ Len(dongle.rx) \in Nat /\ Len(new) \in Nat
        /\ Len(dongle'.rx) = Len(dongle.rx) + Len(new)
        /\ dongle'.rx[k] = IF k <= Len(dongle.rx) THEN dongle.rx[k]
                           ELSE new[k - Len(dongle.rx)]
    BY <1>1, ConcatProperties
  <2>2. k > Len(dongle.rx) => new[k - Len(dongle.rx)].chan = "data"
    <3>1. k > Len(dongle.rx) => k - Len(dongle.rx) \in 1..Len(new)
      BY <2>1
    <3>2. \A j \in 1..Len(new) : new[j] \in [chan : {"data"}, body : {Null}, seq : Int]
      BY <1>1, ElementOfSeq
    <3>3. QED
      BY <3>1, <3>2
  <2>3. QED
    BY <1>2, <2>1, <2>2
<1>3. QED
  BY <1>2

\* Nor does sending them change what is asked and answered.
LEMMA SentControl ==
    ASSUME Types, Control, Sent, UNCHANGED <<proto, caller>>
    PROVE  Control'
<1>1. /\ UNCHANGED <<msg, bus.rxctl, bus.ctrl_frame_stat, bus.ctrl_frame_err>>
      /\ UNCHANGED <<dongle.exec, dongle.tx>>
  BY DEF Types, Shapes, Sent
<1>2. Pending' <=> Pending
  BY <1>1 DEF Pending, At, Offering
<1>3. ChipKnows'
  BY <1>1, <1>2, SentFrames DEF Control, ChipKnows, Taken, Known
<1>4. AnswersKnown' /\ BufferHolds' /\ OneAtATime' /\ AnswersOwnRequest'
  BY <1>1 DEF Control, AnswersKnown, BufferHolds, OneAtATime,
     AnswersOwnRequest, Known, At, Offering, Answering
<1>5. QED
  BY <1>3, <1>4 DEF Control

\* The chip answers what it has been sent.
LEMMA ChipControl ==
    ASSUME Types, Control, DongleTakes \/ DongleAnswers \/ DongleCredits,
           UNCHANGED <<proto, caller>>
    PROVE  Control'
<1>1. UNCHANGED <<bus, msg>>
  BY DEF DongleTakes, DongleAnswers, DongleCredits
<1>2. (Pending' <=> Pending) /\ \A m : (Known(m)' <=> Known(m)) /\ (Taken(m)' <=> Taken(m))
  BY <1>1 DEF Pending, Known, Taken, At, Offering
<1>3. ChipKnows'
  <2>1. CASE DongleTakes
    <3>1. /\ dongle.rx # <<>> /\ dongle.rx \in Seq(ToChip)
          /\ dongle'.rx = Tail(dongle.rx)
          /\ dongle'.exec = dongle.exec
               \/ (Head(dongle.rx).chan = "control" /\ dongle'.exec = Head(dongle.rx).body)
      BY <2>1 DEF DongleTakes, Types, Shapes, ChipTypes
    <3>2. /\ Head(dongle.rx) = dongle.rx[1] /\ Len(dongle.rx) \in Nat \ {0}
          /\ Len(dongle'.rx) = Len(dongle.rx) - 1
          /\ \A k \in 1..Len(dongle'.rx) : dongle'.rx[k] = dongle.rx[k + 1]
      BY <3>1
    <3>3. QED
      BY <1>2, <3>1, <3>2 DEF Control, ChipKnows
  <2>2. CASE DongleAnswers \/ DongleCredits
    <3>1. dongle'.rx = dongle.rx /\ (dongle'.exec = dongle.exec \/ dongle'.exec = Null)
      BY <2>2 DEF DongleAnswers, DongleCredits, DongleSends, Types, Shapes
    <3>2. QED
      BY <1>2, <3>1 DEF Control, ChipKnows
  <2>3. QED
    BY <2>1, <2>2
<1>4. AnswersKnown'
  <2>1. CASE DongleTakes
    <3>1. dongle'.tx = dongle.tx
      BY <2>1 DEF DongleTakes, Types, Shapes
    <3>2. QED
      BY <1>1, <1>2, <3>1 DEF Control, AnswersKnown
  <2>2. CASE DongleAnswers \/ DongleCredits
    <3>1. PICK f : /\ f.chan = "control" => Known(f.body)
                   /\ dongle'.tx = Append(dongle.tx, f)
      <4>1. CASE DongleCredits
        <5> DEFINE f == [chan |-> "event", body |-> Null, max |-> dongle.grant]
        <5>1. dongle'.tx = Append(dongle.tx, f)
          BY <4>1 DEF DongleCredits, DongleSends, Types, Shapes
        <5>2. QED
          BY <5>1
      <4>2. CASE DongleAnswers
        <5>1. Known([dongle.exec EXCEPT !.kind = "answer"])
          BY <4>2 DEF DongleAnswers, Control, ChipKnows, Taken, Known, Types,
             ChipTypes, Message
        <5>2. QED
          <6> DEFINE f == [chan |-> "control", body |-> [dongle.exec EXCEPT !.kind = "answer"],
                           max |-> dongle.grant]
          <6>1. dongle'.tx = Append(dongle.tx, f)
            BY <4>2 DEF DongleAnswers, DongleSends, Types, Shapes
          <6>2. f.body = [dongle.exec EXCEPT !.kind = "answer"]
            OBVIOUS
          <6>3. QED
            BY <5>1, <6>1, <6>2
      <4>3. QED
        BY <2>2, <4>1, <4>2
    <3>2. dongle.tx \in Seq(FromChip)
      BY DEF Types, ChipTypes
    <3>3. QED
      BY <1>1, <1>2, <3>1, <3>2 DEF Control, AnswersKnown
  <2>3. QED
    BY <2>1, <2>2
<1>5. BufferHolds' /\ OneAtATime' /\ AnswersOwnRequest'
  BY <1>1 DEF Control, BufferHolds, OneAtATime, AnswersOwnRequest, Known, At,
     Offering, Answering
<1>6. QED
  BY <1>3, <1>4, <1>5 DEF Control

\* A call begins.
LEMMA CallControl ==
    ASSUME Types, Control, NEW c \in Caller, Call(c)
    PROVE  Control'
<1>1. CallerTypes /\ Step(c, "lock") /\ At(c, "idle") /\ UNCHANGED <<Carried, proto>>
  BY DEF Types, Call, Carried
<1>2. \A d \in Caller \ {c} : caller'[d].pc = caller[d].pc
  BY <1>1, StepFields
<1>3. caller'[c].pc = "lock"
  BY <1>1, StepFields
<1>4. \A d \in Caller : /\ caller'[d].req = caller[d].req
                        /\ caller'[d].ret = caller[d].ret /\ caller'[d].got = caller[d].got
  BY <1>1, StepFields
<1>5. QED
  BY <1>1, <1>2, <1>3, <1>4
  DEF Carried, Control, ChipKnows, AnswersKnown, BufferHolds, OneAtATime,
      AnswersOwnRequest,
      Known, Taken, Pending, At, Offering, Answering

\* A call ends: no one else was past the mutex.
LEMMA UnlockControl ==
    ASSUME Types, Control, NEW c \in Caller, Unlock(c)
    PROVE  Control'
<1>1. /\ CallerTypes /\ Step(c, "idle") /\ At(c, "done") /\ UNCHANGED Carried
      /\ proto'.block = Null /\ proto'.reqno = proto.reqno /\ proto'.unsent = proto.unsent
  BY DEF Types, CallerTypes, Unlock, Carried
<1>2. \A d \in Caller : caller'[d].pc = IF d = c THEN "idle" ELSE caller[d].pc
  BY <1>1, StepFields
<1>3. \A d \in Caller : /\ caller'[d].req = caller[d].req
                        /\ caller'[d].ret = caller[d].ret /\ caller'[d].got = caller[d].got
  BY <1>1, StepFields
<1>4. \A d \in Caller \ {c} : caller[d].pc \in {"idle", "lock"}
  BY <1>1, CallerAssumption DEF Control, OneAtATime, At
<1>5. QED
  BY <1>1, <1>2, <1>3, <1>4
  DEF Carried, Control, ChipKnows, AnswersKnown, BufferHolds, OneAtATime,
      AnswersOwnRequest,
      Known, Taken, Pending, At, Offering, Answering

\* The steps of the one who holds the mutex.
LEMMA HolderAlone ==
    ASSUME Control, NEW c \in Caller, caller[c].pc \notin {"idle", "lock"}
    PROVE  /\ proto.block = c
           /\ \A d \in Caller \ {c} : caller[d].pc \in {"idle", "lock"}
BY DEF Control, OneAtATime

\* A new request has a number no one has seen.
LEMMA LockControl ==
    ASSUME Types, Control, NEW c \in Caller, Lock(c)
    PROVE  Control'
<1>1. /\ CallerTypes /\ At(c, "lock") /\ proto.block = Null
      /\ UNCHANGED <<bus, dongle>>
  BY DEF Types, Lock
<1>2. \A d \in Caller : caller[d].pc \in {"idle", "lock"}
  BY <1>1, CallerAssumption DEF Control, OneAtATime
<1>3. ~bus.ctrl_frame_stat
  BY <1>2 DEF Control, BufferHolds, Offering
<1>4. CASE bus.state = "DATA"
  <2>1. /\ msg' = [kind |-> "request", req |-> proto.reqno + 1,
                   id |-> (proto.reqno + 1) % IdMod]
        /\ proto' = [proto EXCEPT !.block = c, !.reqno = @ + 1]
        /\ caller' = [caller EXCEPT ![c].pc = "txctl",
                                     ![c].req = proto.reqno + 1]
    <3>1. /\ proto' = [proto EXCEPT !.block = c, !.reqno = @ + 1]
          /\ msg' = [kind |-> "request", req |-> proto'.reqno,
                     id |-> proto'.reqno % IdMod]
          /\ caller' = [caller EXCEPT ![c].pc = "txctl", ![c].req = proto'.reqno]
      BY <1>4 DEF Lock
    <3>2. proto'.reqno = proto.reqno + 1
      BY <1>1, <3>1 DEF CallerTypes
    <3>3. QED
      BY <3>1, <3>2
  <2>2. /\ proto'.block = c /\ proto'.reqno = proto.reqno + 1
        /\ proto'.unsent = proto.unsent /\ proto.reqno \in Nat
    BY <1>1, <2>1 DEF CallerTypes
  <2>3. /\ caller'[c].pc = "txctl" /\ caller'[c].req = proto.reqno + 1
        /\ \A d \in Caller \ {c} : caller'[d] = caller[d]
    BY <1>1, <2>1 DEF CallerTypes
  <2>4. proto.reqno + 1 \notin proto.unsent /\ proto'.unsent \subseteq 0..proto'.reqno
    BY <2>2 DEF Control, OneAtATime
  <2>5. \A m \in Message : Known(m) => Known(m)'
    BY <2>2 DEF Known, Message
  <2>6. \A m \in Message : Taken(m) => Taken(m)'
    BY <2>2, <2>5 DEF Taken, Known, Message
  <2>7. ChipKnows' /\ AnswersKnown'
    <3>1. ASSUME NEW k \in 1..Len(dongle.rx), dongle.rx[k].chan = "control"
          PROVE  dongle.rx[k].body \in Message
      <4>1. dongle.rx[k] \in ToChip
        BY ElementOfSeq DEF Types, ChipTypes
      <4>2. QED
        BY <3>1, <4>1 DEF ToChip
    <3>2. ASSUME NEW k \in 1..Len(dongle.tx), dongle.tx[k].chan = "control"
          PROVE  dongle.tx[k].body \in Message
      <4>1. dongle.tx[k] \in FromChip
        BY ElementOfSeq DEF Types, ChipTypes
      <4>2. QED
        BY <3>2, <4>1 DEF FromChip
    <3>3. (dongle.exec # Null => dongle.exec \in Message)
          /\ (bus.rxctl # Null => bus.rxctl \in Message)
      BY DEF Types, ChipTypes, MessageTypes
    <3>4. QED
      BY <1>1, <2>5, <2>6, <3>1, <3>2, <3>3 DEF Control, ChipKnows, AnswersKnown
  <2>8. BufferHolds' /\ OneAtATime' /\ AnswersOwnRequest'
    <3>1. BufferHolds'
      BY <1>1, <1>3, <2>1, <2>2 DEF BufferHolds, Known
    <3>2. OneAtATime'
      BY <1>1, <1>2, <2>2, <2>3, <2>4 DEF OneAtATime, At, Offering, Answering
    <3>3. AnswersOwnRequest'
      BY <2>3 DEF Control, AnswersOwnRequest, At
    <3>4. QED
      BY <3>1, <3>2, <3>3
  <2>9. QED
    BY <2>7, <2>8 DEF Control
<1>5. CASE bus.state # "DATA"
  <2>1. /\ Return(c, "EIO", 0) /\ UNCHANGED msg /\ proto' = [proto EXCEPT !.block = c]
    BY <1>5 DEF Lock
  <2>2. proto'.block = c /\ proto'.reqno = proto.reqno /\ proto'.unsent = proto.unsent
    BY <1>1, <2>1 DEF CallerTypes
  <2>3. /\ caller'[c].pc = "done" /\ caller'[c].ret = "EIO"
        /\ \A d \in Caller \ {c} : caller'[d] = caller[d]
    BY <1>1, <2>1, ReturnFields
  <2>4. ~Pending'
    BY <1>2, <2>3 DEF Pending, At, Offering
  <2>5. ChipKnows' /\ AnswersKnown'
    BY <1>1, <2>2, <2>4 DEF Control, ChipKnows, AnswersKnown, Known, Taken
  <2>6. BufferHolds' /\ OneAtATime' /\ AnswersOwnRequest'
    BY <1>1, <1>2, <1>3, <2>1, <2>2, <2>3
    DEF Control, BufferHolds, OneAtATime, AnswersOwnRequest, Known, At,
        Offering, Answering
  <2>7. QED
    BY <2>5, <2>6 DEF Control
<1>6. QED
  BY <1>4, <1>5

\* A request given up while it is pending was not sent, and will not be.
LEMMA NotSentControl ==
    ASSUME Types, Control, NEW c \in Caller, NEW ret, NotSent(c, ret),
           UNCHANGED <<msg, dongle>>,
           ret # "0", UNCHANGED <<bus.rxctl, bus.ctrl_frame_err>>, ~bus'.ctrl_frame_stat,
           At(c, "txctl") \/ (Offering(c) /\ (bus.ctrl_frame_stat \/ bus.ctrl_frame_err))
    PROVE  Control'
<1>1. /\ proto'.block = proto.block /\ proto'.reqno = proto.reqno
      /\ proto'.unsent = proto.unsent \cup {caller[c].req} /\ proto.reqno \in Nat
  BY DEF NotSent, Types, CallerTypes
<1>2. /\ caller'[c].pc = "done" /\ caller'[c].ret = ret
      /\ \A d \in Caller \ {c} : caller'[d] = caller[d]
  BY ReturnFields DEF NotSent, Types
<1>3. caller[c].req = proto.reqno
  BY DEF Control, OneAtATime, At, Offering
<1>4. /\ proto.block = c /\ \A d \in Caller \ {c} : caller[d].pc \in {"idle", "lock"}
  BY HolderAlone DEF At, Offering
<1>5. Pending /\ ~Pending'
  BY <1>2, <1>4 DEF Pending, At, Offering
<1>6. \A m : Taken(m) => Taken(m)'
  BY <1>1, <1>3, <1>5 DEF Taken, Known
<1>7. ChipKnows' /\ AnswersKnown'
  BY <1>1, <1>6 DEF Control, ChipKnows, AnswersKnown, Known
<1>8. BufferHolds' /\ OneAtATime' /\ AnswersOwnRequest'
  BY <1>1, <1>2, <1>3, <1>4
  DEF Control, BufferHolds, OneAtATime, AnswersOwnRequest, At, Offering,
      Answering, Known
<1>9. QED
  BY <1>7, <1>8 DEF Control

\* A caller that goes on, with the buffer and the numbers as they are.
LEMMA StepControl ==
    ASSUME Types, Control, NEW c \in Caller, NEW pc, Step(c, pc),
           UNCHANGED <<msg, dongle, proto>>,
           UNCHANGED <<bus.rxctl, bus.ctrl_frame_err, bus.ctrl_frame_stat>>,
           \/ Offering(c) /\ pc \in {"txwait", "txclaim"}
           \/ Offering(c) /\ ~bus.ctrl_frame_stat /\ pc = "rxctl"
           \/ Answering(c) /\ pc = "rxwait"
    PROVE  Control'
<1>1. /\ \A d \in Caller : /\ caller'[d].pc = IF d = c THEN pc ELSE caller[d].pc
                           /\ caller'[d].req = caller[d].req
                           /\ caller'[d].ret = caller[d].ret /\ caller'[d].got = caller[d].got
  BY StepFields DEF Types
<1>2. /\ proto.block = c /\ \A d \in Caller \ {c} : caller[d].pc \in {"idle", "lock"}
  BY HolderAlone DEF Offering, Answering
<1>3. Pending' => Pending
  BY <1>1, <1>2 DEF Pending, At, Offering, Answering
<1>4. ChipKnows' /\ AnswersKnown'
  BY <1>3 DEF Control, ChipKnows, AnswersKnown, Known, Taken
<1>5. BufferHolds' /\ OneAtATime' /\ AnswersOwnRequest'
  BY <1>1, <1>2
  DEF Control, BufferHolds, OneAtATime, AnswersOwnRequest, At, Offering,
      Answering, Known
<1>6. QED
  BY <1>4, <1>5 DEF Control

\* The steps of txctl.
LEMMA TxControl ==
    ASSUME Types, Control, NEW c \in Caller,
           TxCtl(c) \/ TriggerDpc(c) \/ TxDone(c) \/ TxTimeout(c) \/ TxClaim(c)
    PROVE  Control'
<1>1. CASE TxCtl(c)
  <2>1. CASE bus.state = "DATA"
    <3>1. /\ Step(c, "trigger") /\ At(c, "txctl") /\ UNCHANGED <<msg, dongle, proto>>
          /\ UNCHANGED <<bus.rxctl, bus.ctrl_frame_err>> /\ bus'.ctrl_frame_stat
      BY <1>1, <2>1 DEF TxCtl, Types, Shapes
    <3>2. \A d \in Caller : /\ caller'[d].pc = IF d = c THEN "trigger" ELSE caller[d].pc
                            /\ caller'[d].req = caller[d].req
                            /\ caller'[d].ret = caller[d].ret
                            /\ caller'[d].got = caller[d].got
      BY <3>1, StepFields DEF Types
    <3>3. /\ proto.block = c /\ \A d \in Caller \ {c} : caller[d].pc \in {"idle", "lock"}
      BY <3>1, HolderAlone DEF At
    <3>4. Pending' => Pending
      BY <3>1, <3>2 DEF Pending, At, Offering
    <3>5. ChipKnows' /\ AnswersKnown'
      BY <3>1, <3>4 DEF Control, ChipKnows, AnswersKnown, Known, Taken
    <3>6. BufferHolds' /\ OneAtATime' /\ AnswersOwnRequest'
      BY <3>1, <3>2, <3>3
      DEF Control, BufferHolds, OneAtATime, AnswersOwnRequest, At, Offering,
          Answering, Known
    <3>7. QED
      BY <3>5, <3>6 DEF Control
  <2>2. CASE bus.state # "DATA"
    <3>1. NotSent(c, "EIO") /\ UNCHANGED <<bus, msg, dongle>> /\ At(c, "txctl")
      BY <1>1, <2>2 DEF TxCtl
    <3>2. \A d \in Caller : ~Offering(d)
      BY <3>1, HolderAlone DEF At, Offering
    <3>3. ~bus.ctrl_frame_stat
      BY <3>2 DEF Control, BufferHolds
    <3>4. QED
      BY <3>1, <3>3, NotSentControl
  <2>3. QED
    BY <2>1, <2>2
<1>2. CASE TriggerDpc(c)
  <2>1. /\ Step(c, "txwait") /\ Offering(c) /\ UNCHANGED <<msg, dongle, proto>>
        /\ UNCHANGED <<bus.rxctl, bus.ctrl_frame_err, bus.ctrl_frame_stat>>
    BY <1>2 DEF TriggerDpc, trigger_dpc, At, Offering, Types, Shapes
  <2>2. QED
    BY <2>1, StepControl
<1>3. ASSUME TxResult(c), Offering(c), ~bus.ctrl_frame_stat, UNCHANGED <<bus, msg, dongle>>
      PROVE  Control'
  <2>1. CASE bus.ctrl_frame_err
    BY <1>3, <2>1, NotSentControl DEF TxResult
  <2>2. CASE ~bus.ctrl_frame_err
    BY <1>3, <2>2, StepControl DEF TxResult
  <2>3. QED
    BY <2>1, <2>2
<1>4. CASE TxDone(c)
  BY <1>3, <1>4 DEF TxDone, At, Offering
<1>5. CASE TxTimeout(c)
  BY <1>5, StepControl DEF TxTimeout, At, Offering
<1>6. CASE TxClaim(c)
  <2>1. CASE bus.ctrl_frame_stat
    <3>1. /\ NotSent(c, "ETIMEDOUT") /\ UNCHANGED <<msg, dongle>> /\ Offering(c)
          /\ UNCHANGED <<bus.rxctl, bus.ctrl_frame_err>> /\ ~bus'.ctrl_frame_stat
      BY <1>6, <2>1 DEF TxClaim, At, Offering, Types, Shapes
    <3>2. QED
      BY <2>1, <3>1, NotSentControl
  <2>2. CASE ~bus.ctrl_frame_stat
    BY <1>3, <1>6, <2>2 DEF TxClaim, At, Offering
  <2>3. QED
    BY <2>1, <2>2
<1>7. QED
  BY <1>1, <1>2, <1>4, <1>5, <1>6

\* A caller returns from rxctl, with the answer to its request or without.
LEMMA EndControl ==
    ASSUME Types, Control, NEW c \in Caller, NEW ret, NEW got, Return(c, ret, got),
           Answering(c), UNCHANGED <<dongle, bus.ctrl_frame_stat>>,
           proto'.block = proto.block, proto'.reqno = proto.reqno,
           proto'.unsent = proto.unsent,
           bus'.rxctl = bus.rxctl \/ bus'.rxctl = Null,
           ret = "0" => got = caller[c].req \/ caller[c].req - got >= IdMod
    PROVE  Control'
<1>1. /\ caller'[c].pc = "done" /\ caller'[c].ret = ret
      /\ caller'[c].got = got /\ caller'[c].req = caller[c].req
      /\ \A d \in Caller \ {c} : caller'[d] = caller[d]
  BY ReturnFields DEF Types
<1>2. /\ proto.block = c /\ \A d \in Caller \ {c} : caller[d].pc \in {"idle", "lock"}
  BY HolderAlone DEF Answering
<1>3. ~Pending' /\ ~bus.ctrl_frame_stat
  BY <1>1, <1>2 DEF Pending, At, Offering, Answering, Control, BufferHolds
<1>4. ChipKnows' /\ AnswersKnown'
  BY <1>3 DEF Control, ChipKnows, AnswersKnown, Known, Taken
<1>5. BufferHolds' /\ OneAtATime' /\ AnswersOwnRequest'
  BY <1>1, <1>2, <1>3
  DEF Control, BufferHolds, OneAtATime, AnswersOwnRequest, At, Offering,
      Answering, Known
<1>6. QED
  BY <1>4, <1>5 DEF Control

\* The steps of rxctl: what is taken out of the slot is compared by its id.
LEMMA RxControl ==
    ASSUME Types, Control, NEW c \in Caller, RxCtl(c) \/ RxTake(c) \/ RxTimeout(c)
    PROVE  Control'
<1>1. ASSUME NEW ret, NoAnswer(c, ret), ret # "0", Answering(c), UNCHANGED <<bus, msg, dongle>>
      PROVE  Control'
  <2>1. /\ Return(c, ret, 0) /\ proto'.block = proto.block /\ proto'.reqno = proto.reqno
        /\ proto'.unsent = proto.unsent
    BY <1>1 DEF NoAnswer, Types, CallerTypes
  <2>2. QED
    BY <1>1, <2>1, EndControl
<1>2. CASE RxCtl(c)
  <2>1. CASE bus.state = "DATA"
    BY <1>2, <2>1, StepControl DEF RxCtl, At, Answering
  <2>2. CASE bus.state # "DATA"
    BY <1>1, <1>2, <2>2 DEF RxCtl, At, Answering
  <2>3. QED
    BY <2>1, <2>2
<1>3. CASE RxTimeout(c)
  BY <1>1, <1>3 DEF RxTimeout, At, Answering
<1>4. CASE RxTake(c)
  <2>1. /\ Answering(c) /\ At(c, "rxwait") /\ bus.rxctl # Null /\ msg' = bus.rxctl
        /\ UNCHANGED <<dongle, proto>>
        /\ UNCHANGED <<bus.ctrl_frame_stat, bus.ctrl_frame_err>> /\ bus'.rxctl = Null
    BY <1>4 DEF RxTake, At, Answering, Types, Shapes
  <2>2. /\ proto.block = c /\ \A d \in Caller \ {c} : caller[d].pc \in {"idle", "lock"}
    BY <2>1, HolderAlone DEF Answering
  <2>3. CASE msg'.id = reqid
    <3>1. /\ msg'.req \in Nat /\ msg'.req <= proto.reqno /\ msg'.id = msg'.req % IdMod
          /\ proto.reqno \in Nat /\ caller[c].req = proto.reqno
      BY <2>1 DEF Types, MessageTypes, CallerTypes, Message, Control,
         AnswersKnown, Known, OneAtATime
    <3>2. msg'.req = proto.reqno \/ proto.reqno - msg'.req >= IdMod
      BY <2>3, <3>1, SameId, IdModAssumption DEF reqid
    <3>3. Return(c, "0", msg'.req)
      BY <1>4, <2>3 DEF RxTake
    <3>4. QED
      BY <2>1, <3>1, <3>2, <3>3, EndControl
  <2>4. CASE msg'.id # reqid
    <3>1. Step(c, "rxctl")
      BY <1>4, <2>4 DEF RxTake
    <3>2. \A d \in Caller : /\ caller'[d].pc = IF d = c THEN "rxctl" ELSE caller[d].pc
                            /\ caller'[d].req = caller[d].req
                            /\ caller'[d].ret = caller[d].ret
                            /\ caller'[d].got = caller[d].got
      BY <3>1, StepFields DEF Types
    <3>3. ~Pending' /\ ~bus.ctrl_frame_stat
      BY <2>1, <2>2, <3>2 DEF Pending, At, Offering, Answering, Control, BufferHolds
    <3>4. ChipKnows' /\ AnswersKnown'
      BY <2>1, <3>3 DEF Control, ChipKnows, AnswersKnown, Known, Taken
    <3>5. BufferHolds' /\ OneAtATime' /\ AnswersOwnRequest'
      BY <2>1, <2>2, <3>2, <3>3
      DEF Control, BufferHolds, OneAtATime, AnswersOwnRequest, At, Offering,
          Answering, Known
    <3>6. QED
      BY <3>4, <3>5 DEF Control
  <2>5. QED
    BY <2>3, <2>4
<1>5. QED
  BY <1>2, <1>3, <1>4

\* The steps of the bus.
LEMMA BusControl ==
    ASSUME Types, Control, BusNext, UNCHANGED <<proto, caller>>
    PROVE  Control'
<1>1. CASE Isr \/ Worker \/ Faults
  BY <1>1, PassCarries, CarriedControl, ReadControl, CtrlSentControl,
     CtrlEndsControl, SentControl
  DEF Worker, Faults
<1>2. CASE Chip
  BY <1>2, ChipControl, PassCarries, CarriedControl DEF Chip
<1>3. CASE \E i \in Interface : Send(i) \/ \E pae \in BOOLEAN : Xmit(i, pae)
  BY <1>3, SenderCarries, CarriedControl
<1>4. QED
  BY <1>1, <1>2, <1>3 DEF BusNext

\* What the chip is working on, what it has sent and what the slot holds
\* belong to requests of the callers, and at most one caller is past the
\* mutex.  This is the inductive strengthening of the two theorems below.
THEOREM ControlInvariant == Spec => []Control
<1>1. Types /\ Control /\ [Next]_vars => Control'
  <2> SUFFICES ASSUME Types, Control, [Next]_vars PROVE Control'
    OBVIOUS
  <2>1. CASE UNCHANGED vars
    <3>1. UNCHANGED <<Carried, proto, caller>>
      BY <2>1 DEF vars, Carried
    <3>2. QED
      BY <3>1, CarriedControl
  <2>2. CASE Next
    BY <2>2, BusControl, CallControl, LockControl, TxControl, RxControl,
       UnlockControl
    DEF Next, CallerNext
  <2>3. QED
    BY <2>1, <2>2
<1>2. QED
  BY <1>1, InitControl, TypesInvariant, PTL DEF Spec

\* An ioctl of brcmf_proto_bcdc_query_dcmd or _set_dcmd that returns success
\* returns the answer to its own request, unless the answer is older by all
\* the ids.
THEOREM OwnAnswers == Spec => []AnswersOwnRequest
<1>1. Control => AnswersOwnRequest
  BY DEF Control
<1>2. QED
  BY <1>1, ControlInvariant, PTL

\* A request brcmf_sdio_bus_txctl reported as not sent never reaches the
\* chip, whoever looks at ctrl_frame_stat first.
THEOREM UnsentStays == Spec => []UnsentNeverSent
<1>1. Types /\ Control => UnsentNeverSent
  <2> SUFFICES ASSUME Types, Control, NEW m \in InChip
               PROVE  m.kind = "request" /\ m.req \notin proto.unsent
    BY DEF UnsentNeverSent
  <2>1. DOMAIN dongle.rx = 1..Len(dongle.rx)
    BY LenProperties DEF Types, ChipTypes
  <2>2. Taken(m)
    BY <2>1 DEF InChip, Control, ChipKnows
  <2>3. QED
    BY <2>2 DEF Taken
<1>2. QED
  BY <1>1, TypesInvariant, ControlInvariant, PTL

-----------------------------------------------------------------------------
(***************************************************************************)
(* Where the requests are: answers wait in the slot, behind them come the  *)
(* chip's queue to the host, what it works on, and its queue from the      *)
(* host.  The invariant:                                                   *)
(*   LastInLine  nothing is behind the newest request;                     *)
(*   Fresh       while it is pending, it is not in the line yet;           *)
(*   Accounted   every other request in the line was given up, or has the  *)
(*               id of one that was.                                       *)
(***************************************************************************)
Ctl(q) == {k \in 1..Len(q) : q[k].chan = "control"}
Reqs(q) == {q[k].body.req : k \in Ctl(q)}
LastIs(q, r) == \A k, l \in Ctl(q) : q[k].body.req = r => l <= k

InSlot == IF bus.rxctl = Null THEN {} ELSE {bus.rxctl.req}
InTx == Reqs(dongle.tx)
InExec == IF dongle.exec = Null THEN {} ELSE {dongle.exec.req}
InRx == Reqs(dongle.rx)
InLine == InSlot \cup InTx \cup InExec \cup InRx

InProgress == \E c \in Caller : Offering(c) \/ Answering(c)
GivenUp(q) == \E r \in proto.unanswered : r <= q /\ r % IdMod = q % IdMod

LastInLine ==
    LET r == proto.reqno
    IN /\ LastIs(dongle.tx, r) /\ LastIs(dongle.rx, r)
       /\ r \in InSlot => InTx = {} /\ InExec = {} /\ InRx = {}
       /\ r \in InTx => InExec = {} /\ InRx = {}
       /\ r \in InExec => InRx = {}
Fresh == Pending => proto.reqno \notin InLine
Accounted ==
    /\ proto.unanswered \subseteq Nat
    /\ \A q \in InLine : GivenUp(q) \/ (q = proto.reqno /\ InProgress)
Line == LastInLine /\ Fresh /\ Accounted

\* A queue loses its head: its requests are among those it had, and behind
\* the newest there was none.
LEMMA TailReqs ==
    ASSUME NEW S, NEW q \in Seq(S), q # <<>>, NEW r
    PROVE  /\ Reqs(Tail(q)) \subseteq Reqs(q)
           /\ LastIs(q, r) => LastIs(Tail(q), r)
           /\ Head(q).chan = "control" =>
                /\ Head(q).body.req \in Reqs(q)
                /\ LastIs(q, r) /\ Head(q).body.req = r => Reqs(Tail(q)) = {}
<1>1. /\ Len(q) \in Nat \ {0} /\ Len(Tail(q)) = Len(q) - 1 /\ Head(q) = q[1]
      /\ \A k \in 1..Len(Tail(q)) : Tail(q)[k] = q[k + 1]
  OBVIOUS
<1>2. \A k \in Ctl(Tail(q)) : k \in Nat /\ k + 1 \in Ctl(q) /\ Tail(q)[k] = q[k + 1]
  BY <1>1 DEF Ctl
<1>3. Head(q).chan = "control" => 1 \in Ctl(q)
  BY <1>1 DEF Ctl
<1>4. Reqs(Tail(q)) \subseteq Reqs(q)
  BY <1>2 DEF Reqs
<1>5. LastIs(q, r) => LastIs(Tail(q), r)
  <2> SUFFICES ASSUME LastIs(q, r), NEW k \in Ctl(Tail(q)), NEW l \in Ctl(Tail(q)),
                      Tail(q)[k].body.req = r
               PROVE  l <= k
    BY DEF LastIs
  <2>1. l + 1 <= k + 1
    BY <1>2 DEF LastIs
  <2>2. QED
    BY <1>2, <2>1
<1>6. ASSUME Head(q).chan = "control"
      PROVE  /\ Head(q).body.req \in Reqs(q)
             /\ LastIs(q, r) /\ Head(q).body.req = r => Reqs(Tail(q)) = {}
  <2>1. Head(q).body.req \in Reqs(q)
    BY <1>1, <1>3, <1>6 DEF Reqs
  <2>2. ASSUME LastIs(q, r), Head(q).body.req = r
        PROVE  Ctl(Tail(q)) = {}
    <3> SUFFICES ASSUME NEW k \in Ctl(Tail(q)) PROVE FALSE
      OBVIOUS
    <3>1. k \in Nat /\ k >= 1 /\ k + 1 \in Ctl(q)
      BY <1>1, <1>2 DEF Ctl
    <3>2. k + 1 <= 1
      BY <1>1, <1>3, <1>6, <2>2, <3>1 DEF LastIs
    <3>3. QED
      BY <3>1, <3>2
  <2>3. QED
    BY <2>1, <2>2 DEF Reqs
<1>7. QED
  BY <1>4, <1>5, <1>6

\* A queue gets one more frame: a request is one more, and comes last; what
\* is no request changes nothing.
LEMMA AppendReqs ==
    ASSUME NEW S, NEW q \in Seq(S), NEW f, NEW r
    PROVE  /\ f.chan = "control" =>
                /\ Reqs(Append(q, f)) = Reqs(q) \cup {f.body.req}
                /\ r \notin Reqs(q) => LastIs(Append(q, f), r)
           /\ f.chan # "control" =>
                /\ Reqs(Append(q, f)) = Reqs(q)
                /\ LastIs(q, r) => LastIs(Append(q, f), r)
<1> DEFINE p == Append(q, f)
           n == Len(q) + 1
<1>1. /\ Len(q) \in Nat /\ Len(p) = n /\ p[n] = f
      /\ \A k \in 1..Len(q) : p[k] = q[k]
  OBVIOUS
<1> HIDE DEF p
<1>2. \A k \in Ctl(q) : k \in 1..Len(q) /\ k \in Ctl(p) /\ p[k] = q[k]
  BY <1>1 DEF Ctl
<1>3. \A k \in Ctl(p) : k = n \/ (k \in Ctl(q) /\ k <= Len(q))
  BY <1>1 DEF Ctl
<1>4. CASE f.chan = "control"
  <2>1. n \in Ctl(p)
    BY <1>1, <1>4 DEF Ctl
  <2>2. Reqs(p) = Reqs(q) \cup {f.body.req}
    BY <1>1, <1>2, <1>3, <2>1 DEF Reqs
  <2>3. ASSUME r \notin Reqs(q), NEW k \in Ctl(p), NEW l \in Ctl(p), p[k].body.req = r
        PROVE  l <= k
    <3>1. k = n
      BY <1>2, <1>3, <2>3 DEF Reqs
    <3>2. QED
      BY <1>1, <1>3, <3>1
  <2>4. QED
    BY <1>4, <2>2, <2>3 DEF LastIs, p
<1>5. CASE f.chan # "control"
  <2>1. Ctl(p) = Ctl(q)
    BY <1>1, <1>2, <1>3, <1>5 DEF Ctl
  <2>2. QED
    BY <1>2, <1>5, <2>1 DEF Reqs, LastIs, p
<1>6. QED
  BY <1>4, <1>5

\* Requests that only move on, or leave the line, stay accounted for.
LEMMA MovedLine ==
    ASSUME Line, UNCHANGED <<proto, caller>>, Pending' => Pending,
           InLine' \subseteq InLine, LastInLine'
    PROVE  Line'
<1>1. (InProgress <=> InProgress') /\ \A q : GivenUp(q) => GivenUp(q)'
  BY DEF InProgress, Offering, Answering, GivenUp
<1>2. Fresh' /\ Accounted'
  BY <1>1 DEF Line, Fresh, Accounted
<1>3. QED
  BY <1>2 DEF Line

\* The line is made of Carried.
LEMMA CarriedLine ==
    ASSUME Line, UNCHANGED <<Carried, proto, caller>>
    PROVE  Line'
<1>1. UNCHANGED <<InSlot, InTx, InExec, InRx>>
  BY DEF Carried, InSlot, InTx, InExec, InRx, Reqs, Ctl
<1>2. LastInLine'
  BY <1>1 DEF Carried, Line, LastInLine, LastIs, Ctl
<1>3. Pending' => Pending
  BY DEF Carried, Pending, At, Offering
<1>4. QED
  BY <1>1, <1>2, <1>3, MovedLine DEF InLine

\* The first frame the chip has sent is read, or lost: an answer goes into the
\* slot when that is free.
LEMMA ReadLine ==
    ASSUME Types, Line, ReadFrame \/ ReadBadHeader, UNCHANGED <<proto, caller>>
    PROVE  Line'
<1> DEFINE r == proto.reqno
<1>1. /\ dongle.tx # <<>> /\ dongle.tx \in Seq(FromChip) /\ dongle'.tx = Tail(dongle.tx)
      /\ UNCHANGED <<bus.ctrl_frame_stat, bus.ctrl_frame_err>>
      /\ UNCHANGED <<dongle.rx, dongle.exec>>
      /\ \/ bus'.rxctl = bus.rxctl
         \/ /\ Head(dongle.tx).chan = "control" /\ bus.rxctl = Null
            /\ bus'.rxctl = Head(dongle.tx).body
  BY DEF Types, Shapes, ChipTypes, ReadFrame, ReadBadHeader, Reading, read_control
<1>2. /\ InTx' \subseteq InTx
      /\ LastIs(dongle.tx, r) => LastIs(dongle'.tx, r)
      /\ Head(dongle.tx).chan = "control" =>
           /\ Head(dongle.tx).body.req \in InTx
           /\ LastIs(dongle.tx, r) /\ Head(dongle.tx).body.req = r => InTx' = {}
  BY <1>1, TailReqs DEF InTx
<1>3. UNCHANGED <<InExec, InRx>>
  BY <1>1 DEF InExec, InRx
<1>4. \/ InSlot' = InSlot
      \/ /\ Head(dongle.tx).chan = "control" /\ InSlot = {}
         /\ InSlot' \subseteq {Head(dongle.tx).body.req}
  BY <1>1 DEF InSlot
<1>5. LastInLine'
  BY <1>1, <1>2, <1>3, <1>4 DEF Line, LastInLine
<1>6. InLine' \subseteq InLine
  BY <1>2, <1>3, <1>4 DEF InLine
<1>7. Pending' => Pending
  BY <1>1 DEF Pending, At, Offering
<1>8. QED
  BY <1>5, <1>6, <1>7, MovedLine

\* An offer that failed leaves the line alone.
LEMMA CtrlEndsLine ==
    ASSUME Types, Control, Line, CtrlFails \/ DpcHalts, UNCHANGED <<proto, caller>>
    PROVE  Line'
<1>1. /\ UNCHANGED dongle /\ UNCHANGED bus.rxctl
      /\ bus'.ctrl_frame_stat \/ bus'.ctrl_frame_err =>
           bus.ctrl_frame_stat \/ bus.ctrl_frame_err
  BY DEF Types, Shapes, CtrlFails, DpcHalts
<1>2. UNCHANGED <<InSlot, InTx, InExec, InRx>>
  BY <1>1 DEF InSlot, InTx, InExec, InRx
<1>3. LastInLine'
  BY <1>1, <1>2 DEF Line, LastInLine
<1>4. Pending' => Pending
  BY <1>1 DEF Pending, At, Offering
<1>5. QED
  BY <1>2, <1>3, <1>4, MovedLine DEF InLine

\* The newest request joins the line, as the last.
LEMMA CtrlSentLine ==
    ASSUME Types, Control, Line, CtrlSent, UNCHANGED <<proto, caller>>
    PROVE  Line'
<1> DEFINE r == proto.reqno
           f == [chan |-> "control", seq |-> bus.tx_seq, body |-> msg]
<1>1. /\ bus.ctrl_frame_stat /\ ~bus'.ctrl_frame_stat /\ ~bus'.ctrl_frame_err
      /\ UNCHANGED <<bus.rxctl, dongle.exec, dongle.tx>>
      /\ dongle'.rx = Append(dongle.rx, f) /\ dongle.rx \in Seq(ToChip)
  BY DEF Types, Shapes, ChipTypes, CtrlSent
<1>2. f.chan = "control" /\ f.body.req = r
  BY <1>1 DEF Control, BufferHolds
<1>3. PICK o \in Caller : Offering(o)
  BY <1>1 DEF Control, BufferHolds
<1>4. Pending /\ r \notin InLine
  BY <1>1, <1>3 DEF Pending, Line, Fresh
<1> HIDE DEF f
<1>5. InRx' = InRx \cup {r} /\ LastIs(dongle'.rx, r)
  <2>1. /\ Reqs(Append(dongle.rx, f)) = Reqs(dongle.rx) \cup {f.body.req}
        /\ r \notin Reqs(dongle.rx) => LastIs(Append(dongle.rx, f), r)
    BY <1>1, <1>2, AppendReqs
  <2>2. QED
    BY <1>1, <1>2, <1>4, <2>1 DEF InRx, InLine
<1>6. UNCHANGED <<InSlot, InTx, InExec>>
  BY <1>1 DEF InSlot, InTx, InExec
<1>7. LastInLine'
  BY <1>1, <1>4, <1>5, <1>6 DEF Line, LastInLine, InLine
<1>8. ~Pending'
  BY <1>1, <1>3, CallerAssumption DEF Pending, Control, OneAtATime, At, Offering
<1>9. InProgress' /\ \A q : GivenUp(q) => GivenUp(q)'
  BY <1>3 DEF InProgress, Offering, GivenUp
<1>10. Accounted'
  BY <1>5, <1>6, <1>9 DEF Line, Accounted, InLine
<1>11. QED
  BY <1>7, <1>8, <1>10 DEF Line, Fresh

\* Data frames are no part of the line.
LEMMA SentLine ==
    ASSUME Types, Line, Sent, UNCHANGED <<proto, caller>>
    PROVE  Line'
<1>1. /\ UNCHANGED <<bus.rxctl, bus.ctrl_frame_stat, bus.ctrl_frame_err>>
      /\ UNCHANGED <<dongle.exec, dongle.tx>>
  BY DEF Types, Shapes, Sent
<1>2. UNCHANGED <<InSlot, InTx, InExec>>
  BY <1>1 DEF InSlot, InTx, InExec
<1>3. \A k \in Ctl(dongle'.rx) : k \in Ctl(dongle.rx) /\ dongle'.rx[k] = dongle.rx[k]
  BY SentFrames DEF Ctl
<1>4. InRx' \subseteq InRx
  BY <1>3 DEF InRx, Reqs
<1>5. LastIs(dongle.rx, proto.reqno) => LastIs(dongle'.rx, proto.reqno)
  BY <1>3 DEF LastIs
<1>6. LastInLine'
  BY <1>1, <1>2, <1>4, <1>5 DEF Line, LastInLine
<1>7. Pending' => Pending
  BY <1>1 DEF Pending, At, Offering
<1>8. QED
  BY <1>2, <1>4, <1>6, <1>7, MovedLine DEF InLine

\* The chip takes the next frame, one request at a time.
LEMMA TakesLine ==
    ASSUME Types, Line, DongleTakes, UNCHANGED <<proto, caller>>
    PROVE  Line'
<1> DEFINE r == proto.reqno
           f == Head(dongle.rx)
<1>1. /\ dongle.rx # <<>> /\ dongle.rx \in Seq(ToChip) /\ dongle'.rx = Tail(dongle.rx)
      /\ UNCHANGED <<bus, dongle.tx>>
      /\ \/ dongle'.exec = dongle.exec
         \/ f.chan = "control" /\ dongle.exec = Null /\ dongle'.exec = f.body
  BY DEF Types, Shapes, ChipTypes, DongleTakes
<1>2. /\ InRx' \subseteq InRx
      /\ LastIs(dongle.rx, r) => LastIs(dongle'.rx, r)
      /\ f.chan = "control" =>
           /\ f.body.req \in InRx
           /\ LastIs(dongle.rx, r) /\ f.body.req = r => InRx' = {}
  BY <1>1, TailReqs DEF InRx
<1>3. UNCHANGED <<InSlot, InTx>>
  BY <1>1 DEF InSlot, InTx
<1>4. \/ InExec' = InExec
      \/ f.chan = "control" /\ InExec = {} /\ InExec' \subseteq {f.body.req}
  BY <1>1 DEF InExec
<1> HIDE DEF f
<1>5. LastInLine'
  BY <1>1, <1>2, <1>3, <1>4 DEF Line, LastInLine
<1>6. InLine' \subseteq InLine
  BY <1>2, <1>3, <1>4 DEF InLine
<1>7. Pending' => Pending
  BY <1>1 DEF Pending, At, Offering
<1>8. QED
  BY <1>5, <1>6, <1>7, MovedLine

\* The chip sends its answer, or an event.
LEMMA AnswersLine ==
    ASSUME Types, Line, DongleAnswers \/ DongleCredits, UNCHANGED <<proto, caller>>
    PROVE  Line'
<1> DEFINE r == proto.reqno
<1>1. /\ UNCHANGED <<bus, dongle.rx>> /\ dongle.tx \in Seq(FromChip)
  BY DEF Types, Shapes, ChipTypes, DongleAnswers, DongleCredits, DongleSends
<1>2. UNCHANGED <<InSlot, InRx>>
  BY <1>1 DEF InSlot, InRx
<1>3. Pending' => Pending
  BY <1>1 DEF Pending, At, Offering
<1>4. CASE DongleAnswers
  <2> DEFINE m == [dongle.exec EXCEPT !.kind = "answer"]
             f == [chan |-> "control", body |-> m, max |-> dongle.grant]
  <2>1. /\ dongle.exec # Null /\ dongle'.exec = Null
        /\ dongle'.tx = Append(dongle.tx, f)
    BY <1>4 DEF Types, Shapes, DongleAnswers, DongleSends
  <2>2. f.chan = "control" /\ f.body.req = dongle.exec.req
    BY <2>1 DEF Types, ChipTypes, Message
  <2> HIDE DEF f
  <2>3. /\ Reqs(Append(dongle.tx, f)) = Reqs(dongle.tx) \cup {f.body.req}
        /\ r \notin Reqs(dongle.tx) => LastIs(Append(dongle.tx, f), r)
    BY <1>1, <2>2, AppendReqs
  <2>4. InExec = {dongle.exec.req} /\ InExec' = {} /\ InTx' = InTx \cup InExec
    BY <2>1, <2>2, <2>3 DEF InExec, InTx
  <2>5. r \notin InTx /\ r \notin InSlot
    BY <2>4 DEF Line, LastInLine
  <2>6. LastIs(dongle'.tx, r)
    BY <2>1, <2>3, <2>5 DEF InTx
  <2>7. LastInLine'
    BY <1>1, <1>2, <2>4, <2>5, <2>6 DEF Line, LastInLine
  <2>8. InLine' \subseteq InLine
    BY <1>2, <2>4 DEF InLine
  <2>9. QED
    BY <1>3, <2>7, <2>8, MovedLine
<1>5. CASE DongleCredits
  <2> DEFINE f == [chan |-> "event", body |-> Null, max |-> dongle.grant]
  <2>1. dongle'.exec = dongle.exec /\ dongle'.tx = Append(dongle.tx, f)
    BY <1>5 DEF Types, Shapes, DongleCredits, DongleSends
  <2>2. f.chan # "control"
    OBVIOUS
  <2> HIDE DEF f
  <2>3. /\ Reqs(Append(dongle.tx, f)) = Reqs(dongle.tx)
        /\ LastIs(dongle.tx, r) => LastIs(Append(dongle.tx, f), r)
    BY <1>1, <2>2, AppendReqs
  <2>4. UNCHANGED <<InExec, InTx>>
    BY <2>1, <2>3 DEF InExec, InTx
  <2>5. LastInLine'
    BY <1>1, <1>2, <2>1, <2>3, <2>4 DEF Line, LastInLine
  <2>6. QED
    BY <1>2, <1>3, <2>4, <2>5, MovedLine DEF InLine
<1>6. QED
  BY <1>4, <1>5

\* The steps of the bus.
LEMMA BusLine ==
    ASSUME Types, Control, Line, BusNext, UNCHANGED <<proto, caller>>
    PROVE  Line'
<1>1. CASE Isr \/ Worker \/ Faults
  BY <1>1, PassCarries, CarriedLine, ReadLine, CtrlSentLine, CtrlEndsLine, SentLine
  DEF Worker, Faults
<1>2. CASE Chip
  BY <1>2, TakesLine, AnswersLine, PassCarries, CarriedLine DEF Chip
<1>3. CASE \E i \in Interface : Send(i) \/ \E pae \in BOOLEAN : Xmit(i, pae)
  BY <1>3, SenderCarries, CarriedLine
<1>4. QED
  BY <1>1, <1>2, <1>3 DEF BusNext

\* A step of the callers adds nothing to the line; when the request in
\* progress ends, it is accounted for, or not in the line.
LEMMA CallerLine ==
    ASSUME Line, UNCHANGED dongle, InSlot' \subseteq InSlot,
           proto'.reqno = proto.reqno, proto.unanswered \subseteq proto'.unanswered,
           proto'.unanswered \subseteq proto.unanswered \cup Nat,
           Pending' => Pending,
           \/ InProgress => InProgress'
           \/ GivenUp(proto.reqno)'
           \/ proto.reqno \notin InLine
    PROVE  Line'
<1>1. UNCHANGED <<InTx, InExec, InRx>>
  BY DEF InTx, InExec, InRx
<1>2. InLine' \subseteq InLine
  BY <1>1 DEF InLine
<1>3. LastInLine'
  BY <1>1 DEF Line, LastInLine
<1>4. \A q : GivenUp(q) => GivenUp(q)'
  BY DEF GivenUp
<1>5. Fresh' /\ Accounted'
  BY <1>2, <1>4 DEF Line, Fresh, Accounted
<1>6. QED
  BY <1>3, <1>5 DEF Line

\* A caller goes on: to wait, to look for an answer, or outside.
LEMMA StepLine ==
    ASSUME Types, Line, NEW c \in Caller, NEW pc, Step(c, pc), UNCHANGED dongle,
           InSlot' \subseteq InSlot,
           UNCHANGED <<proto.reqno, proto.unanswered>>,
           UNCHANGED <<bus.ctrl_frame_stat, bus.ctrl_frame_err>>,
           \/ Offering(c) /\ pc \in {"txwait", "txclaim"}
           \/ pc \in {"rxctl", "rxwait"}
           \/ ~Offering(c) /\ ~Answering(c) /\ pc \in {"idle", "lock"}
    PROVE  Line'
<1>1. \A d \in Caller : caller'[d].pc = IF d = c THEN pc ELSE caller[d].pc
  BY StepFields DEF Types
<1>2. Pending' => Pending
  BY <1>1 DEF Pending, At, Offering
<1>3. InProgress => InProgress'
  BY <1>1 DEF InProgress, Offering, Answering
<1>4. QED
  BY <1>2, <1>3, CallerLine

\* A caller returns.
LEMMA ReturnLine ==
    ASSUME Types, Line, NEW c \in Caller, NEW ret, NEW got, Return(c, ret, got),
           UNCHANGED dongle, InSlot' \subseteq InSlot,
           proto'.reqno = proto.reqno, proto.unanswered \subseteq proto'.unanswered,
           proto'.unanswered \subseteq proto.unanswered \cup Nat,
           bus'.ctrl_frame_stat => bus.ctrl_frame_stat, UNCHANGED bus.ctrl_frame_err,
           \/ ~Offering(c) /\ ~Answering(c)
           \/ GivenUp(proto.reqno)'
           \/ proto.reqno \notin InLine
    PROVE  Line'
<1>1. caller'[c].pc = "done" /\ \A d \in Caller \ {c} : caller'[d] = caller[d]
  BY ReturnFields DEF Types
<1>2. Pending' => Pending
  BY <1>1 DEF Pending, At, Offering
<1>3. ~Offering(c) /\ ~Answering(c) => (InProgress => InProgress')
  BY <1>1 DEF InProgress, Offering, Answering
<1>4. QED
  BY <1>2, <1>3, CallerLine

\* A request given up before it was sent is not in the line.
LEMMA NotSentLine ==
    ASSUME Types, Line, NEW c \in Caller, NEW ret, NotSent(c, ret), UNCHANGED dongle,
           UNCHANGED <<bus.rxctl, bus.ctrl_frame_err>>,
           bus'.ctrl_frame_stat => bus.ctrl_frame_stat,
           At(c, "txctl") \/ (Offering(c) /\ (bus.ctrl_frame_stat \/ bus.ctrl_frame_err))
    PROVE  Line'
<1>1. /\ Return(c, ret, 0) /\ proto'.reqno = proto.reqno
      /\ proto'.unanswered = proto.unanswered
  BY DEF NotSent, Types, CallerTypes
<1>2. Pending /\ proto.reqno \notin InLine
  BY DEF Pending, Line, Fresh
<1>3. InSlot' = InSlot
  BY DEF InSlot
<1>4. QED
  BY <1>1, <1>2, <1>3, ReturnLine

\* The steps outside proto_block, and into it when the bus is down.
LEMMA OutsideLine ==
    ASSUME Types, Line, NEW c \in Caller,
           Call(c) \/ Unlock(c) \/ (Lock(c) /\ bus.state # "DATA")
    PROVE  Line'
<1>1. CASE Call(c)
  <2>1. /\ Step(c, "lock") /\ At(c, "idle") /\ UNCHANGED <<bus, dongle, proto>>
    BY <1>1 DEF Call
  <2>2. InSlot' = InSlot /\ ~Offering(c) /\ ~Answering(c)
    BY <2>1 DEF InSlot, At, Offering, Answering
  <2>3. QED
    BY <2>1, <2>2, StepLine
<1>2. CASE Unlock(c)
  <2>1. /\ Step(c, "idle") /\ At(c, "done") /\ UNCHANGED <<bus, dongle>>
        /\ UNCHANGED <<proto.reqno, proto.unanswered>>
    BY <1>2 DEF Unlock, Types, CallerTypes
  <2>2. InSlot' = InSlot /\ ~Offering(c) /\ ~Answering(c)
    BY <2>1 DEF InSlot, At, Offering, Answering
  <2>3. QED
    BY <2>1, <2>2, StepLine
<1>3. CASE Lock(c) /\ bus.state # "DATA"
  <2>1. /\ Return(c, "EIO", 0) /\ At(c, "lock") /\ UNCHANGED <<bus, dongle>>
        /\ proto'.reqno = proto.reqno /\ proto'.unanswered = proto.unanswered
    BY <1>3 DEF Lock, Types, CallerTypes
  <2>2. InSlot' = InSlot /\ ~Offering(c) /\ ~Answering(c)
    BY <2>1 DEF InSlot, At, Offering, Answering
  <2>3. QED
    BY <2>1, <2>2, ReturnLine
<1>4. QED
  BY <1>1, <1>2, <1>3

\* A new request is made: it is newer than all in the line, and none of
\* those is in progress any more.
LEMMA LockLine ==
    ASSUME Types, Control, Line, NEW c \in Caller, Lock(c), bus.state = "DATA"
    PROVE  Line'
<1> DEFINE r == proto.reqno
<1>1. /\ proto.block = Null /\ UNCHANGED <<bus, dongle>>
      /\ proto'.reqno = r + 1 /\ proto'.unanswered = proto.unanswered /\ r \in Nat
  BY DEF Lock, Types, CallerTypes
<1>2. ~InProgress
  BY <1>1, CallerAssumption DEF Control, OneAtATime, InProgress, Offering, Answering
<1>3. ASSUME NEW q \in InLine
      PROVE  q \in Nat /\ q <= r
  <2>1. CASE q \in InTx
    <3>1. PICK k \in 1..Len(dongle.tx) : /\ dongle.tx[k].chan = "control"
                                         /\ q = dongle.tx[k].body.req
      BY <2>1 DEF InTx, Reqs, Ctl
    <3>2. dongle.tx[k].body \in Message
      BY <3>1, ElementOfSeq DEF Types, ChipTypes, FromChip
    <3>3. QED
      BY <3>1, <3>2 DEF Control, AnswersKnown, Known, Message
  <2>2. CASE q \in InRx
    <3>1. PICK k \in 1..Len(dongle.rx) : /\ dongle.rx[k].chan = "control"
                                         /\ q = dongle.rx[k].body.req
      BY <2>2 DEF InRx, Reqs, Ctl
    <3>2. dongle.rx[k].body \in Message
      BY <3>1, ElementOfSeq DEF Types, ChipTypes, ToChip
    <3>3. QED
      BY <3>1, <3>2 DEF Control, ChipKnows, Taken, Known, Message
  <2>3. CASE q \in InSlot
    BY <2>3 DEF InSlot, Control, AnswersKnown, Known, Types, MessageTypes, Message
  <2>4. CASE q \in InExec
    BY <2>4 DEF InExec, Control, ChipKnows, Taken, Known, Types, ChipTypes, Message
  <2>5. QED
    BY <2>1, <2>2, <2>3, <2>4 DEF InLine
<1>4. UNCHANGED <<InSlot, InTx, InExec, InRx, InLine>>
  BY <1>1 DEF InSlot, InTx, InExec, InRx, InLine
<1>5. r + 1 \notin InLine
  BY <1>1, <1>3
<1>6. LastIs(dongle.tx, r + 1) /\ LastIs(dongle.rx, r + 1)
  BY <1>5 DEF LastIs, InLine, InTx, InRx, Reqs
<1>7. LastInLine'
  BY <1>1, <1>4, <1>5, <1>6 DEF LastInLine, InLine
<1>8. Fresh'
  BY <1>1, <1>4, <1>5 DEF Fresh
<1>9. \A q : GivenUp(q) => GivenUp(q)'
  BY <1>1 DEF GivenUp
<1>10. Accounted'
  BY <1>1, <1>2, <1>4, <1>9 DEF Line, Accounted
<1>11. QED
  BY <1>7, <1>8, <1>10 DEF Line

\* The steps of txctl.
LEMMA TxLine ==
    ASSUME Types, Control, Line, NEW c \in Caller,
           TxCtl(c) \/ TriggerDpc(c) \/ TxDone(c) \/ TxTimeout(c) \/ TxClaim(c)
    PROVE  Line'
<1>1. UNCHANGED <<dongle, bus.rxctl, bus.ctrl_frame_err>> /\ InSlot' = InSlot
  BY DEF TxCtl, TriggerDpc, trigger_dpc, TxDone, TxTimeout, TxClaim, Types,
     Shapes, InSlot
<1>2. ASSUME TxResult(c), Offering(c), ~bus.ctrl_frame_stat, UNCHANGED bus
      PROVE  Line'
  <2>1. CASE bus.ctrl_frame_err
    BY <1>1, <1>2, <2>1, NotSentLine DEF TxResult
  <2>2. CASE ~bus.ctrl_frame_err
    BY <1>1, <1>2, <2>2, StepLine DEF TxResult
  <2>3. QED
    BY <2>1, <2>2
<1>3. CASE TxCtl(c)
  <2>1. CASE bus.state = "DATA"
    <3>1. Step(c, "trigger") /\ At(c, "txctl") /\ UNCHANGED proto
      BY <1>3, <2>1 DEF TxCtl
    <3>2. Pending /\ InProgress'
      BY <3>1, StepFields DEF Pending, InProgress, Offering, Types
    <3>3. QED
      BY <1>1, <3>1, <3>2, CallerLine
  <2>2. CASE bus.state # "DATA"
    <3>1. NotSent(c, "EIO") /\ At(c, "txctl") /\ UNCHANGED bus
      BY <1>3, <2>2 DEF TxCtl
    <3>2. QED
      BY <1>1, <3>1, NotSentLine
  <2>3. QED
    BY <2>1, <2>2
<1>4. CASE TriggerDpc(c)
  <2>1. /\ Step(c, "txwait") /\ Offering(c) /\ UNCHANGED proto
        /\ UNCHANGED bus.ctrl_frame_stat
    BY <1>4 DEF TriggerDpc, trigger_dpc, At, Offering, Types, Shapes
  <2>2. QED
    BY <1>1, <2>1, StepLine
<1>5. CASE TxDone(c)
  BY <1>2, <1>5 DEF TxDone, At, Offering
<1>6. CASE TxTimeout(c)
  BY <1>1, <1>6, StepLine DEF TxTimeout, At, Offering
<1>7. CASE TxClaim(c)
  <2>1. CASE bus.ctrl_frame_stat
    <3>1. NotSent(c, "ETIMEDOUT") /\ Offering(c)
      BY <1>7, <2>1 DEF TxClaim, At, Offering
    <3>2. QED
      BY <1>1, <2>1, <3>1, NotSentLine
  <2>2. CASE ~bus.ctrl_frame_stat
    BY <1>2, <1>7, <2>2 DEF TxClaim, At, Offering
  <2>3. QED
    BY <2>1, <2>2
<1>8. QED
  BY <1>3, <1>4, <1>5, <1>6, <1>7

\* The steps of rxctl.  A request that is given up is accounted for; one that
\* takes an answer was the last in the line, or has the id of a request that
\* was given up.
LEMMA RxLine ==
    ASSUME Types, Control, Line, NEW c \in Caller, RxCtl(c) \/ RxTake(c) \/ RxTimeout(c)
    PROVE  Line'
<1> DEFINE r == proto.reqno
<1>1. /\ UNCHANGED <<dongle, bus.ctrl_frame_stat, bus.ctrl_frame_err>>
      /\ InSlot' \subseteq InSlot /\ Answering(c)
  BY DEF RxCtl, RxTake, RxTimeout, Types, Shapes, InSlot, At, Answering
<1>2. caller[c].req = r /\ r \in Nat
  BY <1>1 DEF Control, OneAtATime, Types, CallerTypes
<1>3. ASSUME NEW ret, NoAnswer(c, ret)
      PROVE  Line'
  <2>1. /\ Return(c, ret, 0) /\ proto'.reqno = proto.reqno
        /\ proto'.unanswered = proto.unanswered \cup {r}
    BY <1>2, <1>3 DEF NoAnswer, Types, CallerTypes
  <2>2. GivenUp(r)'
    BY <1>2, <2>1 DEF GivenUp
  <2>3. QED
    BY <1>1, <1>2, <2>1, <2>2, ReturnLine
<1>4. CASE RxCtl(c)
  <2>1. CASE bus.state = "DATA"
    BY <1>1, <1>4, <2>1, StepLine DEF RxCtl
  <2>2. CASE bus.state # "DATA"
    BY <1>3, <1>4, <2>2 DEF RxCtl
  <2>3. QED
    BY <2>1, <2>2
<1>5. CASE RxTimeout(c)
  BY <1>3, <1>5 DEF RxTimeout
<1>6. CASE RxTake(c)
  <2> DEFINE q == bus.rxctl.req
  <2>1. /\ bus.rxctl # Null /\ msg' = bus.rxctl /\ UNCHANGED proto
        /\ InSlot = {q} /\ InSlot' = {}
    BY <1>6 DEF RxTake, InSlot, Types, Shapes
  <2>2. q \in Nat /\ q <= r /\ bus.rxctl.id = q % IdMod
    BY <2>1 DEF Control, AnswersKnown, Known, Types, MessageTypes, Message
  <2>3. CASE msg'.id = reqid
    <3>1. Return(c, "0", q)
      BY <1>6, <2>1, <2>3 DEF RxTake
    <3>2. CASE q = r
      <4>1. InTx = {} /\ InExec = {} /\ InRx = {}
        BY <2>1, <3>2 DEF Line, LastInLine
      <4>2. InLine' = {}
        BY <1>1, <2>1, <4>1 DEF InLine, InTx, InExec, InRx
      <4>3. LastInLine'
        BY <1>1, <2>1, <4>1 DEF Line, LastInLine, InTx, InExec, InRx
      <4>4. QED
        BY <2>1, <4>2, <4>3 DEF Line, Fresh, Accounted
    <3>3. CASE q # r
      <4>1. q % IdMod = r % IdMod
        BY <2>1, <2>2, <2>3 DEF reqid
      <4>2. PICK s \in proto.unanswered : s <= q /\ s % IdMod = q % IdMod
        BY <2>1, <3>3 DEF Line, Accounted, InLine, GivenUp
      <4>3. s <= r
        BY <1>2, <2>2, <4>2 DEF Line, Accounted
      <4>4. GivenUp(r)'
        BY <2>1, <4>1, <4>2, <4>3 DEF GivenUp
      <4>5. QED
        BY <1>1, <2>1, <3>1, <4>4, ReturnLine
    <3>4. QED
      BY <3>2, <3>3
  <2>4. CASE msg'.id # reqid
    <3>1. Step(c, "rxctl")
      BY <1>6, <2>4 DEF RxTake
    <3>2. QED
      BY <1>1, <2>1, <3>1, StepLine
  <2>5. QED
    BY <2>3, <2>4
<1>7. QED
  BY <1>4, <1>5, <1>6

\* At first the line is empty.
LEMMA InitLine == Init => Line
<1> SUFFICES ASSUME Init PROVE Line
  OBVIOUS
<1>1. /\ bus.rxctl = Null /\ dongle.tx = <<>> /\ dongle.exec = Null /\ dongle.rx = <<>>
      /\ proto.unanswered = {}
  BY DEF Init, BusInit
<1>2. Ctl(<<>>) = {}
  BY DEF Ctl
<1>3. InSlot = {} /\ InTx = {} /\ InExec = {} /\ InRx = {} /\ InLine = {}
  BY <1>1, <1>2 DEF InSlot, InTx, InExec, InRx, InLine, Reqs
<1>4. LastInLine
  BY <1>1, <1>2, <1>3 DEF LastInLine, LastIs
<1>5. QED
  BY <1>1, <1>3, <1>4 DEF Line, Fresh, Accounted

\* Requests and answers keep their order on the whole way, and whatever is on
\* it without a caller who waits was given up, or mistaken for one that was:
\* the inductive strengthening of the theorem below.
THEOREM LineInvariant == Spec => []Line
<1>1. Types /\ Control /\ Line /\ [Next]_vars => Line'
  <2> SUFFICES ASSUME Types, Control, Line, [Next]_vars PROVE Line'
    OBVIOUS
  <2>1. CASE UNCHANGED vars
    <3>1. UNCHANGED <<Carried, proto, caller>>
      BY <2>1 DEF vars, Carried
    <3>2. QED
      BY <3>1, CarriedLine
  <2>2. CASE Next
    BY <2>2, BusLine, OutsideLine, LockLine, TxLine, RxLine DEF Next, CallerNext
  <2>3. QED
    BY <2>1, <2>2
<1>2. QED
  BY <1>1, InitLine, TypesInvariant, ControlInvariant, PTL DEF Spec

\* brcmf_sdio_read_control drops an answer only when the slot holds the late
\* answer to a request that was given up, or one with its id: the answer that
\* a caller still waits for never stands in the way of another.
THEOREM DroppedBehindStale == Spec => DropsOnlyBehindStale
<1> DEFINE Drops == ReadFrame /\ Head(dongle.tx).chan = "control" /\ bus.rxctl # Null
           r == proto.reqno
           q == bus.rxctl.req
<1>1. Types /\ Control /\ Line /\ Drops => Stale(bus.rxctl)
  <2> SUFFICES ASSUME Types, Control, Line, Drops PROVE Stale(bus.rxctl)
    OBVIOUS
  <2>1. Head(dongle.tx).body.req \in InTx
    BY TailReqs DEF ReadFrame, Types, ChipTypes, InTx
  <2>2. q \in InSlot
    BY DEF InSlot
  <2>3. q # r
    BY <2>1, <2>2 DEF Line, LastInLine
  <2>4. GivenUp(q)
    BY <2>2, <2>3 DEF Line, Accounted, InLine
  <2>5. bus.rxctl.id = q % IdMod
    BY DEF Control, AnswersKnown, Known
  <2>6. QED
    BY <2>4, <2>5 DEF GivenUp, Stale
<1>2. (Types /\ Control /\ Line) => [Drops => Stale(bus.rxctl)]_vars
  BY <1>1
<1>3. QED
  BY <1>2, TypesInvariant, ControlInvariant, LineInvariant, PTL DEF DropsOnlyBehindStale
=============================================================================
