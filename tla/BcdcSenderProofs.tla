-------------------------- MODULE BcdcSenderProofs --------------------------
(***************************************************************************)
(* What the worker and the chip, and the worker and the senders of data    *)
(* owe each other: no frame is sent outside the window, nothing that may   *)
(* be sent is forgotten, the pending 802.1X frames are counted, and what   *)
(* flow control has stopped is known to it.                                *)
(***************************************************************************)
EXTENDS BcdcAnswersProofs

-----------------------------------------------------------------------------
(***************************************************************************)
(* The window.  Sequence numbers are compared by how many numbers they are *)
(* ahead of tx_seq, modulo the wrap.  WindowInv says that in this order    *)
(* the window of the driver, those of the headers on their way and the one *)
(* the chip would offer now never decrease (Offers), that what is being    *)
(* sent fits (Within), and that the frames the chip has not taken are      *)
(* numbered consecutively up to tx_seq (Numbered).                         *)
(***************************************************************************)
\* How many numbers x is ahead of the next one to send.
Ahead(x) == (x - bus.tx_seq) % SDPCM_SEQ_WRAP

Offers ==
    /\ Ahead(dongle.grant) + Len(dongle.rx) <= Credits
    /\ Ahead(bus.tx_max) <= Ahead(dongle.grant)
    /\ \A k \in 1..Len(dongle.tx) :
         /\ Ahead(bus.tx_max) <= Ahead(dongle.tx[k].max)
         /\ Ahead(dongle.tx[k].max) <= Ahead(dongle.grant)
         /\ \A l \in k..Len(dongle.tx) : Ahead(dongle.tx[k].max) <= Ahead(dongle.tx[l].max)
Within ==
    /\ dpc.pc = "send" => Len(dpc.pktq) <= Ahead(bus.tx_max)
    /\ dpc.pc = "send_ctrl" => Ahead(bus.tx_max) >= 1
Numbered ==
    \A k \in 1..Len(dongle.rx) :
      dongle.rx[k].seq = (bus.tx_seq - Len(dongle.rx) + k - 1) % SDPCM_SEQ_WRAP

WindowInv == Offers /\ Within /\ Numbered

\* It is a number below the wrap.
LEMMA AheadType ==
    ASSUME MessageTypes, NEW x \in Seq8
    PROVE  Ahead(x) \in Seq8
<1>1. x - bus.tx_seq \in Int
  BY WindowAssumption DEF MessageTypes, Seq8
<1>2. QED
  BY <1>1, SeqModulo DEF Ahead

\* After j frames have been sent what is offered is j frames nearer.
LEMMA Nearer ==
    ASSUME NEW M \in Nat \ {0}, NEW seq \in Int, NEW x \in Int, NEW j \in Nat,
           j <= (x - seq) % M
    PROVE  (x - ((seq + j) % M)) % M = ((x - seq) % M) - j
<1> DEFINE a == (x - seq) % M
           s == (seq + j) % M
           p == (x - seq) \div M
           q == (seq + j) \div M
<1>1. x - seq = p * M + a
  BY Division
<1>2. seq + j = q * M + s
  BY Division
<1>3. p \in Int /\ q \in Int /\ a \in 0..(M - 1) /\ s \in 0..(M - 1)
  BY Modulo
<1>4. a - j \in 0..(M - 1)
  BY <1>3
<1> HIDE DEF a, s, p, q
<1> DEFINE k == p + q
           l == a - j
           y == x - s
<1>5. y \in Int /\ k \in Int /\ y = k * M + l
  BY <1>1, <1>2, <1>3
<1>6. y % M = l
  <2> HIDE DEF k, l, y
  <2>1. QED
    BY <1>4, <1>5, Remainder DEF l
<1>7. QED
  BY <1>6 DEF a, s

\* Only the remainder of a number matters.
LEMMA Renumber ==
    ASSUME NEW M \in Nat \ {0}, NEW x \in Int, NEW y \in Int
    PROVE  ((x % M) + y) % M = (x + y) % M
<1> DEFINE p == x \div M
           s == x % M
           q == (s + y) \div M
           r == (s + y) % M
<1>1. x = p * M + s /\ p \in Int /\ s \in 0..(M - 1)
  BY Division, Modulo
<1> HIDE DEF p, s
<1>2. s + y \in Int
  BY <1>1
<1>3. s + y = q * M + r
  BY <1>2, Division
<1>4. q \in Int /\ r \in 0..(M - 1)
  BY <1>2
<1> HIDE DEF q, r
<1>5. x + y = (p + q) * M + r /\ p + q \in Int /\ x + y \in Int
  BY <1>1, <1>3, <1>4
<1>6. (x + y) % M = r
  BY <1>4, <1>5, Remainder
<1>7. QED
  BY <1>6 DEF r, s

\* A number that is not zero has a remainder, within one wrap.
LEMMA NotMultiple ==
    ASSUME NEW M \in Nat \ {0}, NEW x \in (1 - M)..(M - 1), x # 0
    PROVE  x % M >= 1
<1>1. x = (x \div M) * M + (x % M) /\ x % M \in 0..(M - 1)
  BY Division, Modulo
<1> DEFINE p == x \div M
<1>2. p \in Int
  OBVIOUS
<1> HIDE DEF p
<1>3. (p >= 1 => p * M >= M) /\ (p <= -1 => p * M <= -M) /\ (p = 0 => p * M = 0)
  BY <1>2
<1>4. QED
  BY <1>1, <1>2, <1>3 DEF p

\* The chip has offered nothing, and has been sent nothing.
LEMMA InitWindow == Init => WindowInv
<1> SUFFICES ASSUME Init PROVE WindowInv
  OBVIOUS
<1>1. /\ bus.tx_seq = SDPCM_SEQ_WRAP - 1 /\ bus.tx_max = 0 /\ dongle.grant = 0
      /\ dongle.rx = <<>> /\ dongle.tx = <<>> /\ dpc.pc = "idle"
  BY DEF Init, BusInit
<1>2. 0 - (SDPCM_SEQ_WRAP - 1) = (-1) * SDPCM_SEQ_WRAP + 1
      /\ 0 - (SDPCM_SEQ_WRAP - 1) \in Int /\ 1 \in 0..(SDPCM_SEQ_WRAP - 1) /\ -1 \in Int
      /\ SDPCM_SEQ_WRAP \in Nat \ {0}
  BY WindowAssumption
<1>3. Ahead(0) = 1
  BY <1>1, <1>2, Remainder DEF Ahead
<1>4. QED
  BY <1>1, <1>3, WindowAssumption DEF WindowInv, Offers, Within, Numbered

\* The window depends on the numbers and on what is being sent.
LEMMA SameWindow ==
    ASSUME WindowInv,
           UNCHANGED <<bus.tx_seq, bus.tx_max, dongle.rx, dongle.tx, dongle.grant>>,
           \/ dpc'.pc \notin {"send", "send_ctrl"}
           \/ UNCHANGED dpc
    PROVE  WindowInv'
BY DEF WindowInv, Offers, Within, Numbered, Ahead

\* The steps of the bus that move no number.
LEMMA PassWindow ==
    ASSUME Types, WindowInv,
           Isr \/ WorkerStart \/ WorkerLoop \/ DpcStatus
             \/ ReadNoMore \/ ReadLeft \/ CtrlGone \/ CtrlFails \/ DpcData
             \/ SendFails \/ FillEnds \/ TxOn \/ Unblock \/ DpcHalts
             \/ DpcEnds \/ Suspend \/ Resume \/ CardRemoved
             \/ DongleNakHandled
    PROVE  WindowInv'
<1> SUFFICES /\ UNCHANGED <<bus.tx_seq, bus.tx_max, dongle.rx, dongle.tx, dongle.grant>>
             /\ dpc'.pc \notin {"send", "send_ctrl"} \/ UNCHANGED dpc
  BY SameWindow
<1> USE DEF Types, Shapes, Goto
<1>1. CASE Isr
  BY <1>1 DEF Isr
<1>2. CASE WorkerStart
  BY <1>2 DEF WorkerStart
<1>3. CASE WorkerLoop
  <2>1. UNCHANGED dongle /\ dpc'.pc \in {"status", "idle"}
    BY <1>3 DEF WorkerLoop
  <2>2. bus' = [bus EXCEPT !.dpc_triggered = FALSE] \/ bus' = bus
    BY <1>3 DEF WorkerLoop
  <2>3. QED
    BY <2>1, <2>2
<1>4. CASE DpcStatus
  BY <1>4 DEF DpcStatus
<1>6. CASE ReadNoMore
  BY <1>6 DEF ReadNoMore
<1>7. CASE ReadLeft
  BY <1>7 DEF ReadLeft
<1>8. CASE CtrlGone
  BY <1>8 DEF CtrlGone
<1>9. CASE CtrlFails
  BY <1>9 DEF CtrlFails
<1>10. CASE DpcData
  BY <1>10 DEF DpcData
<1>11. CASE SendFails
  BY <1>11 DEF SendFails
<1>12. CASE FillEnds
  BY <1>12 DEF FillEnds
<1>13. CASE TxOn
  BY <1>13 DEF TxOn
<1>14. CASE Unblock
  BY <1>14 DEF Unblock
<1>15. CASE DpcHalts
  BY <1>15 DEF DpcHalts
<1>16. CASE DpcEnds
  BY <1>16 DEF DpcEnds
<1>17. CASE Suspend
  BY <1>17 DEF Suspend
<1>18. CASE Resume
  BY <1>18 DEF Resume
<1>19. CASE CardRemoved
  BY <1>19 DEF CardRemoved
<1>20. CASE DongleNakHandled
  BY <1>20 DEF DongleNakHandled
<1>21. QED
  BY <1>1, <1>2, <1>3, <1>4, <1>6, <1>7, <1>8, <1>9, <1>10, <1>11, <1>12,
     <1>13, <1>14, <1>15, <1>16, <1>17, <1>18, <1>19, <1>20

\* The sending threads move none.
LEMMA SenderWindow ==
    ASSUME Types, WindowInv, NEW i \in Interface,
           Send(i) \/ \E pae \in BOOLEAN : Xmit(i, pae)
    PROVE  WindowInv'
<1> SUFFICES UNCHANGED <<bus.tx_seq, bus.tx_max, dongle.rx, dongle.tx, dongle.grant, dpc>>
  BY SameWindow
<1> USE DEF Types, Shapes
<1>1. CASE \E pae \in BOOLEAN : Xmit(i, pae)
  BY <1>1 DEF Xmit
<1>2. CASE TxData(i)
  BY <1>2 DEF TxData
<1>3. CASE TxTrigger(i)
  BY <1>3 DEF TxTrigger, trigger_dpc
<1>4. CASE TxBlock(i) \/ XmitRejected(i) \/ TxRefused(i) \/ TxFinalize(i)
  BY <1>4 DEF TxBlock, XmitRejected, TxRefused, TxFinalize
<1>5. QED
  BY <1>1, <1>2, <1>3, <1>4 DEF Send

\* Nor do the callers.
LEMMA CallerWindow ==
    ASSUME Types, WindowInv, NEW c \in Caller, Call(c) \/ CallerNext(c)
    PROVE  WindowInv'
<1> SUFFICES UNCHANGED <<bus.tx_seq, bus.tx_max, dongle.rx, dongle.tx, dongle.grant, dpc>>
  BY SameWindow
<1>1. UNCHANGED <<dongle, dpc>>
  BY DEF CallerNext, Call, Lock, TxCtl, TriggerDpc, TxDone, TxTimeout, TxClaim,
     RxCtl, RxTake, RxTimeout, Unlock
<1>2. UNCHANGED <<bus.tx_seq, bus.tx_max>>
  BY DEF Types, Shapes, CallerNext, Call, Lock, TxCtl, TriggerDpc, trigger_dpc,
     TxDone, TxTimeout, TxClaim, RxCtl, RxTake, RxTimeout, Unlock
<1>3. QED
  BY <1>1, <1>2

\* The window a header carries is believed.
LEMMA HeaderWindow ==
    ASSUME Types, WindowInv, dongle.tx # <<>>
    PROVE  /\ Head(dongle.tx) = dongle.tx[1] /\ Len(dongle.tx) \in Nat \ {0}
           /\ NewWindow(Head(dongle.tx).max) = dongle.tx[1].max
<1>1. dongle.tx \in Seq(FromChip)
  BY DEF Types, ChipTypes
<1>2. Head(dongle.tx) = dongle.tx[1] /\ Len(dongle.tx) \in Nat \ {0}
  BY <1>1
<1>3. NewWindow(dongle.tx[1].max) = dongle.tx[1].max
  <2>1. dongle.tx[1] \in FromChip
    BY <1>1, <1>2, ElementOfSeq
  <2>2. dongle.tx[1].max \in Seq8
    BY <2>1 DEF FromChip
  <2>3. Ahead(dongle.tx[1].max) <= Ahead(dongle.grant)
    BY <1>2 DEF WindowInv, Offers
  <2>4. Ahead(dongle.tx[1].max) \in Int /\ Ahead(dongle.grant) \in Int
    BY <2>2, AheadType, SeqInt DEF Types, ChipTypes
  <2>5. Ahead(dongle.grant) <= Credits
    BY <2>4, WindowAssumption DEF WindowInv, Offers, Types, ChipTypes
  <2>6. Ahead(dongle.tx[1].max) <= SDPCM_SEQ_WRAP \div 4
    BY <2>3, <2>4, <2>5, WindowAssumption
  <2>7. QED
    BY <2>4, <2>6, WindowAssumption DEF NewWindow, Ahead
<1>4. QED
  BY <1>2, <1>3

\* It is taken although the transfer fails behind the header.
LEMMA ReadFailsWindow ==
    ASSUME Types, WindowInv, ReadFails
    PROVE  WindowInv'
<1>1. /\ dongle.tx # <<>> /\ dpc'.pc = "read"
      /\ UNCHANGED <<bus.tx_seq, dongle.rx, dongle.tx, dongle.grant>>
      /\ bus'.tx_max = bus.tx_max \/ bus'.tx_max = NewWindow(Head(dongle.tx).max)
  BY DEF Types, Shapes, ReadFails, Reading
<1>2. /\ Len(dongle.tx) \in Nat \ {0}
      /\ bus'.tx_max = bus.tx_max \/ bus'.tx_max = dongle.tx[1].max
  BY <1>1, HeaderWindow
<1>3. Offers'
  BY <1>1, <1>2 DEF WindowInv, Offers, Ahead
<1>4. Within' /\ Numbered'
  BY <1>1 DEF WindowInv, Within, Numbered
<1>5. QED
  BY <1>3, <1>4 DEF WindowInv

\* The window of a header is at least the last one, and offered.
LEMMA ReadWindow ==
    ASSUME Types, WindowInv, ReadFrame \/ ReadBadHeader
    PROVE  WindowInv'
<1>1. /\ dongle.tx # <<>> /\ dongle.tx \in Seq(FromChip) /\ dongle'.tx = Tail(dongle.tx)
      /\ UNCHANGED <<bus.tx_seq, dongle.rx, dongle.grant>> /\ dpc'.pc = "read"
      /\ bus'.tx_max = bus.tx_max \/ bus'.tx_max = NewWindow(Head(dongle.tx).max)
  <2> USE DEF Types, Shapes, ChipTypes
  <2>1. CASE ReadFrame
    BY <2>1 DEF ReadFrame, Reading
  <2>2. CASE ReadBadHeader
    BY <2>2 DEF ReadBadHeader, Reading
  <2>3. QED
    BY <2>1, <2>2
<1>2. /\ Head(dongle.tx) = dongle.tx[1] /\ Len(dongle.tx) \in Nat \ {0}
      /\ Len(dongle'.tx) = Len(dongle.tx) - 1
      /\ \A k \in 1..Len(dongle'.tx) : dongle'.tx[k] = dongle.tx[k + 1]
  BY <1>1
<1>3. NewWindow(dongle.tx[1].max) = dongle.tx[1].max
  BY <1>1, <1>2, HeaderWindow
<1>4. Offers'
  <2>1. \A x : Ahead(x)' = Ahead(x')
    BY <1>1 DEF Ahead
  <2>2. bus'.tx_max = bus.tx_max \/ bus'.tx_max = dongle.tx[1].max
    BY <1>1, <1>2, <1>3
  <2>3. QED
    BY <1>1, <1>2, <2>2 DEF WindowInv, Offers, Ahead
<1>5. Within' /\ Numbered'
  BY <1>1 DEF WindowInv, Within, Numbered
<1>6. QED
  BY <1>4, <1>5 DEF WindowInv

\* A control frame is sent only into an open window.
LEMMA CtrlWindow ==
    ASSUME Types, WindowInv, DpcCtrl
    PROVE  WindowInv'
<1>1. /\ UNCHANGED <<bus, dongle>> /\ dpc'.pc \in {"send_ctrl", "data"}
      /\ dpc'.pc = "send_ctrl" => txctl_ok
  BY DEF DpcCtrl, Goto, Types, Shapes
<1>2. bus.tx_max \in 0..(SDPCM_SEQ_WRAP - 1) /\ bus.tx_seq \in 0..(SDPCM_SEQ_WRAP - 1)
  BY DEF Types, MessageTypes, Seq8
<1>3. Window # 0 => Window % SDPCM_SEQ_WRAP >= 1
  <2>1. Window \in (1 - SDPCM_SEQ_WRAP)..(SDPCM_SEQ_WRAP - 1)
    BY <1>2, WindowAssumption DEF Window
  <2>2. QED
    BY <2>1, NotMultiple, WindowAssumption
<1>4. dpc'.pc = "send_ctrl" => Ahead(bus.tx_max) >= 1
  BY <1>1, <1>3 DEF txctl_ok, Ahead, Window
<1>5. QED
  BY <1>1, <1>4 DEF WindowInv, Offers, Within, Numbered, Ahead

\* The credits that are kept back are not in the half that counts as ahead.
LEMMA KeptBack ==
    ASSUME (0 - TXCTL_CREDITS) # 0, InHalf(0 - TXCTL_CREDITS)
    PROVE  FALSE
<1>1. /\ TXCTL_CREDITS \in 1..(SDPCM_SEQ_WRAP - 1) /\ SDPCM_SEQ_WRAP \in Nat \ {0}
      /\ 0 - TXCTL_CREDITS \in Int
      /\ SDPCM_SEQ_WRAP - TXCTL_CREDITS \in 0..(SDPCM_SEQ_WRAP - 1)
      /\ 0 - TXCTL_CREDITS = (-1) * SDPCM_SEQ_WRAP + (SDPCM_SEQ_WRAP - TXCTL_CREDITS)
      /\ -1 \in Int
  BY WindowAssumption
<1>2. (0 - TXCTL_CREDITS) % SDPCM_SEQ_WRAP = SDPCM_SEQ_WRAP - TXCTL_CREDITS
  BY <1>1, Remainder
<1>3. QED
  BY <1>2, WindowAssumption DEF InHalf

\* Data is not sent into a closed window.
LEMMA NoDataAtZero ==
    ASSUME Window = 0, data_ok
    PROVE  FALSE
<1>1. bus.ctrl_frame_stat
  <2> SUFFICES ASSUME ~bus.ctrl_frame_stat PROVE FALSE
    OBVIOUS
  <2>1. (Window - 0) # 0
    BY DEF data_ok
  <2>2. QED
    BY <2>1
<1>2. (0 - TXCTL_CREDITS) # 0 /\ InHalf(0 - TXCTL_CREDITS)
  BY <1>1 DEF data_ok
<1>3. QED
  BY <1>2, KeptBack

\* A transfer is not longer than the window.
LEMMA FillWindow ==
    ASSUME Types, WindowInv, Fill
    PROVE  WindowInv'
<1> DEFINE n == Smaller(Smaller(IF Glom > 1 THEN Window % SDPCM_SEQ_WRAP ELSE 1,
                               Glom), Len(bus.txq))
<1>1. /\ UNCHANGED dongle /\ UNCHANGED <<bus.tx_seq, bus.tx_max>>
      /\ dpc'.pc = "send" /\ dpc'.pktq = SubSeq(bus.txq, 1, n) /\ data_ok
  BY DEF Fill, Types, Shapes
<1>2. bus.tx_max \in 0..(SDPCM_SEQ_WRAP - 1) /\ bus.tx_seq \in 0..(SDPCM_SEQ_WRAP - 1)
      /\ bus.txq \in Seq(Frame) /\ Len(bus.txq) \in Nat
  BY DEF Types, MessageTypes, QueueTypes, Seq8
<1>3. Window \in (1 - SDPCM_SEQ_WRAP)..(SDPCM_SEQ_WRAP - 1)
  BY <1>2, WindowAssumption DEF Window
<1>4. Window % SDPCM_SEQ_WRAP \in Nat
  BY <1>3, SeqModulo, WindowAssumption DEF Seq8
<1>5. Window % SDPCM_SEQ_WRAP >= 1
  <2>1. Window # 0 => Window % SDPCM_SEQ_WRAP >= 1
    BY <1>3, NotMultiple, WindowAssumption
  <2>2. Window # 0
    BY <1>1, <1>3, NoDataAtZero
  <2>3. QED
    BY <2>1, <2>2
<1>6. n \in 0..Len(bus.txq) /\ n <= Window % SDPCM_SEQ_WRAP
  BY <1>2, <1>4, <1>5, WindowAssumption DEF Smaller
<1> HIDE DEF n
<1>7. Len(dpc'.pktq) = n
  <2>1. \A k \in 1..n : bus.txq[k] \in Frame
    BY <1>2, <1>6, ElementOfSeq
  <2>2. QED
    BY <1>1, <1>2, <1>6, SubSeqProperties
<1>8. Within'
  BY <1>1, <1>6, <1>7 DEF Within, Ahead, Window
<1>9. QED
  BY <1>1, <1>8 DEF WindowInv, Offers, Numbered, Ahead

\* The chip takes a frame and offers its place again, or reports what it offers.
LEMMA ChipWindow ==
    ASSUME Types, WindowInv, DongleTakes \/ DongleAnswers \/ DongleCredits
    PROVE  WindowInv'
<1>0. UNCHANGED <<bus, dpc>> /\ Ahead(dongle.grant) \in Int /\ Len(dongle.rx) \in Nat
      /\ dongle.rx \in Seq(ToChip) /\ dongle.tx \in Seq(FromChip) /\ bus.tx_seq \in Int
      /\ Ahead(bus.tx_max) \in Int
  <2>1. Ahead(dongle.grant) \in Seq8 /\ Ahead(bus.tx_max) \in Seq8
    BY AheadType DEF Types, ChipTypes, MessageTypes
  <2>2. QED
    BY <2>1, SeqInt DEF DongleTakes, DongleAnswers, DongleCredits, Types,
       ChipTypes, MessageTypes
<1>1. CASE DongleTakes
  <2>1. /\ dongle.rx # <<>> /\ dongle'.rx = Tail(dongle.rx) /\ dongle'.tx = dongle.tx
        /\ dongle'.grant = (Head(dongle.rx).seq + 1 + Credits) % SDPCM_SEQ_WRAP
    BY <1>1 DEF DongleTakes, Types, Shapes
  <2>2. /\ Head(dongle.rx) = dongle.rx[1] /\ Len(dongle.rx) \in Nat \ {0}
        /\ Len(dongle'.rx) = Len(dongle.rx) - 1
        /\ \A k \in 1..Len(dongle'.rx) : dongle'.rx[k] = dongle.rx[k + 1]
    BY <1>0, <2>1
  <2>3. Numbered'
    <3>1. ASSUME NEW k \in 1..Len(dongle'.rx)
          PROVE  dongle'.rx[k].seq
                   = (bus.tx_seq - Len(dongle'.rx) + k - 1) % SDPCM_SEQ_WRAP
      <4>1. k + 1 \in 1..Len(dongle.rx)
        BY <2>2
      <4>2. dongle.rx[k + 1].seq
              = (bus.tx_seq - Len(dongle.rx) + (k + 1) - 1) % SDPCM_SEQ_WRAP
        BY <4>1 DEF WindowInv, Numbered
      <4>3. bus.tx_seq - Len(dongle.rx) + (k + 1) - 1 = bus.tx_seq - Len(dongle'.rx) + k - 1
        BY <1>0, <2>2
      <4>4. QED
        BY <2>2, <4>2, <4>3
    <3>2. QED
      BY <1>0, <3>1 DEF Numbered
  <2>4. (Ahead(dongle.grant))' = Credits - Len(dongle'.rx)
    <3> DEFINE x == bus.tx_seq - Len(dongle.rx)
               W == SDPCM_SEQ_WRAP
    <3>1. dongle.rx[1].seq = x % W
      <4>1. 1 \in 1..Len(dongle.rx)
        BY <2>2
      <4>2. bus.tx_seq - Len(dongle.rx) + 1 - 1 = x
        BY <1>0
      <4>3. QED
        BY <4>1, <4>2 DEF WindowInv, Numbered
    <3>2. x \in Int /\ W \in Nat \ {0} /\ x % W \in Int
      BY <1>0, WindowAssumption
    <3>3. dongle'.grant = ((x % W) + (1 + Credits)) % W
      BY <2>1, <2>2, <3>1, <3>2, WindowAssumption
    <3>4. ((x % W) + (1 + Credits)) % W = (x + (1 + Credits)) % W
      <4>1. 1 + Credits \in Int
        BY WindowAssumption
      <4>2. QED
        BY <3>2, <4>1, Renumber
    <3>5. (Ahead(dongle.grant))' = (((x + (1 + Credits)) % W) + (0 - bus.tx_seq)) % W
      <4>1. ((x + (1 + Credits)) % W) \in Int
        BY <3>2, WindowAssumption
      <4>2. QED
        BY <1>0, <3>3, <3>4, <4>1 DEF Ahead
    <3>6. (((x + (1 + Credits)) % W) + (0 - bus.tx_seq)) % W
            = (x + (1 + Credits) + (0 - bus.tx_seq)) % W
      <4>1. x + (1 + Credits) \in Int /\ 0 - bus.tx_seq \in Int
        BY <1>0, <3>2, WindowAssumption
      <4>2. QED
        BY <3>2, <4>1, Renumber
    <3>7. x + (1 + Credits) + (0 - bus.tx_seq) = Credits - Len(dongle'.rx)
      <4> DEFINE l == Len(dongle.rx)
                 m == Len(dongle'.rx)
      <4>1. bus.tx_seq \in Int /\ Credits \in Nat /\ l \in Nat /\ m = l - 1
        BY <1>0, <2>2, WindowAssumption
      <4> HIDE DEF l, m
      <4>2. bus.tx_seq - l + (1 + Credits) + (0 - bus.tx_seq) = Credits - m
        BY <4>1
      <4>3. QED
        BY <4>2 DEF l, m
    <3>8. Credits - Len(dongle'.rx) \in 0..(W - 1)
      <4>1. Ahead(dongle.grant) \in Seq8
        BY AheadType DEF Types, ChipTypes
      <4>2. QED
        BY <1>0, <2>2, <4>1, WindowAssumption DEF WindowInv, Offers, Seq8
    <3>9. (Credits - Len(dongle'.rx)) % W = Credits - Len(dongle'.rx)
      <4> DEFINE r == Credits - Len(dongle'.rx)
      <4>1. r \in 0..(W - 1)
        BY <3>8
      <4> HIDE DEF r
      <4>2. r % W = r
        BY <3>2, <4>1
      <4>3. QED
        BY <4>2 DEF r
    <3>10. QED
      BY <3>5, <3>6, <3>7, <3>9
  <2>5. Offers'
    <3>1. Ahead(dongle.grant) <= (Ahead(dongle.grant))'
      <4>1. Ahead(dongle.grant) + Len(dongle.rx) <= Credits
        BY DEF WindowInv, Offers
      <4>2. QED
        <5> DEFINE l == Len(dongle.rx)
                   m == Len(dongle'.rx)
                   a == Ahead(dongle.grant)
        <5>1. a \in Int /\ Credits \in Nat /\ l \in Nat /\ m = l - 1 /\ a + l <= Credits
          BY <1>0, <2>2, <4>1, WindowAssumption
        <5> HIDE DEF l, m, a
        <5>2. a <= Credits - m
          BY <5>1
        <5>3. QED
          BY <2>4, <5>2 DEF a, m
    <3>2. ASSUME NEW k \in 1..Len(dongle.tx)
          PROVE  Ahead(dongle.tx[k].max) \in Int
      <4>1. dongle.tx[k] \in FromChip
        BY <1>0, ElementOfSeq
      <4>2. Ahead(dongle.tx[k].max) \in Seq8
        BY <4>1, AheadType DEF FromChip, Types
      <4>3. QED
        BY <4>2, SeqInt
    <3>3. (Ahead(dongle.grant))' \in Int
      BY <2>2, <2>4, WindowAssumption
    <3>4. (Ahead(bus.tx_max))' = Ahead(bus.tx_max)
          /\ \A k \in 1..Len(dongle.tx) : (Ahead(dongle.tx[k].max))' = Ahead(dongle.tx[k].max)
      BY <1>0, <2>1 DEF Ahead
    <3>5. (Ahead(dongle.grant))' + Len(dongle'.rx) <= Credits
      BY <2>2, <2>4, WindowAssumption
    <3>6. QED
      BY <1>0, <2>1, <3>1, <3>2, <3>3, <3>4, <3>5 DEF WindowInv, Offers
  <2>6. QED
    BY <1>0, <2>3, <2>5 DEF WindowInv, Within, Ahead
<1>2. CASE DongleAnswers \/ DongleCredits
  <2>1. /\ dongle'.rx = dongle.rx /\ dongle'.grant = dongle.grant
        /\ \E f : f.max = dongle.grant /\ dongle'.tx = Append(dongle.tx, f)
    <3>1. CASE DongleAnswers
      <4> DEFINE f == [chan |-> "control", body |-> [dongle.exec EXCEPT !.kind = "answer"],
                       max |-> dongle.grant]
      <4>1. /\ dongle'.rx = dongle.rx /\ dongle'.grant = dongle.grant
            /\ dongle'.tx = Append(dongle.tx, f)
        BY <3>1 DEF DongleAnswers, DongleSends, Types, Shapes
      <4>2. f.max = dongle.grant
        OBVIOUS
      <4>3. QED
        BY <4>1, <4>2
    <3>2. CASE DongleCredits
      <4> DEFINE f == [chan |-> "event", body |-> Null, max |-> dongle.grant]
      <4>1. /\ dongle'.rx = dongle.rx /\ dongle'.grant = dongle.grant
            /\ dongle'.tx = Append(dongle.tx, f)
        BY <3>2 DEF DongleCredits, DongleSends, Types, Shapes
      <4>2. f.max = dongle.grant
        OBVIOUS
      <4>3. QED
        BY <4>1, <4>2
    <3>3. QED
      BY <1>2, <3>1, <3>2
  <2>2. PICK f : f.max = dongle.grant /\ dongle'.tx = Append(dongle.tx, f)
    BY <2>1
  <2>3. /\ Len(dongle'.tx) = Len(dongle.tx) + 1 /\ Len(dongle.tx) \in Nat
        /\ \A k \in 1..Len(dongle.tx) : dongle'.tx[k] = dongle.tx[k]
        /\ dongle'.tx[Len(dongle.tx) + 1].max = dongle.grant
    BY <1>0, <2>2
  <2>4. Offers'
    <3> DEFINE n == Len(dongle.tx)
    <3>1. /\ UNCHANGED bus /\ (Ahead(dongle.grant))' = Ahead(dongle.grant)
          /\ Len(dongle'.rx) = Len(dongle.rx) /\ Len(dongle'.tx) = n + 1
          /\ n \in Nat
      BY <1>0, <2>1, <2>3 DEF Ahead
    <3> DEFINE a(k) == (dongle'.tx[k].max - bus'.tx_seq) % SDPCM_SEQ_WRAP
    <3>2. \A k \in 1..n : a(k) = Ahead(dongle.tx[k].max)
      BY <2>3, <3>1 DEF Ahead
    <3>3. a(n + 1) = Ahead(dongle.grant)
      BY <2>3, <3>1 DEF Ahead
    <3>4. Ahead(dongle.grant) \in Int
      BY AheadType, SeqInt DEF Types, ChipTypes
    <3>5. (Ahead(bus.tx_max))' = Ahead(bus.tx_max)
      BY <3>1 DEF Ahead
    <3>6. /\ \A k \in 1..n : /\ Ahead(bus.tx_max) <= a(k)
                             /\ a(k) <= Ahead(dongle.grant)
                             /\ \A l \in k..n : a(k) <= a(l)
          /\ Ahead(bus.tx_max) <= Ahead(dongle.grant)
          /\ Ahead(dongle.grant) + Len(dongle.rx) <= Credits
      BY <3>1, <3>2 DEF WindowInv, Offers
    <3> HIDE DEF n, a
    <3>7. \A k \in 1..(n + 1) : /\ Ahead(bus.tx_max) <= a(k)
                                /\ a(k) <= Ahead(dongle.grant)
                                /\ \A l \in k..(n + 1) : a(k) <= a(l)
      BY <3>1, <3>3, <3>4, <3>6
    <3>8. \A k \in 1..(n + 1) : (Ahead(dongle.tx[k].max))' = a(k)
      BY DEF Ahead, a
    <3>9. QED
      BY <3>1, <3>5, <3>6, <3>7, <3>8 DEF Offers
  <2>5. QED
    BY <1>0, <2>1, <2>4 DEF WindowInv, Within, Numbered, Ahead
<1>3. QED
  BY <1>1, <1>2

\* Sending j frames of what is offered keeps the window.
LEMMA SendingWindow ==
    ASSUME Types, WindowInv, NEW j \in Nat, NEW new \in Seq(ToChip), Len(new) = j,
           j <= Ahead(bus.tx_max), bus'.tx_max = bus.tx_max,
           bus'.tx_seq = (bus.tx_seq + j) % SDPCM_SEQ_WRAP,
           dongle'.rx = dongle.rx \o new, UNCHANGED <<dongle.tx, dongle.grant>>,
           \A k \in 1..j : new[k].seq = (bus.tx_seq + k - 1) % SDPCM_SEQ_WRAP,
           dpc'.pc \notin {"send", "send_ctrl"}
    PROVE  WindowInv'
<1> DEFINE s == bus.tx_seq
           n == Len(dongle.rx)
           W == SDPCM_SEQ_WRAP
<1>1. s \in Int /\ n \in Nat /\ W \in Nat \ {0} /\ bus.tx_max \in Seq8 /\ dongle.grant \in Seq8
      /\ dongle.rx \in Seq(ToChip) /\ dongle.tx \in Seq(FromChip)
  BY WindowAssumption DEF Types, ChipTypes, MessageTypes, Seq8
<1>2. /\ Len(dongle'.rx) = n + j
      /\ \A k \in 1..(n + j) :
           dongle'.rx[k] = IF k <= n THEN dongle.rx[k] ELSE new[k - n]
  <2>1. /\ Len(dongle.rx \o new) = Len(dongle.rx) + Len(new)
        /\ \A k \in 1..(Len(dongle.rx) + Len(new)) :
             (dongle.rx \o new)[k] = IF k <= Len(dongle.rx) THEN dongle.rx[k]
                                     ELSE new[k - Len(dongle.rx)]
    <3>1. dongle.rx \in Seq(ToChip)
      BY <1>1
    <3>2. QED
      BY <3>1, ConcatProperties
  <2>2. QED
    BY <2>1
<1>3. ASSUME NEW k \in 1..(n + j)
      PROVE  dongle'.rx[k].seq = (s - n + k - 1) % W
  <2>1. CASE k <= n
    BY <1>2, <2>1 DEF WindowInv, Numbered
  <2>2. CASE k > n
    <3>1. k - n \in 1..j /\ s + (k - n) - 1 = s - n + k - 1
      <4>1. s \in Int /\ n \in Nat /\ k \in Int /\ k <= n + j
        BY <1>1
      <4> HIDE DEF s, n
      <4>2. QED
        BY <2>2, <4>1
    <3>2. new[k - n].seq = (s + (k - n) - 1) % W
      BY <3>1
    <3>3. QED
      BY <1>1, <1>2, <2>2, <3>1, <3>2
  <2>3. k <= n \/ k > n
    <3>1. n \in Int
      BY <1>1
    <3> HIDE DEF n
    <3>2. QED
      BY <3>1
  <2>4. QED
    BY <2>1, <2>2, <2>3
<1>4. Numbered'
  <2>1. ASSUME NEW k \in 1..(n + j)
        PROVE  (bus'.tx_seq - (n + j) + k - 1) % W = (s - n + k - 1) % W
    <3> DEFINE x == s + j
               y == k - 1 - (n + j)
    <3>1. /\ x \in Int /\ y \in Int /\ x + y = s - n + k - 1
      <4>1. s \in Int /\ n \in Nat /\ k \in Int
        BY <1>1
      <4> HIDE DEF s, n
      <4>2. QED
        BY <4>1
    <3>2. (x % W) \in Int
      BY <1>1, <3>1
    <3>3. bus'.tx_seq - (n + j) + k - 1 = (x % W) + y
      <4> DEFINE z == x % W
      <4>1. bus'.tx_seq = z /\ z \in Int
        BY <3>2
      <4> HIDE DEF z
      <4>2. z - (n + j) + k - 1 = z + (k - 1 - (n + j))
        BY <1>1, <4>1
      <4>3. QED
        BY <4>1, <4>2 DEF z
    <3>4. ((x % W) + y) % W = (x + y) % W
      <4> HIDE DEF x, y, W
      <4>1. QED
        BY <1>1, <3>1, Renumber
    <3>5. QED
      BY <3>1, <3>3, <3>4
  <2>2. QED
    BY <1>2, <1>3, <2>1 DEF Numbered
<1>5. ASSUME NEW x \in Seq8, Ahead(bus.tx_max) <= Ahead(x)
      PROVE  (x - bus'.tx_seq) % W = Ahead(x) - j
  <2>1. x \in Int /\ Ahead(x) \in Int /\ Ahead(bus.tx_max) \in Int
    BY <1>1, AheadType, SeqInt DEF Types
  <2>2. j <= (x - s) % W
    BY <1>5, <2>1 DEF Ahead
  <2>3. (x - ((s + j) % W)) % W = ((x - s) % W) - j
    <3>1. s \in Int /\ W \in Nat \ {0}
      BY <1>1
    <3> HIDE DEF s, W
    <3>2. QED
      BY <2>1, <2>2, <3>1, Nearer, ZenonT(60)
  <2>4. bus'.tx_seq = (s + j) % W
    OBVIOUS
  <2>5. (x - bus'.tx_seq) % W = ((x - s) % W) - j
    <3> DEFINE t == (s + j) % W
               d == ((x - s) % W) - j
    <3>1. bus'.tx_seq = t /\ (x - t) % W = d
      BY <2>3, <2>4
    <3> HIDE DEF t, d, W
    <3>2. (x - bus'.tx_seq) % W = d
      BY <3>1
    <3>3. QED
      BY <3>2 DEF d
  <2>6. QED
    BY <2>5 DEF Ahead
<1>6. /\ Ahead(bus.tx_max) \in Int /\ Ahead(dongle.grant) \in Int
      /\ (Ahead(bus.tx_max))' = Ahead(bus.tx_max) - j
      /\ (Ahead(dongle.grant))' = Ahead(dongle.grant) - j
  <2>1. Ahead(bus.tx_max) \in Int /\ Ahead(dongle.grant) \in Int
    BY <1>1, AheadType, SeqInt DEF Types
  <2>2. Ahead(bus.tx_max) <= Ahead(dongle.grant)
    BY DEF WindowInv, Offers
  <2>3. /\ (bus.tx_max - bus'.tx_seq) % W = Ahead(bus.tx_max) - j
        /\ (dongle.grant - bus'.tx_seq) % W = Ahead(dongle.grant) - j
    BY <1>1, <1>5, <2>1, <2>2
  <2>4. QED
    BY <2>1, <2>3 DEF Ahead
<1>7. ASSUME NEW k \in 1..Len(dongle.tx)
      PROVE  /\ Ahead(dongle.tx[k].max) \in Int
             /\ (Ahead(dongle.tx[k].max))' = Ahead(dongle.tx[k].max) - j
  <2>1. dongle.tx[k].max \in Seq8
    <3>1. dongle.tx[k] \in FromChip
      BY <1>1, ElementOfSeq
    <3>2. QED
      BY <3>1 DEF FromChip
  <2>2. Ahead(bus.tx_max) <= Ahead(dongle.tx[k].max)
    BY DEF WindowInv, Offers
  <2>3. Ahead(dongle.tx[k].max) \in Int
    BY <2>1, AheadType, SeqInt DEF Types
  <2>4. QED
    BY <1>5, <2>1, <2>2, <2>3 DEF Ahead
<1>8. Offers'
  <2>1. (Ahead(dongle.grant))' + Len(dongle'.rx) <= Credits
    BY <1>1, <1>2, <1>6, WindowAssumption DEF WindowInv, Offers
  <2>2. (Ahead(bus.tx_max))' <= (Ahead(dongle.grant))'
    BY <1>6 DEF WindowInv, Offers
  <2>3. ASSUME NEW k \in 1..Len(dongle.tx), NEW l \in k..Len(dongle.tx)
        PROVE  /\ (Ahead(bus.tx_max))' <= (Ahead(dongle.tx[k].max))'
               /\ (Ahead(dongle.tx[k].max))' <= (Ahead(dongle.grant))'
               /\ (Ahead(dongle.tx[k].max))' <= (Ahead(dongle.tx[l].max))'
    <3>1. l \in 1..Len(dongle.tx) /\ k \in k..Len(dongle.tx)
      BY <1>1
    <3>2. /\ Ahead(bus.tx_max) <= Ahead(dongle.tx[k].max)
          /\ Ahead(dongle.tx[k].max) <= Ahead(dongle.grant)
          /\ Ahead(dongle.tx[k].max) <= Ahead(dongle.tx[l].max)
      BY DEF WindowInv, Offers
    <3>3. /\ Ahead(dongle.tx[l].max) \in Int
          /\ (Ahead(dongle.tx[l].max))' = Ahead(dongle.tx[l].max) - j
      BY <1>7, <3>1
    <3>4. /\ Ahead(dongle.tx[k].max) \in Int
          /\ (Ahead(dongle.tx[k].max))' = Ahead(dongle.tx[k].max) - j
      BY <1>7
    <3>5. QED
      BY <1>6, <3>2, <3>3, <3>4
  <2>4. QED
    BY <2>1, <2>2, <2>3 DEF Offers
<1>9. QED
  BY <1>4, <1>8 DEF WindowInv, Within

\* The control frame is one of them.
LEMMA CtrlSentWindow ==
    ASSUME Types, WindowInv, CtrlSent
    PROVE  WindowInv'
<1> DEFINE e == [chan |-> "control", seq |-> bus.tx_seq, body |-> msg]
           new == <<e>>
<1>1. /\ dongle'.rx = Append(dongle.rx, e) /\ UNCHANGED <<dongle.tx, dongle.grant>>
      /\ bus'.tx_max = bus.tx_max /\ bus'.tx_seq = (bus.tx_seq + 1) % SDPCM_SEQ_WRAP
      /\ dpc'.pc = "data" /\ dpc.pc = "send_ctrl"
  BY DEF CtrlSent, Goto, Types, Shapes
<1>2. e \in ToChip /\ e.seq = bus.tx_seq
  BY DEF CtrlSent, Types, MessageTypes, ToChip
<1>3. dongle.rx \in Seq(ToChip) /\ bus.tx_seq \in 0..(SDPCM_SEQ_WRAP - 1)
  BY DEF Types, ChipTypes, MessageTypes, Seq8
<1> HIDE DEF e
<1>4. new \in Seq(ToChip) /\ Len(new) = 1 /\ new[1] = e /\ dongle'.rx = dongle.rx \o new
  BY <1>1, <1>2, <1>3
<1>5. \A k \in 1..1 : new[k].seq = (bus.tx_seq + k - 1) % SDPCM_SEQ_WRAP
  <2>1. bus.tx_seq + 1 - 1 = bus.tx_seq /\ bus.tx_seq % SDPCM_SEQ_WRAP = bus.tx_seq
    BY <1>3, WindowAssumption
  <2>2. \A k \in 1..1 : k = 1
    OBVIOUS
  <2>3. QED
    BY <1>2, <1>4, <2>1, <2>2
<1>6. 1 <= Ahead(bus.tx_max)
  <2>1. Ahead(bus.tx_max) >= 1
    BY <1>1 DEF WindowInv, Within
  <2>2. Ahead(bus.tx_max) \in Int
    BY AheadType, SeqInt DEF Types, MessageTypes
  <2>3. QED
    BY <2>1, <2>2
<1> HIDE DEF new
<1>7. QED
  BY <1>1, <1>4, <1>5, <1>6, SendingWindow

\* A transfer is Len(dpc.pktq) of them.
LEMMA SentWindow ==
    ASSUME Types, WindowInv, Sent
    PROVE  WindowInv'
<1> DEFINE j == Len(dpc.pktq)
           new == [k \in DOMAIN dpc.pktq |->
                     [chan |-> "data", body |-> Null,
                      seq |-> (bus.tx_seq + k - 1) % SDPCM_SEQ_WRAP]]
<1>1. /\ dongle'.rx = dongle.rx \o new /\ UNCHANGED <<dongle.tx, dongle.grant>>
      /\ bus'.tx_max = bus.tx_max
      /\ bus'.tx_seq = (bus.tx_seq + j) % SDPCM_SEQ_WRAP
      /\ dpc'.pc = "fill" /\ dpc.pc = "send"
  BY DEF Sent, Types, Shapes
<1>2. j \in Nat /\ DOMAIN dpc.pktq = 1..j
  BY LenProperties DEF Types, QueueTypes
<1>3. \A k \in 1..j : new[k].seq = (bus.tx_seq + k - 1) % SDPCM_SEQ_WRAP
  BY <1>2
<1>4. new \in Seq(ToChip) /\ Len(new) = j
  BY ChainType DEF Types
<1>5. j <= Ahead(bus.tx_max)
  BY <1>1 DEF WindowInv, Within
<1> HIDE DEF new, j
<1>6. QED
  BY <1>1, <1>2, <1>3, <1>4, <1>5, SendingWindow

\* What the chip has offered is never more than it has room for, in whatever
\* order its headers are read or lost; the inductive form of the next.
THEOREM WindowInvariant == Spec => []WindowInv
<1>1. Types /\ WindowInv /\ [Next]_vars => WindowInv'
  <2> SUFFICES ASSUME Types, WindowInv, [Next]_vars PROVE WindowInv'
    OBVIOUS
  <2>1. CASE UNCHANGED vars
    BY <2>1 DEF vars, WindowInv, Offers, Within, Numbered, Ahead
  <2>2. CASE Isr \/ Worker \/ Faults
    BY <2>2, PassWindow, ReadFailsWindow, ReadWindow, CtrlWindow, FillWindow, CtrlSentWindow,
       SentWindow
    DEF Worker, Faults
  <2>3. CASE Chip
    BY <2>3, ChipWindow, PassWindow DEF Chip
  <2>4. CASE \E i \in Interface : Send(i) \/ \E pae \in BOOLEAN : Xmit(i, pae)
    BY <2>4, SenderWindow
  <2>5. CASE \E c \in Caller : Call(c) \/ CallerNext(c)
    BY <2>5, CallerWindow
  <2>6. QED
    BY <2>1, <2>2, <2>3, <2>4, <2>5 DEF Next, BusNext
<1>2. QED
  BY <1>1, InitWindow, TypesInvariant, PTL DEF Spec

\* brcmf_sdio_tx_ctrlframe and brcmf_sdio_txpkt together never send more
\* frames than the chip has credited, and number them consecutively.
THEOREM WindowIsKept == Spec => []WindowKept
<1>1. Types /\ WindowInv => WindowKept
  <2> SUFFICES ASSUME Types, WindowInv PROVE WindowKept
    OBVIOUS
  <2>1. Ahead(dongle.grant) \in 0..(SDPCM_SEQ_WRAP - 1) /\ Len(dongle.rx) \in Nat
    BY AheadType DEF Types, ChipTypes, Seq8
  <2>2. Len(dongle.rx) <= Credits
    BY <2>1, WindowAssumption DEF WindowInv, Offers
  <2>3. QED
    BY <2>2 DEF WindowInv, Numbered, WindowKept
<1>2. QED
  BY <1>1, TypesInvariant, WindowInvariant, PTL


-----------------------------------------------------------------------------
(***************************************************************************)
(* The worker is not put to sleep with something left to send.  The flag   *)
(* dpc_triggered, set without a lock by four kinds of thread and cleared by*)
(* the worker, must be set whenever something that may be sent has appeared*)
(* behind the place where the worker looks for it.                         *)
(***************************************************************************)

\* The window is open.
Room == Ahead(bus.tx_max) >= 1
Places == {"idle", "frozen", "loop", "status", "read", "ctrl", "send_ctrl", "data", "fill",
           "send", "txon", "unblock", "end"}

WorkerPlace ==
    /\ DOMAIN net.pc = Interface /\ dpc.pc \in Places
    /\ bus.state \in {"DATA", "DOWN", "NOMEDIUM"}
    /\ bus.state = "DOWN" => dpc.pc = "frozen"
    /\ bus.dpc_triggered => bus.queued \/ dpc.pc \notin {"idle", "frozen"}
\* Behind the place where the worker looks for a control frame, it has been
\* told to look again.
CtrlAwake ==
    (/\ bus.ctrl_frame_stat /\ Room /\ \A c \in Caller : ~At(c, "trigger")
     /\ \/ dpc.pc \in {"loop", "idle", "frozen"}
        \/ dpc.pc \in {"data", "fill", "send", "txon", "unblock", "end"} /\ ~dpc.err)
      => bus.dpc_triggered
DataAwake ==
    (/\ bus.txq # <<>> /\ data_ok /\ bus.state # "NOMEDIUM" /\ ~dpc.err
     /\ \A i \in Interface : net.pc[i] \notin {"block", "trigger"}
     /\ dpc.pc \in {"loop", "idle", "frozen"})
      => bus.dpc_triggered
Awake == WorkerPlace /\ CtrlAwake /\ DataAwake

\* In an open window txctl_ok holds, and data_ok unless a control frame waits.
LEMMA RoomFacts ==
    ASSUME Types, WindowInv
    PROVE  /\ Room <=> Window # 0
           /\ txctl_ok <=> Room
           /\ data_ok => Room
           /\ (~bus.ctrl_frame_stat /\ Room) => data_ok
<1>1. bus.tx_max \in 0..(SDPCM_SEQ_WRAP - 1) /\ bus.tx_seq \in 0..(SDPCM_SEQ_WRAP - 1)
  BY DEF Types, MessageTypes, Seq8
<1>2. Window \in (1 - SDPCM_SEQ_WRAP)..(SDPCM_SEQ_WRAP - 1)
  BY <1>1, WindowAssumption DEF Window
<1>3. Window # 0 => Window % SDPCM_SEQ_WRAP >= 1
  BY <1>2, NotMultiple, WindowAssumption
<1>4. Ahead(bus.tx_max) = Window % SDPCM_SEQ_WRAP
  BY DEF Ahead, Window
<1>5. Window = 0 => Window % SDPCM_SEQ_WRAP = 0
  BY WindowAssumption
<1>6. Room <=> Window # 0
  BY <1>3, <1>4, <1>5 DEF Room
<1>7. InHalf(Window)
  <2>1. Ahead(bus.tx_max) <= Credits
    <3>1. Ahead(bus.tx_max) \in Int /\ Ahead(dongle.grant) \in Int /\ Len(dongle.rx) \in Nat
      <4>1. Ahead(bus.tx_max) \in Seq8 /\ Ahead(dongle.grant) \in Seq8
        BY AheadType DEF Types, MessageTypes, ChipTypes
      <4>2. QED
        BY <4>1, WindowAssumption DEF Types, ChipTypes, Seq8
    <3>2. QED
      BY <3>1, WindowAssumption DEF WindowInv, Offers
  <2>2. Ahead(bus.tx_max) \in Int
    BY AheadType, SeqInt DEF Types, MessageTypes
  <2>3. QED
    BY <1>4, <2>1, <2>2, WindowAssumption DEF InHalf
<1>8. data_ok => Window # 0
  BY <1>2, NoDataAtZero DEF data_ok
<1>9. (~bus.ctrl_frame_stat /\ Window # 0) => data_ok
  <2> SUFFICES ASSUME ~bus.ctrl_frame_stat, Window # 0 PROVE data_ok
    OBVIOUS
  <2>1. Window - 0 = Window
    BY <1>2
  <2>2. QED
    BY <1>7, <2>1 DEF data_ok
<1>10. QED
  BY <1>6, <1>7, <1>8, <1>9 DEF txctl_ok

\* Whatever becomes of the control frame.
LEMMA DataNeedsRoom ==
    ASSUME Types, WindowInv, UNCHANGED <<bus.tx_max, bus.tx_seq>>, data_ok'
    PROVE  Room
<1> SUFFICES ASSUME Window = 0 PROVE FALSE
  BY RoomFacts
<1>1. Window' = 0
  BY DEF Window
<1>2. bus'.ctrl_frame_stat
  <2> SUFFICES ASSUME ~bus'.ctrl_frame_stat PROVE FALSE
    OBVIOUS
  <2>1. (Window' - 0) # 0
    BY DEF data_ok
  <2>2. QED
    BY <1>1, <2>1
<1>3. (0 - TXCTL_CREDITS) # 0 /\ InHalf(0 - TXCTL_CREDITS)
  BY <1>1, <1>2 DEF data_ok
<1>4. QED
  BY <1>3, KeptBack

\* The window is open while the numbers are the same ...
LEMMA SameRoom ==
    ASSUME UNCHANGED <<bus.tx_max, bus.tx_seq>>
    PROVE  Room' <=> Room
BY DEF Room, Ahead

\* ... and data may be sent while the offer is the same too.
LEMMA SameData ==
    ASSUME UNCHANGED <<bus.tx_max, bus.tx_seq, bus.ctrl_frame_stat>>
    PROVE  data_ok' <=> data_ok
BY DEF data_ok, Window, InHalf

\* The steps of the bus that send nothing.
LEMMA PassAwake ==
    ASSUME Types, WindowInv, Awake, UNCHANGED <<proto, caller>>,
           Isr \/ WorkerStart \/ WorkerLoop \/ DpcStatus \/ ReadFrame
             \/ ReadBadHeader \/ ReadFails \/ ReadNoMore \/ ReadLeft
             \/ DpcCtrl \/ CtrlGone \/ CtrlFails \/ DpcData \/ Fill
             \/ SendFails \/ FillEnds \/ TxOn \/ Unblock \/ DpcHalts
             \/ DpcEnds \/ Suspend \/ CardRemoved
    PROVE  Awake'
<1>0. txctl_ok <=> Room
  BY RoomFacts
<1> USE <1>0, SameRoom, SameData
    DEF Types, Shapes, Goto, Reading, Awake, WorkerPlace, CtrlAwake, DataAwake,
        Places, At
<1>1. CASE Isr
  BY <1>1 DEF Isr
<1>2. CASE WorkerStart
  BY <1>2 DEF WorkerStart
<1>3. CASE WorkerLoop
  <2>1. CASE bus.dpc_triggered
    <3>1. /\ bus' = [bus EXCEPT !.dpc_triggered = FALSE]
          /\ dpc' = [dpc EXCEPT !.pc = "status", !.err = FALSE]
          /\ dpc.pc = "loop" /\ UNCHANGED net
      BY <1>3, <2>1 DEF WorkerLoop
    <3>2. QED
      BY <3>1
  <2>2. CASE ~bus.dpc_triggered
    BY <1>3, <2>2 DEF WorkerLoop
  <2>3. QED
    BY <2>1, <2>2
<1>4. CASE DpcStatus
  BY <1>4 DEF DpcStatus
<1>5. CASE ReadFrame
  BY <1>5 DEF ReadFrame
<1>6. CASE ReadBadHeader
  BY <1>6 DEF ReadBadHeader
<1>7. CASE ReadFails
  BY <1>7 DEF ReadFails
<1>8. CASE ReadNoMore
  BY <1>8 DEF ReadNoMore
<1>9. CASE ReadLeft
  BY <1>9 DEF ReadLeft
<1>10. CASE DpcCtrl
  BY <1>10 DEF DpcCtrl
<1>11. CASE CtrlGone
  BY <1>11 DEF CtrlGone
<1>12. CASE CtrlFails
  BY <1>12 DEF CtrlFails
<1>13. CASE DpcData
  BY <1>13 DEF DpcData
<1>14. CASE Fill
  BY <1>14 DEF Fill
<1>15. CASE SendFails
  BY <1>15 DEF SendFails
<1>16. CASE FillEnds
  BY <1>16 DEF FillEnds
<1>17. CASE TxOn
  BY <1>17 DEF TxOn
<1>18. CASE Unblock
  <2>1. /\ UNCHANGED <<bus, caller>> /\ dpc'.err = dpc.err
        /\ dpc.pc = "unblock" /\ dpc'.pc \in {"unblock", "end"}
    BY <1>18 DEF Unblock
  <2>2. net'.pc = net.pc
    BY <1>18 DEF Unblock, txflowblock_if
  <2>3. QED
    BY <2>1, <2>2
<1>19. CASE DpcHalts
  BY <1>19 DEF DpcHalts
<1>20. CASE DpcEnds
  BY <1>20 DEF DpcEnds
<1>21. CASE Suspend
  BY <1>21 DEF Suspend
<1>22. CASE CardRemoved
  BY <1>22 DEF CardRemoved
<1>23. QED
  BY <1>1, <1>2, <1>3, <1>4, <1>5, <1>6, <1>7, <1>8, <1>9, <1>10, <1>11, <1>12,
     <1>13, <1>14, <1>15, <1>16, <1>17, <1>18, <1>19, <1>20, <1>21, <1>22

\* After sending, the worker looks at the queue again before it ends.
LEMMA SendAwake ==
    ASSUME Types, WindowInv, Awake, UNCHANGED <<proto, caller>>, CtrlSent \/ Sent
    PROVE  Awake'
<1> USE DEF Types, Shapes, Goto, Awake, WorkerPlace, CtrlAwake, DataAwake, Places, At
<1>1. CASE CtrlSent
  BY <1>1 DEF CtrlSent
<1>2. CASE Sent
  <2> DEFINE j == Len(dpc.pktq)
  <2>1. /\ bus'.tx_seq = (bus.tx_seq + j) % SDPCM_SEQ_WRAP
        /\ UNCHANGED <<bus.tx_max, bus.ctrl_frame_stat, bus.dpc_triggered, bus.queued, bus.state>>
        /\ dpc.pc = "send" /\ dpc'.pc = "fill" /\ dpc'.err = dpc.err /\ net'.pc = net.pc
    BY <1>2 DEF Sent
  <2>2. j \in Nat /\ bus.tx_max \in Seq8 /\ bus.tx_seq \in Seq8
    BY DEF QueueTypes, MessageTypes
  <2>3. Ahead(bus.tx_max) \in Int /\ j <= Ahead(bus.tx_max)
    BY <2>1, <2>2, AheadType, SeqInt DEF WindowInv, Within
  <2>4. (bus.tx_max - ((bus.tx_seq + j) % SDPCM_SEQ_WRAP)) % SDPCM_SEQ_WRAP
          = ((bus.tx_max - bus.tx_seq) % SDPCM_SEQ_WRAP) - j
    <3>1. /\ bus.tx_max \in Int /\ bus.tx_seq \in Int /\ SDPCM_SEQ_WRAP \in Nat \ {0}
          /\ j <= (bus.tx_max - bus.tx_seq) % SDPCM_SEQ_WRAP
      BY <2>2, <2>3, SeqInt, WindowAssumption DEF Ahead
    <3> HIDE DEF j
    <3>2. QED
      BY <2>2, <3>1, Nearer
  <2>5. Room' => Room
    <3>1. (Ahead(bus.tx_max))' = Ahead(bus.tx_max) - j
      BY <2>1, <2>4 DEF Ahead
    <3>2. QED
      BY <2>2, <2>3, <3>1 DEF Room
  <2>6. QED
    BY <2>1, <2>5
<1>3. QED
  BY <1>1, <1>2

\* A resume finds the worker told to run, if there is anything to send.
LEMMA ResumeAwake ==
    ASSUME Types, WindowInv, Awake, UNCHANGED <<proto, caller>>, Resume
    PROVE  Awake'
<1> USE DEF Types, Shapes, Goto
<1>1. /\ dpc'.pc = "idle" /\ dpc.pc = "frozen" /\ dpc'.err = dpc.err
      /\ bus' = bus \/ (bus' = [bus EXCEPT !.state = "DATA"] /\ bus.state = "DOWN")
      /\ bus.state = "DOWN" => bus'.state = "DATA"
  BY DEF Resume
<1>2. /\ UNCHANGED <<bus.tx_max, bus.tx_seq, bus.ctrl_frame_stat>>
      /\ UNCHANGED <<bus.dpc_triggered, bus.queued, bus.txq>>
      /\ bus'.state = bus.state \/ (bus.state = "DOWN" /\ bus'.state = "DATA")
      /\ bus'.state # "DOWN"
  BY <1>1
<1>3. net'.pc = net.pc
  <2> DEFINE held == net.woken \/ bus.txoff \/ \E i \in Interface : net.netif_stop[i]
             net1 == [[net EXCEPT !.stopped = [i \in Interface |-> FALSE]]
                        EXCEPT !.woken = held]
  <2>1. net1.pc = net.pc
    OBVIOUS
  <2>2. net' = net1 \/ net' = net
    BY DEF Resume
  <2> HIDE DEF net1
  <2>3. QED
    BY <2>1, <2>2
<1>4. QED
  BY <1>1, <1>2, <1>3, SameRoom, SameData
  DEF Awake, WorkerPlace, CtrlAwake, DataAwake, Places, At

\* The chip wakes the worker only through its interrupt.
LEMMA ChipAwake ==
    ASSUME Awake, UNCHANGED <<proto, caller>>, Chip
    PROVE  Awake'
<1>1. UNCHANGED <<bus, dpc, net>>
  BY DEF Chip, DongleTakes, DongleAnswers, DongleCredits, DongleNakHandled
<1>2. QED
  BY <1>1, SameRoom, SameData DEF Awake, WorkerPlace, CtrlAwake, DataAwake, At

\* A frame is queued before the worker is told.
LEMMA SenderAwake ==
    ASSUME Types, WindowInv, Awake, UNCHANGED <<proto, caller>>,
           NEW i \in Interface, Send(i) \/ \E pae \in BOOLEAN : Xmit(i, pae)
    PROVE  Awake'
<1> USE DEF Types, Shapes, Sender
<1>1. UNCHANGED <<dpc, bus.tx_max, bus.tx_seq, bus.ctrl_frame_stat, bus.state>>
  BY DEF Send, XmitRejected, TxData, TxBlock, TxTrigger, trigger_dpc,
     TxRefused, TxFinalize, Xmit
<1>2. (Room' <=> Room) /\ (data_ok' <=> data_ok)
  BY <1>1, SameRoom, SameData
<1>3. DOMAIN net.pc = Interface
  BY DEF Awake, WorkerPlace
<1>4. ASSUME bus' = bus, NEW pc, net'.pc = [net.pc EXCEPT ![i] = pc],
             net.pc[i] \in {"block", "trigger"} => pc \in {"block", "trigger"}
      PROVE  Awake'
  BY <1>1, <1>2, <1>3, <1>4 DEF Awake, WorkerPlace, CtrlAwake, DataAwake, At
<1>5. CASE \E pae \in BOOLEAN : Xmit(i, pae)
  <2>1. PICK pae \in BOOLEAN : Xmit(i, pae)
    BY <1>5
  <2>2. net'.pc = [net.pc EXCEPT ![i] = "txdata"] \/ net'.pc = [net.pc EXCEPT ![i] = "stop"]
    BY <2>1 DEF Xmit
  <2>3. net.pc[i] = "idle" /\ UNCHANGED bus
    BY <2>1 DEF Xmit
  <2>4. QED
    BY <1>4, <2>2, <2>3
<1>6. CASE XmitRejected(i) \/ TxRefused(i) \/ TxFinalize(i)
  <2>1. \/ net'.pc = [net.pc EXCEPT ![i] = "idle"]
        \/ net'.pc = [net.pc EXCEPT ![i] = "finalize"]
    BY <1>6 DEF XmitRejected, TxRefused, TxFinalize
  <2>2. net.pc[i] \notin {"block", "trigger"} /\ UNCHANGED bus
    BY <1>6 DEF XmitRejected, TxRefused, TxFinalize
  <2>3. QED
    BY <1>4, <2>1, <2>2
<1>7. CASE TxBlock(i)
  <2>1. /\ UNCHANGED bus
        /\ \E pc \in {"block", "trigger"} : net'.pc = [net.pc EXCEPT ![i] = pc]
    BY <1>7 DEF TxBlock, txflowblock_if
  <2>2. QED
    BY <1>4, <2>1
<1>8. CASE TxData(i)
  <2>1. net'.pc[i] \in {"block", "trigger"}
    BY <1>3, <1>8 DEF TxData
  <2>2. DOMAIN net'.pc = DOMAIN net.pc
    BY <1>8 DEF TxData
  <2>3. UNCHANGED <<bus.dpc_triggered, bus.queued>>
    BY <1>8 DEF TxData
  <2>4. QED
    BY <1>1, <1>2, <1>3, <2>1, <2>2, <2>3 DEF Awake, WorkerPlace, CtrlAwake,
       DataAwake, At
<1>9. CASE TxTrigger(i)
  <2>1. bus'.dpc_triggered
    BY <1>9 DEF TxTrigger, trigger_dpc
  <2>2. DOMAIN net'.pc = DOMAIN net.pc
    BY <1>9 DEF TxTrigger
  <2>3. bus'.queued \/ dpc.pc \notin {"idle", "frozen"}
    BY <1>9 DEF TxTrigger, trigger_dpc, Awake, WorkerPlace
  <2>4. QED
    BY <1>1, <1>2, <1>3, <2>1, <2>2, <2>3 DEF Awake, WorkerPlace, CtrlAwake,
       DataAwake, At
<1>10. QED
  BY <1>5, <1>6, <1>7, <1>8, <1>9 DEF Send

\* A control frame is offered before the worker is told.
LEMMA CallerAwake ==
    ASSUME Types, WindowInv, Control, Awake, NEW c \in Caller,
           Call(c) \/ CallerNext(c)
    PROVE  Awake'
<1>1. UNCHANGED <<dpc, net>>
  BY DEF CallerNext, Call, Lock, TxCtl, TriggerDpc, TxDone, TxTimeout, TxClaim,
     RxCtl, RxTake, RxTimeout, Unlock
<1>2. UNCHANGED <<bus.tx_seq, bus.tx_max, bus.state, bus.txq>>
  BY DEF Types, Shapes, CallerNext, Call, Lock, TxCtl, TriggerDpc, trigger_dpc,
     TxDone, TxTimeout, TxClaim, RxCtl, RxTake, RxTimeout, Unlock
<1>3. Room' <=> Room
  BY <1>2, SameRoom
<1>4. CASE TriggerDpc(c)
  <2>1. bus'.dpc_triggered
    BY <1>4 DEF TriggerDpc, trigger_dpc, Types, Shapes
  <2>2. bus'.queued \/ dpc.pc \notin {"idle", "frozen"}
    BY <1>4 DEF TriggerDpc, trigger_dpc, Types, Shapes, Awake, WorkerPlace
  <2>3. QED
    BY <1>1, <1>2, <2>1, <2>2 DEF Awake, WorkerPlace, CtrlAwake, DataAwake
<1>5. CASE ~TriggerDpc(c)
  <2>1. UNCHANGED <<bus.dpc_triggered, bus.queued>>
    BY <1>5 DEF Types, Shapes, CallerNext, Call, Lock, TxCtl, TxDone,
       TxTimeout, TxClaim, RxCtl, RxTake, RxTimeout, Unlock
  <2>2. WorkerPlace'
    BY <1>1, <1>2, <2>1 DEF Awake, WorkerPlace
  <2>3. ~At(c, "trigger")
    BY <1>5 DEF CallerNext, Call, Lock, TxCtl, TxDone, TxTimeout, TxClaim,
       RxCtl, RxTake, RxTimeout, Unlock, At
  <2>4. ASSUME NEW d \in Caller \ {c} PROVE At(d, "trigger")' <=> At(d, "trigger")
    <3>1. CASE Lock(c) /\ bus.state = "DATA"
      <4>1. caller' = [caller EXCEPT ![c].pc = "txctl", ![c].req = proto'.reqno]
        BY <3>1 DEF Lock
      <4>2. QED
        BY <4>1 DEF At, Types, CallerTypes
    <3>2. CASE ~(Lock(c) /\ bus.state = "DATA")
      <4>1. (\E pc : Step(c, pc)) \/ \E ret, got : Return(c, ret, got)
        BY <1>5, <3>2 DEF CallerNext, Call, Lock, TxCtl, TxDone, TxTimeout,
           TxClaim, RxCtl, RxTake, RxTimeout, Unlock, NotSent, NoAnswer,
           TxResult
      <4>2. CallerTypes
        BY DEF Types
      <4>3. CASE \E pc : Step(c, pc)
        BY <4>2, <4>3, StepFields DEF At
      <4>4. CASE \E ret, got : Return(c, ret, got)
        BY <4>2, <4>4, ReturnFields DEF At
      <4>5. QED
        BY <4>1, <4>3, <4>4
    <3>3. QED
      BY <3>1, <3>2
  <2>5. CASE TxCtl(c) /\ bus.state = "DATA"
    <3>1. caller'[c].pc = "trigger"
      BY <2>5 DEF TxCtl, Step, Types, CallerTypes
    <3>2. ~bus.ctrl_frame_stat
      <4>1. \A d \in Caller : ~Offering(d)
        BY <2>5, HolderAlone DEF TxCtl, At, Offering
      <4>2. QED
        BY <4>1 DEF Control, BufferHolds
    <3>3. data_ok' => data_ok
      <4>1. data_ok' => Room
        BY <1>2, DataNeedsRoom
      <4>2. QED
        BY <3>2, <4>1, RoomFacts
    <3>4. CtrlAwake'
      BY <3>1 DEF CtrlAwake, At
    <3>5. DataAwake'
      BY <1>1, <1>2, <2>1, <3>3 DEF Awake, DataAwake
    <3>6. QED
      BY <2>2, <3>4, <3>5 DEF Awake
  <2>6. CASE TxClaim(c) /\ bus.ctrl_frame_stat
    <3>1. ~bus'.ctrl_frame_stat
      BY <2>6 DEF TxClaim, Types, Shapes
    <3>2. \A d \in Caller : ~At(d, "trigger")
      BY <2>3, <2>6, HolderAlone DEF TxClaim, At
    <3>3. data_ok' => Room
      BY <1>2, DataNeedsRoom
    <3>4. CtrlAwake'
      BY <3>1 DEF CtrlAwake
    <3>5. DataAwake'
      BY <1>1, <1>2, <2>1, <2>6, <3>2, <3>3 DEF Awake, DataAwake, CtrlAwake
    <3>6. QED
      BY <2>2, <3>4, <3>5 DEF Awake
  <2>7. CASE ~(TxCtl(c) /\ bus.state = "DATA") /\ ~(TxClaim(c) /\ bus.ctrl_frame_stat)
    <3>1. UNCHANGED bus.ctrl_frame_stat
      BY <1>5, <2>7 DEF Types, Shapes, CallerNext, Call, Lock, TxCtl, TxDone,
         TxTimeout, TxClaim, RxCtl, RxTake, RxTimeout, Unlock
    <3>2. data_ok' <=> data_ok
      BY <1>2, <3>1, SameData
    <3>3. (\A d \in Caller : ~At(d, "trigger"))' => \A d \in Caller : ~At(d, "trigger")
      BY <2>3, <2>4
    <3>4. QED
      BY <1>1, <1>2, <1>3, <2>1, <2>2, <3>1, <3>2, <3>3 DEF Awake, CtrlAwake,
         DataAwake
  <2>8. QED
    BY <2>5, <2>6, <2>7
<1>6. QED
  BY <1>4, <1>5

\* At first there is nothing to send.
LEMMA InitAwake == Init => Awake
BY DEF Init, BusInit, Awake, WorkerPlace, CtrlAwake, DataAwake, Places

\* The worker is told again whenever something to send appears behind the
\* place where it looks for it; with the callers' and the senders' places this
\* is inductive.
THEOREM AwakeInvariant == Spec => []Awake
<1>1. Types /\ Control /\ WindowInv /\ Awake /\ [Next]_vars => Awake'
  <2> SUFFICES ASSUME Types, Control, WindowInv, Awake, [Next]_vars PROVE Awake'
    OBVIOUS
  <2>1. CASE UNCHANGED vars
    BY <2>1, SameRoom, SameData DEF vars, Awake, WorkerPlace, CtrlAwake,
       DataAwake, At
  <2>2. CASE (Isr \/ Worker \/ Faults) /\ UNCHANGED <<proto, caller>>
    BY <2>2, PassAwake, SendAwake, ResumeAwake DEF Worker, Faults
  <2>3. CASE Chip /\ UNCHANGED <<proto, caller>>
    BY <2>3, ChipAwake
  <2>4. CASE /\ \E i \in Interface : Send(i) \/ \E pae \in BOOLEAN : Xmit(i, pae)
             /\ UNCHANGED <<proto, caller>>
    BY <2>4, SenderAwake
  <2>5. CASE \E c \in Caller : Call(c) \/ CallerNext(c)
    BY <2>5, CallerAwake
  <2>6. QED
    BY <2>1, <2>2, <2>3, <2>4, <2>5 DEF Next, BusNext
<1>2. QED
  BY <1>1, InitAwake, TypesInvariant, ControlInvariant, WindowInvariant, PTL
     DEF Spec

\* No control frame and no queued data frame that may be sent is forgotten by
\* brcmf_sdio_dpc and brcmf_sdio_dataworker.
THEOREM NeverForgets == Spec => []NothingForgotten
<1>1. Types /\ WindowInv /\ Awake => NothingForgotten
  <2> SUFFICES ASSUME Types, WindowInv, Awake PROVE NothingForgotten
    OBVIOUS
  <2>1. txctl_ok <=> Room
    BY RoomFacts
  <2>2. QED
    BY <2>1 DEF Awake, WorkerPlace, CtrlAwake, DataAwake, Places,
       NothingForgotten, WillRun
<1>2. QED
  BY <1>1, TypesInvariant, WindowInvariant, AwakeInvariant, PTL

-----------------------------------------------------------------------------
(***************************************************************************)
(* The count of pending 802.1X frames covers those the driver holds: with a*)
(* sender, in the queue, and in the transfer under way.                    *)
(***************************************************************************)

\* The 802.1X frames of a queue, and the senders that hold one.
Pae(q) == {k \in DOMAIN q : q[k].pae}
Senders == {i \in Interface : net.pc[i] = "txdata" /\ net.skb[i]}

\* Those of a queue are finitely many.
LEMMA PaeType ==
    ASSUME NEW q \in Seq(Frame)
    PROVE  /\ Pae(q) \subseteq 1..Len(q) /\ IsFiniteSet(Pae(q))
           /\ PaeIn(q) = Cardinality(Pae(q)) /\ PaeIn(q) \in Nat
<1>1. DOMAIN q = 1..Len(q) /\ Len(q) \in Nat
  BY LenProperties
<1>2. Pae(q) \subseteq 1..Len(q)
  BY <1>1 DEF Pae
<1>3. IsFiniteSet(1..Len(q))
  BY <1>1, FS_Interval
<1>4. IsFiniteSet(Pae(q))
  BY <1>2, <1>3, FS_Subset
<1>5. QED
  BY <1>2, <1>4, FS_CardinalityType DEF Pae, PaeIn

\* A frame that is queued counts if it is one of them.
LEMMA PaeAppend ==
    ASSUME NEW q \in Seq(Frame), NEW f \in Frame
    PROVE  /\ f.pae => PaeIn(Append(q, f)) = PaeIn(q) + 1
           /\ ~f.pae => PaeIn(Append(q, f)) = PaeIn(q)
<1>1. /\ Append(q, f) \in Seq(Frame) /\ Len(q) \in Nat
      /\ DOMAIN q = 1..Len(q) /\ DOMAIN Append(q, f) = 1..(Len(q) + 1)
      /\ \A k \in 1..Len(q) : Append(q, f)[k] = q[k]
      /\ Append(q, f)[Len(q) + 1] = f
  BY AppendProperties, LenProperties
<1>2. Len(q) + 1 \notin Pae(q)
  BY <1>1 DEF Pae
<1>3. f.pae => Pae(Append(q, f)) = Pae(q) \cup {Len(q) + 1}
  BY <1>1 DEF Pae
<1>4. ~f.pae => Pae(Append(q, f)) = Pae(q)
  BY <1>1 DEF Pae
<1>5. Cardinality(Pae(q) \cup {Len(q) + 1}) = Cardinality(Pae(q)) + 1
  BY <1>2, PaeType, FS_AddElement
<1>6. PaeIn(q) = Cardinality(Pae(q)) /\ PaeIn(Append(q, f)) = Cardinality(Pae(Append(q, f)))
  BY <1>1, PaeType
<1>7. QED
  BY <1>3, <1>4, <1>5, <1>6

\* A queue cut in two has no more of them than it had.
LEMMA PaeSplit ==
    ASSUME NEW q \in Seq(Frame), NEW n \in 0..Len(q)
    PROVE  /\ SubSeq(q, 1, n) \in Seq(Frame) /\ SubSeq(q, n + 1, Len(q)) \in Seq(Frame)
           /\ PaeIn(SubSeq(q, 1, n)) + PaeIn(SubSeq(q, n + 1, Len(q))) <= PaeIn(q)
<1> DEFINE a == SubSeq(q, 1, n)
           b == SubSeq(q, n + 1, Len(q))
           A == {k \in Pae(q) : k <= n}
           B == {k \in Pae(q) : k > n}
<1>0. Len(q) \in Nat /\ n \in Nat /\ DOMAIN q = 1..Len(q) /\ Pae(q) \subseteq 1..Len(q)
  BY LenProperties, PaeType
<1>1. /\ a \in Seq(Frame) /\ Len(a) = n /\ \A k \in 1..n : a[k] = q[k]
  <2>1. \A k \in 1..n : q[k] \in Frame
    BY <1>0, ElementOfSeq
  <2>2. QED
    BY <1>0, <2>1, SubSeqProperties
<1>2. /\ b \in Seq(Frame) /\ Len(b) = Len(q) - n
      /\ \A k \in 1..(Len(q) - n) : b[k] = q[n + k]
  <2>1. \A k \in (n + 1)..Len(q) : q[k] \in Frame
    BY <1>0, ElementOfSeq
  <2>2. /\ n + 1 \in 1..(Len(q) + 1) /\ Len(q) \in (n + 1 - 1)..Len(q)
        /\ Len(q) - (n + 1) + 1 = Len(q) - n
    BY <1>0
  <2>3. /\ b \in Seq(Frame)
        /\ Len(b) = (IF n + 1 <= Len(q) THEN Len(q) - (n + 1) + 1 ELSE 0)
        /\ \A k \in 1..(Len(q) - (n + 1) + 1) : b[k] = q[(n + 1) + k - 1]
    BY <1>0, <2>1, <2>2, SubSeqProperties
  <2> HIDE DEF b
  <2>4. \A k \in 1..(Len(q) - n) : (n + 1) + k - 1 = n + k
    BY <1>0
  <2>5. Len(b) = Len(q) - n
    <3>1. CASE n = Len(q)
      BY <1>0, <2>3, <3>1
    <3>2. CASE n # Len(q)
      <4>1. n <= Len(q) /\ n \in Int /\ Len(q) \in Int
        BY <1>0
      <4>2. n + 1 <= Len(q)
        BY <3>2, <4>1
      <4>3. QED
        BY <2>2, <2>3, <4>2
    <3>3. QED
      BY <3>1, <3>2
  <2>6. QED
    BY <2>2, <2>3, <2>4, <2>5
<1>3. IsFiniteSet(A) /\ IsFiniteSet(B) /\ Cardinality(A) \in Nat /\ Cardinality(B) \in Nat
  <2>1. A \subseteq Pae(q) /\ B \subseteq Pae(q)
    OBVIOUS
  <2>2. IsFiniteSet(A) /\ IsFiniteSet(B)
    BY <2>1, PaeType, FS_Subset
  <2>3. QED
    BY <2>2, FS_CardinalityType
<1>4. Cardinality(A) + Cardinality(B) = PaeIn(q)
  <2>1. A \cup B = Pae(q) /\ A \cap B = {}
    BY <1>0
  <2>2. Cardinality(A \cup B) = Cardinality(A) + Cardinality(B) - Cardinality(A \cap B)
    BY <1>3, FS_Union
  <2>3. Cardinality(A \cap B) = 0
    BY <2>1, FS_EmptySet
  <2>4. PaeIn(q) = Cardinality(A \cup B)
    BY <2>1, PaeType
  <2> HIDE DEF A, B
  <2>5. QED
    BY <1>3, <2>2, <2>3, <2>4
<1>5. PaeIn(a) = Cardinality(A)
  <2>1. Pae(a) = A
    <3>1. DOMAIN a = 1..n
      BY <1>1, LenProperties
    <3> HIDE DEF a
    <3>2. QED
      BY <1>0, <1>1, <3>1 DEF Pae
  <2>2. QED
    BY <1>1, <2>1, PaeType
<1>6. PaeIn(b) <= Cardinality(B)
  <2> DEFINE f == [k \in Pae(b) |-> n + k]
  <2>1. DOMAIN b = 1..(Len(q) - n)
    BY <1>2, LenProperties
  <2> HIDE DEF b
  <2>2. \A k \in Pae(b) : k \in 1..(Len(q) - n) /\ n + k \in B
    BY <1>0, <1>2, <2>1 DEF Pae
  <2>3. f \in Injection(Pae(b), B)
    <3>1. f \in [Pae(b) -> B]
      BY <2>2
    <3>2. \A k, l \in Pae(b) : f[k] = f[l] => k = l
      BY <1>0, <2>2
    <3>3. QED
      BY <3>1, <3>2 DEF Injection, IsInjective
  <2>4. Cardinality(Pae(b)) <= Cardinality(B)
    BY <1>3, <2>3, FS_Injection
  <2>5. QED
    BY <1>2, <2>4, PaeType
<1>7. PaeIn(a) \in Nat /\ PaeIn(b) \in Nat
  BY <1>1, <1>2, PaeType
<1>8. QED
  BY <1>1, <1>2, <1>3, <1>4, <1>5, <1>6, <1>7


\* The invariant.
Covered == DOMAIN net.pc = Interface /\ PendCoversFlight

\* The numbers PendCoversFlight adds up.
LEMMA CoveredFacts ==
    ASSUME Types
    PROVE  /\ IsFiniteSet(Senders) /\ Cardinality(Senders) \in Nat
           /\ PaeIn(bus.txq) \in Nat /\ PaeIn(dpc.pktq) \in Nat
           /\ PendCoversFlight <=>
                net.pend_8021x >=
                  PaeIn(bus.txq) + PaeIn(dpc.pktq) + Cardinality(Senders)
<1>1. IsFiniteSet(Senders)
  BY InterfaceAssumption, FS_Subset DEF Senders
<1>2. QED
  BY <1>1, FS_CardinalityType, PaeType DEF Types, QueueTypes, PendCoversFlight,
     Senders

\* They depend on the queues and the senders only.
LEMMA PassCovered ==
    ASSUME Covered, UNCHANGED <<bus.txq, dpc.pktq, net.pc, net.skb, net.pend_8021x>>
    PROVE  Covered'
BY DEF Covered, PendCoversFlight, PaeIn

\* The steps of the worker that leave these alone.
LEMMA WorkerCovered ==
    ASSUME Types, Covered,
           WorkerStart \/ WorkerLoop \/ DpcStatus \/ ReadFrame \/ ReadBadHeader
             \/ ReadFails \/ ReadNoMore \/ ReadLeft \/ DpcCtrl \/ CtrlGone
             \/ CtrlSent \/ CtrlFails \/ DpcData \/ FillEnds \/ TxOn \/ Unblock
             \/ DpcHalts \/ DpcEnds \/ Suspend \/ Resume \/ CardRemoved \/ Isr
    PROVE  Covered'
<1> USE DEF Types, Shapes
<1> DEFINE Same == UNCHANGED <<bus.txq, dpc.pktq, net.pc, net.skb, net.pend_8021x>>
<1>1. CASE WorkerStart \/ WorkerLoop \/ DpcStatus \/ Isr
  <2>1. Same
    BY <1>1 DEF WorkerStart, WorkerLoop, DpcStatus, Isr, Goto
  <2>2. QED
    BY <2>1, PassCovered
<1>2. CASE ReadFrame \/ ReadBadHeader \/ ReadFails \/ ReadNoMore \/ ReadLeft
  <2>1. Same
    BY <1>2 DEF ReadFrame, ReadBadHeader, ReadFails, ReadNoMore, ReadLeft, Goto
  <2>2. QED
    BY <2>1, PassCovered
<1>3. CASE DpcCtrl \/ CtrlGone \/ CtrlSent \/ CtrlFails \/ DpcData
  <2>1. Same
    BY <1>3 DEF DpcCtrl, CtrlGone, CtrlSent, CtrlFails, DpcData, Goto
  <2>2. QED
    BY <2>1, PassCovered
<1>4. CASE FillEnds \/ TxOn \/ DpcHalts \/ DpcEnds \/ Suspend \/ CardRemoved
  <2>1. Same
    BY <1>4 DEF FillEnds, TxOn, DpcHalts, DpcEnds, Suspend, CardRemoved, Goto
  <2>2. QED
    BY <2>1, PassCovered
<1>5. CASE Unblock \/ Resume
  <2>1. Same
    BY <1>5 DEF Unblock, Resume, txflowblock_if, Goto
  <2>2. QED
    BY <2>1, PassCovered
<1>6. QED
  BY <1>1, <1>2, <1>3, <1>4, <1>5

\* Filling a transfer moves frames from the queue to it.
LEMMA FillCovered ==
    ASSUME Types, Types', Covered, Fill
    PROVE  Covered'
<1> USE DEF Types, Shapes, QueueTypes
<1> DEFINE a == SubSeq(bus.txq, 1, FillLength)
           b == SubSeq(bus.txq, FillLength + 1, Len(bus.txq))
<1>1. dpc'.pktq = a /\ bus'.txq = b /\ UNCHANGED net
  BY DEF Fill, FillLength
<1>2. PaeIn(a) + PaeIn(b) <= PaeIn(bus.txq)
  BY FillLengthType, PaeSplit
<1>3. PaeIn(dpc'.pktq) \in Nat /\ PaeIn(bus'.txq) \in Nat
  BY PaeType
<1> HIDE DEF a, b
<1>4. Senders' = Senders
  BY <1>1 DEF Senders
<1>5. PaeIn(dpc'.pktq) = PaeIn(a) /\ PaeIn(bus'.txq) = PaeIn(b)
  BY <1>1
<1>6. net.pend_8021x >= PaeIn(b) + PaeIn(a) + Cardinality(Senders)
  <2>1. /\ net.pend_8021x >=
             PaeIn(bus.txq) + PaeIn(dpc.pktq) + Cardinality(Senders)
        /\ PaeIn(bus.txq) \in Nat /\ PaeIn(dpc.pktq) \in Nat
        /\ Cardinality(Senders) \in Nat
    BY CoveredFacts DEF Covered
  <2>2. net.pend_8021x \in Int /\ PaeIn(a) \in Nat /\ PaeIn(b) \in Nat
    BY <1>3, <1>5
  <2>3. PICK n, x, y, s, t, u :
          /\ n = net.pend_8021x /\ x = PaeIn(bus.txq) /\ y = PaeIn(dpc.pktq)
          /\ s = PaeIn(a) /\ t = PaeIn(b) /\ u = Cardinality(Senders)
    OBVIOUS
  <2>4. n >= t + s + u
    <3>1. /\ n >= x + y + u /\ s + t <= x
          /\ n \in Int /\ x \in Nat /\ y \in Nat /\ s \in Nat /\ t \in Nat
          /\ u \in Nat
      BY <1>2, <2>1, <2>2, <2>3, Zenon
    <3>2. QED
      BY ONLY <3>1
  <2>5. QED
    BY <2>3, <2>4, Zenon
<1>7. QED
  BY <1>1, <1>4, <1>5, <1>6 DEF Covered, PendCoversFlight, PaeIn, Senders

\* A transfer that ends, sent or not, is counted down once for each frame.
LEMMA SentCovered ==
    ASSUME Types, Covered, Sent \/ SendFails
    PROVE  Covered'
<1> USE DEF Types, Shapes, QueueTypes
<1>1. /\ bus'.txq = bus.txq /\ dpc'.pktq = <<>>
      /\ net'.pc = net.pc /\ net'.skb = net.skb
      /\ net'.pend_8021x = net.pend_8021x - PaeIn(dpc.pktq)
  BY DEF Sent, SendFails, Finalized, PaeIn
<1>2. {k \in DOMAIN dpc'.pktq : dpc'.pktq[k].pae} = {}
  BY <1>1
<1>3. PaeIn(dpc.pktq)' = 0
  BY <1>2, FS_EmptySet DEF PaeIn
<1>4. PaeIn(bus.txq)' = PaeIn(bus.txq) /\ Senders' = Senders
  BY <1>1 DEF PaeIn, Senders
<1>5. net'.pend_8021x >= PaeIn(bus.txq) + 0 + Cardinality(Senders)
  BY <1>1, CoveredFacts DEF Covered
<1>6. QED
  BY <1>1, <1>3, <1>4, <1>5 DEF Covered, PendCoversFlight, Senders

\* A sender counts its frame up as it begins.
LEMMA XmitCovered ==
    ASSUME Types, Covered, NEW i \in Interface, NEW pae \in BOOLEAN, Xmit(i, pae)
    PROVE  Covered'
<1> USE DEF Types, Shapes, QueueTypes, Covered
<1>1. bus'.txq = bus.txq /\ dpc'.pktq = dpc.pktq /\ i \notin Senders
  BY DEF Xmit, Senders
<1>2. PaeIn(bus.txq)' = PaeIn(bus.txq) /\ PaeIn(dpc.pktq)' = PaeIn(dpc.pktq)
  BY <1>1 DEF PaeIn
<1>3. CASE bus.state = "DATA"
  <2>1. net' = [net EXCEPT !.pc[i] = "txdata", !.skb[i] = pae,
                           !.pend_8021x = @ + (IF pae THEN 1 ELSE 0)]
    BY <1>3 DEF Xmit, Sender
  <2>2. /\ net'.pc = [net.pc EXCEPT ![i] = "txdata"]
        /\ net'.skb = [net.skb EXCEPT ![i] = pae]
        /\ net'.pend_8021x = net.pend_8021x + (IF pae THEN 1 ELSE 0)
    BY <2>1
  <2>3. Senders' = IF pae THEN Senders \cup {i} ELSE Senders
    BY <1>1, <2>2 DEF Senders
  <2>4. Cardinality(Senders)' = Cardinality(Senders) + (IF pae THEN 1 ELSE 0)
    <3>1. Cardinality(Senders \cup {i}) = Cardinality(Senders) + 1
      BY <1>1, CoveredFacts, FS_AddElement
    <3>2. CASE pae
      BY <2>3, <3>1, <3>2
    <3>3. CASE ~pae
      <4>1. Senders' = Senders
        BY <2>3, <3>3
      <4>2. QED
        BY <3>3, <4>1, CoveredFacts
    <3>4. QED
      BY <3>2, <3>3
  <2>5. net'.pend_8021x >= PaeIn(bus.txq) + PaeIn(dpc.pktq) + Cardinality(Senders)'
    BY <2>2, <2>4, CoveredFacts
  <2>6. QED
    BY <1>2, <2>2, <2>5 DEF PendCoversFlight, Senders
<1>4. CASE bus.state # "DATA"
  <2>1. net'.pc = [net.pc EXCEPT ![i] = "stop"] /\ net'.skb = net.skb
        /\ net'.pend_8021x = net.pend_8021x
    BY <1>4 DEF Xmit, Sender
  <2>2. Senders' = Senders
    BY <1>1, <2>1 DEF Senders
  <2>3. QED
    BY <1>2, <2>1, <2>2 DEF PendCoversFlight, Senders
<1>5. QED
  BY <1>3, <1>4

\* Its frame is queued, or refused without being counted down.
LEMMA TxDataCovered ==
    ASSUME Types, Types', Covered, NEW i \in Interface, TxData(i)
    PROVE  Covered'
<1> USE DEF Types, Shapes, QueueTypes, Covered
<1> DEFINE f == [from |-> i, pae |-> net.skb[i]]
<1>1. /\ \/ bus'.txq = Append(bus.txq, f)
         \/ bus'.txq = bus.txq
      /\ \E pc \in {"block", "trigger"} : net'.pc = [net.pc EXCEPT ![i] = pc]
      /\ net'.skb = net.skb /\ net'.pend_8021x = net.pend_8021x
      /\ dpc'.pktq = dpc.pktq /\ net.pc[i] = "txdata"
  BY DEF TxData, Sender
<1>2. PaeIn(dpc.pktq)' = PaeIn(dpc.pktq)
  BY <1>1 DEF PaeIn
<1>3. Senders' = IF net.skb[i] THEN Senders \ {i} ELSE Senders
  BY <1>1 DEF Senders
<1>4. Cardinality(Senders)' = Cardinality(Senders) - (IF net.skb[i] THEN 1 ELSE 0)
  <2>1. net.skb[i] <=> i \in Senders
    BY <1>1 DEF Senders
  <2>2. Cardinality(Senders \ {i}) =
          IF i \in Senders THEN Cardinality(Senders) - 1 ELSE Cardinality(Senders)
    BY CoveredFacts, FS_RemoveElement
  <2>3. QED
    BY <1>3, <2>1, <2>2, CoveredFacts
<1>5. PaeIn(bus.txq)' <= PaeIn(bus.txq) + (IF net.skb[i] THEN 1 ELSE 0)
  <2>1. f \in Frame /\ f.pae = net.skb[i]
    BY DEF Frame
  <2>2. PaeIn(Append(bus.txq, f)) = PaeIn(bus.txq) + (IF net.skb[i] THEN 1 ELSE 0)
    <3>1. bus.txq \in Seq(Frame) /\ net.skb[i] \in BOOLEAN
      OBVIOUS
    <3>2. CASE net.skb[i]
      BY <2>1, <3>1, <3>2, PaeAppend
    <3>3. CASE ~net.skb[i]
      <4>1. PaeIn(Append(bus.txq, f)) = PaeIn(bus.txq)
        BY <2>1, <3>1, <3>3, PaeAppend
      <4>2. QED
        BY <3>3, <4>1, CoveredFacts
    <3>4. QED
      BY <3>2, <3>3
  <2>3. \/ PaeIn(bus.txq)' = PaeIn(Append(bus.txq, f))
        \/ PaeIn(bus.txq)' = PaeIn(bus.txq)
    BY <1>1 DEF PaeIn
  <2>4. QED
    BY <2>2, <2>3, CoveredFacts
<1>6. PaeIn(bus.txq)' \in Nat
  BY PaeType
<1>7. net'.pend_8021x >=
        PaeIn(bus.txq)' + PaeIn(dpc.pktq)' + Cardinality(Senders)'
  BY <1>1, <1>2, <1>4, <1>5, <1>6, CoveredFacts
<1>8. QED
  BY <1>1, <1>7 DEF PendCoversFlight, Senders

\* The other steps of a sender add no frame.
LEMMA SenderCovered ==
    ASSUME Types, Covered, NEW i \in Interface,
           XmitRejected(i) \/ TxBlock(i) \/ TxTrigger(i) \/ TxRefused(i)
             \/ TxFinalize(i)
    PROVE  Covered'
<1> USE DEF Types, Shapes, QueueTypes, Covered
<1>1. /\ bus'.txq = bus.txq /\ dpc'.pktq = dpc.pktq
      /\ net'.skb = net.skb /\ net'.pend_8021x = net.pend_8021x
      /\ \E pc \in {"idle", "block", "trigger", "finalize"} :
           net'.pc = [net.pc EXCEPT ![i] = pc]
  <2>1. CASE XmitRejected(i) \/ TxRefused(i) \/ TxFinalize(i)
    BY <2>1 DEF XmitRejected, TxRefused, TxFinalize, Sender
  <2>2. CASE TxBlock(i)
    <3>1. PICK j \in net.todo :
            net' = [txflowblock_if(net, j, TRUE) EXCEPT
                      !.todo = @ \ {j},
                      !.pc[i] = IF net.todo = {j} THEN "trigger" ELSE @]
      BY <2>2 DEF TxBlock
    <3>2. net.pc[i] = "block" /\ UNCHANGED <<bus, dpc>>
      BY <2>2 DEF TxBlock
    <3>3. net'.skb = net.skb /\ net'.pend_8021x = net.pend_8021x
      BY <3>1 DEF txflowblock_if
    <3>4. net'.pc = [net.pc EXCEPT ![i] = IF net.todo = {j} THEN "trigger" ELSE @]
      BY <3>1 DEF txflowblock_if
    <3>5. net'.pc = [net.pc EXCEPT ![i] = "trigger"]
            \/ net'.pc = [net.pc EXCEPT ![i] = "block"]
      BY <3>2, <3>4
    <3>6. QED
      BY <3>2, <3>3, <3>5
  <2>3. CASE TxTrigger(i)
    BY <2>3 DEF TxTrigger, trigger_dpc, Sender
  <2>4. QED
    BY <2>1, <2>2, <2>3
<1>2. Senders' \subseteq Senders
  BY <1>1 DEF Senders
<1>3. Cardinality(Senders') <= Cardinality(Senders) /\ Cardinality(Senders') \in Nat
  BY <1>2, CoveredFacts, FS_Subset, FS_CardinalityType
<1>4. PaeIn(bus.txq)' = PaeIn(bus.txq) /\ PaeIn(dpc.pktq)' = PaeIn(dpc.pktq)
  BY <1>1 DEF PaeIn
<1>5. net'.pend_8021x >= PaeIn(bus.txq) + PaeIn(dpc.pktq) + Cardinality(Senders')
  BY <1>1, <1>3, CoveredFacts
<1>6. QED
  BY <1>1, <1>4, <1>5 DEF PendCoversFlight, Senders

\* The chip holds none of the host's queues.
LEMMA ChipCovered ==
    ASSUME Types, Covered, Chip
    PROVE  Covered'
<1>1. UNCHANGED <<bus, dpc, net>>
  BY DEF Chip, DongleTakes, DongleAnswers, DongleCredits, DongleNakHandled
<1>2. QED
  BY <1>1, PassCovered

\* Nor do the callers.
LEMMA CallerCovered ==
    ASSUME Types, Covered, NEW c \in Caller, Call(c) \/ CallerNext(c)
    PROVE  Covered'
<1>1. UNCHANGED <<dpc, net>> /\ bus'.txq = bus.txq
  BY DEF Types, Shapes, Call, CallerNext, Lock, TxCtl, TriggerDpc, TxDone,
     TxTimeout, TxClaim, RxCtl, RxTake, RxTimeout, Unlock, trigger_dpc
<1>2. QED
  BY <1>1, PassCovered

\* At first there is no frame.
LEMMA InitCovered == Init => Covered
<1> SUFFICES ASSUME Init PROVE Covered
  OBVIOUS
<1>1. /\ bus.txq = <<>> /\ dpc.pktq = <<>> /\ net.pend_8021x = 0
      /\ net.pc = [i \in Interface |-> "idle"]
  BY DEF Init, BusInit
<1>2. /\ {k \in DOMAIN bus.txq : bus.txq[k].pae} = {}
      /\ {k \in DOMAIN dpc.pktq : dpc.pktq[k].pae} = {}
      /\ {i \in Interface : net.pc[i] = "txdata" /\ net.skb[i]} = {}
  BY <1>1
<1>3. QED
  <2>1. PaeIn(bus.txq) = 0 /\ PaeIn(dpc.pktq) = 0
    BY <1>2, FS_EmptySet DEF PaeIn
  <2>2. Cardinality({i \in Interface : net.pc[i] = "txdata" /\ net.skb[i]}) = 0
    BY <1>2, FS_EmptySet
  <2>3. DOMAIN net.pc = Interface
    BY <1>1
  <2>4. QED
    BY <1>1, <2>1, <2>2, <2>3 DEF Covered, PendCoversFlight

\* The counter brcmf_netdev_wait_pend8021x waits for is never smaller than
\* the number of 802.1X frames the driver holds.
THEOREM PendCovers == Spec => []PendCoversFlight
<1>1. Types /\ Types' /\ Covered /\ [Next]_vars => Covered'
  <2> SUFFICES ASSUME Types, Types', Covered, [Next]_vars PROVE Covered'
    OBVIOUS
  <2>1. CASE UNCHANGED vars
    BY <2>1, PassCovered DEF vars
  <2>2. CASE (Isr \/ Worker \/ Faults) /\ UNCHANGED <<proto, caller>>
    BY <2>2, WorkerCovered, FillCovered, SentCovered DEF Worker, Faults
  <2>3. CASE Chip /\ UNCHANGED <<proto, caller>>
    BY <2>3, ChipCovered
  <2>4. CASE /\ \E i \in Interface : Send(i) \/ \E pae \in BOOLEAN : Xmit(i, pae)
             /\ UNCHANGED <<proto, caller>>
    BY <2>4, XmitCovered, TxDataCovered, SenderCovered DEF Send
  <2>5. CASE \E c \in Caller : Call(c) \/ CallerNext(c)
    BY <2>5, CallerCovered
  <2>6. QED
    BY <2>1, <2>2, <2>3, <2>4, <2>5 DEF Next, BusNext
<1>2. Covered => PendCoversFlight
  BY DEF Covered
<1>3. QED
  BY <1>1, <1>2, InitCovered, TypesInvariant, PTL DEF Spec

-----------------------------------------------------------------------------
(***************************************************************************)
(* That flow control and the interfaces it stopped do not part.            *)
(***************************************************************************)
Interfaces ==
    /\ DOMAIN net.pc = Interface /\ DOMAIN net.stopped = Interface
    /\ DOMAIN net.netif_stop = Interface /\ dpc.todo \subseteq Interface

NoneBlocks == \A i \in Interface : net.pc[i] # "block"
AllHeld == \A i \in Interface : net.netif_stop[i]
\* The senders that may queue a frame although their queue is stopped.
Stragglers == {i \in Interface : net.pc[i] = "txdata"}

\* The worker has not begun to release the interfaces.
NoneReleased == dpc.pc = "txon" \/ (dpc.pc = "unblock" /\ dpc.todo = Interface)

\* Until a resume has woken a queue, or a release was overtaken: whoever is
\* about to stop the interfaces has left the queue above TXHI, nobody takes
\* from it, and they are stopped but for those he has still to come to; when
\* nobody is about to, they are stopped while txoff is set; and as long as the
\* worker, taking flow control back, has released none, the stragglers cannot
\* fill the queue to TXHI.
Flow ==
    ~net.woken /\ ~net.overtaken =>
      /\ ~NoneBlocks =>
           /\ bus.txoff /\ Len(bus.txq) >= TXHI
           /\ \A i \in Interface : i \in net.todo \/ net.netif_stop[i]
      /\ \A i \in Interface : net.netif_stop[i] =>
           /\ net.stopped[i]
           /\ bus.txoff \/ (dpc.pc = "unblock" /\ i \in dpc.todo)
      /\ bus.txoff /\ NoneBlocks => AllHeld
      /\ dpc.pc \in {"txon", "unblock"} => NoneBlocks
      /\ NoneReleased =>
           AllHeld /\ Len(bus.txq) + Cardinality(Stragglers) < TXHI
      /\ dpc.pc = "unblock" => ~bus.txoff

\* They are at most as many as the frames from TXLOW to TXHI.
LEMMA StragglersType ==
    /\ IsFiniteSet(Stragglers) /\ Cardinality(Stragglers) \in Nat
    /\ Cardinality(Stragglers) <= TXHI - TXLOW
<1>1. Stragglers \subseteq Interface
  BY DEF Stragglers
<1>2. /\ IsFiniteSet(Stragglers)
      /\ Cardinality(Stragglers) <= Cardinality(Interface)
  BY <1>1, InterfaceAssumption, FS_Subset
<1>3. Cardinality(Stragglers) \in Nat /\ Cardinality(Interface) \in Nat
  BY <1>2, InterfaceAssumption, FS_CardinalityType
<1>4. QED
  BY <1>2, <1>3, FlowAssumption

\* The interfaces, and what flow control knows of them.
SameFlow ==
    UNCHANGED <<bus.txoff, net.pc, net.netif_stop, net.stopped, net.todo,
                net.woken, net.overtaken, dpc.todo>>

\* Steps that change neither, and leave the worker elsewhere.
LEMMA PassFlow ==
    ASSUME Flow, Interfaces, SameFlow, UNCHANGED bus.txq,
           \/ dpc'.pc = dpc.pc
           \/ dpc.pc # "unblock" /\ dpc'.pc \notin {"txon", "unblock"}
    PROVE  (Flow /\ Interfaces)'
<1>1. Interfaces' /\ Stragglers' = Stragglers
  BY DEF SameFlow, Interfaces, Stragglers
<1>2. (NoneBlocks' <=> NoneBlocks) /\ (AllHeld' <=> AllHeld)
  BY DEF SameFlow, NoneBlocks, AllHeld
<1>3. QED
  BY <1>1, <1>2 DEF SameFlow, Flow, NoneReleased

\* Most of the worker and of the bus.
LEMMA WorkerFlow ==
    ASSUME Types, Flow, Interfaces,
           WorkerStart \/ WorkerLoop \/ DpcStatus \/ ReadFrame \/ ReadBadHeader
             \/ ReadFails \/ ReadNoMore \/ ReadLeft \/ DpcCtrl \/ CtrlGone
             \/ CtrlSent \/ CtrlFails \/ DpcData \/ Sent \/ SendFails
             \/ DpcHalts \/ DpcEnds \/ Suspend \/ CardRemoved \/ Isr
    PROVE  (Flow /\ Interfaces)'
<1> USE DEF Types, Shapes
<1> DEFINE Passes == /\ SameFlow /\ UNCHANGED bus.txq
                     /\ \/ dpc'.pc = dpc.pc
                        \/ /\ dpc.pc # "unblock"
                           /\ dpc'.pc \notin {"txon", "unblock"}
<1>0. CASE Isr
  <2>1. Passes
    BY <1>0 DEF Isr, SameFlow
  <2>2. QED
    BY <2>1, PassFlow
<1>1. CASE WorkerStart \/ WorkerLoop \/ DpcStatus
  <2>1. dpc.pc # "unblock" /\ dpc'.pc \notin {"txon", "unblock"}
    <3>0. CASE WorkerStart
      BY <3>0 DEF WorkerStart, Goto
    <3>1. CASE WorkerLoop
      <4>1. dpc.pc = "loop" /\ dpc'.pc \in {"status", "idle"}
        BY <3>1 DEF WorkerLoop, Goto
      <4>2. QED
        BY <4>1
    <3>2. CASE DpcStatus
      <4>1. dpc.pc = "status" /\ dpc'.pc \in {"read", "ctrl"}
        BY <3>2 DEF DpcStatus
      <4>2. QED
        BY <4>1
    <3>3. QED
      BY <1>1, <3>0, <3>1, <3>2
  <2>2. SameFlow /\ UNCHANGED bus.txq
    <3>1. CASE WorkerStart
      BY <3>1 DEF WorkerStart, Goto, SameFlow
    <3>2. CASE WorkerLoop
      BY <3>2 DEF WorkerLoop, Goto, SameFlow
    <3>3. CASE DpcStatus
      <4>1. UNCHANGED net
        BY <3>3 DEF DpcStatus
      <4>2. dpc'.todo = dpc.todo
        BY <3>3 DEF DpcStatus
      <4>3. bus'.txq = bus.txq /\ bus'.txoff = bus.txoff
        BY <3>3 DEF DpcStatus
      <4>4. QED
        BY <4>1, <4>2, <4>3 DEF SameFlow
    <3>4. QED
      BY <1>1, <3>1, <3>2, <3>3
  <2>3. QED
    BY <2>1, <2>2, PassFlow
<1>2. CASE ReadFrame \/ ReadBadHeader \/ ReadFails \/ ReadNoMore \/ ReadLeft
  <2>1. Passes
    BY <1>2 DEF ReadFrame, ReadBadHeader, ReadFails, ReadNoMore, ReadLeft,
       Reading, Goto, SameFlow
  <2>2. QED
    BY <2>1, PassFlow
<1>3. CASE DpcCtrl \/ CtrlGone \/ CtrlSent \/ CtrlFails \/ DpcData
  <2>1. Passes
    BY <1>3 DEF DpcCtrl, CtrlGone, CtrlSent, CtrlFails, DpcData, Goto, SameFlow
  <2>2. QED
    BY <2>1, PassFlow
<1>4. CASE Sent \/ SendFails
  <2>1. Passes
    BY <1>4 DEF Sent, SendFails, SameFlow
  <2>2. QED
    BY <2>1, PassFlow
<1>5. CASE DpcHalts \/ DpcEnds \/ Suspend \/ CardRemoved
  <2>1. Passes
    BY <1>5 DEF DpcHalts, DpcEnds, Suspend, CardRemoved, Goto, SameFlow
  <2>2. QED
    BY <2>1, PassFlow
<1>6. QED
  BY <1>0, <1>1, <1>2, <1>3, <1>4, <1>5

\* Nobody who is about to stop the interfaces is overtaken.
LEMMA FillFlow ==
    ASSUME Types, Flow, Interfaces, Fill
    PROVE  (Flow /\ Interfaces)'
<1>1. /\ SameFlow /\ dpc.pc = "fill" /\ dpc'.pc = "send"
      /\ \A i \in Interface : net.pc[i] # "block"
  BY DEF Types, Shapes, Fill, txq_free, SameFlow
<1>2. Interfaces' /\ NoneBlocks /\ NoneBlocks' /\ (AllHeld' <=> AllHeld)
  BY <1>1 DEF SameFlow, Interfaces, NoneBlocks, AllHeld
<1>3. QED
  BY <1>1, <1>2 DEF SameFlow, Flow, NoneReleased

\* The worker sees the queue below TXLOW: so nobody is about to stop the
\* interfaces, they are stopped, and there are too few stragglers for TXHI.
LEMMA FillEndsFlow ==
    ASSUME Types, Flow, Interfaces, FillEnds
    PROVE  (Flow /\ Interfaces)'
<1>1. /\ SameFlow /\ UNCHANGED bus.txq /\ dpc.pc = "fill"
      /\ \/ dpc'.pc = "end"
         \/ dpc'.pc = "txon" /\ bus.txoff /\ Len(bus.txq) < TXLOW
  BY DEF Types, Shapes, FillEnds, Goto, SameFlow
<1>2. CASE dpc'.pc = "end"
  BY <1>1, <1>2, PassFlow
<1>3. CASE dpc'.pc = "txon" /\ bus.txoff /\ Len(bus.txq) < TXLOW
  <2>1. Len(bus.txq) \in Nat
    BY LenProperties DEF Types, QueueTypes
  <2>2. Len(bus.txq) + Cardinality(Stragglers) < TXHI
    BY <1>3, <2>1, StragglersType, FlowAssumption
  <2>3. Len(bus.txq) < TXHI
    BY <2>1, <2>2, StragglersType, FlowAssumption
  <2>4. ~net.woken /\ ~net.overtaken => NoneBlocks /\ AllHeld
    BY <1>3, <2>1, <2>3, FlowAssumption DEF Flow
  <2>5. Interfaces' /\ Stragglers' = Stragglers
    BY <1>1 DEF SameFlow, Interfaces, Stragglers
  <2>6. (NoneBlocks' <=> NoneBlocks) /\ (AllHeld' <=> AllHeld)
    BY <1>1 DEF SameFlow, NoneBlocks, AllHeld
  <2>7. QED
    BY <1>1, <1>3, <2>2, <2>4, <2>5, <2>6 DEF SameFlow, Flow, NoneReleased
<1>4. QED
  BY <1>1, <1>2, <1>3

\* Flow control is taken back in two steps ...
LEMMA TxOnFlow ==
    ASSUME Types, Flow, Interfaces, TxOn
    PROVE  (Flow /\ Interfaces)'
<1>1. /\ UNCHANGED <<net, bus.txq>> /\ ~bus'.txoff
      /\ dpc.pc = "txon" /\ dpc'.pc = "unblock" /\ dpc'.todo = Interface
  BY DEF Types, Shapes, TxOn
<1>2. Interfaces' /\ Stragglers' = Stragglers
  BY <1>1 DEF Interfaces, Stragglers
<1>3. (NoneBlocks' <=> NoneBlocks) /\ (AllHeld' <=> AllHeld)
  BY <1>1 DEF NoneBlocks, AllHeld
<1>4. QED
  BY <1>1, <1>2, <1>3 DEF Flow, AllHeld, NoneReleased

\* ... the second of which, once for each interface, finds txoff unset.
LEMMA UnblockFlow ==
    ASSUME Types, Flow, Interfaces, Unblock
    PROVE  (Flow /\ Interfaces)'
<1>1. PICK j \in dpc.todo :
        /\ net' = txflowblock_if(net, j, FALSE)
        /\ dpc' = [dpc EXCEPT !.todo = @ \ {j},
                              !.pc = IF dpc.todo = {j} THEN "end" ELSE @]
  BY DEF Unblock
<1>2. /\ UNCHANGED <<bus, net.pc, net.todo, net.woken, net.overtaken>>
      /\ net'.netif_stop = [net.netif_stop EXCEPT ![j] = FALSE]
      /\ net'.stopped = [net.stopped EXCEPT ![j] = FALSE]
  BY <1>1 DEF Types, Shapes, Unblock, txflowblock_if
<1>3. /\ dpc.pc = "unblock" /\ dpc'.todo = dpc.todo \ {j}
      /\ \/ dpc.todo = {j} /\ dpc'.pc = "end"
         \/ dpc.todo # {j} /\ dpc'.pc = "unblock"
  BY <1>1 DEF Types, Shapes, Unblock
<1>4. Interfaces' /\ (NoneBlocks' <=> NoneBlocks)
  BY <1>2, <1>3 DEF Interfaces, NoneBlocks
<1>5. ASSUME ~net.woken, ~net.overtaken
      PROVE  /\ NoneBlocks /\ ~bus.txoff
             /\ \A i \in Interface : net'.netif_stop[i] =>
                  net'.stopped[i] /\ i \in dpc'.todo
  <2>1. /\ NoneBlocks /\ ~bus.txoff
        /\ \A i \in Interface : net.netif_stop[i] =>
             net.stopped[i] /\ i \in dpc.todo
    BY <1>3, <1>5 DEF Flow
  <2>2. ASSUME NEW i \in Interface, net'.netif_stop[i]
        PROVE  net'.stopped[i] /\ i \in dpc'.todo
    <3>1. i # j /\ net.netif_stop[i]
      BY <1>2, <2>2 DEF Interfaces
    <3>2. QED
      BY <1>2, <1>3, <2>1, <3>1 DEF Interfaces
  <2>3. QED
    BY <2>1, <2>2
<1>6. ~NoneReleased'
  BY <1>3 DEF NoneReleased, Interfaces
<1>7. QED
  BY <1>2, <1>3, <1>4, <1>5, <1>6 DEF Flow

\* A resume that wakes nothing flow control held finds nothing held.
LEMMA ResumeFlow ==
    ASSUME Types, Flow, Interfaces, Resume
    PROVE  (Flow /\ Interfaces)'
<1>1. /\ UNCHANGED <<bus.txq, bus.txoff, net.pc, net.netif_stop, net.todo,
                     net.overtaken, dpc.todo>>
      /\ dpc.pc = "frozen" /\ dpc'.pc = "idle"
  BY DEF Types, Shapes, Resume, Goto
<1>2. \/ UNCHANGED net
      \/ /\ DOMAIN net'.stopped = Interface
         /\ net'.woken <=> \/ net.woken \/ bus.txoff
                           \/ \E i \in Interface : net.netif_stop[i]
  <2> DEFINE w == \/ net.woken \/ bus.txoff
                  \/ \E i \in Interface : net.netif_stop[i]
  <2>1. \/ UNCHANGED net
        \/ net' = [net EXCEPT !.stopped = [i \in Interface |-> FALSE],
                              !.woken = w]
    BY DEF Resume
  <2> HIDE DEF w
  <2>2. \/ UNCHANGED net
        \/ net'.stopped = [i \in Interface |-> FALSE] /\ net'.woken = w
    BY <2>1 DEF Types, Shapes
  <2>3. QED
    BY <2>2 DEF w
<1>3. (NoneBlocks' <=> NoneBlocks) /\ (AllHeld' <=> AllHeld)
  BY <1>1 DEF NoneBlocks, AllHeld
<1>4. CASE UNCHANGED net
  BY <1>1, <1>4, PassFlow DEF SameFlow
<1>5. CASE /\ DOMAIN net'.stopped = Interface
           /\ net'.woken <=> \/ net.woken \/ bus.txoff
                             \/ \E i \in Interface : net.netif_stop[i]
  BY <1>1, <1>3, <1>5 DEF Flow, Interfaces, NoneReleased
<1>6. QED
  BY <1>2, <1>4, <1>5

\* A frame begins its way only where the queue is not stopped.
LEMMA XmitFlow ==
    ASSUME Types, Flow, Interfaces, NEW i \in Interface, NEW pae \in BOOLEAN,
           Xmit(i, pae)
    PROVE  (Flow /\ Interfaces)'
<1>1. /\ UNCHANGED <<bus, dpc, net.netif_stop, net.stopped, net.todo,
                     net.woken, net.overtaken>>
      /\ ~net.stopped[i] /\ net.pc[i] = "idle"
      /\ \E pc \in {"txdata", "stop"} : net'.pc = [net.pc EXCEPT ![i] = pc]
  BY DEF Types, Shapes, Xmit, Sender
<1>2. (NoneBlocks' <=> NoneBlocks) /\ (AllHeld' <=> AllHeld) /\ Interfaces'
  BY <1>1 DEF NoneBlocks, AllHeld, Interfaces
<1>3. ~net.woken /\ ~net.overtaken => ~NoneReleased
  BY <1>1 DEF Flow, AllHeld
<1>4. QED
  BY <1>1, <1>2, <1>3 DEF Flow, NoneReleased

\* A frame is queued, or refused by the queue.
LEMMA TxDataFlow ==
    ASSUME Types, Flow, Interfaces, NEW i \in Interface, TxData(i)
    PROVE  (Flow /\ Interfaces)'
<1> DEFINE high == Len(bus'.txq) >= TXHI
<1>1. /\ UNCHANGED <<dpc, net.netif_stop, net.stopped, net.woken>>
      /\ bus'.txoff <=> bus.txoff \/ high
      /\ net'.overtaken <=> net.overtaken \/ (high /\ Releasing)
      /\ high => net'.todo = Interface
      /\ net.pc[i] = "txdata" /\ NoneBlocks
      /\ net'.pc = [net.pc EXCEPT ![i] = IF high THEN "block" ELSE "trigger"]
  BY DEF Types, Shapes, TxData, Sender, txq_free, NoneBlocks
<1>2. /\ Len(bus.txq) \in Nat /\ Len(bus'.txq) \in Nat
      /\ Len(bus'.txq) <= Len(bus.txq) + 1
  <2>1. \/ bus'.txq = bus.txq
        \/ bus'.txq = Append(bus.txq, [from |-> i, pae |-> net.skb[i]])
    BY DEF Types, Shapes, TxData
  <2>2. bus.txq \in Seq(Frame) /\ [from |-> i, pae |-> net.skb[i]] \in Frame
    BY DEF Types, QueueTypes, Frame
  <2>3. QED
    BY <2>1, <2>2, AppendProperties, LenProperties
<1> HIDE DEF high
<1>3. /\ Interfaces' /\ (AllHeld' <=> AllHeld)
      /\ NoneBlocks' <=> ~high
  BY <1>1 DEF NoneBlocks, AllHeld, Interfaces
<1>4. Cardinality(Stragglers') + 1 = Cardinality(Stragglers)
  <2>1. Stragglers' = Stragglers \ {i} /\ i \in Stragglers
    BY <1>1 DEF Stragglers, Interfaces
  <2>2. Cardinality(Stragglers \ {i}) = Cardinality(Stragglers) - 1
    BY <2>1, StragglersType, FS_RemoveElement
  <2>3. QED
    BY <2>1, <2>2, StragglersType
<1>5. Cardinality(Stragglers') \in Nat
  <2>1. Stragglers' = Stragglers \ {i}
    BY <1>1 DEF Stragglers, Interfaces
  <2>2. QED
    BY <2>1, StragglersType, FS_RemoveElement, FS_CardinalityType
<1>6. ~net.woken /\ ~net.overtaken /\ NoneReleased =>
        Len(bus'.txq) + Cardinality(Stragglers') < TXHI
  <2> SUFFICES ASSUME ~net.woken, ~net.overtaken, NoneReleased
               PROVE  Len(bus'.txq) + Cardinality(Stragglers') < TXHI
    OBVIOUS
  <2>1. Len(bus.txq) + Cardinality(Stragglers) < TXHI
    BY DEF Flow
  <2>2. QED
    BY <1>2, <1>4, <1>5, <2>1, StragglersType, FlowAssumption
<1>7. ~net.woken /\ ~net.overtaken /\ NoneReleased => ~high
  BY <1>2, <1>5, <1>6, FlowAssumption DEF high
<1>8. ~net.woken /\ ~net'.overtaken /\ dpc.pc \in {"txon", "unblock"} => ~high
  BY <1>1, <1>7 DEF NoneReleased, Releasing
<1>9. NoneReleased' <=> NoneReleased
  BY <1>1 DEF NoneReleased
<1>10. QED
  BY <1>1, <1>3, <1>6, <1>8, <1>9 DEF Flow, high

\* An interface is stopped.
LEMMA TxBlockFlow ==
    ASSUME Types, Flow, Interfaces, NEW i \in Interface, TxBlock(i)
    PROVE  (Flow /\ Interfaces)'
<1>1. PICK j \in net.todo :
        net' = [txflowblock_if(net, j, TRUE) EXCEPT
                  !.todo = @ \ {j},
                  !.pc[i] = IF net.todo = {j} THEN "trigger" ELSE @]
  BY DEF TxBlock
<1>2. /\ UNCHANGED <<bus, dpc, net.woken, net.overtaken>>
      /\ net.pc[i] = "block" /\ net'.todo = net.todo \ {j}
      /\ net'.pc = [net.pc EXCEPT ![i] = IF net.todo = {j} THEN "trigger" ELSE @]
      /\ net'.netif_stop = [net.netif_stop EXCEPT ![j] = TRUE]
      /\ net'.stopped =
           [net.stopped EXCEPT ![j] = @ \/ ~net.netif_stop[j]]
  BY <1>1 DEF Types, Shapes, TxBlock, txflowblock_if
<1>3. Interfaces' /\ ~NoneBlocks
  BY <1>2 DEF Interfaces, NoneBlocks
<1>4. ASSUME ~net.woken, ~net.overtaken
      PROVE  /\ bus.txoff /\ Len(bus.txq) >= TXHI
             /\ dpc.pc \notin {"txon", "unblock"}
             /\ \A k \in Interface : k \in net'.todo \/ net'.netif_stop[k]
             /\ \A k \in Interface : net'.netif_stop[k] => net'.stopped[k]
  <2>1. /\ bus.txoff /\ Len(bus.txq) >= TXHI
        /\ dpc.pc \notin {"txon", "unblock"}
        /\ \A k \in Interface : k \in net.todo \/ net.netif_stop[k]
        /\ \A k \in Interface : net.netif_stop[k] => net.stopped[k]
    BY <1>3, <1>4 DEF Flow
  <2>2. \A k \in Interface : k \in net'.todo \/ net'.netif_stop[k]
    <3> SUFFICES ASSUME NEW k \in Interface
                 PROVE  k \in net'.todo \/ net'.netif_stop[k]
      OBVIOUS
    <3>1. CASE k = j
      BY <1>2, <3>1 DEF Interfaces
    <3>2. CASE k # j
      BY <1>2, <2>1, <3>2 DEF Interfaces
    <3>3. QED
      BY <3>1, <3>2
  <2>3. \A k \in Interface : net'.netif_stop[k] => net'.stopped[k]
    <3> SUFFICES ASSUME NEW k \in Interface, net'.netif_stop[k]
                 PROVE  net'.stopped[k]
      OBVIOUS
    <3>1. CASE k = j
      BY <1>2, <2>1, <3>1 DEF Interfaces
    <3>2. CASE k # j
      BY <1>2, <2>1, <3>2 DEF Interfaces
    <3>3. QED
      BY <3>1, <3>2
  <2>4. QED
    BY <2>1, <2>2, <2>3
<1>5. NoneBlocks' => net'.todo = {}
  BY <1>2 DEF NoneBlocks, Interfaces
<1>6. ~net.woken /\ ~net.overtaken /\ NoneBlocks' => AllHeld'
  BY <1>4, <1>5 DEF AllHeld
<1>7. QED
  BY <1>2, <1>3, <1>4, <1>6 DEF Flow, NoneReleased

\* The other steps of a sender.
LEMMA SenderFlow ==
    ASSUME Types, Flow, Interfaces, NEW i \in Interface,
           XmitRejected(i) \/ TxTrigger(i) \/ TxRefused(i) \/ TxFinalize(i)
    PROVE  (Flow /\ Interfaces)'
<1>1. /\ UNCHANGED <<dpc, bus.txq, bus.txoff, net.netif_stop, net.todo,
                     net.woken, net.overtaken>>
      /\ net.pc[i] # "block"
      /\ \E pc \in {"idle", "finalize"} : net'.pc = [net.pc EXCEPT ![i] = pc]
      /\ \/ net'.stopped = net.stopped
         \/ net'.stopped = [net.stopped EXCEPT ![i] = TRUE]
  BY DEF Types, Shapes, XmitRejected, TxTrigger, TxRefused, TxFinalize, Sender,
     trigger_dpc
<1>2. (NoneBlocks' <=> NoneBlocks) /\ (AllHeld' <=> AllHeld) /\ Interfaces'
  BY <1>1 DEF NoneBlocks, AllHeld, Interfaces
<1>3. \A j \in Interface : net.stopped[j] => net'.stopped[j]
  BY <1>1 DEF Interfaces
<1>4. /\ Cardinality(Stragglers') \in Nat
      /\ Cardinality(Stragglers') <= Cardinality(Stragglers)
  <2>1. Stragglers' \subseteq Stragglers
    BY <1>1 DEF Stragglers, Interfaces
  <2>2. QED
    BY <2>1, StragglersType, FS_Subset, FS_CardinalityType
<1>5. Len(bus.txq) + Cardinality(Stragglers) < TXHI =>
        Len(bus.txq) + Cardinality(Stragglers') < TXHI
  <2>1. Len(bus.txq) \in Nat
    BY LenProperties DEF Types, QueueTypes
  <2>2. QED
    BY <1>4, <2>1, StragglersType, FlowAssumption
<1>6. QED
  BY <1>1, <1>2, <1>3, <1>5 DEF Flow, NoneReleased

\* The chip and the callers have no part in it.
LEMMA OthersFlow ==
    ASSUME Types, Flow, Interfaces,
           Chip \/ \E c \in Caller : Call(c) \/ CallerNext(c)
    PROVE  (Flow /\ Interfaces)'
<1>1. CASE Chip
  <2>1. UNCHANGED <<bus, dpc, net>>
    BY <1>1 DEF Chip, DongleTakes, DongleAnswers, DongleCredits, DongleNakHandled
  <2>2. QED
    BY <2>1, PassFlow DEF SameFlow
<1>2. ASSUME NEW c \in Caller, Call(c) \/ CallerNext(c)
      PROVE  (Flow /\ Interfaces)'
  <2>1. UNCHANGED <<dpc, net, bus.txq, bus.txoff>>
    BY <1>2 DEF Types, Shapes, Call, CallerNext, Lock, TxCtl, TriggerDpc, TxDone,
       TxTimeout, TxClaim, RxCtl, RxTake, RxTimeout, Unlock, trigger_dpc
  <2>2. QED
    BY <2>1, PassFlow DEF SameFlow
<1>3. QED
  BY <1>1, <1>2

\* At first nothing is stopped.
LEMMA InitFlow == Init => Flow /\ Interfaces
<1> SUFFICES ASSUME Init PROVE Flow /\ Interfaces
  OBVIOUS
<1>1. /\ dpc.pc = "idle" /\ dpc.todo = {} /\ ~bus.txoff
      /\ net.pc = [i \in Interface |-> "idle"]
      /\ net.stopped = [i \in Interface |-> FALSE]
      /\ net.netif_stop = [i \in Interface |-> FALSE]
  BY DEF Init, BusInit
<1>2. QED
  BY <1>1 DEF Flow, Interfaces, NoneBlocks, NoneReleased

\* Until a resume wakes the queues, or a release is overtaken, what flow
\* control knows fits with what it has stopped.
THEOREM FlowInvariant == Spec => [](Flow /\ Interfaces)
<1>1. Types /\ Flow /\ Interfaces /\ [Next]_vars => (Flow /\ Interfaces)'
  <2> SUFFICES ASSUME Types, Flow, Interfaces, [Next]_vars
               PROVE  (Flow /\ Interfaces)'
    OBVIOUS
  <2>1. CASE UNCHANGED vars
    BY <2>1, PassFlow DEF vars, SameFlow
  <2>2. CASE (Isr \/ Worker \/ Faults) /\ UNCHANGED <<proto, caller>>
    BY <2>2, WorkerFlow, FillFlow, FillEndsFlow, TxOnFlow, UnblockFlow, ResumeFlow
       DEF Worker, Faults
  <2>3. CASE Chip
    BY <2>3, OthersFlow
  <2>4. CASE \E i \in Interface : Send(i) \/ \E pae \in BOOLEAN : Xmit(i, pae)
    BY <2>4, XmitFlow, TxDataFlow, TxBlockFlow, SenderFlow DEF Send
  <2>5. CASE \E c \in Caller : Call(c) \/ CallerNext(c)
    BY <2>5, OthersFlow
  <2>6. QED
    BY <2>1, <2>2, <2>3, <2>4, <2>5 DEF Next, BusNext
<1>2. QED
  BY <1>1, InitFlow, TypesInvariant, PTL DEF Spec

\* An interface is held by flow control only while txoff says so, or the
\* worker is about to release it, or a resume came in between, or a release
\* was overtaken.
THEOREM StopKnown == Spec => []StopIsKnown
<1>1. Flow => StopIsKnown
  BY DEF Flow, StopIsKnown
<1>2. QED
  BY <1>1, FlowInvariant, PTL
=============================================================================
