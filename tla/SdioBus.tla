------------------------------ MODULE SdioBus ------------------------------
(***************************************************************************)
(* brcmfmac on SDIO, the way every ioctl and every frame takes between the *)
(* host and the chip: the worker of sdio.c (brcmf_sdio_dpc), the slots for *)
(* one control frame in each direction, the transmit queue with its flow   *)
(* control, and the window of sequence numbers the chip offers.            *)
(*                                                                         *)
(* A part of the code that runs with the host claimed (sdio_claim_host) or *)
(* under one spinlock is one step, because the other parts that touch the  *)
(* same fields claim the same thing; fields that are read or written       *)
(* without it (ctrl_frame_stat, dpc_triggered, txoff) are read and written *)
(* in steps of their own.                                                  *)
(***************************************************************************)
EXTENDS Integers, Sequences, FiniteSets

CONSTANTS
    Null,
    Interface,       \* network interfaces, each with one sender at a time
    SDPCM_SEQ_WRAP,  \* sequence numbers: 256
    TXCTL_CREDITS,   \* credits left to a control frame that waits: 2
    TXQLEN,          \* room in the transmit queue: 2048
    TXHI, TXLOW,     \* flow control goes on and off: 1792, 1536
    RXBOUND, TXBOUND, TXMINMAX,  \* frames per pass of the worker: 50, 20, 1
    Glom,            \* frames sent in one transfer
    Credits,         \* frames the chip has room for
    Load             \* bounds: how many frames and requests are sent, how many
                     \* of the frames are 802.1X ones, and how many transfers
                     \* fail, cards are removed or suspended

VARIABLES
    bus,     \* struct brcmf_sdio, as far as it matters here
    msg,     \* the buffer ctrl_frame_buf points to
    dpc,     \* the worker: where it is and its local variables
    net,     \* the network interfaces and their senders; woken and overtaken
             \* are history: a queue held by flow control has been woken by a
             \* resume, flow control taken back has been called for again
             \* before the last interface was released
    dongle,  \* the chip
    budget   \* frames, requests and faults that are left

busVars == <<bus, msg, dpc, net, dongle, budget>>

Smaller(a, b) == IF a < b THEN a ELSE b

(***************************************************************************)
(* The window.  tx_max and tx_seq are bytes, and their difference is an    *)
(* int: it is compared with zero before it is cut to a byte.               *)
(***************************************************************************)
Window == bus.tx_max - bus.tx_seq
InHalf(d) == d % SDPCM_SEQ_WRAP < SDPCM_SEQ_WRAP \div 2
txctl_ok == Window # 0 /\ InHalf(Window)
data_ok == LET d == Window - (IF bus.ctrl_frame_stat THEN TXCTL_CREDITS ELSE 0)
           IN d # 0 /\ InHalf(d)

\* The window of a header the chip sent; one that is out of range is not
\* believed.
NewWindow(max) ==
    IF (max - bus.tx_seq) % SDPCM_SEQ_WRAP > SDPCM_SEQ_WRAP \div 4
      THEN (bus.tx_seq + 2) % SDPCM_SEQ_WRAP
      ELSE max

BusInit ==
    /\ bus = [state |-> "DATA", tx_seq |-> SDPCM_SEQ_WRAP - 1, tx_max |-> 0,
              ctrl_frame_stat |-> FALSE, ctrl_frame_err |-> FALSE,
              rxctl |-> Null, rxpending |-> FALSE, rxskip |-> FALSE,
              intstatus |-> {}, txq |-> <<>>, txoff |-> FALSE,
              dpc_triggered |-> FALSE, queued |-> FALSE]
    /\ msg = Null
    /\ dpc = [pc |-> "idle", left |-> 0, pktq |-> <<>>, err |-> FALSE,
              todo |-> {}]
    /\ net = [stopped |-> [i \in Interface |-> FALSE],
              netif_stop |-> [i \in Interface |-> FALSE],
              pc |-> [i \in Interface |-> "idle"],
              skb |-> [i \in Interface |-> FALSE],
              ret |-> [i \in Interface |-> TRUE],
              todo |-> {}, pend_8021x |-> 0,
              woken |-> FALSE, overtaken |-> FALSE]
    /\ dongle = [rx |-> <<>>, exec |-> Null, tx |-> <<>>, int |-> {},
                 nak |-> FALSE, grant |-> 0, told |-> 0]
    /\ budget \in Load

Fault == budget.faults > 0 /\ budget' = [budget EXCEPT !.faults = @ - 1]

(***************************************************************************)
(* brcmf_sdio_trigger_dpc, as a change of the fields it changes.           *)
(***************************************************************************)
trigger_dpc(b) ==
    IF b.dpc_triggered THEN b
    ELSE [b EXCEPT !.dpc_triggered = TRUE, !.queued = TRUE]

\* brcmf_sdio_isr, called with the host claimed.
Isr ==
    /\ dongle.int # {} /\ bus.state # "NOMEDIUM"
    /\ bus' = [bus EXCEPT !.intstatus = @ \cup dongle.int,
                          !.dpc_triggered = TRUE, !.queued = TRUE]
    /\ dongle' = [dongle EXCEPT !.int = {}]
    /\ UNCHANGED <<msg, dpc, net, budget>>

(***************************************************************************)
(* brcmf_sdio_dataworker and brcmf_sdio_dpc.                               *)
(***************************************************************************)
Goto(pc) == dpc' = [dpc EXCEPT !.pc = pc]

WorkerStart ==
    /\ dpc.pc = "idle" /\ bus.queued
    /\ bus' = [bus EXCEPT !.queued = FALSE]
    /\ Goto("loop")
    /\ UNCHANGED <<msg, net, dongle, budget>>

WorkerLoop ==
    /\ dpc.pc = "loop"
    /\ IF bus.dpc_triggered
         THEN /\ bus' = [bus EXCEPT !.dpc_triggered = FALSE]
              /\ dpc' = [dpc EXCEPT !.pc = "status", !.err = FALSE]
         ELSE Goto("idle") /\ UNCHANGED bus
    /\ UNCHANGED <<msg, net, dongle, budget>>

(***************************************************************************)
(* A NAK the chip has handled makes it read again; until then nothing is.  *)
(* Left out: a register access that fails, here or in intr_rstatus         *)
(* (sdio.c:2623, 2635), which sends the worker on with an error as a       *)
(* failed transfer does, and the chip's own flow control (I_HMB_FC_CHANGE, *)
(* 2633), see DpcData.                                                     *)
(***************************************************************************)
DpcStatus ==
    /\ dpc.pc = "status"
    /\ LET handled == "HOST_INT" \in bus.intstatus
           skip == bus.rxskip /\ ~handled
           ind == ~skip /\ (handled \/ "FRAME_IND" \in bus.intstatus)
       IN /\ bus' = [bus EXCEPT !.intstatus = {}, !.rxskip = skip,
                                !.rxpending = ind \/ @]
          /\ dpc' = [dpc EXCEPT !.pc = IF ind THEN "read" ELSE "ctrl",
                                !.left = RXBOUND]
    /\ UNCHANGED <<msg, net, dongle, budget>>

(***************************************************************************)
(* brcmf_sdio_readframes, one frame at a time.  A frame with a bad header  *)
(* is lost (rxfail without a retry), one whose transfer fails stays in the *)
(* chip and is asked for again (rxfail with NAK).                          *)
(***************************************************************************)
Reading == dpc.pc = "read" /\ ~bus.rxskip /\ dpc.left > 0 /\ bus.state = "DATA"

\* brcmf_sdio_read_control: an answer finds the slot taken, and is dropped.
read_control(f) == IF bus.rxctl = Null THEN f.body ELSE bus.rxctl

ReadFrame ==
    /\ Reading /\ dongle.tx # <<>>
    /\ LET f == Head(dongle.tx)
       IN bus' = [bus EXCEPT
                    !.tx_max = NewWindow(f.max),
                    !.rxctl = IF f.chan = "control" THEN read_control(f) ELSE @]
    /\ dongle' = [dongle EXCEPT !.tx = Tail(@)]
    /\ dpc' = [dpc EXCEPT !.left = @ - 1]
    /\ UNCHANGED <<msg, net, budget>>

\* The window a lost frame offered comes again with the chip's next one.
ReadBadHeader ==
    /\ Reading /\ dongle.tx # <<>> /\ Fault
    /\ dongle' = [dongle EXCEPT !.tx = Tail(@), !.told = Null]
    /\ dpc' = [dpc EXCEPT !.left = @ - 1]
    /\ UNCHANGED <<bus, msg, net>>

\* The transfer fails before the header is there, or behind it: then the
\* window has been taken from it.
ReadFails ==
    /\ Reading /\ dongle.tx # <<>> /\ Fault
    /\ \E max \in {bus.tx_max, NewWindow(Head(dongle.tx).max)} :
          bus' = [bus EXCEPT !.rxskip = TRUE, !.tx_max = max]
    /\ dongle' = [dongle EXCEPT !.nak = TRUE]
    /\ dpc' = [dpc EXCEPT !.left = @ - 1]
    /\ UNCHANGED <<msg, net>>

ReadNoMore ==
    /\ Reading /\ dongle.tx = <<>>
    /\ bus' = [bus EXCEPT !.rxpending = FALSE]
    /\ Goto("ctrl")
    /\ UNCHANGED <<msg, net, dongle, budget>>

\* The limit, a NAK or the state of the bus ended the loop: the indication
\* is kept for the next pass.
ReadLeft ==
    /\ dpc.pc = "read"
    /\ bus.rxskip \/ dpc.left = 0 \/ bus.state # "DATA"
    /\ bus' = [bus EXCEPT !.intstatus = @ \cup {"FRAME_IND"}]
    /\ Goto("ctrl")
    /\ UNCHANGED <<msg, net, dongle, budget>>

\* The control frame is looked for without a lock ...
DpcCtrl ==
    /\ dpc.pc = "ctrl"
    /\ Goto(IF bus.ctrl_frame_stat /\ txctl_ok THEN "send_ctrl" ELSE "data")
    /\ UNCHANGED <<bus, msg, net, dongle, budget>>

\* ... and looked for again with the host claimed.
CtrlGone ==
    /\ dpc.pc = "send_ctrl" /\ ~bus.ctrl_frame_stat
    /\ Goto("data")
    /\ UNCHANGED <<bus, msg, net, dongle, budget>>

CtrlSent_NoWrap ==
    /\ dpc.pc = "send_ctrl" /\ bus.ctrl_frame_stat /\ bus.state = "DATA"
    /\ bus' = [bus EXCEPT !.ctrl_frame_stat = FALSE, !.ctrl_frame_err = FALSE,
                          !.tx_seq = @ + 1]
    /\ dongle' = [dongle EXCEPT !.rx =
                    Append(@, [chan |-> "control", seq |-> bus.tx_seq,
                               body |-> msg])]
    /\ Goto("data")
    /\ UNCHANGED <<msg, net, budget>>

\* brcmf_sdio_tx_ctrlframe: what the buffer holds now is sent.
CtrlSent ==
    /\ dpc.pc = "send_ctrl" /\ bus.ctrl_frame_stat /\ bus.state = "DATA"
    /\ bus' = [bus EXCEPT !.ctrl_frame_stat = FALSE, !.ctrl_frame_err = FALSE,
                          !.tx_seq = (@ + 1) % SDPCM_SEQ_WRAP]
    /\ dongle' = [dongle EXCEPT !.rx =
                    Append(@, [chan |-> "control", seq |-> bus.tx_seq,
                               body |-> msg])]
    /\ Goto("data")
    /\ UNCHANGED <<msg, net, budget>>

\* The transfer and its retries (TXRETRIES) failed, in one step; the chip is
\* taken not to have got the frame from any of them.
CtrlFails ==
    /\ dpc.pc = "send_ctrl" /\ bus.ctrl_frame_stat
    /\ IF bus.state = "DATA" THEN Fault ELSE UNCHANGED budget
    /\ bus' = [bus EXCEPT !.ctrl_frame_stat = FALSE, !.ctrl_frame_err = TRUE]
    /\ dpc' = [dpc EXCEPT !.pc = "data", !.err = TRUE]
    /\ UNCHANGED <<msg, net, dongle>>

(***************************************************************************)
(* brcmf_sdio_sendfromq.  The transmit queue may be taken from while no    *)
(* sender holds txq_lock, which one does from its check of the length to   *)
(* the end of the call that stops the interfaces.  The chip's own flow     *)
(* control (fcstate, flowcontrol; sdio.c:2336, 2709, 2732) is left out: it *)
(* is taken never to hold a frame back.                                    *)
(***************************************************************************)
txq_free_BeforeBlock == TRUE
txq_free == \A i \in Interface : net.pc[i] # "block"

DpcData ==
    /\ dpc.pc = "data"
    /\ dpc' = IF bus.txq # <<>> /\ data_ok
                THEN [dpc EXCEPT !.pc = "fill",
                                 !.left = IF bus.rxpending
                                            THEN Smaller(TXBOUND, TXMINMAX)
                                            ELSE TXBOUND]
                ELSE [dpc EXCEPT !.pc = "end"]
    /\ UNCHANGED <<bus, msg, net, dongle, budget>>

Fill_WholeGlom ==
    /\ dpc.pc = "fill" /\ dpc.left > 0 /\ data_ok /\ bus.txq # <<>> /\ txq_free
    /\ LET n == Smaller(Glom, Len(bus.txq))
       IN /\ dpc' = [dpc EXCEPT !.pc = "send", !.left = @ - n,
                                !.pktq = SubSeq(bus.txq, 1, n)]
          /\ bus' = [bus EXCEPT !.txq = SubSeq(@, n + 1, Len(@))]
    /\ UNCHANGED <<msg, net, dongle, budget>>

Fill ==
    /\ dpc.pc = "fill" /\ dpc.left > 0 /\ data_ok /\ bus.txq # <<>> /\ txq_free
    /\ LET n == Smaller(Smaller(IF Glom > 1 THEN Window % SDPCM_SEQ_WRAP ELSE 1,
                                Glom), Len(bus.txq))
       IN /\ dpc' = [dpc EXCEPT !.pc = "send", !.left = @ - n,
                                !.pktq = SubSeq(bus.txq, 1, n)]
          /\ bus' = [bus EXCEPT !.txq = SubSeq(@, n + 1, Len(@))]
    /\ UNCHANGED <<msg, net, dongle, budget>>

FillEnds_AtLow ==
    /\ dpc.pc = "fill"
    /\ dpc.left <= 0 \/ ~data_ok \/ bus.txq = <<>>
    /\ Goto(IF bus.state = "DATA" /\ bus.txoff /\ Len(bus.txq) = TXLOW
              THEN "txon" ELSE "end")
    /\ UNCHANGED <<bus, msg, net, dongle, budget>>

\* The queue is looked at without a lock, and flow control taken back in
\* two more steps.
FillEnds ==
    /\ dpc.pc = "fill"
    /\ dpc.left <= 0 \/ ~data_ok \/ bus.txq = <<>>
    /\ Goto(IF bus.state = "DATA" /\ bus.txoff /\ Len(bus.txq) < TXLOW
              THEN "txon" ELSE "end")
    /\ UNCHANGED <<bus, msg, net, dongle, budget>>

Finalized_All(pktq) == net.pend_8021x - Len(pktq)

\* brcmf_proto_bcdc_txcomplete and brcmf_txfinalize: the headers have been
\* pulled, so that 802.1X frames are recognised.
Finalized(pktq) ==
    net.pend_8021x - Cardinality({k \in DOMAIN pktq : pktq[k].pae})

Sent ==
    /\ dpc.pc = "send" /\ bus.state = "DATA"
    /\ bus' = [bus EXCEPT !.tx_seq = (@ + Len(dpc.pktq)) % SDPCM_SEQ_WRAP]
    /\ dongle' = [dongle EXCEPT !.rx = @ \o
                    [k \in DOMAIN dpc.pktq |->
                       [chan |-> "data", body |-> Null,
                        seq |-> (bus.tx_seq + k - 1) % SDPCM_SEQ_WRAP]]]
    /\ net' = [net EXCEPT !.pend_8021x = Finalized(dpc.pktq)]
    /\ dpc' = [dpc EXCEPT !.pc = "fill", !.pktq = <<>>]
    /\ UNCHANGED <<msg, budget>>

SendFails ==
    /\ dpc.pc = "send"
    /\ IF bus.state = "DATA" THEN Fault ELSE UNCHANGED budget
    /\ net' = [net EXCEPT !.pend_8021x = Finalized(dpc.pktq)]
    /\ dpc' = [dpc EXCEPT !.pc = "fill", !.pktq = <<>>]
    /\ UNCHANGED <<bus, msg, dongle>>

TxOn ==
    /\ dpc.pc = "txon"
    /\ bus' = [bus EXCEPT !.txoff = FALSE]
    /\ dpc' = [dpc EXCEPT !.pc = "unblock", !.todo = Interface]
    /\ UNCHANGED <<msg, net, dongle, budget>>

(***************************************************************************)
(* brcmf_txflowblock_if: a queue is stopped for the first reason and woken *)
(* with the last.  brcmf_fws_bus_blocked calls it for one interface after  *)
(* the other (by their indices, here in any order), each time under the    *)
(* lock of that interface alone.                                           *)
(***************************************************************************)
txflowblock_if(n, i, state) ==
    [n EXCEPT !.stopped[i] = state /\ (@ \/ ~n.netif_stop[i]),
              !.netif_stop[i] = state]

Unblock ==
    /\ dpc.pc = "unblock"
    /\ \E i \in dpc.todo :
          /\ net' = txflowblock_if(net, i, FALSE)
          /\ dpc' = [dpc EXCEPT !.todo = @ \ {i},
                                !.pc = IF dpc.todo = {i} THEN "end" ELSE @]
    /\ UNCHANGED <<bus, msg, dongle, budget>>

\* After an error nothing is tried again, and what was indicated is dropped.
DpcHalts ==
    /\ dpc.pc = "end" /\ (bus.state # "DATA" \/ dpc.err)
    /\ bus' = [bus EXCEPT !.intstatus = {}, !.ctrl_frame_stat = FALSE,
                          !.ctrl_frame_err = @ \/ bus.ctrl_frame_stat]
    /\ Goto("loop")
    /\ UNCHANGED <<msg, net, dongle, budget>>

DpcEnds_Overwrites ==
    /\ dpc.pc = "end" /\ bus.state = "DATA" /\ ~dpc.err
    /\ bus' = [bus EXCEPT !.dpc_triggered =
                 bus.intstatus # {} \/ (bus.txq # <<>> /\ data_ok)]
    /\ Goto("loop")
    /\ UNCHANGED <<msg, net, dongle, budget>>

DpcEnds ==
    /\ dpc.pc = "end" /\ bus.state = "DATA" /\ ~dpc.err
    /\ bus' = [bus EXCEPT !.dpc_triggered =
                 @ \/ bus.intstatus # {} \/ (bus.txq # <<>> /\ data_ok)]
    /\ Goto("loop")
    /\ UNCHANGED <<msg, net, dongle, budget>>

(***************************************************************************)
(* brcmf_sdiod_change_state and brcmf_bus_change_state: a bus that comes   *)
(* up wakes every queue that is stopped, whatever it was stopped for.      *)
(***************************************************************************)
Suspend ==
    /\ dpc.pc = "idle" /\ bus.state = "DATA" /\ Fault
    /\ bus' = [bus EXCEPT !.state = "DOWN"]
    /\ Goto("frozen")
    /\ UNCHANGED <<msg, net, dongle>>

Resume ==
    /\ dpc.pc = "frozen"
    /\ IF bus.state = "DOWN"
         THEN /\ bus' = [bus EXCEPT !.state = "DATA"]
              /\ net' = [net EXCEPT
                           !.stopped = [i \in Interface |-> FALSE],
                           !.woken = @ \/ bus.txoff
                                       \/ \E i \in Interface : net.netif_stop[i]]
         ELSE UNCHANGED <<bus, net>>
    /\ Goto("idle")
    /\ UNCHANGED <<msg, dongle, budget>>

\* A transfer reported that there is no card.
CardRemoved ==
    /\ bus.state # "NOMEDIUM" /\ Fault
    /\ bus' = [bus EXCEPT !.state = "NOMEDIUM"]
    /\ UNCHANGED <<msg, dpc, net, dongle>>

(***************************************************************************)
(* brcmf_netdev_start_xmit and brcmf_sdio_bus_txdata.                      *)
(***************************************************************************)
Sender(i, pc) == [net EXCEPT !.pc[i] = pc]

Xmit(i, pae) ==
    /\ net.pc[i] = "idle" /\ ~net.stopped[i] /\ budget.frames > 0
    /\ pae => budget.eapol > 0
    /\ budget' = [budget EXCEPT !.frames = @ - 1,
                                !.eapol = @ - (IF pae THEN 1 ELSE 0)]
    /\ net' = IF bus.state = "DATA"
                THEN [Sender(i, "txdata") EXCEPT
                        !.skb[i] = pae,
                        !.pend_8021x = @ + (IF pae THEN 1 ELSE 0)]
                ELSE Sender(i, "stop")
    /\ UNCHANGED <<bus, msg, dpc, dongle>>

\* The bus may have come up, and woken the queues, since it was looked at.
XmitRejected(i) ==
    /\ net.pc[i] = "stop"
    /\ net' = [Sender(i, "idle") EXCEPT !.stopped[i] = TRUE]
    /\ UNCHANGED <<bus, msg, dpc, dongle, budget>>

\* Some interfaces have been released, and some have not.
Releasing == dpc.pc = "unblock" /\ dpc.todo # Interface

TxData(i) ==
    /\ net.pc[i] = "txdata" /\ txq_free /\ bus.state = "DATA"
    /\ LET fits == Len(bus.txq) < TXQLEN
           txq == IF fits THEN Append(bus.txq, [from |-> i, pae |-> net.skb[i]])
                  ELSE bus.txq
           high == Len(txq) >= TXHI
       IN /\ bus' = [bus EXCEPT !.txq = txq, !.txoff = @ \/ high]
          /\ net' = [Sender(i, IF high THEN "block" ELSE "trigger")
                       EXCEPT !.ret[i] = fits,
                              !.todo = IF high THEN Interface ELSE @,
                              !.overtaken = @ \/ (high /\ Releasing)]
    /\ UNCHANGED <<msg, dpc, dongle, budget>>

TxBlock(i) ==
    /\ net.pc[i] = "block"
    /\ \E j \in net.todo :
          net' = [txflowblock_if(net, j, TRUE) EXCEPT
                    !.todo = @ \ {j},
                    !.pc[i] = IF net.todo = {j} THEN "trigger" ELSE @]
    /\ UNCHANGED <<bus, msg, dpc, dongle, budget>>

TxTrigger(i) ==
    /\ net.pc[i] = "trigger"
    /\ bus' = trigger_dpc(bus)
    /\ net' = Sender(i, IF net.ret[i] THEN "idle" ELSE "finalize")
    /\ UNCHANGED <<msg, dpc, dongle, budget>>

\* The bus went down after the check in start_xmit.
TxRefused(i) ==
    /\ net.pc[i] = "txdata" /\ bus.state # "DATA"
    /\ net' = Sender(i, "finalize")
    /\ UNCHANGED <<bus, msg, dpc, dongle, budget>>

\* brcmf_txfinalize of a frame that was refused: it still has the BCDC
\* header in front, so that its type is not seen and nothing is counted.
TxFinalize(i) ==
    /\ net.pc[i] = "finalize"
    /\ net' = Sender(i, "idle")
    /\ UNCHANGED <<bus, msg, dpc, dongle, budget>>

(***************************************************************************)
(* The chip, external to the driver: it takes frames in order, works on    *)
(* one ioctl at a time, and every frame it sends carries the window.       *)
(***************************************************************************)
DongleSends(d, chan, body) ==
    [d EXCEPT !.tx = Append(@, [chan |-> chan, body |-> body, max |-> d.grant]),
              !.int = @ \cup {"FRAME_IND"}, !.told = d.grant]

DongleTakes ==
    /\ dongle.rx # <<>>
    /\ LET f == Head(dongle.rx)
       IN /\ f.chan = "control" => dongle.exec = Null
          /\ dongle' = [dongle EXCEPT
                          !.rx = Tail(@),
                          !.exec = IF f.chan = "control" THEN f.body ELSE @,
                          !.grant = (f.seq + 1 + Credits) % SDPCM_SEQ_WRAP]
    /\ UNCHANGED <<bus, msg, dpc, net, budget>>

DongleAnswers ==
    /\ dongle.exec # Null
    /\ dongle' = [DongleSends(dongle, "control",
                              [dongle.exec EXCEPT !.kind = "answer"])
                    EXCEPT !.exec = Null]
    /\ UNCHANGED <<bus, msg, dpc, net, budget>>

DongleCredits ==
    /\ dongle.told # dongle.grant
    /\ dongle' = DongleSends(dongle, "event", Null)
    /\ UNCHANGED <<bus, msg, dpc, net, budget>>

DongleNakHandled ==
    /\ dongle.nak
    /\ dongle' = [dongle EXCEPT !.nak = FALSE, !.int = @ \cup {"HOST_INT"}]
    /\ UNCHANGED <<bus, msg, dpc, net, budget>>

Worker ==
    \/ WorkerStart \/ WorkerLoop \/ DpcStatus
    \/ ReadFrame \/ ReadNoMore \/ ReadLeft
    \/ DpcCtrl \/ CtrlGone \/ CtrlSent
    \/ DpcData \/ Fill \/ FillEnds \/ Sent
    \/ TxOn \/ Unblock \/ DpcHalts \/ DpcEnds \/ Resume
Faults == ReadBadHeader \/ ReadFails \/ CtrlFails \/ SendFails
            \/ Suspend \/ CardRemoved
Send(i) == XmitRejected(i) \/ TxData(i) \/ TxBlock(i) \/ TxTrigger(i)
             \/ TxRefused(i) \/ TxFinalize(i)
Chip == DongleTakes \/ DongleAnswers \/ DongleCredits \/ DongleNakHandled

BusNext ==
    \/ Isr \/ Worker \/ Faults \/ Chip
    \/ \E i \in Interface : Send(i) \/ \E pae \in BOOLEAN : Xmit(i, pae)
=============================================================================
