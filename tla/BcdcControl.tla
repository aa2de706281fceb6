---------------------------- MODULE BcdcControl ----------------------------
(***************************************************************************)
(* The ioctls of the host on their way to the chip: fwil.c (one request at *)
(* a time, under proto_block), bcdc.c (a request id, the answer looked for *)
(* by it) and the two calls of sdio.c that wait, txctl and rxctl, with     *)
(* their timeouts.  The netlink handler of core.c, which nexutil talks to, *)
(* is one of the callers.                                                  *)
(*                                                                         *)
(* Requests are numbered (req) so that the properties can speak of them;   *)
(* what is sent is only the number modulo IdMod, 2^16 in the code.         *)
(***************************************************************************)
EXTENDS SdioBus

CONSTANTS
    Caller,       \* threads that send ioctls
    IdMod         \* request ids

ASSUME IdModAssumption == IdMod \in Nat \ {0}
ASSUME CallerAssumption == Null \notin Caller
ASSUME WindowAssumption ==
    /\ SDPCM_SEQ_WRAP \in Nat \ {0} /\ Credits \in Nat \ {0}
    /\ 4 * Credits <= SDPCM_SEQ_WRAP
    /\ TXCTL_CREDITS \in Nat /\ 2 * TXCTL_CREDITS <= SDPCM_SEQ_WRAP
    /\ Glom \in Nat \ {0}
ASSUME TxqAssumption == TXQLEN \in Nat
ASSUME InterfaceAssumption == IsFiniteSet(Interface)
\* 256 frames lie between TXLOW and TXHI, and BRCMF_MAX_IFS is 16 (core.h:20).
ASSUME FlowAssumption ==
    /\ TXHI \in Nat /\ TXLOW \in Nat
    /\ Cardinality(Interface) <= TXHI - TXLOW

VARIABLES
    proto,   \* proto_block, the number of requests, and who gave up on which
    caller   \* each caller: where it is, its request and its result

vars == <<bus, msg, dpc, net, dongle, budget, proto, caller>>

IdleCaller == [pc |-> "idle", req |-> 0, ret |-> "0", got |-> 0]

Init ==
    /\ BusInit
    /\ proto = [block |-> Null, reqno |-> 0, unsent |-> {}, unanswered |-> {}]
    /\ caller = [c \in Caller |-> IdleCaller]

reqid == proto.reqno % IdMod

At(c, pc) == caller[c].pc = pc
Step(c, pc) == caller' = [caller EXCEPT ![c].pc = pc]
Return(c, ret, got) ==
    caller' = [caller EXCEPT ![c].pc = "done", ![c].ret = ret, ![c].got = got]

\* brcmf_fil_cmd_data_set and _get, to mutex_lock.
Call(c) ==
    /\ At(c, "idle") /\ budget.requests > 0
    /\ budget' = [budget EXCEPT !.requests = @ - 1]
    /\ Step(c, "lock")
    /\ UNCHANGED <<bus, msg, dpc, net, dongle, proto>>

\* brcmf_proto_bcdc_msg: the request is put together in the one buffer.
Lock(c) ==
    /\ At(c, "lock") /\ proto.block = Null
    /\ IF bus.state = "DATA"
         THEN /\ proto' = [proto EXCEPT !.block = c, !.reqno = @ + 1]
              /\ msg' = [kind |-> "request", req |-> proto'.reqno,
                         id |-> proto'.reqno % IdMod]
              /\ caller' = [caller EXCEPT ![c].pc = "txctl",
                                          ![c].req = proto'.reqno]
         ELSE /\ proto' = [proto EXCEPT !.block = c]
              /\ Return(c, "EIO", 0) /\ UNCHANGED msg
    /\ UNCHANGED <<bus, dpc, net, dongle, budget>>

(***************************************************************************)
(* brcmf_sdio_bus_txctl.                                                   *)
(***************************************************************************)
NotSent(c, ret) ==
    /\ Return(c, ret, 0)
    /\ proto' = [proto EXCEPT !.unsent = @ \cup {caller[c].req}]

TxCtl(c) ==
    /\ At(c, "txctl")
    /\ IF bus.state = "DATA"
         THEN /\ bus' = [bus EXCEPT !.ctrl_frame_stat = TRUE]
              /\ Step(c, "trigger") /\ UNCHANGED proto
         ELSE NotSent(c, "EIO") /\ UNCHANGED bus
    /\ UNCHANGED <<msg, dpc, net, dongle, budget>>

TriggerDpc(c) ==
    /\ At(c, "trigger")
    /\ bus' = trigger_dpc(bus)
    /\ Step(c, "txwait")
    /\ UNCHANGED <<msg, dpc, net, dongle, budget, proto>>

\* ctrl_frame_err is what the worker left.
TxResult(c) ==
    IF bus.ctrl_frame_err THEN NotSent(c, "ctrl_frame_err")
    ELSE Step(c, "rxctl") /\ UNCHANGED proto

TxDone(c) ==
    /\ At(c, "txwait") /\ ~bus.ctrl_frame_stat
    /\ TxResult(c)
    /\ UNCHANGED <<bus, msg, dpc, net, dongle, budget>>

\* CTL_DONE_TIMEOUT or a signal; the frame may be sent before the host is
\* claimed.
TxTimeout(c) ==
    /\ At(c, "txwait") /\ bus.ctrl_frame_stat
    /\ Step(c, "txclaim")
    /\ UNCHANGED <<bus, msg, dpc, net, dongle, budget, proto>>

TxClaim_LeavesFrame(c) ==
    /\ At(c, "txclaim")
    /\ IF bus.ctrl_frame_stat THEN NotSent(c, "ETIMEDOUT") ELSE TxResult(c)
    /\ UNCHANGED <<bus, msg, dpc, net, dongle, budget>>

TxClaim(c) ==
    /\ At(c, "txclaim")
    /\ IF bus.ctrl_frame_stat
         THEN /\ bus' = [bus EXCEPT !.ctrl_frame_stat = FALSE]
              /\ NotSent(c, "ETIMEDOUT")
         ELSE TxResult(c) /\ UNCHANGED bus
    /\ UNCHANGED <<msg, dpc, net, dongle, budget>>

(***************************************************************************)
(* brcmf_proto_bcdc_cmplt and brcmf_sdio_bus_rxctl.  The wait ends with an *)
(* answer, DCMD_RESP_TIMEOUT or a signal; what is in the slot by the time  *)
(* rxctl_lock is taken counts.  (The comparisons of the id that follow in  *)
(* query_dcmd and set_dcmd find it equal: cmplt returns no other.)         *)
(***************************************************************************)
NoAnswer(c, ret) ==
    /\ Return(c, ret, 0)
    /\ proto' = [proto EXCEPT !.unanswered = @ \cup {caller[c].req}]

RxCtl(c) ==
    /\ At(c, "rxctl")
    /\ IF bus.state = "DATA" THEN Step(c, "rxwait") /\ UNCHANGED proto
       ELSE NoAnswer(c, "EIO")
    /\ UNCHANGED <<bus, msg, dpc, net, dongle, budget>>

RxTake_AnyId(c) ==
    /\ At(c, "rxwait") /\ bus.rxctl # Null
    /\ msg' = bus.rxctl
    /\ bus' = [bus EXCEPT !.rxctl = Null]
    /\ Return(c, "0", msg'.req)
    /\ UNCHANGED <<dpc, net, dongle, budget, proto>>

RxTake_KeepsSlot(c) ==
    /\ At(c, "rxwait") /\ bus.rxctl # Null
    /\ msg' = bus.rxctl
    /\ IF msg'.id = reqid THEN Return(c, "0", msg'.req) ELSE Step(c, "rxctl")
    /\ UNCHANGED <<bus, dpc, net, dongle, budget, proto>>

RxTake(c) ==
    /\ At(c, "rxwait") /\ bus.rxctl # Null
    /\ msg' = bus.rxctl
    /\ bus' = [bus EXCEPT !.rxctl = Null]
    /\ IF msg'.id = reqid THEN Return(c, "0", msg'.req) ELSE Step(c, "rxctl")
    /\ UNCHANGED <<dpc, net, dongle, budget, proto>>

RxTimeout_BusUp(c) ==
    /\ At(c, "rxwait") /\ bus.rxctl = Null /\ bus.state = "DATA"
    /\ NoAnswer(c, "ETIMEDOUT")
    /\ UNCHANGED <<bus, msg, dpc, net, dongle, budget>>

RxTimeout(c) ==
    /\ At(c, "rxwait") /\ bus.rxctl = Null
    /\ NoAnswer(c, "ETIMEDOUT")
    /\ UNCHANGED <<bus, msg, dpc, net, dongle, budget>>

Unlock(c) ==
    /\ At(c, "done")
    /\ proto' = [proto EXCEPT !.block = Null]
    /\ Step(c, "idle")
    /\ UNCHANGED <<bus, msg, dpc, net, dongle, budget>>

CallerNext(c) ==
    \/ Lock(c) \/ TxCtl(c) \/ TriggerDpc(c) \/ TxDone(c) \/ TxTimeout(c)
    \/ TxClaim(c) \/ RxCtl(c) \/ RxTake(c) \/ RxTimeout(c) \/ Unlock(c)

Next ==
    \/ BusNext /\ UNCHANGED <<proto, caller>>
    \/ \E c \in Caller : Call(c) \/ CallerNext(c)

Spec == Init /\ [][Next]_vars

(***************************************************************************)
(* The worker and the threads are scheduled, and their waits end; a mutex  *)
(* goes to whoever waits for it long enough.  Nothing is asked of the chip *)
(* but that it goes on returning credits and reporting what it has.        *)
(***************************************************************************)
Fairness ==
    /\ WF_vars(Isr /\ UNCHANGED <<proto, caller>>)
    /\ WF_vars(Worker /\ UNCHANGED <<proto, caller>>)
    /\ WF_vars(bus.state # "DATA" /\ (CtrlFails \/ SendFails)
                 /\ UNCHANGED <<proto, caller>>)
    /\ WF_vars((DongleTakes \/ DongleCredits \/ DongleNakHandled)
                 /\ UNCHANGED <<proto, caller>>)
    /\ \A i \in Interface : WF_vars(Send(i) /\ UNCHANGED <<proto, caller>>)
    /\ \A c \in Caller : WF_vars(CallerNext(c)) /\ SF_vars(Lock(c))

FairSpec == Spec /\ Fairness

(***************************************************************************)
(* PROPERTIES                                                              *)
(***************************************************************************)

Message == [kind : {"request", "answer"}, req : Nat, id : 0..(IdMod - 1)]
Seq8 == 0..(SDPCM_SEQ_WRAP - 1)

\* The fields of the bus, the worker and the callers keep their types.
TypeOK ==
    /\ bus.tx_seq \in Seq8 /\ bus.tx_max \in Seq8
    /\ bus.rxctl \in Message \cup {Null} /\ msg \in Message \cup {Null}
    /\ Len(bus.txq) <= TXQLEN /\ net.pend_8021x \in Int
    /\ proto.block \in Caller \cup {Null}

(***************************************************************************)
(* An ioctl that returns success returns the answer to its own request,    *)
(* whatever timeouts, late answers and retransmissions came before         *)
(* (bcdc.c:147); only an answer that is late by all the request ids could  *)
(* be taken for it.                                                        *)
(***************************************************************************)
AnswersOwnRequest ==
    \A c \in Caller :
      (At(c, "done") /\ caller[c].ret = "0") =>
        \/ caller[c].got = caller[c].req
        \/ caller[c].req - caller[c].got >= IdMod

(***************************************************************************)
(* A request the host was told has not been sent never reaches the chip:   *)
(* neither a timeout of txctl nor the worker's double look at              *)
(* ctrl_frame_stat lets the other side use a buffer that has been given up *)
(* (sdio.c:2692, 2948), and what is sent is a request, not an answer that  *)
(* was read into the same buffer.                                          *)
(***************************************************************************)
InChip ==
    {dongle.rx[k].body : k \in {k \in DOMAIN dongle.rx :
                                  dongle.rx[k].chan = "control"}}
      \cup ({dongle.exec} \ {Null})
UnsentNeverSent ==
    \A m \in InChip : m.kind = "request" /\ m.req \notin proto.unsent

(***************************************************************************)
(* An answer is dropped because the slot is taken (sdio.c:1820) only when  *)
(* what takes it is the late answer to a request that was given up, or has *)
(* the id of one: an answer late by all the ids is taken for that of a     *)
(* request whose own answer then finds nobody waiting.                     *)
(***************************************************************************)
Stale(m) == \E r \in proto.unanswered : r <= m.req /\ r % IdMod = m.id
DropsOnlyBehindStale ==
    [][(ReadFrame /\ Head(dongle.tx).chan = "control" /\ bus.rxctl # Null)
         => Stale(bus.rxctl)]_vars

(***************************************************************************)
(* The host never sends more frames than the chip has room for, and with   *)
(* consecutive numbers: control frames and chains of data frames together  *)
(* keep the window (sdio.c:669, 684).                                      *)
(***************************************************************************)
WindowKept ==
    LET n == Len(dongle.rx)
    IN /\ n <= Credits
       /\ \A k \in 1..n :
            dongle.rx[k].seq = (bus.tx_seq - n + k - 1) % SDPCM_SEQ_WRAP

(***************************************************************************)
(* Nothing that could be sent is forgotten: while a control frame, or data *)
(* in the queue, may be sent, the worker is under way to it or will run    *)
(* again (trigger_dpc, dataworker and the end of brcmf_sdio_dpc).  After a *)
(* failed control frame the worker does not come back for the data.        *)
(***************************************************************************)
WillRun == bus.queued \/ (bus.dpc_triggered /\ dpc.pc \notin {"idle", "frozen"})
NothingForgotten ==
    (bus.state = "DATA" /\ (\A c \in Caller : ~At(c, "trigger"))
       /\ (\A i \in Interface : net.pc[i] \notin {"block", "trigger"})) =>
      /\ (bus.ctrl_frame_stat /\ txctl_ok) =>
           (WillRun \/ dpc.pc \in {"status", "read", "ctrl", "send_ctrl"}
              \/ (dpc.pc # "idle" /\ dpc.err))
      /\ (bus.txq # <<>> /\ data_ok) =>
           (WillRun \/ dpc.pc \notin {"loop", "idle", "frozen"} \/ dpc.err)

(***************************************************************************)
(* cfg80211 does not install a key while an 802.1X frame is on its way     *)
(* (brcmf_netdev_wait_pend8021x): the counter it waits for is never        *)
(* smaller than their number.                                              *)
(***************************************************************************)
PaeIn(q) == Cardinality({k \in DOMAIN q : q[k].pae})
PendCoversFlight ==
    net.pend_8021x >=
      PaeIn(bus.txq) + PaeIn(dpc.pktq)
        + Cardinality({i \in Interface : net.pc[i] = "txdata" /\ net.skb[i]})

(***************************************************************************)
(* Flow control and the interfaces it stopped do not part: while it holds  *)
(* one, txoff says so, or the worker is about to release it.  The two are  *)
(* not under a common lock (sdio.c:2381); what saves it is that fewer      *)
(* senders may be between the check and the stop than there are frames     *)
(* from TXLOW to TXHI, because the interfaces are stopped.  Nothing bounds *)
(* the senders any more after a resume has woken the queues flow control   *)
(* held, nor once the interface released first has filled the queue before *)
(* the last one is released, which then runs while txoff is set.           *)
(***************************************************************************)
StopIsKnown ==
    \A i \in Interface :
      (net.netif_stop[i] /\ ~bus.txoff) =>
        \/ dpc.pc = "unblock" /\ i \in dpc.todo
        \/ net.woken \/ net.overtaken

\* Every ioctl returns, however late the chip answers or if it never does.
CallsReturn == \A c \in Caller : At(c, "lock") ~> At(c, "idle")

(***************************************************************************)
(* An interface flow control holds is released, unless the bus has failed, *)
(* a resume came in between, or a release was overtaken.                   *)
(***************************************************************************)
StoppedIsReleased ==
    \A i \in Interface :
      net.netif_stop[i] ~>
        \/ ~net.netif_stop[i] \/ bus.state # "DATA" \/ dpc.err
        \/ net.woken \/ net.overtaken
=============================================================================
