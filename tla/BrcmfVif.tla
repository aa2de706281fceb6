------------------------------ MODULE BrcmfVif ------------------------------
(***************************************************************************)
(* The network interfaces of brcmfmac: how cfg80211 adds and deletes one   *)
(* (a monitor interface, such as the README asks for, goes the way of an   *)
(* access point's), how the firmware's IF events, handled by the worker of *)
(* fweh.c, fill and clear the interface table, and which device the        *)
(* netlink handler of the patch takes for its ioctls.                      *)
(*                                                                         *)
(* The calls of cfg80211 hold the rtnl lock from their start to their end, *)
(* waits included; the worker takes it to unregister a device.  What runs  *)
(* under vif_event_lock is one step.  Interfaces of P2P are left out.      *)
(***************************************************************************)
EXTENDS Integers, Sequences, FiniteSets

CONSTANTS
    Null,
    Bss,      \* indices of iflist; 0 is the primary interface
    Ifidx,    \* indices of if2bss; 0 is the primary interface
    Ifp,      \* allocations of a net_device with its brcmf_if: numbers from 1
    Vif,      \* allocations of a brcmf_cfg80211_vif: numbers from 1
    Load      \* bounds: calls of cfg80211, events of a link, and faults

ASSUME NullAssumption == Null \notin Bss \cup Ifidx \cup Ifp \cup Vif
\* iflist and if2bss have BRCMF_MAX_IFS places each (core.h:112).
ASSUME IndexAssumption ==
    /\ 0 \in Bss /\ Bss \subseteq Nat /\ IsFiniteSet(Bss)
    /\ 0 \in Ifidx /\ Ifidx \subseteq Nat /\ IsFiniteSet(Ifidx)
    /\ Cardinality(Bss) <= Cardinality(Ifidx)
ASSUME PrimaryAssumption == 1 \in Ifp /\ 1 \in Vif

VARIABLES
    drvr,     \* iflist, if2bss, the queue of events, and ndev_global
    ifp,      \* each interface: what became of it, its indices and its vif
    vif,      \* each vif: what became of it and its interface
    event,    \* cfg->vif_event
    user,     \* the call of cfg80211 that holds rtnl
    work,     \* the event worker
    chip,     \* external: the interfaces the firmware has, with their ifidx
    budget,   \* calls, links and faults that are left
    hist      \* history: an event was lost, a wait timed out, a device could
              \* not be registered, the firmware removed an interface unasked

vars == <<drvr, ifp, vif, event, user, work, chip, budget, hist>>

NoIf == [state |-> "none", bss |-> 0, ifidx |-> 0, vif |-> Null]
NoVif == [state |-> "none", ifp |-> Null]
Unarmed == [vif |-> Null, action |-> "0"]
IdleUser == [pc |-> "idle", op |-> "ADD", vif |-> Null, ifp |-> Null]
IdleWork == [pc |-> "idle", bss |-> 0, ifidx |-> 0, ifp |-> Null, woke |-> FALSE]

\* brcmf_bus_started has added and attached the primary interface.
Init ==
    /\ drvr = [iflist |-> [b \in Bss |-> IF b = 0 THEN 1 ELSE Null],
               if2bss |-> [i \in Ifidx |-> IF i = 0 THEN 0 ELSE Null],
               event_q |-> <<>>, ndev_global |-> 1]
    /\ ifp = [p \in Ifp |-> IF p = 1 THEN [NoIf EXCEPT !.state = "registered",
                                                       !.vif = 1] ELSE NoIf]
    /\ vif = [v \in Vif |-> IF v = 1 THEN [state |-> "used", ifp |-> 1]
                            ELSE NoVif]
    /\ event = Unarmed /\ user = IdleUser /\ work = IdleWork
    /\ chip = [b \in Bss |-> IF b = 0 THEN 0 ELSE Null]
    /\ budget \in Load
    /\ hist = {}

Live(p) == p # Null /\ ifp[p].state \in {"allocated", "registered"}
LiveVif(v) == v # Null /\ vif[v].state = "used"
Least(S) == CHOOSE s \in S : \A t \in S : s <= t
rtnl_free == user.pc = "idle"

Fault == budget.faults > 0 /\ budget' = [budget EXCEPT !.faults = @ - 1]
Happened(what) == hist' = hist \cup what

\* An event reaches the queue, or there is no memory for it.
SendEvent(action, b, i) ==
    \/ /\ drvr' = [drvr EXCEPT !.event_q =
                     Append(@, [action |-> action, bss |-> b, ifidx |-> i])]
       /\ UNCHANGED <<budget, hist>>
    \/ Fault /\ Happened({"lost"}) /\ UNCHANGED drvr

\* The device is freed, and with it the vif (brcmf_cfg80211_free_netdev).
FreeNetdev(p) ==
    /\ ifp' = [ifp EXCEPT ![p].state = "freed"]
    /\ vif' = IF ifp[p].vif = Null THEN vif
              ELSE [vif EXCEPT ![ifp[p].vif].state = "freed"]

Cleared_Invalid(b, i) ==
    [drvr EXCEPT !.iflist[b] = -1, !.if2bss[i] = IF @ = b THEN Null ELSE @]

\* The end of brcmf_del_if.
Cleared(b, i) ==
    [drvr EXCEPT !.iflist[b] = Null, !.if2bss[i] = IF @ = b THEN Null ELSE @]

(***************************************************************************)
(* The calls of cfg80211.                                                  *)
(***************************************************************************)
arm_vif_event(v) == event' = [vif |-> v, action |-> "0"]
Goto(pc) == user' = [user EXCEPT !.pc = pc]

\* brcmf_cfg80211_add_iface, brcmf_mon_add_vif
AddIface ==
    /\ user.pc = "idle" /\ event.vif = Null /\ budget.calls > 0
    /\ \E v \in Vif :
         /\ vif[v].state = "none" /\ \A w \in Vif : vif[w].state = "none" => v <= w
         /\ vif' = [vif EXCEPT ![v].state = "used"]
         /\ arm_vif_event(v)
         /\ user' = [pc |-> "request", op |-> "ADD", vif |-> v, ifp |-> Null]
    /\ budget' = [budget EXCEPT !.calls = @ - 1]
    /\ UNCHANGED <<drvr, ifp, work, chip, hist>>

\* brcmf_cfg80211_del_iface, brcmf_cfg80211_del_ap_iface
DelIface(p) ==
    /\ user.pc = "idle" /\ event.vif = Null /\ budget.calls > 0
    /\ ifp[p].state = "registered" /\ ifp[p].bss # 0
    /\ arm_vif_event(ifp[p].vif)
    /\ user' = [pc |-> "request", op |-> "DEL", vif |-> ifp[p].vif, ifp |-> p]
    /\ budget' = [budget EXCEPT !.calls = @ - 1]
    /\ UNCHANGED <<drvr, ifp, vif, work, chip, hist>>

\* brcmf_cfg80211_request_ap_if: the first index that is free in the table;
\* the firmware tells of an interface it did not have.
RequestApIf ==
    /\ user.pc = "request" /\ user.op = "ADD"
    /\ LET free == {b \in Bss : drvr.iflist[b] = Null}
           b == Least(free)
           i == Least(Ifidx \ {chip[c] : c \in Bss})
       IN IF free = {} THEN /\ Goto("unarm")
                            /\ UNCHANGED <<drvr, chip, budget, hist>>
          ELSE /\ Goto("wait")
               /\ IF chip[b] = Null
                    THEN chip' = [chip EXCEPT ![b] = i] /\ SendEvent("ADD", b, i)
                    ELSE UNCHANGED <<drvr, chip, budget, hist>>
    /\ UNCHANGED <<ifp, vif, event, work>>

\* The iovar interface_remove, which fails if there is nothing to remove.
RequestRemove ==
    /\ user.pc = "request" /\ user.op = "DEL"
    /\ LET b == ifp[user.ifp].bss
       IN IF chip[b] = Null THEN /\ Goto("unarm")
                                 /\ UNCHANGED <<drvr, chip, budget, hist>>
          ELSE /\ Goto("wait")
               /\ chip' = [chip EXCEPT ![b] = Null]
               /\ SendEvent("DEL", b, chip[b])
    /\ UNCHANGED <<ifp, vif, event, work>>

\* The iovar fails, and the firmware has not done it.
RequestFails ==
    /\ user.pc = "request" /\ Fault
    /\ Goto("unarm")
    /\ UNCHANGED <<drvr, ifp, vif, event, work, chip, hist>>

\* brcmf_cfg80211_wait_vif_event
WaitDone ==
    /\ user.pc = "wait" /\ event.action = user.op
    /\ Goto("done")
    /\ UNCHANGED <<drvr, ifp, vif, event, work, chip, budget, hist>>

WaitTimeout_OtherEvent ==
    /\ user.pc = "wait" /\ event.action \notin {user.op, "0"}
    /\ Goto("unarm") /\ Happened({"timedout"})
    /\ UNCHANGED <<drvr, ifp, vif, event, work, chip, budget>>

WaitTimeout ==
    /\ user.pc = "wait" /\ event.action # user.op
    /\ Goto("unarm") /\ Happened({"timedout"})
    /\ UNCHANGED <<drvr, ifp, vif, event, work, chip, budget>>

DoneAdd ==
    /\ user.pc = "done" /\ user.op = "ADD"
    /\ arm_vif_event(Null)
    /\ Goto("attach")
    /\ UNCHANGED <<drvr, ifp, vif, work, chip, budget, hist>>

\* brcmf_net_attach: ndev_global is set before the device is registered.  (There
\* is an interface: the handler sets it together with the action.)  If it is
\* refused, brcmf_ap_add_vif frees the device, brcmf_mon_add_vif does not.
NetAttach ==
    /\ user.pc = "attach"
    /\ LET p == vif[user.vif].ifp
       IN \/ /\ drvr' = [drvr EXCEPT !.ndev_global = p]
             /\ ifp' = [ifp EXCEPT ![p].state = "registered"]
             /\ user' = IdleUser
             /\ UNCHANGED <<budget, hist>>
          \/ /\ Fault /\ Happened({"refused"})
             /\ drvr' = [drvr EXCEPT !.ndev_global = p,
                                     !.iflist[ifp[p].bss] = Null]
             /\ ifp' \in {ifp, [ifp EXCEPT ![p].state = "freed"]}
             /\ Goto("free")
    /\ UNCHANGED <<vif, event, work, chip>>

FreeVif ==
    /\ user.pc = "free"
    /\ vif' = [vif EXCEPT ![user.vif].state = "freed"]
    /\ user' = IdleUser
    /\ UNCHANGED <<drvr, ifp, event, work, chip, budget, hist>>

DoneDel_KeepsEntry ==
    /\ user.pc = "done" /\ user.op = "DEL"
    /\ Goto("removed")
    /\ UNCHANGED <<drvr, ifp, vif, event, work, chip, budget, hist>>

\* brcmf_remove_interface with rtnl held: the device is freed with the lock.
DoneDel ==
    /\ user.pc = "done" /\ user.op = "DEL"
    /\ LET p == user.ifp
       IN IF drvr.iflist[ifp[p].bss] = p
            THEN drvr' = Cleared(ifp[p].bss, ifp[p].ifidx) /\ Goto("removed")
            ELSE UNCHANGED drvr /\ Goto("unarm")
    /\ UNCHANGED <<ifp, vif, event, work, chip, budget, hist>>

Removed ==
    /\ user.pc = "removed"
    /\ arm_vif_event(Null) /\ Goto("unlock")
    /\ UNCHANGED <<drvr, ifp, vif, work, chip, budget, hist>>

\* rtnl_unlock
Unlock ==
    /\ user.pc = "unlock"
    /\ FreeNetdev(user.ifp)
    /\ user' = IdleUser
    /\ UNCHANGED <<drvr, event, work, chip, budget, hist>>

Unarm_FreesVif ==
    /\ user.pc = "unarm"
    /\ arm_vif_event(Null) /\ Goto("free")
    /\ UNCHANGED <<drvr, ifp, vif, work, chip, budget, hist>>

Unarm ==
    /\ user.pc = "unarm"
    /\ arm_vif_event(Null)
    /\ user' = IF user.op = "ADD" THEN [user EXCEPT !.pc = "free"] ELSE IdleUser
    /\ UNCHANGED <<drvr, ifp, vif, work, chip, budget, hist>>

User ==
    \/ RequestApIf \/ RequestRemove \/ RequestFails \/ WaitDone \/ WaitTimeout
    \/ DoneAdd \/ NetAttach \/ FreeVif
    \/ DoneDel \/ Removed \/ Unlock \/ Unarm
Call == AddIface \/ \E p \in Ifp : DelIface(p)

(***************************************************************************)
(* brcmf_fweh_event_worker and brcmf_fweh_handle_if_event.                 *)
(***************************************************************************)
WorkerGoto(pc) == work' = [work EXCEPT !.pc = pc]

TakeEvent ==
    /\ work.pc = "idle" /\ drvr.event_q # <<>>
    /\ LET e == Head(drvr.event_q)
           p == drvr.iflist[e.bss]
       IN work' = IF e.action # "ADD" /\ p = Null THEN IdleWork
                  ELSE [pc |-> e.action, bss |-> e.bss, ifidx |-> e.ifidx,
                        ifp |-> p, woke |-> FALSE]
    /\ drvr' = [drvr EXCEPT !.event_q = Tail(@)]
    /\ UNCHANGED <<ifp, vif, event, user, chip, budget, hist>>

\* brcmf_add_if finds the interface there: its DEL was missed.
DetachOld ==
    /\ work.pc = "ADD" /\ work.ifp # Null
    /\ ifp[work.ifp].state = "registered" => rtnl_free
    /\ FreeNetdev(work.ifp)
    /\ drvr' = [drvr EXCEPT !.iflist[work.bss] = Null]
    /\ work' = [work EXCEPT !.ifp = Null]
    /\ UNCHANGED <<event, user, chip, budget, hist>>

\* The rest of brcmf_add_if, which may lack the memory for a device.  (It
\* ignores an ifidx of 0 at another index, which a firmware that gives each
\* interface an ifidx of its own does not send.)
AddIf ==
    /\ work.pc = "ADD" /\ work.ifp = Null
    /\ \E p \in Ifp :
         /\ ifp[p].state = "none" /\ \A q \in Ifp : ifp[q].state = "none" => p <= q
         /\ ifp' = [ifp EXCEPT ![p] = [state |-> "allocated", bss |-> work.bss,
                                       ifidx |-> work.ifidx, vif |-> Null]]
         /\ drvr' = [drvr EXCEPT
                       !.iflist[work.bss] = p,
                       !.if2bss[work.ifidx] = IF @ = Null THEN work.bss ELSE @]
         /\ work' = [work EXCEPT !.pc = "notify", !.ifp = p]
    /\ UNCHANGED <<vif, event, user, chip, budget, hist>>

AddIfFails ==
    /\ work.pc = "ADD" /\ work.ifp = Null /\ Fault /\ Happened({"lost"})
    /\ work' = IdleWork
    /\ UNCHANGED <<drvr, ifp, vif, event, user, chip>>

\* brcmf_notify_vif_event of an interface that is there now; the process
\* that waited may have timed out.
NotifyAdd ==
    /\ work.pc = "notify"
    /\ event' = [event EXCEPT !.action = "ADD"]
    /\ IF event.vif = Null THEN UNCHANGED <<ifp, vif>>
       ELSE /\ ifp' = [ifp EXCEPT ![work.ifp].vif = event.vif]
            /\ vif' = [vif EXCEPT ![event.vif].ifp = work.ifp]
    /\ work' = IdleWork
    /\ UNCHANGED <<drvr, user, chip, budget, hist>>

NotifyDel ==
    /\ work.pc = "DEL"
    /\ event' = [event EXCEPT !.action = "DEL"]
    /\ work' = [work EXCEPT !.pc = "armed", !.woke = event.vif # Null]
    /\ UNCHANGED <<drvr, ifp, vif, user, chip, budget, hist>>

\* Whether somebody waits is looked at again, after he has been woken.
Armed ==
    /\ work.pc = "armed"
    /\ work' = IF event.vif # Null THEN IdleWork
               ELSE [work EXCEPT !.pc = "remove"]
    /\ UNCHANGED <<drvr, ifp, vif, event, user, chip, budget, hist>>

\* brcmf_remove_interface and brcmf_del_if of an interface nobody waits for:
\* one that is not in the table is left alone.  The table is looked at without
\* rtnl, which brcmf_net_detach then waits for if the device is registered.
NotInTable ==
    /\ work.pc = "remove" /\ drvr.iflist[work.bss] # work.ifp
    /\ work' = IdleWork
    /\ UNCHANGED <<drvr, ifp, vif, event, user, chip, budget, hist>>

InTable_Unchecked ==
    /\ work.pc = "remove"
    /\ WorkerGoto("detach")
    /\ UNCHANGED <<drvr, ifp, vif, event, user, chip, budget, hist>>

InTable ==
    /\ work.pc = "remove" /\ drvr.iflist[work.bss] = work.ifp
    /\ WorkerGoto("detach")
    /\ UNCHANGED <<drvr, ifp, vif, event, user, chip, budget, hist>>

Unregister_NoClear ==
    /\ work.pc = "detach"
    /\ ifp[work.ifp].state = "registered" => rtnl_free
    /\ FreeNetdev(work.ifp)
    /\ work' = IdleWork
    /\ UNCHANGED <<drvr, event, user, chip, budget, hist>>

Unregister ==
    /\ work.pc = "detach"
    /\ ifp[work.ifp].state = "registered" => rtnl_free
    /\ FreeNetdev(work.ifp)
    /\ WorkerGoto("clear")
    /\ UNCHANGED <<drvr, event, user, chip, budget, hist>>

Clear ==
    /\ work.pc = "clear"
    /\ drvr' = Cleared(work.bss, ifp[work.ifp].ifidx)
    /\ work' = IdleWork
    /\ UNCHANGED <<ifp, vif, event, user, chip, budget, hist>>

\* Any other event: the handler uses the interface and its vif.
LinkEvent ==
    /\ work.pc = "LINK"
    /\ work' = IdleWork
    /\ UNCHANGED <<drvr, ifp, vif, event, user, chip, budget, hist>>

Worker ==
    \/ TakeEvent \/ DetachOld \/ AddIf \/ AddIfFails \/ NotifyAdd \/ NotifyDel
    \/ Armed \/ NotInTable \/ InTable \/ Unregister \/ Clear \/ LinkEvent

(***************************************************************************)
(* The firmware: events of a link, and an interface it removes by itself.  *)
(***************************************************************************)
ChipLink(b) ==
    /\ chip[b] # Null /\ budget.links > 0
    /\ budget' = [budget EXCEPT !.links = @ - 1]
    /\ drvr' = [drvr EXCEPT !.event_q =
                  Append(@, [action |-> "LINK", bss |-> b, ifidx |-> chip[b]])]
    /\ UNCHANGED <<ifp, vif, event, user, work, chip, hist>>

ChipRemoves(b) ==
    /\ b # 0 /\ chip[b] # Null /\ Fault
    /\ chip' = [chip EXCEPT ![b] = Null]
    /\ \/ /\ drvr' = [drvr EXCEPT !.event_q =
                      Append(@, [action |-> "DEL", bss |-> b, ifidx |-> chip[b]])]
          /\ Happened({"unasked"})
       \/ UNCHANGED drvr /\ Happened({"unasked", "lost"})
    /\ UNCHANGED <<ifp, vif, event, user, work>>

Next == \/ Call \/ User \/ Worker
        \/ \E b \in Bss : ChipLink(b) \/ ChipRemoves(b)

Spec == Init /\ [][Next]_vars

\* Threads run, waits end, and rtnl goes to the worker if it waits long enough.
FairSpec == /\ Spec
            /\ WF_vars(User) /\ WF_vars(Worker)
            /\ SF_vars(DetachOld) /\ SF_vars(Unregister)

(***************************************************************************)
(* PROPERTIES                                                              *)
(*                                                                         *)
(* Three faults lead out of what the code can repair, and the properties   *)
(* say which: a wait of 1.5 s that ended before its event came, a device   *)
(* that could not be registered, an interface the firmware removed by      *)
(* itself.                                                                 *)
(***************************************************************************)
Without(faults) == hist \cap faults = {}

\* The tables, the interfaces and the event have their types.
TypeOK ==
    /\ drvr.iflist \in [Bss -> Ifp \cup {Null}]
    /\ drvr.if2bss \in [Ifidx -> Bss \cup {Null}]
    /\ drvr.ndev_global \in Ifp
    /\ \A p \in Ifp :
         /\ ifp[p].state \in {"none", "allocated", "registered", "freed"}
         /\ ifp[p].bss \in Bss /\ ifp[p].ifidx \in Ifidx
         /\ ifp[p].vif \in Vif \cup {Null}
    /\ \A v \in Vif : vif[v].state \in {"none", "used", "freed"}
    /\ event.vif \in Vif \cup {Null} /\ work.ifp \in Ifp \cup {Null}

(***************************************************************************)
(* The interface table, which the receive path and every event look in,    *)
(* holds no interface that has been freed, but for the moment in which the *)
(* worker has unregistered a device and not yet cleared its entry          *)
(* (brcmf_del_if, core.c:1032-1049), and none under a wrong index.         *)
(***************************************************************************)
TableIsLive ==
    \A b \in Bss : drvr.iflist[b] # Null =>
      \/ Live(drvr.iflist[b]) /\ ifp[drvr.iflist[b]].bss = b
      \/ work.pc = "clear" /\ work.bss = b

(***************************************************************************)
(* A device that is registered has its vif, and the two refer to each      *)
(* other (cfg80211.c:6316, 5701): no call that failed has freed it.        *)
(***************************************************************************)
RegisteredHasVif ==
    Without({"timedout", "unasked"}) =>
      \A p \in Ifp : ifp[p].state = "registered" =>
        LiveVif(ifp[p].vif) /\ vif[ifp[p].vif].ifp = p

(***************************************************************************)
(* The handler of any other event finds the interface and the vif that it  *)
(* uses without a check (fweh.c:268): the queue keeps them in order, and a *)
(* deletion waits for the event that is last.                              *)
(***************************************************************************)
HandlerFindsVif ==
    (work.pc = "LINK" /\ Without({"timedout", "unasked", "refused"})) =>
      Live(work.ifp) /\ LiveVif(ifp[work.ifp].vif)

(***************************************************************************)
(* A device is freed once.  The caller the worker has woken and the worker *)
(* itself, when it finds that nobody waits any longer (fweh.c:178), may    *)
(* both be about to remove the same interface, also one the firmware       *)
(* removed by itself and one the caller no longer waits for, and the       *)
(* worker looks in the table (core.c:1056, 1012) before it waits for rtnl  *)
(* (core.c:781).  What the code relies on is that whoever could take the   *)
(* interface out meanwhile waits for an event the worker would have to     *)
(* handle first.  A call that cannot register the device does not wait     *)
(* ("refused"), and may free it while the worker is about to.  And a call  *)
(* attaches no device that has been freed, unless it was handed one by an  *)
(* event that came too late or that nobody asked for.                      *)
(***************************************************************************)
NoneFreedTwice ==
  [][ /\ (user.pc = "unlock" /\ user' # user) => Live(user.ifp)
      /\ (work.pc = "detach" /\ work'.pc = "clear" /\ Without({"refused"})) =>
           Live(work.ifp)
      /\ (user.pc = "attach" /\ user' # user /\ Without({"timedout", "unasked"})) =>
           Live(vif[user.vif].ifp)]_vars

(***************************************************************************)
(* When nothing is under way, the table has the interfaces the firmware    *)
(* has, and if2bss leads the frames of each to it.                         *)
(***************************************************************************)
AgreesWithChip ==
    (/\ user.pc = "idle" /\ work.pc = "idle" /\ drvr.event_q = <<>>
     /\ Without({"timedout", "unasked", "refused", "lost"})) =>
      \A b \in Bss : /\ drvr.iflist[b] # Null <=> chip[b] # Null
                     /\ chip[b] # Null => drvr.if2bss[chip[b]] = b

(***************************************************************************)
(* A call of cfg80211 returns, though it waits, with rtnl held, for an     *)
(* event of a worker that may be waiting for rtnl.                         *)
(***************************************************************************)
CallsReturn == user.pc # "idle" ~> user.pc = "idle"

\* And the worker gets through its queue.
EventsHandled == drvr.event_q # <<>> ~> drvr.event_q = <<>>

(***************************************************************************)
(* The netlink handler has an interface for its ioctl, or sees that there  *)
(* is none (core.c:126).  It does not: ndev_global keeps the device that   *)
(* was attached last, whatever became of it.                               *)
(***************************************************************************)
NetlinkInterfaceIsLive == drvr.ndev_global = Null \/ Live(drvr.ndev_global)
=============================================================================
