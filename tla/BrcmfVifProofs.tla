--------------------------- MODULE BrcmfVifProofs ---------------------------
(***************************************************************************)
(* The safety properties of the interfaces, for any number of them and any *)
(* load.  The invariant has four layers: what holds whatever happens, and  *)
(* what holds while the history names none of the first two, three, four   *)
(* of the faults.  A fault that is in the history stays there, so that a   *)
(* layer's hypothesis, true after a step, was true before it.              *)
(***************************************************************************)
EXTENDS BrcmfVif, FiniteSetTheorems, SequenceTheorems, WellFoundedInduction,
        TLAPS

(***************************************************************************)
(* What holds whatever happens.                                            *)
(***************************************************************************)
Event == [action : {"ADD", "DEL", "LINK"}, bss : Bss, ifidx : Ifidx]
DrvrType == [iflist : [Bss -> Ifp \cup {Null}],
             if2bss : [Ifidx -> Bss \cup {Null}],
             event_q : Seq(Event), ndev_global : Ifp]
IfpType == [Ifp -> [state : {"none", "allocated", "registered", "freed"},
                    bss : Bss, ifidx : Ifidx, vif : Vif \cup {Null}]]
VifType == [Vif -> [state : {"none", "used", "freed"}, ifp : Ifp \cup {Null}]]
UserType == [pc : {"idle", "request", "wait", "done", "attach", "free",
                   "unarm", "removed", "unlock"},
             op : {"ADD", "DEL"}, vif : Vif \cup {Null}, ifp : Ifp \cup {Null}]
WorkType == [pc : {"idle", "ADD", "DEL", "LINK", "notify", "armed", "remove",
                   "detach", "clear"},
             bss : Bss, ifidx : Ifidx, ifp : Ifp \cup {Null}, woke : BOOLEAN]

Types == /\ drvr \in DrvrType /\ ifp \in IfpType /\ vif \in VifType
         /\ event \in [vif : Vif \cup {Null}, action : {"0", "ADD", "DEL"}]
         /\ user \in UserType /\ work \in WorkType
         /\ chip \in [Bss -> Ifidx \cup {Null}]

\* A call has its vif, and its interface if it deletes one, which stays
\* registered, for only who holds rtnl unregisters one; the event is armed
\* with that vif from the request to the end of the wait.
UserShape ==
    /\ user.op = "ADD" => user.pc \notin {"removed", "unlock"}
    /\ user.op = "DEL" => /\ user.pc \notin {"idle", "attach", "free"}
                          /\ user.ifp # Null
                          /\ ifp[user.ifp].state = "registered"
    /\ user.pc # "idle" => user.vif # Null /\ vif[user.vif].state # "none"
    /\ event.vif =
         IF user.pc \in {"request", "wait", "done", "unarm", "removed"}
           THEN user.vif ELSE Null
\* The vif has its interface when the event says so, and refers to one that
\* has been given a vif.
VifShape ==
    /\ event.vif # Null /\ event.action = "ADD" => vif[event.vif].ifp # Null
    /\ user.op = "ADD" /\ user.pc \in {"done", "attach"} =>
         vif[user.vif].ifp # Null
    /\ \A v \in Vif : vif[v].ifp # Null =>
         ifp[vif[v].ifp].state # "none" /\ ifp[vif[v].ifp].vif # Null
    /\ \A p \in Ifp : ifp[p].vif # Null => vif[ifp[p].vif].state # "none"
    /\ \A p \in Ifp : ifp[p].state = "registered" => ifp[p].vif # Null
WorkShape ==
    /\ work.pc \notin {"idle", "ADD"} => work.ifp # Null
    /\ work.ifp # Null =>
         ifp[work.ifp].bss = work.bss /\ ifp[work.ifp].state # "none"
\* An entry of the table is an interface of that index, and it is live.
TableShape ==
    \A b \in Bss : drvr.iflist[b] # Null =>
      /\ ifp[drvr.iflist[b]].bss = b /\ ifp[drvr.iflist[b]].state # "none"
      /\ \/ ifp[drvr.iflist[b]].state \in {"allocated", "registered"}
         \/ work.pc = "clear" /\ work.bss = b
\* What a call has taken out of the table does not come back.
Gone == user.pc \in {"removed", "unlock"} =>
          \A b \in Bss : drvr.iflist[b] # user.ifp

Always == Types /\ UserShape /\ VifShape /\ WorkShape /\ TableShape /\ Gone

(***************************************************************************)
(* Lemmas about the operators of the model.                                *)
(***************************************************************************)

\* A non-empty set of natural numbers has its least.
LEMMA LeastOf ==
    ASSUME NEW S \in SUBSET Nat, S # {}
    PROVE  Least(S) \in S /\ \A t \in S : Least(S) <= t
<1>1. \E x \in S : \A y \in S : <<y, x>> \notin OpToRel(<, Nat)
  BY NatLessThanWellFounded, WFMin
<1>2. PICK x \in S : \A y \in S : <<y, x>> \notin OpToRel(<, Nat)
  BY <1>1
<1>3. \A y \in S : ~(y < x)
  BY <1>2 DEF OpToRel
<1>4. \A y \in S : x <= y
  BY <1>3
<1>5. QED
  BY <1>4 DEF Least

\* While the firmware lacks one of the interfaces, there is an ifidx for it.
LEMMA FreeIfidx ==
    ASSUME chip \in [Bss -> Ifidx \cup {Null}], NEW b \in Bss, chip[b] = Null
    PROVE  Ifidx \ {chip[c] : c \in Bss} # {}
<1> DEFINE B == Bss \ {b}
           T == {chip[c] : c \in B}
           f == [c \in B |-> chip[c]]
<1>1. IsFiniteSet(B) /\ Cardinality(B) = Cardinality(Bss) - 1
  BY IndexAssumption, FS_RemoveElement
<1>2. f \in Surjection(B, T)
  BY DEF Surjection
<1>3. IsFiniteSet(T) /\ Cardinality(T) <= Cardinality(B)
  BY <1>1, <1>2, FS_Surjection
<1>4. Cardinality(Bss) \in Nat /\ Cardinality(Ifidx) \in Nat
        /\ Cardinality(T) \in Nat
  BY <1>3, IndexAssumption, FS_CardinalityType
<1>5. ~(Ifidx \subseteq T)
  <2>1. SUFFICES ASSUME Ifidx \subseteq T PROVE FALSE
    OBVIOUS
  <2>2. Cardinality(Ifidx) <= Cardinality(T)
    BY <1>3, <2>1, FS_Subset
  <2>3. QED
    BY <1>1, <1>3, <1>4, <2>2, IndexAssumption
<1>6. {chip[c] : c \in Bss} \subseteq T \cup {Null}
  OBVIOUS
<1>7. PICK i \in Ifidx : i \notin T
  BY <1>5
<1>8. i # Null
  BY NullAssumption
<1>9. QED
  BY <1>6, <1>7, <1>8

\* The ifidx that the firmware gives, and the place that the driver takes.
LEMMA ChosenIndices ==
    ASSUME Types, {b \in Bss : drvr.iflist[b] = Null} # {}
    PROVE  LET b == Least({c \in Bss : drvr.iflist[c] = Null})
               i == Least(Ifidx \ {chip[c] : c \in Bss})
           IN  /\ b \in Bss /\ drvr.iflist[b] = Null
               /\ chip[b] = Null => /\ i \in Ifidx /\ i # Null
                                    /\ \A c \in Bss : chip[c] # i
<1> DEFINE F == {c \in Bss : drvr.iflist[c] = Null}
           b == Least(F)
           I == Ifidx \ {chip[c] : c \in Bss}
<1>1. b \in F
  BY LeastOf, IndexAssumption
<1>2. ASSUME chip[b] = Null PROVE Least(I) \in I
  <2>1. I # {}
    BY <1>1, <1>2, FreeIfidx DEF Types
  <2>2. I \in SUBSET Nat
    BY IndexAssumption
  <2> HIDE DEF I
  <2>3. QED
    BY <2>1, <2>2, LeastOf
<1>3. \A i \in I : i # Null
  BY NullAssumption
<1>4. QED
  BY <1>1, <1>2, <1>3

\* An event is queued behind the others, and taken from before them.
LEMMA Queued ==
    ASSUME NEW q \in Seq(Event), NEW e \in Event
    PROVE  /\ Append(q, e) \in Seq(Event) /\ Len(q) \in Nat
           /\ DOMAIN q = 1..Len(q) /\ DOMAIN Append(q, e) = 1..(Len(q) + 1)
           /\ \A k \in DOMAIN q : Append(q, e)[k] = q[k] /\ q[k] \in Event
           /\ Append(q, e)[Len(q) + 1] = e
  BY AppendProperties, LenProperties, ElementOfSeq

LEMMA Dequeued ==
    ASSUME NEW q \in Seq(Event), q # <<>>
    PROVE  /\ Head(q) = q[1] /\ Head(q) \in Event /\ Tail(q) \in Seq(Event)
           /\ Len(q) \in Nat /\ 1 \in DOMAIN q /\ DOMAIN Tail(q) = 1..(Len(q) - 1)
           /\ DOMAIN q = 1..Len(q)
           /\ \A k \in DOMAIN Tail(q) : k + 1 \in DOMAIN q /\ Tail(q)[k] = q[k + 1]
<1>1. Len(q) \in Nat /\ Len(q) # 0 /\ DOMAIN q = 1..Len(q)
  BY LenProperties, EmptySeq
<1>2. /\ Tail(q) \in Seq(Event) /\ Head(q) \in Event /\ Len(Tail(q)) = Len(q) - 1
      /\ \A k \in 1..Len(Tail(q)) : Tail(q)[k] = q[k + 1]
  BY HeadTailProperties
<1>3. DOMAIN Tail(q) = 1..(Len(q) - 1)
  BY <1>2, LenProperties
<1>4. Head(q) = q[1]
  OBVIOUS
<1>5. QED
  BY <1>1, <1>2, <1>3, <1>4

(***************************************************************************)
(* What the actions do, field by field.                                    *)
(***************************************************************************)
IfpGets(p, s) ==
    /\ ifp' \in IfpType
    /\ \A r \in Ifp : /\ ifp'[r].state = IF r = p THEN s ELSE ifp[r].state
                      /\ ifp'[r].bss = ifp[r].bss /\ ifp'[r].ifidx = ifp[r].ifidx
                      /\ ifp'[r].vif = ifp[r].vif
VifGets(v, s) ==
    /\ vif' \in VifType
    /\ \A w \in Vif : /\ vif'[w].state = IF w = v THEN s ELSE vif[w].state
                      /\ vif'[w].ifp = vif[w].ifp
Entry(b, p) ==
    \A c \in Bss : drvr'.iflist[c] = IF c = b THEN p ELSE drvr.iflist[c]
SameTables == drvr'.iflist = drvr.iflist /\ drvr'.if2bss = drvr.if2bss
Sends(a, b, i) ==
    /\ drvr' \in DrvrType /\ SameTables
    /\ \/ drvr'.event_q = Append(drvr.event_q, [action |-> a, bss |-> b, ifidx |-> i])
       \/ drvr'.event_q = drvr.event_q /\ "lost" \in hist'
UserGets(pc) == user' = [user EXCEPT !.pc = pc]

LEMMA StateSet ==
    ASSUME ifp \in IfpType, NEW p \in Ifp, NEW s \in {"registered", "freed"},
           ifp' = [ifp EXCEPT ![p].state = s]
    PROVE  IfpGets(p, s)
  BY DEF IfpType, IfpGets

LEMMA VifStateSet ==
    ASSUME vif \in VifType, NEW v \in Vif, NEW s \in {"used", "freed"},
           vif' = [vif EXCEPT ![v].state = s]
    PROVE  VifGets(v, s)
  BY DEF VifType, VifGets

LEMMA Freed ==
    ASSUME ifp \in IfpType, vif \in VifType, NEW p \in Ifp, FreeNetdev(p)
    PROVE  IfpGets(p, "freed") /\ VifGets(ifp[p].vif, "freed")
<1>1. ifp' = [ifp EXCEPT ![p].state = "freed"]
  BY DEF FreeNetdev
<1>2. CASE ifp[p].vif = Null
  <2>1. UNCHANGED vif /\ Null \notin Vif
    BY <1>2, NullAssumption DEF FreeNetdev
  <2>2. QED
    BY <1>1, <1>2, <2>1, StateSet DEF VifGets
<1>3. CASE ifp[p].vif # Null
  <2>1. vif' = [vif EXCEPT ![ifp[p].vif].state = "freed"] /\ ifp[p].vif \in Vif
    BY <1>3 DEF FreeNetdev, IfpType
  <2>2. QED
    BY <1>1, <2>1, StateSet, VifStateSet
<1>4. QED
  BY <1>2, <1>3

LEMMA EntryCleared ==
    ASSUME drvr \in DrvrType, NEW b \in Bss, NEW i \in Ifidx, drvr' = Cleared(b, i)
    PROVE  /\ drvr' \in DrvrType /\ Entry(b, Null)
           /\ \A j \in Ifidx : drvr'.if2bss[j] =
                IF j = i /\ drvr.if2bss[j] = b THEN Null ELSE drvr.if2bss[j]
           /\ UNCHANGED drvr.event_q
<1>1. (IF drvr.if2bss[i] = b THEN Null ELSE drvr.if2bss[i]) \in Bss \cup {Null}
  BY DEF DrvrType
<1>2. QED
  BY <1>1 DEF DrvrType, Cleared, Entry

LEMMA EntryRefused ==
    ASSUME drvr \in DrvrType, NEW b \in Bss, NEW p \in Ifp,
           drvr' = [drvr EXCEPT !.ndev_global = p, !.iflist[b] = Null]
    PROVE  /\ drvr' \in DrvrType /\ Entry(b, Null)
           /\ UNCHANGED <<drvr.if2bss, drvr.event_q>>
  BY DEF DrvrType, Entry

LEMMA EventQueued ==
    ASSUME drvr \in DrvrType, NEW e \in Event,
           drvr' = [drvr EXCEPT !.event_q = Append(@, e)]
    PROVE  /\ drvr' \in DrvrType /\ SameTables
           /\ drvr'.event_q = Append(drvr.event_q, e)
  BY Queued DEF DrvrType, SameTables

LEMMA EventSent ==
    ASSUME drvr \in DrvrType, NEW a \in {"ADD", "DEL", "LINK"}, NEW b \in Bss,
           NEW i \in Ifidx, SendEvent(a, b, i)
    PROVE  Sends(a, b, i)
<1>1. [action |-> a, bss |-> b, ifidx |-> i] \in Event
  BY DEF Event
<1>2. CASE drvr' = [drvr EXCEPT !.event_q =
                     Append(@, [action |-> a, bss |-> b, ifidx |-> i])]
  BY <1>1, <1>2, EventQueued DEF Sends
<1>3. CASE Fault /\ Happened({"lost"}) /\ UNCHANGED drvr
  BY <1>3 DEF Sends, SameTables, Happened
<1>4. QED
  BY <1>2, <1>3 DEF SendEvent

LEMMA AddIfaceEffect ==
    ASSUME Always, AddIface
    PROVE  \E v \in Vif :
             /\ vif[v].state = "none" /\ VifGets(v, "used")
             /\ event' = [vif |-> v, action |-> "0"]
             /\ user' = [pc |-> "request", op |-> "ADD", vif |-> v, ifp |-> Null]
             /\ user.pc = "idle" /\ UNCHANGED <<drvr, ifp, work, chip, hist>>
<1>1. PICK v \in Vif : /\ vif[v].state = "none"
                       /\ vif' = [vif EXCEPT ![v].state = "used"]
                       /\ event' = [vif |-> v, action |-> "0"]
                       /\ user' = [pc |-> "request", op |-> "ADD", vif |-> v,
                                   ifp |-> Null]
  BY DEF AddIface, arm_vif_event
<1>2. VifGets(v, "used")
  BY <1>1, VifStateSet DEF Always, Types
<1>3. QED
  BY <1>1, <1>2 DEF AddIface

LEMMA RequestApIfEffect ==
    ASSUME Always, RequestApIf
    PROVE  /\ user.pc = "request" /\ user.op = "ADD"
           /\ UNCHANGED <<ifp, vif, event, work>>
           /\ \/ UserGets("unarm") /\ UNCHANGED <<drvr, chip, hist>>
              \/ /\ UserGets("wait")
                 /\ \E b \in Bss :
                      /\ drvr.iflist[b] = Null
                      /\ \/ chip[b] # Null /\ UNCHANGED <<drvr, chip, hist>>
                         \/ /\ chip[b] = Null
                            /\ \E i \in Ifidx : /\ chip' = [chip EXCEPT ![b] = i]
                                                /\ Sends("ADD", b, i)
                                                /\ \A c \in Bss : chip[c] # i
<1>1. CASE {b \in Bss : drvr.iflist[b] = Null} = {}
  BY <1>1 DEF RequestApIf, Goto, UserGets
<1>2. CASE {b \in Bss : drvr.iflist[b] = Null} # {}
  <2> DEFINE b == Least({c \in Bss : drvr.iflist[c] = Null})
             i == Least(Ifidx \ {chip[c] : c \in Bss})
  <2>1. /\ UserGets("wait")
        /\ \/ /\ chip[b] = Null /\ chip' = [chip EXCEPT ![b] = i]
              /\ SendEvent("ADD", b, i)
           \/ chip[b] # Null /\ UNCHANGED <<drvr, chip, hist>>
    BY <1>2 DEF RequestApIf, Goto, UserGets
  <2>2. /\ b \in Bss /\ drvr.iflist[b] = Null
        /\ chip[b] = Null => i \in Ifidx /\ \A c \in Bss : chip[c] # i
    BY <1>2, ChosenIndices DEF Always
  <2> HIDE DEF b, i
  <2>3. CASE chip[b] # Null
    BY <2>1, <2>2, <2>3 DEF RequestApIf
  <2>4. CASE chip[b] = Null
    <3>1. Sends("ADD", b, i) /\ i \in Ifidx
      BY <2>1, <2>2, <2>4, EventSent DEF Always, Types
    <3>2. QED
      BY <2>1, <2>2, <2>4, <3>1 DEF RequestApIf
  <2>5. QED
    BY <2>3, <2>4
<1>3. QED
  BY <1>1, <1>2

LEMMA RequestRemoveEffect ==
    ASSUME Always, RequestRemove
    PROVE  /\ user.pc = "request" /\ user.op = "DEL" /\ user.ifp \in Ifp
           /\ UNCHANGED <<ifp, vif, event, work>>
           /\ LET b == ifp[user.ifp].bss
              IN  /\ b \in Bss
                  /\ \/ UserGets("unarm") /\ UNCHANGED <<drvr, chip, hist>>
                        /\ chip[b] = Null
                     \/ /\ UserGets("wait") /\ chip[b] \in Ifidx
                        /\ chip' = [chip EXCEPT ![b] = Null]
                        /\ Sends("DEL", b, chip[b])
<1> DEFINE b == ifp[user.ifp].bss
<1>1. user.ifp \in Ifp /\ b \in Bss
  BY DEF RequestRemove, Always, UserShape, Types, UserType, IfpType
<1>2. \/ UserGets("unarm") /\ UNCHANGED <<drvr, chip, hist>> /\ chip[b] = Null
      \/ /\ UserGets("wait") /\ chip[b] # Null
         /\ chip' = [chip EXCEPT ![b] = Null] /\ SendEvent("DEL", b, chip[b])
  BY DEF RequestRemove, Goto, UserGets
<1>3. user.pc = "request" /\ user.op = "DEL" /\ UNCHANGED <<ifp, vif, event, work>>
  BY DEF RequestRemove
<1> HIDE DEF b
<1>4. chip[b] # Null => chip[b] \in Ifidx
  BY <1>1 DEF Always, Types
<1>5. CASE chip[b] = Null
  BY <1>1, <1>2, <1>3, <1>5 DEF b
<1>6. CASE chip[b] # Null
  <2>1. Sends("DEL", b, chip[b])
    BY <1>1, <1>2, <1>4, <1>6, EventSent DEF Always, Types
  <2>2. QED
    BY <1>1, <1>2, <1>3, <1>4, <1>6, <2>1 DEF b
<1>7. QED
  BY <1>5, <1>6

LEMMA DelIfaceEffect ==
    ASSUME Always, NEW p \in Ifp, DelIface(p)
    PROVE  /\ user.pc = "idle" /\ ifp[p].state = "registered" /\ p # Null
           /\ ifp[p].vif \in Vif
           /\ event' = [vif |-> ifp[p].vif, action |-> "0"]
           /\ user' = [pc |-> "request", op |-> "DEL", vif |-> ifp[p].vif, ifp |-> p]
           /\ UNCHANGED <<drvr, ifp, vif, work, chip, hist>>
<1>1. ifp[p].state = "registered" /\ p # Null
  BY NullAssumption DEF DelIface
<1>2. ifp[p].vif \in Vif
  BY <1>1 DEF Always, Types, IfpType, VifShape
<1>3. QED
  BY <1>1, <1>2 DEF DelIface, arm_vif_event

LEMMA ChipLinkEffect ==
    ASSUME Always, NEW b \in Bss, ChipLink(b)
    PROVE  /\ chip[b] \in Ifidx /\ drvr' \in DrvrType /\ SameTables
           /\ drvr'.event_q = Append(drvr.event_q, [action |-> "LINK", bss |-> b,
                                                    ifidx |-> chip[b]])
           /\ UNCHANGED <<ifp, vif, event, user, work, chip, hist>>
<1>1. chip[b] \in Ifidx
  BY DEF ChipLink, Always, Types
<1>2. [action |-> "LINK", bss |-> b, ifidx |-> chip[b]] \in Event
  BY <1>1 DEF Event
<1>3. QED
  BY <1>1, <1>2, EventQueued DEF ChipLink, Always, Types

LEMMA ChipRemovesEffect ==
    ASSUME Always, NEW b \in Bss, ChipRemoves(b)
    PROVE  /\ "unasked" \in hist' /\ drvr' \in DrvrType /\ SameTables
           /\ chip' \in [Bss -> Ifidx \cup {Null}]
           /\ UNCHANGED <<ifp, vif, event, user, work>>
<1>1. chip[b] \in Ifidx
  BY DEF ChipRemoves, Always, Types
<1>2. [action |-> "DEL", bss |-> b, ifidx |-> chip[b]] \in Event
  BY <1>1 DEF Event
<1>3. /\ "unasked" \in hist' /\ UNCHANGED <<ifp, vif, event, user, work>>
      /\ chip' = [chip EXCEPT ![b] = Null]
      /\ \/ drvr' = [drvr EXCEPT !.event_q =
                       Append(@, [action |-> "DEL", bss |-> b, ifidx |-> chip[b]])]
         \/ UNCHANGED drvr
  BY DEF ChipRemoves, Happened
<1>4. drvr' \in DrvrType /\ SameTables
  BY <1>2, <1>3, EventQueued DEF Always, Types, SameTables
<1>5. chip' \in [Bss -> Ifidx \cup {Null}]
  BY <1>3 DEF Always, Types
<1>6. QED
  BY <1>3, <1>4, <1>5

LEMMA NetAttachEffect ==
    ASSUME Always, NetAttach
    PROVE  LET p == vif[user.vif].ifp
           IN  /\ user.pc = "attach" /\ user.op = "ADD" /\ user.vif \in Vif
               /\ p \in Ifp /\ ifp[p].state # "none" /\ ifp[p].vif # Null
               /\ ifp[p].bss \in Bss /\ drvr' \in DrvrType
               /\ UNCHANGED <<drvr.if2bss, drvr.event_q, vif, event, work, chip>>
               /\ \/ /\ IfpGets(p, "registered") /\ user' = IdleUser
                     /\ UNCHANGED drvr.iflist /\ UNCHANGED hist
                  \/ /\ Entry(ifp[p].bss, Null) /\ UserGets("free")
                     /\ UNCHANGED ifp \/ IfpGets(p, "freed")
                     /\ hist' = hist \cup {"refused"}
<1> DEFINE p == vif[user.vif].ifp
<1>1. user.pc = "attach" /\ user.op = "ADD" /\ user.vif \in Vif
  BY DEF Always, Types, UserType, UserShape, NetAttach
<1>2. p \in Ifp /\ ifp[p].state # "none" /\ ifp[p].vif # Null /\ ifp[p].bss \in Bss
  BY <1>1 DEF Always, Types, VifType, VifShape, IfpType
<1>3. \/ /\ drvr' = [drvr EXCEPT !.ndev_global = p] /\ user' = IdleUser
         /\ ifp' = [ifp EXCEPT ![p].state = "registered"] /\ UNCHANGED hist
      \/ /\ drvr' = [drvr EXCEPT !.ndev_global = p, !.iflist[ifp[p].bss] = Null]
         /\ ifp' \in {ifp, [ifp EXCEPT ![p].state = "freed"]}
         /\ UserGets("free") /\ hist' = hist \cup {"refused"}
  BY DEF NetAttach, Goto, UserGets, Happened
<1>4. UNCHANGED <<vif, event, work, chip>>
  BY DEF NetAttach
<1> HIDE DEF p
<1>5. CASE drvr' = [drvr EXCEPT !.ndev_global = p] /\ user' = IdleUser
             /\ ifp' = [ifp EXCEPT ![p].state = "registered"] /\ UNCHANGED hist
  <2>1. IfpGets(p, "registered")
    BY <1>2, <1>5, StateSet DEF Always, Types
  <2>2. drvr' \in DrvrType /\ UNCHANGED <<drvr.iflist, drvr.if2bss, drvr.event_q>>
    BY <1>2, <1>5 DEF Always, Types, DrvrType
  <2>3. QED
    BY <1>1, <1>2, <1>4, <1>5, <2>1, <2>2 DEF p
<1>6. CASE /\ drvr' = [drvr EXCEPT !.ndev_global = p, !.iflist[ifp[p].bss] = Null]
           /\ ifp' \in {ifp, [ifp EXCEPT ![p].state = "freed"]}
           /\ UserGets("free") /\ hist' = hist \cup {"refused"}
  <2>1. /\ drvr' \in DrvrType /\ Entry(ifp[p].bss, Null)
        /\ UNCHANGED <<drvr.if2bss, drvr.event_q>>
    BY <1>2, <1>6, EntryRefused DEF Always, Types
  <2>2. UNCHANGED ifp \/ IfpGets(p, "freed")
    BY <1>2, <1>6, StateSet DEF Always, Types
  <2>3. QED
    BY <1>1, <1>2, <1>4, <1>6, <2>1, <2>2 DEF p
<1>7. QED
  BY <1>3, <1>5, <1>6

LEMMA FreeVifEffect ==
    ASSUME Always, FreeVif
    PROVE  /\ user.pc = "free" /\ user.op = "ADD" /\ user.vif \in Vif
           /\ VifGets(user.vif, "freed") /\ user' = IdleUser
           /\ UNCHANGED <<drvr, ifp, event, work, chip, hist>>
<1>1. user.pc = "free" /\ user.op = "ADD" /\ user.vif \in Vif
  BY DEF Always, Types, UserType, UserShape, FreeVif
<1>2. QED
  BY <1>1, VifStateSet DEF FreeVif, Always, Types

LEMMA DoneDelEffect ==
    ASSUME Always, DoneDel
    PROVE  LET p == user.ifp
           IN  /\ user.pc = "done" /\ user.op = "DEL"
               /\ p \in Ifp /\ ifp[p].bss \in Bss /\ ifp[p].ifidx \in Ifidx
               /\ UNCHANGED <<ifp, vif, event, work, chip, hist>>
               /\ \/ /\ drvr.iflist[ifp[p].bss] # p
                     /\ UNCHANGED drvr /\ UserGets("unarm")
                  \/ /\ drvr.iflist[ifp[p].bss] = p
                     /\ drvr' \in DrvrType /\ Entry(ifp[p].bss, Null)
                     /\ \A i \in Ifidx : drvr'.if2bss[i] =
                          IF i = ifp[p].ifidx /\ drvr.if2bss[i] = ifp[p].bss
                            THEN Null ELSE drvr.if2bss[i]
                     /\ UNCHANGED drvr.event_q /\ UserGets("removed")
<1> DEFINE p == user.ifp
<1>1. /\ user.pc = "done" /\ user.op = "DEL"
      /\ UNCHANGED <<ifp, vif, event, work, chip, hist>>
  BY DEF DoneDel
<1>2. p \in Ifp /\ ifp[p].bss \in Bss /\ ifp[p].ifidx \in Ifidx
  BY <1>1 DEF Always, Types, UserType, UserShape, IfpType
<1>3. \/ /\ drvr.iflist[ifp[p].bss] # p /\ UNCHANGED drvr /\ UserGets("unarm")
      \/ /\ drvr.iflist[ifp[p].bss] = p
         /\ drvr' = Cleared(ifp[p].bss, ifp[p].ifidx) /\ UserGets("removed")
  BY DEF DoneDel, Goto, UserGets
<1> HIDE DEF p
<1>4. CASE drvr.iflist[ifp[p].bss] # p
  BY <1>1, <1>2, <1>3, <1>4 DEF p
<1>5. CASE drvr.iflist[ifp[p].bss] = p
  <2> DEFINE b == ifp[p].bss
             i == ifp[p].ifidx
  <2>1. drvr' = Cleared(b, i) /\ drvr \in DrvrType /\ b \in Bss /\ i \in Ifidx
    BY <1>2, <1>3, <1>5 DEF Always, Types
  <2>2. UserGets("removed")
    BY <1>3, <1>5
  <2> HIDE DEF b, i
  <2>3. /\ drvr' \in DrvrType /\ Entry(b, Null) /\ UNCHANGED drvr.event_q
        /\ \A j \in Ifidx : drvr'.if2bss[j] =
             IF j = i /\ drvr.if2bss[j] = b THEN Null ELSE drvr.if2bss[j]
    BY <2>1, EntryCleared
  <2>4. QED
    BY <1>1, <1>2, <1>5, <2>2, <2>3 DEF p, b, i
<1>6. QED
  BY <1>4, <1>5

LEMMA UnlockEffect ==
    ASSUME Always, Unlock
    PROVE  /\ user.pc = "unlock" /\ user.op = "DEL" /\ user.ifp \in Ifp
           /\ IfpGets(user.ifp, "freed") /\ VifGets(ifp[user.ifp].vif, "freed")
           /\ user' = IdleUser /\ UNCHANGED <<drvr, event, work, chip, hist>>
<1>1. user.pc = "unlock" /\ user.op = "DEL" /\ user.ifp \in Ifp
  BY DEF Always, Types, UserType, UserShape, Unlock
<1>2. QED
  BY <1>1, Freed DEF Unlock, Always, Types

LEMMA TakeEventEffect ==
    ASSUME Always, TakeEvent
    PROVE  LET e == drvr.event_q[1]
               q == drvr.iflist[e.bss]
           IN  /\ work.pc = "idle" /\ drvr.event_q # <<>> /\ e \in Event
               /\ e.bss \in Bss /\ e.ifidx \in Ifidx
               /\ drvr' \in DrvrType /\ SameTables
               /\ drvr'.event_q = Tail(drvr.event_q)
               /\ UNCHANGED <<ifp, vif, event, user, chip, hist>>
               /\ \/ e.action # "ADD" /\ q = Null /\ work' = IdleWork
                  \/ /\ e.action = "ADD" \/ q # Null
                     /\ work' = [pc |-> e.action, bss |-> e.bss, ifidx |-> e.ifidx,
                                 ifp |-> q, woke |-> FALSE]
<1> DEFINE e == drvr.event_q[1]
<1>1. drvr.event_q \in Seq(Event) /\ drvr.event_q # <<>> /\ work.pc = "idle"
  BY DEF TakeEvent, Always, Types, DrvrType
<1>2. Head(drvr.event_q) = e /\ e \in Event /\ Tail(drvr.event_q) \in Seq(Event)
  BY <1>1, Dequeued
<1>3. drvr' \in DrvrType /\ SameTables /\ drvr'.event_q = Tail(drvr.event_q)
  BY <1>2 DEF TakeEvent, Always, Types, DrvrType, SameTables
<1>4. e.bss \in Bss /\ e.ifidx \in Ifidx
  BY <1>2 DEF Event
<1> HIDE DEF e
<1>5. QED
  BY <1>1, <1>2, <1>3, <1>4 DEF TakeEvent, e

LEMMA DetachOldEffect ==
    ASSUME Always, DetachOld
    PROVE  /\ work.pc = "ADD" /\ work.ifp \in Ifp /\ work.bss \in Bss
           /\ IfpGets(work.ifp, "freed") /\ VifGets(ifp[work.ifp].vif, "freed")
           /\ drvr' \in DrvrType /\ Entry(work.bss, Null)
           /\ work' = [work EXCEPT !.ifp = Null]
           /\ UNCHANGED <<event, user, chip, hist>>
<1>1. work.pc = "ADD" /\ work.ifp \in Ifp /\ work.bss \in Bss
  BY DEF DetachOld, Always, Types, WorkType
<1>2. IfpGets(work.ifp, "freed") /\ VifGets(ifp[work.ifp].vif, "freed")
  BY <1>1, Freed DEF DetachOld, Always, Types
<1>3. drvr' \in DrvrType /\ Entry(work.bss, Null)
  BY <1>1 DEF DetachOld, Always, Types, DrvrType, Entry
<1>4. QED
  BY <1>1, <1>2, <1>3 DEF DetachOld

LEMMA AddIfEffect ==
    ASSUME Always, AddIf
    PROVE  /\ work.pc = "ADD" /\ work.bss \in Bss /\ work.ifidx \in Ifidx
           /\ UNCHANGED <<vif, event, user, chip, hist>>
           /\ \E p \in Ifp :
                /\ ifp[p].state = "none" /\ p # Null /\ ifp' \in IfpType
                /\ ifp'[p].state = "allocated" /\ ifp'[p].bss = work.bss
                /\ ifp'[p].ifidx = work.ifidx /\ ifp'[p].vif = Null
                /\ \A r \in Ifp \ {p} : ifp'[r] = ifp[r]
                /\ drvr' \in DrvrType /\ Entry(work.bss, p)
                /\ \A i \in Ifidx : drvr'.if2bss[i] =
                     IF i = work.ifidx /\ drvr.if2bss[i] = Null THEN work.bss
                     ELSE drvr.if2bss[i]
                /\ UNCHANGED drvr.event_q
                /\ work' = [work EXCEPT !.pc = "notify", !.ifp = p]
<1>1. PICK p \in Ifp :
         /\ ifp[p].state = "none"
         /\ ifp' = [ifp EXCEPT ![p] = [state |-> "allocated", bss |-> work.bss,
                                       ifidx |-> work.ifidx, vif |-> Null]]
         /\ drvr' = [drvr EXCEPT
                       !.iflist[work.bss] = p,
                       !.if2bss[work.ifidx] = IF @ = Null THEN work.bss ELSE @]
         /\ work' = [work EXCEPT !.pc = "notify", !.ifp = p]
  BY DEF AddIf
<1>2. /\ work.pc = "ADD" /\ work.bss \in Bss /\ work.ifidx \in Ifidx
      /\ UNCHANGED <<vif, event, user, chip, hist>>
  BY DEF AddIf, Always, Types, WorkType
<1>3. /\ p # Null /\ ifp' \in IfpType
      /\ ifp'[p].state = "allocated" /\ ifp'[p].bss = work.bss
      /\ ifp'[p].ifidx = work.ifidx /\ ifp'[p].vif = Null
      /\ \A r \in Ifp \ {p} : ifp'[r] = ifp[r]
  BY <1>1, <1>2, NullAssumption DEF Always, Types, IfpType
<1>4. (IF drvr.if2bss[work.ifidx] = Null THEN work.bss
       ELSE drvr.if2bss[work.ifidx]) \in Bss \cup {Null}
  BY <1>2 DEF Always, Types, DrvrType
<1>5. /\ drvr' \in DrvrType /\ Entry(work.bss, p) /\ UNCHANGED drvr.event_q
      /\ \A i \in Ifidx : drvr'.if2bss[i] =
           IF i = work.ifidx /\ drvr.if2bss[i] = Null THEN work.bss
           ELSE drvr.if2bss[i]
  BY <1>1, <1>2, <1>4 DEF Always, Types, DrvrType, Entry
<1>6. QED
  BY <1>1, <1>2, <1>3, <1>5

LEMMA NotifyAddEffect ==
    ASSUME Always, NotifyAdd
    PROVE  /\ work.pc = "notify" /\ work.ifp \in Ifp
           /\ event' = [event EXCEPT !.action = "ADD"] /\ work' = IdleWork
           /\ UNCHANGED <<drvr, user, chip, hist>>
           /\ \/ event.vif = Null /\ UNCHANGED <<ifp, vif>>
              \/ /\ event.vif \in Vif /\ ifp' \in IfpType /\ vif' \in VifType
                 /\ \A r \in Ifp :
                      /\ ifp'[r].vif = IF r = work.ifp THEN event.vif ELSE ifp[r].vif
                      /\ ifp'[r].state = ifp[r].state /\ ifp'[r].bss = ifp[r].bss
                      /\ ifp'[r].ifidx = ifp[r].ifidx
                 /\ \A w \in Vif :
                      /\ vif'[w].ifp = IF w = event.vif THEN work.ifp ELSE vif[w].ifp
                      /\ vif'[w].state = vif[w].state
<1>1. work.pc = "notify" /\ work.ifp \in Ifp
  BY DEF NotifyAdd, Always, Types, WorkType, WorkShape
<1>2. CASE event.vif = Null
  BY <1>1, <1>2 DEF NotifyAdd
<1>3. CASE event.vif # Null
  <2>1. event.vif \in Vif /\ ifp' = [ifp EXCEPT ![work.ifp].vif = event.vif]
        /\ vif' = [vif EXCEPT ![event.vif].ifp = work.ifp]
    BY <1>3 DEF NotifyAdd, Always, Types
  <2>2. /\ ifp' \in IfpType
        /\ \A r \in Ifp :
             /\ ifp'[r].vif = IF r = work.ifp THEN event.vif ELSE ifp[r].vif
             /\ ifp'[r].state = ifp[r].state /\ ifp'[r].bss = ifp[r].bss
             /\ ifp'[r].ifidx = ifp[r].ifidx
    BY <1>1, <2>1 DEF Always, Types, IfpType
  <2>3. /\ vif' \in VifType
        /\ \A w \in Vif :
             /\ vif'[w].ifp = IF w = event.vif THEN work.ifp ELSE vif[w].ifp
             /\ vif'[w].state = vif[w].state
    BY <1>1, <2>1 DEF Always, Types, VifType
  <2>4. QED
    BY <1>1, <2>1, <2>2, <2>3 DEF NotifyAdd
<1>4. QED
  BY <1>2, <1>3

LEMMA UnregisterEffect ==
    ASSUME Always, Unregister
    PROVE  /\ work.pc = "detach" /\ work.ifp \in Ifp /\ work.bss \in Bss
           /\ IfpGets(work.ifp, "freed") /\ VifGets(ifp[work.ifp].vif, "freed")
           /\ work' = [work EXCEPT !.pc = "clear"]
           /\ UNCHANGED <<drvr, event, user, chip, hist>>
<1>1. work.pc = "detach" /\ work.ifp \in Ifp /\ work.bss \in Bss
  BY DEF Unregister, Always, Types, WorkType, WorkShape
<1>2. QED
  BY <1>1, Freed DEF Unregister, WorkerGoto, Always, Types

LEMMA ClearEffect ==
    ASSUME Always, Clear
    PROVE  /\ work.pc = "clear" /\ work.bss \in Bss
           /\ drvr' \in DrvrType /\ Entry(work.bss, Null) /\ work' = IdleWork
           /\ UNCHANGED <<ifp, vif, event, user, chip, hist>>
<1>1. /\ work.pc = "clear" /\ work.ifp \in Ifp /\ work.bss \in Bss
      /\ ifp[work.ifp].ifidx \in Ifidx
  BY DEF Clear, Always, Types, WorkType, WorkShape, IfpType
<1>2. QED
  BY <1>1, EntryCleared DEF Clear, Always, Types

(***************************************************************************)
(* The first layer is an invariant of every action.                        *)
(***************************************************************************)

LEMMA IdleTypes == IdleUser \in UserType /\ IdleWork \in WorkType
  BY IndexAssumption DEF IdleUser, IdleWork, UserType, WorkType

LEMMA InitAlways == Init => Always
<1> SUFFICES ASSUME Init PROVE Always
  OBVIOUS
<1> USE NullAssumption, IndexAssumption, PrimaryAssumption
         DEF Init, NoIf, NoVif, Unarmed, IdleUser, IdleWork
<1>1. Types
  <2>1. drvr \in DrvrType
    <3>1. <<>> \in Seq(Event)
      OBVIOUS
    <3>2. QED
      BY <3>1 DEF DrvrType
  <2>2. ifp \in IfpType
    BY DEF IfpType
  <2>3. QED
    BY <2>1, <2>2 DEF Types, VifType, UserType, WorkType
<1>2. UserShape /\ VifShape /\ WorkShape
  BY DEF UserShape, VifShape, WorkShape
<1>3. TableShape /\ Gone
  BY DEF TableShape, Gone
<1>4. QED
  BY <1>1, <1>2, <1>3 DEF Always

\* The steps of a call that change neither tables nor interfaces.
LEMMA CallAlways ==
    ASSUME Always,
           RequestFails \/ WaitDone \/ WaitTimeout \/ DoneAdd \/ Removed \/ Unarm
    PROVE  Always'
<1>1. UNCHANGED <<drvr, ifp, vif, work, chip>>
  BY DEF RequestFails, WaitDone, WaitTimeout, DoneAdd, Removed, Unarm
<1>2. \/ user' = [user EXCEPT !.pc = "unarm"] /\ UNCHANGED event
           /\ user.pc \in {"request", "wait"}
      \/ user' = [user EXCEPT !.pc = "done"] /\ UNCHANGED event
           /\ user.pc = "wait" /\ event.action = user.op
      \/ user' = [user EXCEPT !.pc = "attach"] /\ user.pc = "done"
           /\ user.op = "ADD"
           /\ event' = [vif |-> Null, action |-> "0"]
      \/ user' = [user EXCEPT !.pc = "unlock"] /\ user.pc = "removed"
           /\ event' = [vif |-> Null, action |-> "0"]
      \/ user' = [user EXCEPT !.pc = "free"] /\ user.pc = "unarm"
           /\ user.op = "ADD"
           /\ event' = [vif |-> Null, action |-> "0"]
      \/ user' = IdleUser /\ user.pc = "unarm"
           /\ event' = [vif |-> Null, action |-> "0"]
  BY DEF RequestFails, WaitDone, WaitTimeout, DoneAdd, Removed, Unarm, Goto,
     arm_vif_event
<1>3. Types'
  BY <1>1, <1>2 DEF Always, Types, UserType, IdleUser
<1>4. UserShape'
  BY <1>1, <1>2 DEF Always, Types, UserType, UserShape, IdleUser
<1>5. VifShape'
  BY <1>1, <1>2 DEF Always, Types, UserType, UserShape, VifShape, IdleUser
<1>6. (WorkShape /\ TableShape)'
  BY <1>1 DEF Always, WorkShape, TableShape
<1>7. Gone'
  BY <1>1, <1>2 DEF Always, Types, UserType, Gone, IdleUser
<1>8. QED
  BY <1>3, <1>4, <1>5, <1>6, <1>7 DEF Always

\* The steps that change the firmware's interfaces and send their events.
LEMMA SendAlways ==
    ASSUME Always,
           \/ RequestApIf \/ RequestRemove
           \/ \E b \in Bss : ChipLink(b) \/ ChipRemoves(b)
    PROVE  Always'
<1>1. /\ UNCHANGED <<ifp, vif, event, work>>
      /\ chip' \in [Bss -> Ifidx \cup {Null}]
      /\ drvr' \in DrvrType /\ drvr'.iflist = drvr.iflist
      /\ \/ UNCHANGED user
         \/ UserGets("unarm") /\ user.pc = "request"
         \/ UserGets("wait") /\ user.pc = "request"
  <2>1. CASE RequestApIf
    BY <2>1, RequestApIfEffect DEF Sends, SameTables, Always, Types
  <2>2. CASE RequestRemove
    BY <2>2, RequestRemoveEffect DEF Sends, SameTables, Always, Types
  <2>3. CASE \E b \in Bss : ChipLink(b) \/ ChipRemoves(b)
    BY <2>3, ChipLinkEffect, ChipRemovesEffect DEF SameTables, Always, Types
  <2>4. QED
    BY <2>1, <2>2, <2>3
<1>2. Types'
  BY <1>1 DEF Always, Types, UserType, UserGets
<1>3. (UserShape /\ VifShape)'
  BY <1>1 DEF Always, Types, UserType, UserShape, VifShape, UserGets
<1>4. (WorkShape /\ TableShape /\ Gone)'
  BY <1>1 DEF Always, Types, UserType, WorkShape, TableShape, Gone, UserGets
<1>5. QED
  BY <1>2, <1>3, <1>4 DEF Always

\* The start of a call.
LEMMA StartAlways ==
    ASSUME Always, Call
    PROVE  Always'
<1> USE NullAssumption
<1>1. UNCHANGED <<drvr, ifp, work, chip>> /\ user.pc = "idle"
  BY AddIfaceEffect, DelIfaceEffect DEF Call
<1>2. CASE AddIface
  <2>1. PICK v \in Vif :
          /\ vif[v].state = "none" /\ VifGets(v, "used")
          /\ event' = [vif |-> v, action |-> "0"]
          /\ user' = [pc |-> "request", op |-> "ADD", vif |-> v, ifp |-> Null]
    BY <1>2, AddIfaceEffect
  <2>2. Types'
    BY <1>1, <2>1 DEF Always, Types, VifGets, UserType
  <2>3. UserShape'
    BY <2>1 DEF VifGets, UserShape
  <2>4. VifShape'
    BY <1>1, <2>1 DEF Always, Types, VifType, IfpType, VifGets, VifShape
  <2>5. (WorkShape /\ TableShape /\ Gone)'
    BY <1>1, <2>1 DEF Always, WorkShape, TableShape, Gone
  <2>6. QED
    BY <2>2, <2>3, <2>4, <2>5 DEF Always
<1>3. CASE \E p \in Ifp : DelIface(p)
  <2>1. PICK p \in Ifp : DelIface(p)
    BY <1>3
  <2>2. /\ ifp[p].state = "registered" /\ UNCHANGED vif /\ p # Null
        /\ ifp[p].vif \in Vif
        /\ event' = [vif |-> ifp[p].vif, action |-> "0"]
        /\ user' = [pc |-> "request", op |-> "DEL", vif |-> ifp[p].vif, ifp |-> p]
    BY <2>1, DelIfaceEffect
  <2>3. Types'
    BY <1>1, <2>2 DEF Always, Types, UserType
  <2>4. (UserShape /\ VifShape)'
    BY <1>1, <2>2 DEF Always, UserShape, VifShape
  <2>5. (WorkShape /\ TableShape /\ Gone)'
    BY <1>1, <2>2 DEF Always, WorkShape, TableShape, Gone
  <2>6. QED
    BY <2>3, <2>4, <2>5 DEF Always
<1>4. QED
  BY <1>2, <1>3 DEF Call

\* A call that deletes takes its interface out of the table and frees it.
LEMMA DoneDelAlways == ASSUME Always, DoneDel PROVE Always'
<1> USE NullAssumption, DoneDelEffect
<1>1. Types'
  BY DEF Always, Types, UserType, UserGets
<1>2. (UserShape /\ VifShape)'
  BY DEF Always, Types, UserType, UserShape, VifShape, UserGets
<1>3. (WorkShape /\ TableShape)'
  BY DEF Always, WorkShape, TableShape, Entry
<1>4. Gone'
  BY DEF Always, Types, UserType, TableShape, Gone, UserGets, Entry
<1>5. QED
  BY <1>1, <1>2, <1>3, <1>4 DEF Always

LEMMA UnlockAlways == ASSUME Always, Unlock PROVE Always'
<1> USE NullAssumption, UnlockEffect
<1>1. Types'
  BY DEF Always, Types, UserType, IdleUser, IfpGets, VifGets
<1>2. UserShape'
  BY DEF Always, UserShape, IdleUser
<1>3. VifShape'
  <2>1. event'.vif = Null /\ user'.pc = "idle"
    BY DEF Always, UserShape, IdleUser
  <2>2. \A v \in Vif : vif'[v].ifp # Null =>
          ifp'[vif'[v].ifp].state # "none" /\ ifp'[vif'[v].ifp].vif # Null
    BY DEF Always, Types, VifType, VifShape, IfpGets, VifGets
  <2>3. \A p \in Ifp : ifp'[p].vif # Null => vif'[ifp'[p].vif].state # "none"
    BY DEF Always, Types, IfpType, VifShape, IfpGets, VifGets
  <2>4. \A p \in Ifp : ifp'[p].state = "registered" => ifp'[p].vif # Null
    BY DEF Always, VifShape, IfpGets
  <2>5. QED
    BY <2>1, <2>2, <2>3, <2>4 DEF VifShape
<1>4. WorkShape'
  BY DEF Always, Types, WorkType, WorkShape, IfpGets
<1>5. TableShape'
  BY DEF Always, Types, DrvrType, TableShape, Gone, IfpGets
<1>6. Gone'
  BY DEF Gone, IdleUser
<1>7. QED
  BY <1>1, <1>2, <1>3, <1>4, <1>5, <1>6 DEF Always

\* A call that adds registers its interface, or frees its vif.
LEMMA AttachAlways == ASSUME Always, NetAttach PROVE Always'
<1> USE NullAssumption, NetAttachEffect
<1> DEFINE p == vif[user.vif].ifp
<1>1. Types'
  BY DEF Always, Types, UserType, IdleUser, UserGets, IfpGets
<1>2. UserShape'
  BY DEF Always, Types, UserType, UserShape, IdleUser, UserGets
<1>3. VifShape'
  <2>1. /\ \A r \in Ifp :
             /\ ifp'[r].vif = ifp[r].vif
             /\ ifp[r].state # "none" => ifp'[r].state # "none"
             /\ ifp'[r].state = "registered" =>
                  r = p \/ ifp[r].state = "registered"
        /\ UNCHANGED <<vif, event>> /\ ifp[p].vif # Null
    BY DEF IfpGets
  <2>2. user'.op = "ADD" /\ user'.pc \in {"idle", "free"}
    BY DEF Always, Types, UserType, IdleUser, UserGets
  <2>3. \A v \in Vif : vif[v].ifp \in Ifp \cup {Null}
    BY DEF Always, Types, VifType
  <2>4. VifShape
    BY DEF Always
  <2>5. /\ event'.vif # Null /\ event'.action = "ADD" => vif'[event'.vif].ifp # Null
        /\ user'.pc \notin {"done", "attach"} /\ UNCHANGED vif
    BY <2>1, <2>2, <2>4 DEF VifShape
  <2> HIDE DEF p
  <2>6. \A v \in Vif : vif[v].ifp # Null =>
          ifp'[vif[v].ifp].state # "none" /\ ifp'[vif[v].ifp].vif # Null
    BY ONLY <2>1, <2>3, <2>4 DEF VifShape
  <2>7. \A r \in Ifp : ifp'[r].vif # Null => vif[ifp'[r].vif].state # "none"
    BY ONLY <2>1, <2>4 DEF VifShape
  <2>8. \A r \in Ifp : ifp'[r].state = "registered" => ifp'[r].vif # Null
    BY ONLY <2>1, <2>4 DEF VifShape
  <2>9. QED
    BY ONLY <2>5, <2>6, <2>7, <2>8 DEF VifShape
<1>4. WorkShape'
  BY DEF Always, Types, WorkType, WorkShape, IfpGets
<1>5. TableShape'
  <2>1. CASE IfpGets(p, "registered") /\ UNCHANGED drvr.iflist
    BY <2>1 DEF Always, Types, DrvrType, TableShape, IfpGets
  <2>2. CASE Entry(ifp[p].bss, Null) /\ (UNCHANGED ifp \/ IfpGets(p, "freed"))
    <3>1. ASSUME NEW b \in Bss, drvr'.iflist[b] # Null
          PROVE  /\ drvr'.iflist[b] = drvr.iflist[b] /\ drvr.iflist[b] # p
                 /\ drvr.iflist[b] \in Ifp
      BY <2>2, <3>1 DEF Always, Types, DrvrType, TableShape, Entry
    <3>2. QED
      BY <2>2, <3>1 DEF Always, TableShape, IfpGets
  <2>3. QED
    BY <2>1, <2>2
<1>6. Gone'
  BY DEF Always, Types, UserType, Gone, IdleUser, UserGets
<1>7. QED
  BY <1>1, <1>2, <1>3, <1>4, <1>5, <1>6 DEF Always

LEMMA FreeVifAlways == ASSUME Always, FreeVif PROVE Always'
<1> USE NullAssumption, FreeVifEffect
<1>1. Types'
  BY DEF Always, Types, UserType, IdleUser, VifGets
<1>2. UserShape'
  BY DEF Always, UserShape, IdleUser
<1>3. VifShape'
  BY DEF Always, Types, IfpType, VifType, UserShape, VifShape, IdleUser,
     VifGets
<1>4. (WorkShape /\ TableShape)'
  BY DEF Always, WorkShape, TableShape
<1>5. Gone'
  BY DEF Gone, IdleUser
<1>6. QED
  BY <1>1, <1>2, <1>3, <1>4, <1>5 DEF Always

\* The steps of the worker that change neither interfaces nor entries.
LEMMA WorkerAlways ==
    ASSUME Always,
           \/ TakeEvent \/ AddIfFails \/ NotifyDel \/ Armed \/ NotInTable
           \/ InTable \/ LinkEvent
    PROVE  Always'
<1> USE NullAssumption
<1>1. /\ UNCHANGED <<ifp, vif, user, chip>> /\ work.pc # "clear"
      /\ drvr' \in DrvrType /\ drvr'.iflist = drvr.iflist
      /\ UNCHANGED event \/ event' = [event EXCEPT !.action = "DEL"]
  BY TakeEventEffect DEF AddIfFails, NotifyDel, Armed, NotInTable, InTable,
     LinkEvent, Always, Types, SameTables
<1>2. /\ work' \in WorkType /\ WorkShape'
  <2>1. CASE TakeEvent
    <3> DEFINE e == drvr.event_q[1]
               q == drvr.iflist[e.bss]
    <3>1. /\ e.bss \in Bss /\ e.ifidx \in Ifidx
          /\ e.action \in {"ADD", "DEL", "LINK"}
          /\ q \in Ifp \cup {Null}
      BY <2>1, TakeEventEffect DEF Event, Always, Types, DrvrType
    <3>2. \/ work' = IdleWork
          \/ /\ e.action = "ADD" \/ q # Null
             /\ work' = [pc |-> e.action, bss |-> e.bss, ifidx |-> e.ifidx,
                         ifp |-> q, woke |-> FALSE]
      BY <2>1, TakeEventEffect
    <3>3. q # Null => ifp[q].bss = e.bss /\ ifp[q].state # "none"
      BY <3>1 DEF Always, TableShape
    <3> HIDE DEF e, q
    <3>4. work' \in WorkType
      <4>1. IdleWork \in WorkType
        BY IndexAssumption DEF IdleWork, WorkType
      <4>2. [pc |-> e.action, bss |-> e.bss, ifidx |-> e.ifidx, ifp |-> q,
             woke |-> FALSE] \in WorkType
        BY <3>1 DEF WorkType
      <4>3. QED
        BY <3>2, <4>1, <4>2
    <3>5. CASE work' = IdleWork
      BY <3>4, <3>5 DEF IdleWork, WorkShape
    <3>6. CASE work' # IdleWork
      <4>1. work'.pc = e.action /\ work'.bss = e.bss /\ work'.ifp = q
        BY <3>2, <3>6
      <4>2. QED
        BY <1>1, <3>2, <3>3, <3>4, <3>6, <4>1 DEF WorkShape
    <3>7. QED
      BY <3>5, <3>6
  <2>2. CASE NotifyDel
    <3> DEFINE w == event.vif # Null
    <3>1. w \in BOOLEAN /\ work' = [work EXCEPT !.pc = "armed", !.woke = w]
            /\ work.pc = "DEL"
      BY <2>2 DEF NotifyDel
    <3> HIDE DEF w
    <3>2. work' \in WorkType
      BY <3>1 DEF Always, Types, WorkType
    <3>3. work'.bss = work.bss /\ work'.ifp = work.ifp
      BY <3>1 DEF Always, Types, WorkType
    <3>4. QED
      BY <1>1, <3>1, <3>2, <3>3 DEF Always, WorkShape
  <2>3. CASE Armed
    BY <1>1, <2>3, IndexAssumption DEF Armed, Always, Types, WorkType,
       WorkShape, IdleWork
  <2>4. CASE AddIfFails \/ NotInTable \/ LinkEvent
    <3>1. work' = IdleWork
      BY <2>4 DEF AddIfFails, NotInTable, LinkEvent
    <3>2. QED
      BY <3>1, IndexAssumption DEF WorkType, WorkShape, IdleWork
  <2>5. CASE InTable
    BY <1>1, <2>5 DEF InTable, WorkerGoto, Always, Types, WorkType, WorkShape
  <2>6. QED
    BY <2>1, <2>2, <2>3, <2>4, <2>5
<1>3. Types'
  BY <1>1, <1>2 DEF Always, Types
<1>4. (UserShape /\ VifShape /\ TableShape /\ Gone)'
  BY <1>1 DEF Always, Types, UserShape, VifShape, TableShape, Gone
<1>5. QED
  BY <1>2, <1>3, <1>4 DEF Always

\* The worker frees an interface.
LEMMA FreesAlways ==
    ASSUME Always, DetachOld \/ Unregister
    PROVE  Always'
<1> USE NullAssumption
<1>1. /\ work.ifp \in Ifp /\ work.ifp # Null /\ work.bss \in Bss
      /\ work.pc \in {"ADD", "detach"} /\ ifp[work.ifp].bss = work.bss
      /\ IfpGets(work.ifp, "freed") /\ VifGets(ifp[work.ifp].vif, "freed")
      /\ UNCHANGED <<event, user, chip>> /\ drvr' \in DrvrType
      /\ ifp[work.ifp].state = "registered" => user.pc = "idle"
  BY DetachOldEffect, UnregisterEffect
     DEF Always, WorkShape, Types, DetachOld, Unregister, rtnl_free
<1>2. \/ Entry(work.bss, Null) /\ work' = [work EXCEPT !.ifp = Null]
           /\ work.pc = "ADD"
      \/ work' = [work EXCEPT !.pc = "clear"] /\ UNCHANGED drvr
  BY DetachOldEffect, UnregisterEffect
<1>3. work' \in WorkType
  BY <1>2 DEF Always, Types, WorkType
<1>4. Types'
  BY <1>1, <1>3 DEF Always, Types, IfpGets, VifGets
<1>5. UserShape'
  BY <1>1 DEF Always, Types, UserType, UserShape, IfpGets, VifGets
<1>6. VifShape'
  <2>1. /\ event'.vif # Null /\ event'.action = "ADD" => vif'[event'.vif].ifp # Null
        /\ user'.op = "ADD" /\ user'.pc \in {"done", "attach"} =>
             vif'[user'.vif].ifp # Null
    BY <1>1 DEF Always, Types, UserType, UserShape, VifShape, VifGets
  <2>2. \A v \in Vif : vif'[v].ifp # Null =>
          ifp'[vif'[v].ifp].state # "none" /\ ifp'[vif'[v].ifp].vif # Null
    BY <1>1 DEF Always, Types, VifType, VifShape, IfpGets, VifGets
  <2>3. \A p \in Ifp : ifp'[p].vif # Null => vif'[ifp'[p].vif].state # "none"
    BY <1>1 DEF Always, Types, IfpType, VifShape, IfpGets, VifGets
  <2>4. \A p \in Ifp : ifp'[p].state = "registered" => ifp'[p].vif # Null
    BY <1>1 DEF Always, VifShape, IfpGets
  <2>5. QED
    BY <2>1, <2>2, <2>3, <2>4 DEF VifShape
<1>7. WorkShape'
  BY <1>1, <1>2 DEF Always, Types, WorkType, WorkShape, IfpGets
<1>8. TableShape'
  <2>1. ASSUME NEW b \in Bss, drvr'.iflist[b] # Null
        PROVE  /\ drvr.iflist[b] = drvr'.iflist[b] /\ drvr.iflist[b] \in Ifp
               /\ ifp[drvr.iflist[b]].bss = b /\ ifp[drvr.iflist[b]].state # "none"
               /\ drvr.iflist[b] # work.ifp =>
                    ifp[drvr.iflist[b]].state \in {"allocated", "registered"}
    BY <1>1, <1>2, <2>1 DEF Always, Types, DrvrType, TableShape, Entry
  <2>2. ASSUME NEW b \in Bss, drvr'.iflist[b] = work.ifp
        PROVE  work'.pc = "clear" /\ work'.bss = b
    <3>1. b = work.bss
      BY <1>1, <2>1, <2>2
    <3>2. ~Entry(work.bss, Null)
      BY <1>1, <2>2, <3>1 DEF Entry
    <3>3. QED
      BY <1>2, <3>1, <3>2 DEF Always, Types, WorkType
  <2>3. QED
    BY <1>1, <2>1, <2>2 DEF TableShape, IfpGets
<1>9. Gone'
  BY <1>1, <1>2 DEF Always, Types, UserType, UserShape, Gone, Entry
<1>10. QED
  BY <1>4, <1>5, <1>6, <1>7, <1>8, <1>9 DEF Always

\* The worker adds an interface, which nothing refers to yet.
LEMMA AddIfAlways == ASSUME Always, AddIf PROVE Always'
<1> USE NullAssumption
<1>1. /\ work.pc = "ADD" /\ work.bss \in Bss /\ work.ifidx \in Ifidx
      /\ UNCHANGED <<vif, event, user, chip>>
  BY AddIfEffect
<1>2. PICK p \in Ifp :
        /\ ifp[p].state = "none" /\ p # Null /\ ifp' \in IfpType
        /\ ifp'[p].state = "allocated" /\ ifp'[p].bss = work.bss
        /\ ifp'[p].ifidx = work.ifidx /\ ifp'[p].vif = Null
        /\ \A r \in Ifp \ {p} : ifp'[r] = ifp[r]
        /\ drvr' \in DrvrType /\ Entry(work.bss, p)
        /\ work' = [work EXCEPT !.pc = "notify", !.ifp = p]
  BY AddIfEffect
<1>3. work' \in WorkType
  BY <1>2 DEF Always, Types, WorkType
<1>4. Types'
  BY <1>1, <1>2, <1>3 DEF Always, Types
<1>5. UserShape'
  BY <1>1, <1>2 DEF Always, Types, UserType, UserShape
<1>6. VifShape'
  BY <1>1, <1>2 DEF Always, Types, VifType, VifShape
<1>7. WorkShape'
  BY <1>1, <1>2 DEF Always, Types, WorkType, WorkShape
<1>8. TableShape'
  BY <1>1, <1>2 DEF Always, Types, DrvrType, TableShape, Entry
<1>9. Gone'
  BY <1>1, <1>2 DEF Always, Types, UserType, UserShape, Gone, Entry
<1>10. QED
  BY <1>4, <1>5, <1>6, <1>7, <1>8, <1>9 DEF Always

\* The interface and the vif that waited for it come to refer to each other.
LEMMA NotifyAddAlways == ASSUME Always, NotifyAdd PROVE Always'
<1> USE NullAssumption
<1>1. /\ work.pc = "notify" /\ work.ifp \in Ifp /\ ifp[work.ifp].state # "none"
      /\ event' = [event EXCEPT !.action = "ADD"] /\ work' = IdleWork
      /\ UNCHANGED <<drvr, user, chip>>
  BY NotifyAddEffect DEF Always, WorkShape
<1>2. /\ ifp' \in IfpType /\ vif' \in VifType
      /\ \A r \in Ifp :
           /\ ifp'[r].vif = IF r = work.ifp /\ event.vif # Null THEN event.vif
                            ELSE ifp[r].vif
           /\ ifp'[r].state = ifp[r].state /\ ifp'[r].bss = ifp[r].bss
      /\ \A w \in Vif :
           /\ vif'[w].ifp = IF w = event.vif THEN work.ifp ELSE vif[w].ifp
           /\ vif'[w].state = vif[w].state
  BY NotifyAddEffect DEF Always, Types
<1>3. Types'
  BY <1>1, <1>2, IndexAssumption DEF Always, Types, WorkType, IdleWork
<1>4. UserShape'
  BY <1>1, <1>2 DEF Always, Types, UserType, UserShape
<1>5. VifShape'
  <2>1. /\ event'.vif # Null /\ event'.action = "ADD" => vif'[event'.vif].ifp # Null
        /\ user'.op = "ADD" /\ user'.pc \in {"done", "attach"} =>
             vif'[user'.vif].ifp # Null
    BY <1>1, <1>2 DEF Always, Types, UserType, UserShape, VifShape
  <2>2. \A v \in Vif : vif'[v].ifp # Null =>
          ifp'[vif'[v].ifp].state # "none" /\ ifp'[vif'[v].ifp].vif # Null
    BY <1>1, <1>2 DEF Always, Types, VifType, VifShape
  <2>3. \A p \in Ifp : ifp'[p].vif # Null => vif'[ifp'[p].vif].state # "none"
    BY <1>1, <1>2 DEF Always, Types, IfpType, UserShape, VifShape
  <2>4. \A p \in Ifp : ifp'[p].state = "registered" => ifp'[p].vif # Null
    BY <1>1, <1>2 DEF Always, VifShape
  <2>5. QED
    BY <2>1, <2>2, <2>3, <2>4 DEF VifShape
<1>6. WorkShape'
  BY <1>1 DEF WorkShape, IdleWork
<1>7. TableShape'
  BY <1>1, <1>2 DEF Always, Types, DrvrType, TableShape
<1>8. Gone'
  BY <1>1 DEF Always, Gone
<1>9. QED
  BY <1>3, <1>4, <1>5, <1>6, <1>7, <1>8 DEF Always

LEMMA ClearAlways == ASSUME Always, Clear PROVE Always'
<1> USE NullAssumption, ClearEffect
<1>1. Types'
  BY IdleTypes DEF Always, Types
<1>2. (UserShape /\ VifShape /\ WorkShape)'
  BY DEF Always, UserShape, VifShape, WorkShape, IdleWork
<1>3. TableShape'
  BY DEF Always, TableShape, Entry
<1>4. Gone'
  BY DEF Always, Types, UserType, UserShape, Gone, Entry
<1>5. QED
  BY <1>1, <1>2, <1>3, <1>4 DEF Always

\* The first layer, which gives the types and what the table has in it, is an
\* invariant of the calls, the worker and the firmware.
THEOREM AlwaysInvariant == Spec => []Always
<1>1. Always /\ [Next]_vars => Always'
  <2> SUFFICES ASSUME Always, [Next]_vars PROVE Always'
    OBVIOUS
  <2>1. CASE UNCHANGED vars
    BY <2>1 DEF vars, Always, Types, UserShape, VifShape, WorkShape,
       TableShape, Gone
  <2>2. CASE User
    BY <2>2, CallAlways, SendAlways, AttachAlways, FreeVifAlways,
       DoneDelAlways, UnlockAlways DEF User
  <2>3. CASE Worker
    BY <2>3, WorkerAlways, FreesAlways, AddIfAlways, NotifyAddAlways,
       ClearAlways DEF Worker
  <2>4. CASE Call \/ \E b \in Bss : ChipLink(b) \/ ChipRemoves(b)
    BY <2>4, StartAlways, SendAlways
  <2>5. QED
    BY <2>1, <2>2, <2>3, <2>4 DEF Next
<1>2. QED
  BY <1>1, InitAlways, PTL DEF Spec

\* The tables, the interfaces and the event have their types (TypeOK).
THEOREM TypeCorrect == Spec => []TypeOK
<1>1. Always => TypeOK
  BY DEF Always, Types, DrvrType, IfpType, VifType, WorkType, TypeOK
<1>2. QED
  BY <1>1, AlwaysInvariant, PTL

\* The interface table holds no freed interface and none under a wrong index,
\* but while brcmf_del_if has not yet cleared the entry.
THEOREM TableLive == Spec => []TableIsLive
<1>1. Always => TableIsLive
  BY DEF Always, TableShape, TableIsLive, Live
<1>2. QED
  BY <1>1, AlwaysInvariant, PTL

(***************************************************************************)
(* What holds while no wait has timed out and the firmware has removed no  *)
(* interface unasked: an ADD or DEL is on its way only while its call      *)
(* waits for it.                                                           *)
(***************************************************************************)
InTime == Without({"timedout", "unasked"})
Waits(op) == user.pc = "wait" /\ user.op = op /\ event.action = "0"
\* The call that adds has got its interface.
Adding == user.op = "ADD" /\ \/ user.pc = "wait" /\ event.action = "ADD"
                             \/ user.pc \in {"done", "attach"}
Fresh == /\ user.op = "ADD" /\ user.pc \in {"request", "wait", "unarm"}
         /\ ~Adding

AddEvents ==
    /\ \A k \in DOMAIN drvr.event_q : drvr.event_q[k].action = "ADD" =>
         /\ Waits("ADD") /\ work.pc \notin {"ADD", "notify"}
         /\ drvr.iflist[drvr.event_q[k].bss] = Null
         /\ \A l \in DOMAIN drvr.event_q : drvr.event_q[l].action = "ADD" => k = l
    /\ work.pc = "ADD" =>
         /\ Waits("ADD") /\ work.ifp = Null /\ drvr.iflist[work.bss] = Null
    /\ work.pc = "notify" =>
         /\ Waits("ADD") /\ drvr.iflist[work.bss] = work.ifp
         /\ ifp[work.ifp].state = "allocated"
\* Whoever waits for a DEL takes the interface out of the table himself, and
\* the worker, that may find him gone, finds it gone too.
DelEvents ==
    /\ \A k \in DOMAIN drvr.event_q : drvr.event_q[k].action = "DEL" =>
         /\ Waits("DEL") /\ work.pc # "DEL"
         /\ drvr.event_q[k].bss = ifp[user.ifp].bss
         /\ \A l \in DOMAIN drvr.event_q : drvr.event_q[l].action = "DEL" => k = l
    /\ work.pc = "DEL" => Waits("DEL") /\ work.ifp = user.ifp
    /\ work.pc \in {"armed", "remove"} =>
         /\ work.woke
         /\ \/ /\ user.op = "DEL" /\ user.pc \in {"wait", "done"}
               /\ event.action = "DEL" /\ user.ifp = work.ifp
            \/ \A b \in Bss : drvr.iflist[b] # work.ifp
    /\ work.pc = "remove" => drvr.iflist[work.bss] # work.ifp
    /\ work.pc \notin {"detach", "clear"}
\* A registered interface has its vif and its entry; the vif of a call that
\* adds belongs to no other.
Pairs ==
    /\ user.pc = "request" => event.action = "0"
    /\ \A p \in Ifp : ifp[p].state = "registered" =>
         /\ vif[ifp[p].vif].state = "used" /\ vif[ifp[p].vif].ifp = p
         /\ \/ drvr.iflist[ifp[p].bss] = p
            \/ user.pc \in {"removed", "unlock"} /\ user.ifp = p
    /\ Fresh => /\ \A p \in Ifp : ifp[p].vif # user.vif
                /\ vif[user.vif].state = "used" /\ event.action = "0"
    /\ user.pc = "free" =>
         \A p \in Ifp : ifp[p].state = "registered" => ifp[p].vif # user.vif
    /\ Adding => LET p == vif[user.vif].ifp
                 IN  /\ vif[user.vif].state = "used" /\ ifp[p].vif = user.vif
                     /\ ifp[p].state = "allocated" /\ drvr.iflist[ifp[p].bss] = p
Timely == AddEvents /\ DelEvents /\ Pairs

\* The steps of a call that change neither tables nor interfaces.
LEMMA CallTimely ==
    ASSUME Always, Timely,
           RequestFails \/ WaitDone \/ DoneAdd \/ Removed \/ Unarm
    PROVE  Timely'
<1>1. UNCHANGED <<drvr, ifp, vif, work, chip>>
  BY DEF RequestFails, WaitDone, DoneAdd, Removed, Unarm
<1>2. \/ UserGets("unarm") /\ UNCHANGED event /\ user.pc = "request"
      \/ UserGets("done") /\ UNCHANGED event
           /\ user.pc = "wait" /\ event.action = user.op
      \/ UserGets("attach") /\ user.pc = "done" /\ user.op = "ADD"
           /\ event' = [vif |-> Null, action |-> "0"]
      \/ UserGets("unlock") /\ user.pc = "removed"
           /\ event' = [vif |-> Null, action |-> "0"]
      \/ UserGets("free") /\ user.pc = "unarm" /\ user.op = "ADD"
           /\ event' = [vif |-> Null, action |-> "0"]
      \/ user' = IdleUser /\ user.pc = "unarm"
           /\ event' = [vif |-> Null, action |-> "0"]
  BY DEF RequestFails, WaitDone, DoneAdd, Removed, Unarm, Goto, UserGets,
     arm_vif_event
<1>3. AddEvents'
  BY <1>1, <1>2 DEF Always, Types, UserType, Timely, AddEvents, Waits,
     UserGets, IdleUser
<1>4. DelEvents'
  BY <1>1, <1>2 DEF Always, Types, UserType, Timely, DelEvents, Waits,
     UserGets, IdleUser
<1>5. Pairs'
  BY <1>1, <1>2 DEF Always, Types, UserType, UserShape, Timely, Pairs, Fresh,
     Adding, UserGets, IdleUser
<1>6. QED
  BY <1>3, <1>4, <1>5 DEF Timely

\* The start of a call.
LEMMA StartTimely == ASSUME Always, Timely, Call PROVE Timely'
<1>1. /\ UNCHANGED <<drvr, ifp, work, chip>> /\ user.pc = "idle"
      /\ user'.pc = "request" /\ event'.action = "0"
      /\ \/ /\ UNCHANGED vif /\ user'.op = "DEL"
            /\ ifp[user'.ifp].state = "registered"
         \/ /\ user'.op = "ADD" /\ user'.vif \in Vif
            /\ vif[user'.vif].state = "none"
            /\ VifGets(user'.vif, "used")
  BY AddIfaceEffect, DelIfaceEffect DEF Call
<1>2. (AddEvents /\ DelEvents)'
  BY <1>1 DEF Timely, AddEvents, DelEvents, Waits
<1>3. CASE user'.op = "DEL"
  BY <1>1, <1>2, <1>3 DEF Timely, Pairs, Fresh, Adding
<1>4. CASE user'.op = "ADD"
  <2>1. /\ user'.op = "ADD" /\ user'.vif \in Vif /\ vif[user'.vif].state = "none"
        /\ VifGets(user'.vif, "used")
    BY <1>1, <1>4
  <2>2. \A p \in Ifp : ifp[p].vif # user'.vif
    BY <2>1, NullAssumption DEF Always, VifShape
  <2>3. \A p \in Ifp : ifp[p].state = "registered" => ifp[p].vif \in Vif
    BY DEF Always, Types, IfpType, VifShape
  <2>4. Pairs'
    BY <1>1, <2>1, <2>2, <2>3 DEF Timely, Pairs, Fresh, Adding, VifGets
  <2>5. QED
    BY <1>2, <2>4 DEF Timely
<1>5. QED
  BY <1>1, <1>3, <1>4

\* The steps that change the firmware's interfaces and send their events.
LEMMA RequestApIfTimely == ASSUME Always, Timely, RequestApIf PROVE Timely'
<1> DEFINE q == drvr.event_q
<1>1. /\ user.pc = "request" /\ user.op = "ADD" /\ event.action = "0"
      /\ UNCHANGED <<ifp, vif, event, work>> /\ drvr'.iflist = drvr.iflist
  BY RequestApIfEffect DEF Timely, Pairs, Sends, SameTables
<1>2. \/ UserGets("unarm") /\ UNCHANGED q
      \/ UserGets("wait") /\ UNCHANGED q
      \/ /\ UserGets("wait")
         /\ \E b \in Bss, i \in Ifidx :
              /\ drvr.iflist[b] = Null
              /\ q' = Append(q, [action |-> "ADD", bss |-> b, ifidx |-> i])
  BY RequestApIfEffect DEF Sends
<1>3. /\ \A k \in DOMAIN q : q[k].action \notin {"ADD", "DEL"}
      /\ work.pc \notin {"ADD", "DEL", "notify"}
  BY <1>1 DEF Always, Types, DrvrType, Timely, AddEvents, DelEvents, Waits
<1>4. Pairs'
  BY <1>1, <1>2 DEF Always, Types, UserType, Timely, Pairs, Fresh, Adding,
     UserGets
<1>5. (AddEvents /\ DelEvents)'
  <2>1. CASE UNCHANGED q
    BY <1>1, <1>2, <1>3, <2>1 DEF Always, Types, UserType, Timely, AddEvents,
       DelEvents, Waits, UserGets
  <2>2. CASE UserGets("wait") /\ ~UNCHANGED q
    <3>1. PICK b \in Bss, i \in Ifidx :
            /\ drvr.iflist[b] = Null
            /\ q' = Append(q, [action |-> "ADD", bss |-> b, ifidx |-> i])
      BY <1>2, <2>2
    <3> DEFINE e == [action |-> "ADD", bss |-> b, ifidx |-> i]
    <3>2. e \in Event /\ q \in Seq(Event) /\ q' = Append(q, e)
      BY <3>1 DEF Event, Always, Types, DrvrType
    <3> HIDE DEF q
    <3>3. \A k \in DOMAIN q' : \/ k \in DOMAIN q /\ q'[k] = q[k]
                               \/ k = Len(q) + 1 /\ q'[k] = e
      BY <3>2, Queued
    <3>4. Waits("ADD")'
      BY <1>1, <2>2 DEF Always, Types, UserType, Waits, UserGets
    <3>5. AddEvents'
      BY <1>1, <1>3, <3>1, <3>3, <3>4 DEF AddEvents, q
    <3>6. DelEvents'
      BY <1>1, <1>3, <3>3, <3>4 DEF Timely, DelEvents, Waits, q
    <3>7. QED
      BY <3>5, <3>6
  <2>3. QED
    BY <1>2, <2>1, <2>2
<1>6. QED
  BY <1>4, <1>5 DEF Timely

LEMMA RequestRemoveTimely == ASSUME Always, Timely, RequestRemove PROVE Timely'
<1> DEFINE q == drvr.event_q
           b == ifp[user.ifp].bss
<1>1. /\ user.pc = "request" /\ user.op = "DEL" /\ event.action = "0"
      /\ UNCHANGED <<ifp, vif, event, work>> /\ drvr'.iflist = drvr.iflist
      /\ b \in Bss
  BY RequestRemoveEffect DEF Timely, Pairs, Sends, SameTables
<1>2. \/ UserGets("unarm") /\ UNCHANGED q
      \/ UserGets("wait") /\ UNCHANGED q
      \/ /\ UserGets("wait")
         /\ \E i \in Ifidx : q' = Append(q, [action |-> "DEL", bss |-> b, ifidx |-> i])
  BY RequestRemoveEffect DEF Sends
<1>3. /\ \A k \in DOMAIN q : q[k].action \notin {"ADD", "DEL"}
      /\ work.pc \notin {"ADD", "DEL", "notify"}
  BY <1>1 DEF Always, Types, DrvrType, Timely, AddEvents, DelEvents, Waits
<1>4. Pairs'
  BY <1>1, <1>2 DEF Always, Types, UserType, Timely, Pairs, Fresh, Adding,
     UserGets
<1>5. (AddEvents /\ DelEvents)'
  <2>1. CASE UNCHANGED q
    BY <1>1, <1>2, <1>3, <2>1 DEF Always, Types, UserType, Timely, AddEvents,
       DelEvents, Waits, UserGets
  <2>2. CASE UserGets("wait") /\ ~UNCHANGED q
    <3>1. PICK i \in Ifidx : q' = Append(q, [action |-> "DEL", bss |-> b, ifidx |-> i])
      BY <1>2, <2>2
    <3> DEFINE e == [action |-> "DEL", bss |-> b, ifidx |-> i]
    <3>2. e \in Event /\ q \in Seq(Event) /\ q' = Append(q, e) /\ e.bss = b
          /\ e.action = "DEL"
      BY <1>1, <3>1 DEF Event, Always, Types, DrvrType
    <3> HIDE DEF q, e
    <3>3. \A k \in DOMAIN q' : \/ k \in DOMAIN q /\ q'[k] = q[k]
                               \/ k = Len(q) + 1 /\ q'[k] = e
      BY <3>2, Queued
    <3>4. Waits("DEL")' /\ user'.ifp = user.ifp
      BY <1>1, <2>2 DEF Always, Types, UserType, Waits, UserGets
    <3>5. AddEvents'
      BY <1>1, <1>3, <3>2, <3>3 DEF AddEvents, q
    <3>6. DelEvents'
      <4>1. \A k \in DOMAIN q' : q'[k].action = "DEL" =>
              /\ Waits("DEL")' /\ work'.pc # "DEL"
              /\ q'[k].bss = ifp'[user'.ifp].bss
              /\ \A l \in DOMAIN q' : q'[l].action = "DEL" => k = l
        BY <1>1, <1>3, <3>2, <3>3, <3>4
      <4>2. QED
        BY <1>1, <1>3, <3>4, <4>1 DEF Timely, DelEvents, Waits, q
    <3>7. QED
      BY <3>5, <3>6
  <2>3. QED
    BY <1>2, <2>1, <2>2
<1>6. QED
  BY <1>4, <1>5 DEF Timely

LEMMA ChipLinkTimely ==
    ASSUME Always, Timely, NEW b \in Bss, ChipLink(b)
    PROVE  Timely'
<1> DEFINE q == drvr.event_q
           e == [action |-> "LINK", bss |-> b, ifidx |-> chip[b]]
<1>1. /\ q' = Append(q, e) /\ drvr'.iflist = drvr.iflist /\ chip[b] \in Ifidx
      /\ UNCHANGED <<ifp, vif, event, user, work>>
  BY ChipLinkEffect DEF SameTables
<1>2. e \in Event /\ q \in Seq(Event) /\ e.action = "LINK"
  BY <1>1 DEF Event, Always, Types, DrvrType
<1> HIDE DEF q, e
<1>3. \A k \in DOMAIN q' : \/ k \in DOMAIN q /\ q'[k] = q[k]
                           \/ k = Len(q) + 1 /\ q'[k].action = "LINK"
  BY <1>1, <1>2, Queued
<1>4. AddEvents'
  BY <1>1, <1>3 DEF Timely, AddEvents, Waits, q
<1>5. DelEvents'
  BY <1>1, <1>3 DEF Timely, DelEvents, Waits, q
<1>6. Pairs'
  BY <1>1 DEF Timely, Pairs, Fresh, Adding
<1>7. QED
  BY <1>4, <1>5, <1>6 DEF Timely

\* The ends of a call.
LEMMA NetAttachTimely == ASSUME Always, Timely, NetAttach PROVE Timely'
<1> DEFINE p == vif[user.vif].ifp
<1> USE NullAssumption
<1>1. /\ Adding /\ ifp[p].vif = user.vif /\ ifp[p].state = "allocated"
      /\ drvr.iflist[ifp[p].bss] = p /\ vif[user.vif].state = "used"
      /\ user.pc = "attach" /\ p \in Ifp
      /\ UNCHANGED <<drvr.event_q, vif, event, work>>
  BY NetAttachEffect DEF Timely, Pairs, Adding
<1>2. \A r \in Ifp : ifp[r].state = "registered" =>
        r # p /\ ifp[r].vif # user.vif
  BY <1>1 DEF Timely, Pairs
<1>3. /\ work.pc \notin {"ADD", "DEL", "notify"}
      /\ \A k \in DOMAIN drvr.event_q :
           drvr.event_q[k].action \notin {"ADD", "DEL"}
  BY <1>1 DEF Timely, AddEvents, DelEvents, Waits, Adding
<1>4. CASE IfpGets(p, "registered") /\ user' = IdleUser /\ UNCHANGED drvr.iflist
  <2>1. user'.pc = "idle" /\ user'.op = "ADD"
    BY <1>4 DEF IdleUser
  <2>2. ASSUME NEW r \in Ifp, ifp'[r].state = "registered"
        PROVE  /\ vif'[ifp'[r].vif].state = "used" /\ vif'[ifp'[r].vif].ifp = r
               /\ drvr'.iflist[ifp'[r].bss] = r
    <3>1. ifp'[r].vif = ifp[r].vif /\ ifp'[r].bss = ifp[r].bss
      BY <1>4 DEF IfpGets
    <3>2. CASE r = p
      BY <1>1, <1>4, <3>1, <3>2
    <3>3. CASE r # p
      <4>1. ifp[r].state = "registered"
        BY <1>4, <2>2, <3>3 DEF IfpGets
      <4>2. QED
        BY <1>1, <1>4, <3>1, <4>1 DEF Timely, Pairs
    <3>4. QED
      BY <3>2, <3>3
  <2>3. Pairs'
    BY <2>1, <2>2 DEF Pairs, Fresh, Adding
  <2>4. AddEvents'
    BY <1>1, <1>3 DEF AddEvents
  <2>5. DelEvents'
    <3>1. user.op # "DEL"
      BY <1>1 DEF Adding
    <3>2. QED
      BY <1>1, <1>3, <1>4, <3>1 DEF Timely, DelEvents
  <2>6. QED
    BY <2>3, <2>4, <2>5 DEF Timely
<1>5. CASE Entry(ifp[p].bss, Null) /\ UserGets("free")
             /\ (UNCHANGED ifp \/ IfpGets(p, "freed"))
  <2> \A r \in Ifp : /\ ifp'[r].state = "registered" <=> ifp[r].state = "registered"
                     /\ ifp'[r].vif = ifp[r].vif /\ ifp'[r].bss = ifp[r].bss
    BY <1>1, <1>5 DEF IfpGets
  <2>1. user'.pc = "free" /\ user'.op = "ADD" /\ user'.vif = user.vif
    BY <1>1, <1>5 DEF Always, Types, UserType, UserGets, Adding
  <2>2. \A r \in Ifp : ifp'[r].state = "registered" =>
          drvr'.iflist[ifp'[r].bss] = r
    <3>1. \A r \in Ifp : ifp[r].state = "registered" =>
            drvr.iflist[ifp[r].bss] = r /\ r # p
      BY <1>1, <1>2 DEF Timely, Pairs
    <3>2. \A r \in Ifp : ifp[r].state = "registered" => ifp[r].bss \in Bss
      BY DEF Always, Types, IfpType
    <3>3. QED
      BY <1>1, <1>5, <3>1, <3>2 DEF Entry
  <2>3. Pairs'
    <3>1. \A r \in Ifp : ifp'[r].state = "registered" =>
            vif[ifp'[r].vif].state = "used" /\ vif[ifp'[r].vif].ifp = r
      BY DEF Timely, Pairs
    <3>2. UNCHANGED vif
      BY <1>1
    <3>3. ~Fresh' /\ ~Adding' /\ user'.pc # "request" /\ user'.op # "DEL"
      BY <2>1 DEF Fresh, Adding
    <3>4. QED
      BY <1>2, <2>1, <2>2, <3>1, <3>2, <3>3 DEF Pairs
  <2>4. AddEvents'
    BY <1>1, <1>3 DEF AddEvents
  <2>5. /\ work.pc \in {"armed", "remove"} =>
           work.woke /\ \A c \in Bss : drvr'.iflist[c] # work.ifp
        /\ work.pc = "remove" => drvr'.iflist[work.bss] # work.ifp
    <3>1. \A c \in Bss : drvr'.iflist[c] = drvr.iflist[c] \/ drvr'.iflist[c] = Null
      BY <1>5 DEF Entry
    <3>2. work.pc \in {"armed", "remove"} => work.bss \in Bss /\ work.ifp # Null
      BY DEF Always, Types, WorkType, WorkShape
    <3>3. user.op = "ADD"
      BY <1>1 DEF Adding
    <3>4. QED
      BY <3>1, <3>2, <3>3 DEF Timely, DelEvents
  <2>6. DelEvents'
    BY <1>1, <1>3, <2>5 DEF Timely, DelEvents
  <2>7. QED
    BY <2>3, <2>4, <2>6 DEF Timely
<1>6. QED
  BY <1>1, <1>4, <1>5, NetAttachEffect

LEMMA FreeVifTimely == ASSUME Always, Timely, FreeVif PROVE Timely'
<1> USE FreeVifEffect
<1>1. (AddEvents /\ DelEvents)'
  BY DEF Timely, AddEvents, DelEvents, Waits, IdleUser
<1>2. Pairs'
  BY DEF Always, Types, IfpType, VifShape, Timely, Pairs, Fresh, Adding,
     IdleUser, VifGets
<1>3. QED
  BY <1>1, <1>2 DEF Timely

LEMMA DoneDelTimely == ASSUME Always, Timely, DoneDel PROVE Timely'
<1> DEFINE p == user.ifp
           b == ifp[p].bss
<1> USE NullAssumption
<1>1. /\ user.pc = "done" /\ user.op = "DEL" /\ p \in Ifp /\ b \in Bss
      /\ UNCHANGED <<ifp, vif, event, work, drvr.event_q>> /\ drvr.iflist[b] = p
      /\ Entry(b, Null) /\ UserGets("removed")
  BY DoneDelEffect DEF Always, UserShape, Timely, Pairs
<1>2. /\ user'.pc = "removed" /\ user'.op = "DEL" /\ user'.ifp = p
      /\ user'.vif = user.vif
  BY <1>1 DEF Always, Types, UserType, UserGets
<1>3. /\ work.pc \notin {"ADD", "DEL", "notify"}
      /\ \A k \in DOMAIN drvr.event_q : drvr.event_q[k].action \notin {"ADD", "DEL"}
  BY <1>1 DEF Timely, AddEvents, DelEvents, Waits
<1>4. \A c \in Bss : drvr'.iflist[c] # p
  BY <1>1 DEF Always, TableShape, Entry
<1>5. Pairs'
  BY <1>1, <1>2 DEF Always, Types, IfpType, TableShape, Timely, Pairs, Fresh,
     Adding, Entry
<1>6. AddEvents'
  BY <1>1, <1>3 DEF AddEvents
<1>7. DelEvents'
  <2>1. work.pc \in {"armed", "remove"} => work.woke /\ work.ifp \in Ifp
    BY DEF Timely, DelEvents, Always, Types, WorkType, WorkShape
  <2>2. work.pc \in {"armed", "remove"} => \A c \in Bss : drvr'.iflist[c] # work.ifp
    BY <1>1, <1>4, <2>1 DEF Timely, DelEvents, Entry
  <2>3. work.bss \in Bss
    BY DEF Always, Types, WorkType
  <2>4. QED
    BY <1>1, <1>2, <1>3, <2>1, <2>2, <2>3 DEF Timely, DelEvents
<1>8. QED
  BY <1>5, <1>6, <1>7 DEF Timely

LEMMA UnlockTimely == ASSUME Always, Timely, Unlock PROVE Timely'
<1> USE UnlockEffect
<1>1. /\ work.pc \notin {"ADD", "DEL", "notify"}
      /\ \A k \in DOMAIN drvr.event_q : drvr.event_q[k].action \notin {"ADD", "DEL"}
  BY DEF Timely, AddEvents, DelEvents, Waits
<1>2. ifp[user.ifp].vif \in Vif /\ vif[ifp[user.ifp].vif].ifp = user.ifp
  BY DEF Always, Types, IfpType, UserShape, VifShape, Timely, Pairs
<1>3. Pairs'
  <2>1. ASSUME NEW p \in Ifp, ifp'[p].state = "registered"
        PROVE  /\ vif'[ifp'[p].vif].state = "used" /\ vif'[ifp'[p].vif].ifp = p
               /\ drvr'.iflist[ifp'[p].bss] = p
    <3>1. /\ p # user.ifp /\ ifp[p].state = "registered"
          /\ ifp'[p].vif = ifp[p].vif
          /\ ifp'[p].bss = ifp[p].bss
      BY <2>1 DEF IfpGets
    <3>2. /\ ifp[p].vif \in Vif /\ vif[ifp[p].vif].ifp = p
          /\ vif[ifp[p].vif].state = "used" /\ drvr.iflist[ifp[p].bss] = p
      BY <3>1 DEF Always, Types, IfpType, VifShape, Timely, Pairs
    <3>3. QED
      BY <1>2, <3>1, <3>2 DEF VifGets
  <2>2. user'.pc = "idle" /\ user'.op = "ADD"
    BY DEF IdleUser
  <2>3. QED
    BY <2>1, <2>2 DEF Pairs, Fresh, Adding
<1>4. (AddEvents /\ DelEvents)'
  BY <1>1 DEF Timely, AddEvents, DelEvents
<1>5. QED
  BY <1>3, <1>4 DEF Timely

\* The worker takes an event: a DEL finds the interface that is deleted.
LEMMA TakeEventTimely == ASSUME Always, Timely, TakeEvent PROVE Timely'
<1> DEFINE q == drvr.event_q
           e == q[1]
           p == drvr.iflist[e.bss]
<1>1. /\ work.pc = "idle" /\ e.bss \in Bss /\ e.action \in {"ADD", "DEL", "LINK"}
      /\ drvr'.iflist = drvr.iflist /\ UNCHANGED <<ifp, vif, event, user>>
      /\ q \in Seq(Event) /\ q # <<>> /\ q' = Tail(q)
  BY TakeEventEffect DEF SameTables, Event, Always, Types, DrvrType
<1>2. \/ e.action # "ADD" /\ p = Null /\ work'.pc = "idle"
      \/ /\ e.action = "ADD" \/ p # Null
         /\ work'.pc = e.action /\ work'.bss = e.bss /\ work'.ifp = p
  BY TakeEventEffect DEF IdleWork
<1>3. /\ 1 \in DOMAIN q /\ Len(q) \in Nat /\ DOMAIN q = 1..Len(q)
      /\ \A k \in DOMAIN q' : /\ k \in Nat /\ k # 0 /\ k + 1 \in DOMAIN q
                              /\ k + 1 # 1 /\ q'[k] = q[k + 1]
  BY <1>1, Dequeued
<1>4. ASSUME NEW k \in DOMAIN q', NEW l \in DOMAIN q' PROVE k + 1 = l + 1 => k = l
  BY <1>3
<1> HIDE DEF q, e, p
<1>5. AddEvents'
  <2>1. ASSUME NEW k \in DOMAIN q', q'[k].action = "ADD"
        PROVE  /\ Waits("ADD") /\ e.action # "ADD" /\ drvr.iflist[q'[k].bss] = Null
               /\ \A l \in DOMAIN q' : q'[l].action = "ADD" => k = l
    BY <1>3, <1>4, <2>1 DEF Timely, AddEvents, q, e
  <2>2. e.action = "ADD" => Waits("ADD") /\ p = Null /\ drvr.iflist[e.bss] = Null
    BY <1>3 DEF Timely, AddEvents, q, e, p
  <2>3. work'.pc \in {"ADD", "notify"} => /\ work'.pc = "ADD" /\ e.action = "ADD"
                                          /\ work'.bss = e.bss /\ work'.ifp = p
    BY <1>1, <1>2
  <2>4. Waits("ADD")' <=> Waits("ADD")
    BY <1>1 DEF Waits
  <2>5. QED
    BY <1>1, <2>1, <2>2, <2>3, <2>4 DEF AddEvents, q
<1>6. DelEvents'
  <2>1. ASSUME NEW k \in DOMAIN q', q'[k].action = "DEL"
        PROVE  /\ Waits("DEL") /\ e.action # "DEL" /\ q'[k].bss = ifp[user.ifp].bss
               /\ \A l \in DOMAIN q' : q'[l].action = "DEL" => k = l
    BY <1>3, <1>4, <2>1 DEF Timely, DelEvents, q, e
  <2>2. e.action = "DEL" => Waits("DEL") /\ p = user.ifp
    <3>1. e.action = "DEL" => Waits("DEL") /\ e.bss = ifp[user.ifp].bss
      BY <1>3 DEF Timely, DelEvents, q, e
    <3>2. Waits("DEL") => drvr.iflist[ifp[user.ifp].bss] = user.ifp
      BY DEF Always, Types, UserType, UserShape, Timely, Pairs, Waits
    <3>3. QED
      BY <3>1, <3>2 DEF p
  <2>3. /\ work'.pc = "DEL" => e.action = "DEL" /\ work'.ifp = p
        /\ work'.pc \notin {"armed", "remove", "detach", "clear"}
    BY <1>1, <1>2
  <2>4. Waits("DEL")' <=> Waits("DEL")
    BY <1>1 DEF Waits
  <2>5. QED
    BY <1>1, <2>1, <2>2, <2>3, <2>4 DEF DelEvents, q
<1>7. Pairs'
  BY <1>1 DEF Timely, Pairs, Fresh, Adding
<1>8. QED
  BY <1>5, <1>6, <1>7 DEF Timely

LEMMA WorkerTimely ==
    ASSUME Always, Timely,
           AddIfFails \/ NotifyDel \/ Armed \/ NotInTable \/ LinkEvent
    PROVE  Timely'
<1>1. UNCHANGED <<drvr, ifp, vif, user>>
  BY DEF AddIfFails, NotifyDel, Armed, NotInTable, LinkEvent
<1>2. CASE NotifyDel
  <2>1. /\ Waits("DEL") /\ work.ifp = user.ifp /\ event.vif # Null
        /\ work.pc = "DEL"
    BY <1>2 DEF NotifyDel, Timely, DelEvents, Waits, Always, UserShape
  <2>2. event'.action = "DEL" /\ work'.pc = "armed" /\ work'.ifp = work.ifp
          /\ work'.woke
    <3> DEFINE w == event.vif # Null
    <3>1. work' = [work EXCEPT !.pc = "armed", !.woke = w] /\ w = TRUE
          /\ event' = [event EXCEPT !.action = "DEL"]
      BY <1>2, <2>1 DEF NotifyDel
    <3> HIDE DEF w
    <3>2. QED
      BY <3>1 DEF Always, Types, WorkType
  <2>3. \A k \in DOMAIN drvr.event_q : drvr.event_q[k].action \notin {"ADD", "DEL"}
    BY <2>1 DEF Timely, AddEvents, DelEvents, Waits
  <2>4. (AddEvents /\ DelEvents)'
    BY <1>1, <2>1, <2>2, <2>3 DEF AddEvents, DelEvents, Waits
  <2>5. Pairs'
    BY <1>1, <2>1, <2>2 DEF Timely, Pairs, Fresh, Adding, Waits
  <2>6. QED
    BY <2>4, <2>5 DEF Timely
<1>3. CASE Armed
  <2>1. /\ UNCHANGED event /\ work.pc = "armed"
        /\ \/ work'.pc = "idle"
           \/ /\ work'.pc = "remove" /\ event.vif = Null /\ work'.ifp = work.ifp
              /\ work'.bss = work.bss /\ work'.woke = work.woke
    BY <1>3 DEF Armed, IdleWork, Always, Types, WorkType
  <2>2. event.vif = Null => user.pc \notin {"wait", "done"}
    BY DEF Always, Types, UserType, UserShape
  <2>3. work.bss \in Bss
    BY DEF Always, Types, WorkType
  <2>4. DelEvents'
    BY <1>1, <2>1, <2>2, <2>3 DEF Timely, DelEvents, Waits
  <2>5. (AddEvents /\ Pairs)'
    BY <1>1, <2>1 DEF Timely, AddEvents, Pairs, Waits, Fresh, Adding
  <2>6. QED
    BY <2>4, <2>5 DEF Timely
<1>4. CASE NotInTable \/ LinkEvent
  <2>1. UNCHANGED event /\ work'.pc = "idle"
          /\ work.pc \notin {"ADD", "DEL", "notify"}
    BY <1>4 DEF NotInTable, LinkEvent, IdleWork
  <2>2. QED
    BY <1>1, <2>1 DEF Timely, AddEvents, DelEvents, Pairs, Waits, Fresh, Adding
<1>5. CASE AddIfFails
  <2>1. UNCHANGED event /\ work'.pc = "idle" /\ work.pc = "ADD"
    BY <1>5 DEF AddIfFails, IdleWork
  <2>2. QED
    BY <1>1, <2>1 DEF Timely, AddEvents, DelEvents, Pairs, Waits, Fresh, Adding
<1>6. QED
  BY <1>2, <1>3, <1>4, <1>5

LEMMA AddIfTimely == ASSUME Always, Timely, AddIf PROVE Timely'
<1> USE NullAssumption
<1>1. /\ work.pc = "ADD" /\ work.bss \in Bss /\ UNCHANGED <<vif, event, user>>
      /\ UNCHANGED drvr.event_q /\ Waits("ADD") /\ drvr.iflist[work.bss] = Null
  BY AddIfEffect DEF Timely, AddEvents
<1>2. PICK p \in Ifp :
        /\ ifp[p].state = "none" /\ p # Null /\ ifp'[p].state = "allocated"
        /\ ifp'[p].bss = work.bss /\ ifp'[p].vif = Null
        /\ \A r \in Ifp \ {p} : ifp'[r] = ifp[r]
        /\ Entry(work.bss, p) /\ work' = [work EXCEPT !.pc = "notify", !.ifp = p]
  BY AddIfEffect
<1>3. work'.pc = "notify" /\ work'.ifp = p /\ work'.bss = work.bss
  BY <1>2 DEF Always, Types, WorkType
<1>4. \A k \in DOMAIN drvr.event_q : drvr.event_q[k].action \notin {"ADD", "DEL"}
  BY <1>1 DEF Timely, AddEvents, DelEvents, Waits
<1>5. (AddEvents /\ DelEvents)'
  BY <1>1, <1>2, <1>3, <1>4 DEF AddEvents, DelEvents, Waits, Entry
<1>6. Pairs'
  <2>1. ~Adding /\ Fresh
    BY <1>1 DEF Waits, Adding, Fresh
  <2>2. \A r \in Ifp : ifp'[r].state = "registered" =>
          /\ r # p /\ ifp'[r] = ifp[r] /\ ifp[r].state = "registered"
          /\ ifp[r].bss \in Bss /\ ifp[r].bss # work.bss
    BY <1>1, <1>2 DEF Always, Types, IfpType, Timely, Pairs, Waits
  <2>3. user'.op = "ADD" /\ user'.pc = "wait" /\ user'.vif # Null
    BY <1>1 DEF Always, UserShape, Waits
  <2>4. QED
    BY <1>1, <1>2, <2>1, <2>2, <2>3 DEF Timely, Pairs, Waits, Adding, Fresh,
       Entry
<1>7. QED
  BY <1>5, <1>6 DEF Timely

LEMMA NotifyAddTimely == ASSUME Always, Timely, NotifyAdd PROVE Timely'
<1> USE NullAssumption
<1>1. /\ work.pc = "notify" /\ work.ifp \in Ifp
      /\ ifp[work.ifp].state = "allocated"
      /\ Waits("ADD") /\ drvr.iflist[work.bss] = work.ifp
      /\ UNCHANGED <<drvr, user>>
      /\ work'.pc = "idle" /\ ifp[work.ifp].bss = work.bss
      /\ event' = [event EXCEPT !.action = "ADD"]
  BY NotifyAddEffect DEF Timely, AddEvents, Always, WorkShape, IdleWork
<1>2. event.vif = user.vif /\ user.vif \in Vif /\ event'.action = "ADD"
  BY <1>1 DEF Always, Types, UserType, UserShape, Waits
<1>3. /\ \A r \in Ifp :
           /\ ifp'[r].vif = IF r = work.ifp THEN user.vif ELSE ifp[r].vif
           /\ ifp'[r].state = ifp[r].state /\ ifp'[r].bss = ifp[r].bss
      /\ \A w \in Vif :
           /\ vif'[w].ifp = IF w = user.vif THEN work.ifp ELSE vif[w].ifp
           /\ vif'[w].state = vif[w].state
  BY <1>1, <1>2, NotifyAddEffect
<1>4. \A k \in DOMAIN drvr.event_q : drvr.event_q[k].action \notin {"ADD", "DEL"}
  BY <1>1 DEF Timely, AddEvents, DelEvents, Waits
<1>5. (AddEvents /\ DelEvents)'
  BY <1>1, <1>4 DEF AddEvents, DelEvents
<1>6. Adding' /\ ~Fresh'
  BY <1>1, <1>2 DEF Adding, Fresh, Waits
<1>7. Fresh /\ \A p \in Ifp : ifp[p].vif # user.vif
  BY <1>1 DEF Timely, Pairs, Fresh, Adding, Waits
<1>8. vif[user.vif].state = "used"
  BY <1>7 DEF Timely, Pairs
<1>9. Pairs'
  <2>1. ASSUME NEW p \in Ifp, ifp'[p].state = "registered"
        PROVE  /\ vif'[ifp'[p].vif].state = "used" /\ vif'[ifp'[p].vif].ifp = p
               /\ drvr'.iflist[ifp'[p].bss] = p
    <3>1. p # work.ifp /\ ifp[p].state = "registered" /\ ifp'[p].vif = ifp[p].vif
      BY <1>1, <1>3, <2>1
    <3>2. ifp[p].vif \in Vif /\ ifp[p].vif # user.vif
      BY <1>7, <3>1 DEF Always, Types, IfpType, VifShape
    <3>3. QED
      BY <1>1, <1>3, <3>1, <3>2 DEF Timely, Pairs, Waits
  <2>2. user'.op = "ADD" /\ user'.pc = "wait"
    BY <1>1 DEF Waits
  <2>3. QED
    BY <1>1, <1>2, <1>3, <1>6, <1>8, <2>1, <2>2 DEF Pairs
<1>10. QED
  BY <1>5, <1>9 DEF Timely

\* The worker never finds anything to repair.
LEMMA NothingToRepair ==
    ASSUME Always, Timely
    PROVE  ~DetachOld /\ ~InTable /\ ~Unregister /\ ~Clear
  BY DEF Timely, AddEvents, DelEvents, DetachOld, InTable, Unregister, Clear

\* What has happened stays in the history.
LEMMA HistoryGrows ==
    ASSUME Always, [Next]_vars
    PROVE  /\ hist \subseteq hist'
           /\ (WaitTimeout => "timedout" \in hist')
           /\ (\E b \in Bss : ChipRemoves(b)) => "unasked" \in hist'
<1>1. CASE UNCHANGED vars
  BY <1>1 DEF vars, WaitTimeout, ChipRemoves, Happened
<1>2. CASE Call
  BY <1>2 DEF Call, AddIface, DelIface, WaitTimeout, ChipRemoves, Happened
<1>3. CASE User
  BY <1>3 DEF User, RequestApIf, RequestRemove, RequestFails, WaitDone,
     WaitTimeout, DoneAdd, NetAttach, FreeVif, DoneDel, Removed, Unlock, Unarm,
     SendEvent, ChipRemoves, Happened
<1>4. CASE Worker
  BY <1>4 DEF Worker, TakeEvent, DetachOld, AddIf, AddIfFails, NotifyAdd,
     NotifyDel, Armed, NotInTable, InTable, Unregister, Clear, LinkEvent,
     WaitTimeout, ChipRemoves, Happened
<1>5. CASE \E b \in Bss : ChipLink(b) \/ ChipRemoves(b)
  BY <1>5 DEF ChipLink, WaitTimeout, ChipRemoves, Happened
<1>6. QED
  BY <1>1, <1>2, <1>3, <1>4, <1>5 DEF Next

LEMMA InitTimely == Init => Timely
<1> SUFFICES ASSUME Init PROVE Timely
  OBVIOUS
<1> USE NullAssumption, IndexAssumption, PrimaryAssumption
         DEF Init, NoIf, NoVif, Unarmed, IdleUser, IdleWork
<1>1. \A k \in DOMAIN drvr.event_q : FALSE
  OBVIOUS
<1>2. AddEvents /\ DelEvents
  BY <1>1 DEF AddEvents, DelEvents
<1>3. Pairs
  BY DEF Pairs, Fresh, Adding
<1>4. QED
  BY <1>2, <1>3 DEF Timely

\* The second layer is an invariant.
THEOREM TimelyInvariant == Spec => [](InTime => Timely)
<1>1. Always /\ (InTime => Timely) /\ [Next]_vars => (InTime => Timely)'
  <2> SUFFICES ASSUME Always, InTime => Timely, [Next]_vars, InTime' PROVE Timely'
    OBVIOUS
  <2>1. Timely /\ ~WaitTimeout /\ \A b \in Bss : ~ChipRemoves(b)
    BY HistoryGrows DEF InTime, Without
  <2>2. CASE UNCHANGED vars
    BY <2>1, <2>2 DEF vars, Timely, AddEvents, DelEvents, Pairs, Waits, Adding,
       Fresh
  <2>3. CASE Call
    BY <2>1, <2>3, StartTimely
  <2>4. CASE User
    BY <2>1, <2>4, CallTimely, RequestApIfTimely, RequestRemoveTimely,
       NetAttachTimely, FreeVifTimely, DoneDelTimely, UnlockTimely DEF User
  <2>5. CASE Worker
    BY <2>1, <2>5, TakeEventTimely, WorkerTimely, AddIfTimely, NotifyAddTimely,
       NothingToRepair DEF Worker
  <2>6. CASE \E b \in Bss : ChipLink(b)
    BY <2>1, <2>6, ChipLinkTimely
  <2>7. QED
    BY <2>1, <2>2, <2>3, <2>4, <2>5, <2>6 DEF Next
<1>2. QED
  BY <1>1, InitTimely, AlwaysInvariant, PTL DEF Spec

\* A device that is registered has a live vif, and the two refer to each other.
THEOREM RegisteredKeepsVif == Spec => []RegisteredHasVif
<1>1. Always /\ (InTime => Timely) => RegisteredHasVif
  BY DEF InTime, Always, VifShape, Timely, Pairs, RegisteredHasVif, LiveVif
<1>2. QED
  BY <1>1, AlwaysInvariant, TimelyInvariant, PTL

(***************************************************************************)
(* The default handling of a DEL: from its look whether somebody waits to  *)
(* the detach, no call is handed the event it waits for, since the worker  *)
(* is the one that hands it; so no call takes the interface out of the     *)
(* table, and only one that cannot be registered leaves it.                *)
(***************************************************************************)
Alone == work.pc \in {"remove", "detach"} =>
           /\ user.pc # "done"
           /\ user.pc \in {"request", "wait"} => event.action = "0"
Held == (work.pc = "detach" /\ Without({"refused"})) =>
          drvr.iflist[work.bss] = work.ifp

\* The worker comes to "remove" and "detach" in one way only.
LEMMA WorkerPlaces ==
    ASSUME Always, Worker
    PROVE  /\ work'.pc = "remove" => Armed
           /\ work'.pc = "detach" => InTable
<1>1. CASE TakeEvent
  <2>1. drvr.event_q[1].action \in {"ADD", "DEL", "LINK"}
    BY <1>1, TakeEventEffect DEF Event, Always, Types, DrvrType
  <2>2. QED
    BY <1>1, <2>1, TakeEventEffect DEF IdleWork
<1>2. CASE NotifyDel
  <2> DEFINE w == event.vif # Null
  <2>1. work' = [work EXCEPT !.pc = "armed", !.woke = w]
    BY <1>2 DEF NotifyDel
  <2> HIDE DEF w
  <2>2. QED
    BY <2>1 DEF Always, Types, WorkType
<1>3. CASE AddIf
  <2>1. PICK p \in Ifp : work' = [work EXCEPT !.pc = "notify", !.ifp = p]
    BY <1>3, AddIfEffect
  <2>2. QED
    BY <2>1 DEF Always, Types, WorkType
<1>4. CASE DetachOld
  <2>1. work.pc = "ADD" /\ work' = [work EXCEPT !.ifp = Null]
    BY <1>4, DetachOldEffect
  <2>2. QED
    BY <2>1 DEF Always, Types, WorkType
<1>5. CASE Unregister
  BY <1>5, UnregisterEffect DEF Always, Types, WorkType
<1>6. CASE Armed
  BY <1>6 DEF Armed, IdleWork, Always, Types, WorkType
<1>7. CASE InTable
  BY <1>7 DEF InTable, WorkerGoto, Always, Types, WorkType
<1>8. CASE AddIfFails \/ NotifyAdd \/ NotInTable \/ Clear \/ LinkEvent
  BY <1>8, NotifyAddEffect, ClearEffect
     DEF AddIfFails, NotInTable, LinkEvent, IdleWork
<1>9. QED
  BY <1>1, <1>2, <1>3, <1>4, <1>5, <1>6, <1>7, <1>8 DEF Worker

LEMMA AloneNext == ASSUME Always, Alone, [Next]_vars PROVE Alone'
<1>1. CASE UNCHANGED vars
  BY <1>1 DEF vars, Alone
<1>2. CASE Call
  <2>1. /\ UNCHANGED work /\ user'.pc = "request" /\ event'.action = "0"
    BY <1>2 DEF Call, AddIface, DelIface, arm_vif_event
  <2>2. QED
    BY <2>1 DEF Alone
<1>3. CASE User
  <2>1. UNCHANGED work
    BY <1>3 DEF User, RequestApIf, RequestRemove, RequestFails, WaitDone,
       WaitTimeout, DoneAdd, NetAttach, FreeVif, DoneDel, Removed, Unlock, Unarm
  <2>2. CASE RequestApIf \/ RequestRemove \/ RequestFails
    <3>1. user.pc = "request" /\ user'.pc \in {"wait", "unarm"} /\ UNCHANGED event
      BY <2>2 DEF RequestApIf, RequestRemove, RequestFails, Goto, Always, Types,
         UserType
    <3>2. QED
      BY <2>1, <3>1 DEF Alone
  <2>3. CASE WaitDone
    BY <2>1, <2>3 DEF WaitDone, Goto, Alone, Always, Types, UserType
  <2>4. CASE ~(RequestApIf \/ RequestRemove \/ RequestFails \/ WaitDone)
    <3>1. user'.pc \notin {"request", "wait", "done"}
      BY <1>3, <2>4 DEF User, WaitTimeout, DoneAdd, NetAttach, FreeVif, DoneDel,
         Removed, Unlock, Unarm, Goto, IdleUser, Always, Types, UserType
    <3>2. QED
      BY <2>1, <3>1 DEF Alone
  <2>5. QED
    BY <2>2, <2>3, <2>4
<1>4. CASE Worker
  <2>1. CASE Armed
    <3>1. UNCHANGED <<user, event>> /\ (event.vif # Null => work'.pc = "idle")
      BY <2>1 DEF Armed, IdleWork
    <3>2. event.vif = Null => user.pc \notin {"request", "wait", "done"}
      BY DEF Always, Types, UserType, UserShape
    <3>3. QED
      BY <3>1, <3>2 DEF Alone
  <2>2. CASE InTable
    BY <2>2 DEF InTable, WorkerGoto, Alone
  <2>3. CASE ~Armed /\ ~InTable
    <3>1. work'.pc \notin {"remove", "detach"}
      BY <1>4, <2>3, WorkerPlaces
    <3>2. QED
      BY <3>1 DEF Alone
  <2>4. QED
    BY <2>1, <2>2, <2>3
<1>5. CASE \E b \in Bss : ChipLink(b) \/ ChipRemoves(b)
  BY <1>5 DEF ChipLink, ChipRemoves, Alone
<1>6. QED
  BY <1>1, <1>2, <1>3, <1>4, <1>5 DEF Next

LEMMA HeldNext == ASSUME Always, Alone, Held, [Next]_vars, Alone' PROVE Held'
<1> SUFFICES ASSUME work'.pc = "detach", Without({"refused"})'
             PROVE  drvr'.iflist[work'.bss] = work'.ifp
  BY DEF Held
<1>1. Without({"refused"})
  BY HistoryGrows DEF Without
<1>2. CASE InTable
  BY <1>2 DEF InTable, WorkerGoto
<1>3. CASE ~InTable
  <2>1. UNCHANGED <<work, drvr.iflist>>
    <3>1. CASE UNCHANGED vars
      BY <3>1 DEF vars
    <3>2. CASE Call
      BY <3>2 DEF Call, AddIface, DelIface
    <3>3. CASE User
      <4>1. UNCHANGED work /\ user.pc # "done"
        BY <3>3 DEF User, RequestApIf, RequestRemove, RequestFails, WaitDone,
           WaitTimeout, DoneAdd, NetAttach, FreeVif, DoneDel, Removed, Unlock,
           Unarm, Alone
      <4>2. CASE RequestApIf \/ RequestRemove
        BY <4>1, <4>2, RequestApIfEffect, RequestRemoveEffect
           DEF Sends, SameTables
      <4>3. CASE NetAttach
        <5>1. drvr' = [drvr EXCEPT !.ndev_global = vif[user.vif].ifp]
          BY <4>3 DEF NetAttach, Happened, Without
        <5>2. QED
          BY <4>1, <5>1 DEF Always, Types, DrvrType
      <4>4. QED
        BY <3>3, <4>1, <4>2, <4>3 DEF User, RequestFails, WaitDone, WaitTimeout,
           DoneAdd, FreeVif, DoneDel, Removed, Unlock, Unarm
    <3>4. CASE Worker
      BY <1>3, <3>4, WorkerPlaces
    <3>5. CASE \E b \in Bss : ChipLink(b) \/ ChipRemoves(b)
      BY <3>5 DEF ChipLink, ChipRemoves, Always, Types, DrvrType
    <3>6. QED
      BY <3>1, <3>2, <3>3, <3>4, <3>5 DEF Next
  <2>2. QED
    BY <1>1, <2>1 DEF Held
<1>4. QED
  BY <1>2, <1>3

THEOREM HeldInvariant == Spec => [](Alone /\ Held)
<1>1. Init => Alone /\ Held
  BY DEF Init, IdleWork, Alone, Held
<1>2. Always /\ Alone /\ Held /\ [Next]_vars => (Alone /\ Held)'
  BY AloneNext, HeldNext
<1>3. QED
  BY <1>1, <1>2, AlwaysInvariant, PTL DEF Spec

\* No device is freed twice, by its call and by the default handling of a DEL
\* (whatever has happened but a refused device), and none is attached after it
\* has been freed: at "unlock" the device is registered still, at "detach" it
\* is still in the table, and the one a call attaches is.
THEOREM FreedOnce == Spec => NoneFreedTwice
<1>1. Always /\ user.pc = "unlock" => Live(user.ifp)
  BY DEF Always, Types, UserType, UserShape, Live
<1>2. Always /\ Held /\ work.pc = "detach" /\ Without({"refused"}) => Live(work.ifp)
  <2> SUFFICES ASSUME Always, Held, work.pc = "detach", Without({"refused"})
               PROVE  Live(work.ifp)
    OBVIOUS
  <2>1. /\ work.ifp # Null /\ work.bss \in Bss
        /\ drvr.iflist[work.bss] = work.ifp
    BY DEF Always, Types, WorkType, WorkShape, Held
  <2>2. QED
    BY <2>1 DEF Always, TableShape, Live
<1>3. Always /\ Timely /\ user.pc = "attach" => Live(vif[user.vif].ifp)
  <2> SUFFICES ASSUME Always, Timely, user.pc = "attach"
               PROVE  Live(vif[user.vif].ifp)
    OBVIOUS
  <2>1. user.op = "ADD" /\ vif[user.vif].ifp # Null
    BY DEF Always, Types, UserType, UserShape, VifShape
  <2>2. QED
    BY <2>1 DEF Timely, Pairs, Adding, Live
<1>4. Always /\ Held /\ (InTime => Timely) =>
        [ /\ (user.pc = "unlock" /\ user' # user) => Live(user.ifp)
          /\ (work.pc = "detach" /\ work'.pc = "clear" /\ Without({"refused"})) =>
               Live(work.ifp)
          /\ (user.pc = "attach" /\ user' # user
              /\ Without({"timedout", "unasked"})) => Live(vif[user.vif].ifp)]_vars
  BY <1>1, <1>2, <1>3 DEF InTime
<1>5. QED
  BY <1>4, AlwaysInvariant, TimelyInvariant, HeldInvariant, PTL
     DEF Spec, NoneFreedTwice

\* In time there is nothing for the default handling to remove: it is entered
\* only by a DEL that has just woken the call that waited for it, and finds
\* that the call has taken the interface out of the table.
THEOREM DefaultRemovalIdle ==
    Spec => [](InTime /\ work.pc = "remove" =>
                 work.woke /\ drvr.iflist[work.bss] # work.ifp)
<1>1. (InTime => Timely) => (InTime /\ work.pc = "remove" =>
                               work.woke /\ drvr.iflist[work.bss] # work.ifp)
  BY DEF Timely, DelEvents
<1>2. QED
  BY <1>1, TimelyInvariant, PTL

(***************************************************************************)
(* What holds while, besides, no device has been refused: every interface  *)
(* in the table is in use, and the queue keeps the events of an interface  *)
(* before its DEL.                                                         *)
(***************************************************************************)
Registers == Without({"timedout", "unasked", "refused"})

Used(p) == \/ ifp[p].state = "registered"
           \/ Adding /\ vif[user.vif].ifp = p
\* The DEL of b has been handled.
Deleted(b) == /\ user.op = "DEL" /\ ifp[user.ifp].bss = b
              /\ \/ user.pc = "wait" /\ event.action = "DEL"
                 \/ user.pc \in {"done", "removed", "unlock"}
InUse ==
    \A b \in Bss : drvr.iflist[b] # Null =>
      \/ Used(drvr.iflist[b])
      \/ work.pc = "notify" /\ work.ifp = drvr.iflist[b]
Links ==
    /\ user.op = "DEL" /\ user.pc \in {"wait", "done", "removed", "unlock"} =>
         chip[ifp[user.ifp].bss] = Null
    /\ \A k \in DOMAIN drvr.event_q : drvr.event_q[k].action = "LINK" =>
         /\ ~Deleted(drvr.event_q[k].bss)
         /\ ~(work.pc = "DEL" /\ work.bss = drvr.event_q[k].bss)
         /\ \A l \in DOMAIN drvr.event_q :
              (drvr.event_q[l].action = "DEL"
                 /\ drvr.event_q[l].bss = drvr.event_q[k].bss) => k < l
    /\ work.pc = "LINK" => /\ ~Deleted(work.bss) /\ Used(work.ifp)
                           /\ drvr.iflist[work.bss] = work.ifp
Orderly == InUse /\ Links

LEMMA QueueTypes ==
    ASSUME Always
    PROVE  /\ drvr.event_q \in Seq(Event)
           /\ \A k \in DOMAIN drvr.event_q : drvr.event_q[k].bss \in Bss
<1>1. drvr.event_q \in Seq(Event)
  BY DEF Always, Types, DrvrType
<1>2. \A k \in DOMAIN drvr.event_q : drvr.event_q[k] \in Event
  BY <1>1, LenProperties, ElementOfSeq
<1>3. QED
  BY <1>1, <1>2 DEF Event

LEMMA CallOrderly ==
    ASSUME Always, Timely, Orderly,
           \/ RequestFails \/ WaitDone \/ DoneAdd \/ Removed \/ Unarm
           \/ Call \/ FreeVif
    PROVE  Orderly'
<1>1. /\ UNCHANGED <<drvr, ifp, work, chip>>
      /\ \/ user.pc = "wait" /\ user'.pc = "done" /\ user'.op = user.op
              /\ event.action = user.op
         \/ user.pc = "done" /\ user'.pc = "attach" /\ user.op = "ADD"
              /\ user'.op = "ADD"
         \/ user.pc = "removed" /\ user'.pc = "unlock" /\ user'.op = user.op
         \/ /\ user.pc \in {"idle", "request", "wait", "unarm", "free"} /\ ~Adding
            /\ user'.pc \in {"unarm", "free", "idle", "request"}
      /\ Adding => user'.vif = user.vif /\ UNCHANGED vif
      /\ user'.pc \in {"done", "unlock"} => user'.ifp = user.ifp
  <2>1. CASE RequestFails \/ WaitDone \/ DoneAdd \/ Removed \/ Unarm
    <3>1. /\ UNCHANGED <<drvr, ifp, vif, work, chip>>
          /\ \/ UserGets("unarm") /\ user.pc = "request"
             \/ UserGets("done") /\ user.pc = "wait" /\ event.action = user.op
             \/ UserGets("attach") /\ user.pc = "done" /\ user.op = "ADD"
             \/ UserGets("unlock") /\ user.pc = "removed"
             \/ UserGets("free") /\ user.pc = "unarm"
             \/ user' = IdleUser /\ user.pc = "unarm"
      BY <2>1 DEF RequestFails, WaitDone, DoneAdd, Removed, Unarm, Goto,
         UserGets
    <3>2. QED
      BY <3>1 DEF Always, Types, UserType, UserGets, IdleUser, Adding
  <2>2. CASE Call
    BY <2>2, AddIfaceEffect, DelIfaceEffect DEF Call, Adding
  <2>3. CASE FreeVif
    BY <2>3, FreeVifEffect DEF Adding, IdleUser
  <2>4. QED
    BY <2>1, <2>2, <2>3
<1>2. \A p \in Ifp : Used(p) => Used(p)'
  BY <1>1 DEF Used, Adding
<1>3. \A b \in Bss : Deleted(b)' => Deleted(b)
  <2>1. ASSUME NEW b \in Bss, Deleted(b)' PROVE Deleted(b)
    <3>1. user'.pc \in {"done", "unlock"} /\ user'.op = "DEL"
            /\ ifp[user'.ifp].bss = b
      BY <1>1, <2>1 DEF Deleted
    <3>2. user'.ifp = user.ifp /\ user.op = "DEL"
      BY <1>1, <3>1
    <3>3. QED
      BY <1>1, <3>1, <3>2 DEF Deleted
  <2>2. QED
    BY <2>1
<1>4. InUse'
  BY <1>1, <1>2 DEF Orderly, InUse, Always, Types, DrvrType
<1>5. \A k \in DOMAIN drvr.event_q : drvr.event_q[k].bss \in Bss
  BY QueueTypes
<1>6. work.bss \in Bss /\ (work.pc = "LINK" => work.ifp \in Ifp)
  BY DEF Always, Types, WorkType, WorkShape
<1>7. user'.op = "DEL" /\ user'.pc \in {"wait", "done", "removed", "unlock"} =>
        /\ user.op = "DEL" /\ user.pc \in {"wait", "removed"}
        /\ user'.ifp = user.ifp
  BY <1>1
<1>8. Links'
  BY <1>1, <1>2, <1>3, <1>5, <1>6, <1>7 DEF Orderly, Links
<1>9. QED
  BY <1>4, <1>8 DEF Orderly

\* The steps that send events.
LEMMA RequestApIfOrderly == ASSUME Always, Timely, Orderly, RequestApIf PROVE Orderly'
<1> DEFINE q == drvr.event_q
<1>1. /\ user.pc = "request" /\ user.op = "ADD" /\ event.action = "0"
      /\ UNCHANGED <<ifp, vif, event, work>> /\ drvr'.iflist = drvr.iflist
      /\ UserGets("unarm") \/ UserGets("wait")
  BY RequestApIfEffect DEF Timely, Pairs, Sends, SameTables
<1>2. user'.op = "ADD" /\ ~Adding /\ ~Adding'
  BY <1>1 DEF Adding, UserGets, Always, Types, UserType
<1>3. \A k \in DOMAIN q' : q'[k].action # "ADD" => k \in DOMAIN q /\ q'[k] = q[k]
  <2>1. CASE UNCHANGED q
    BY <2>1
  <2>2. CASE ~UNCHANGED q
    <3>1. PICK b \in Bss, i \in Ifidx :
            q' = Append(q, [action |-> "ADD", bss |-> b, ifidx |-> i])
      BY <2>2, RequestApIfEffect DEF Sends
    <3> DEFINE e == [action |-> "ADD", bss |-> b, ifidx |-> i]
    <3>2. e \in Event /\ q \in Seq(Event) /\ q' = Append(q, e) /\ e.action = "ADD"
      BY <3>1 DEF Event, Always, Types, DrvrType
    <3> HIDE DEF q, e
    <3>3. QED
      BY <3>2, Queued
  <2>3. QED
    BY <2>1, <2>2
<1> HIDE DEF q
<1>4. InUse'
  BY <1>1, <1>2 DEF Orderly, InUse, Used
<1>5. Links'
  BY <1>1, <1>2, <1>3 DEF Orderly, Links, Used, Deleted, q
<1>6. QED
  BY <1>4, <1>5 DEF Orderly

LEMMA RequestRemoveOrderly ==
    ASSUME Always, Timely, Orderly, RequestRemove
    PROVE  Orderly'
<1> DEFINE q == drvr.event_q
           b == ifp[user.ifp].bss
<1>1. /\ user.pc = "request" /\ user.op = "DEL" /\ event.action = "0" /\ b \in Bss
      /\ UNCHANGED <<ifp, vif, event, work>> /\ drvr'.iflist = drvr.iflist
      /\ \/ UserGets("unarm") /\ UNCHANGED <<q, chip>>
         \/ UserGets("wait") /\ chip' = [chip EXCEPT ![b] = Null]
  BY RequestRemoveEffect DEF Timely, Pairs, Sends, SameTables
<1>2. /\ user'.op = "DEL" /\ user'.ifp = user.ifp /\ ~Adding /\ ~Adding'
      /\ user'.pc \in {"unarm", "wait"}
  BY <1>1 DEF Adding, UserGets, Always, Types, UserType
<1>3. work.pc # "DEL" /\ \A k \in DOMAIN q : q[k].action # "DEL"
  BY <1>1 DEF Timely, DelEvents, Waits
<1>4. \A k \in DOMAIN q' :
        \/ k \in DOMAIN q /\ q'[k] = q[k] /\ q'[k].action # "DEL"
        \/ q'[k].action = "DEL" /\ \A l \in DOMAIN q : l < k
  <2>1. CASE UNCHANGED q
    BY <1>3, <2>1
  <2>2. CASE ~UNCHANGED q
    <3>1. PICK i \in Ifidx : q' = Append(q, [action |-> "DEL", bss |-> b, ifidx |-> i])
      BY <2>2, RequestRemoveEffect DEF Sends
    <3> DEFINE e == [action |-> "DEL", bss |-> b, ifidx |-> i]
    <3>2. e \in Event /\ q \in Seq(Event) /\ q' = Append(q, e) /\ e.action = "DEL"
      BY <1>1, <3>1 DEF Event, Always, Types, DrvrType
    <3> HIDE DEF q, e
    <3>3. Len(q) \in Nat /\ \A l \in DOMAIN q : l \in 1..Len(q) /\ l < Len(q) + 1
      BY <3>2, Queued
    <3>4. \A k \in DOMAIN q' : \/ k \in DOMAIN q /\ q'[k] = q[k]
                               \/ k = Len(q) + 1 /\ q'[k] = e
      BY <3>2, Queued
    <3>5. QED
      BY <1>3, <3>2, <3>3, <3>4
  <2>3. QED
    BY <2>1, <2>2
<1>5. chip'[b] = Null \/ user'.pc = "unarm"
  BY <1>1 DEF Always, Types, UserType, UserGets
<1> HIDE DEF q
<1>6. InUse'
  BY <1>1, <1>2 DEF Orderly, InUse, Used
<1>7. \A c \in Bss : ~Deleted(c)'
  BY <1>1, <1>2 DEF Deleted
<1>8. \A k \in DOMAIN q : q[k].bss \in Bss
  BY QueueTypes DEF q
<1>9. work.bss \in Bss
  BY DEF Always, Types, WorkType
<1>10. \A k \in DOMAIN q' : q'[k].action = "LINK" =>
         \A l \in DOMAIN q' : q'[l].action = "DEL" => k < l
  BY <1>4
<1>11. Links'
  BY <1>1, <1>2, <1>3, <1>4, <1>5, <1>7, <1>8, <1>9, <1>10 DEF Orderly, Links,
     Used, q
<1>12. QED
  BY <1>6, <1>11 DEF Orderly

LEMMA ChipLinkOrderly ==
    ASSUME Always, Timely, Orderly, NEW b \in Bss, ChipLink(b)
    PROVE  Orderly'
<1> DEFINE q == drvr.event_q
           e == [action |-> "LINK", bss |-> b, ifidx |-> chip[b]]
<1>1. /\ q' = Append(q, e) /\ drvr'.iflist = drvr.iflist /\ chip[b] \in Ifidx
      /\ UNCHANGED <<ifp, vif, event, user, work, chip>> /\ chip[b] # Null
  BY ChipLinkEffect, NullAssumption DEF SameTables
<1>2. e \in Event /\ q \in Seq(Event) /\ e.action = "LINK" /\ e.bss = b
  BY <1>1 DEF Event, Always, Types, DrvrType
<1> HIDE DEF q, e
<1>3. \A k \in DOMAIN q' : \/ k \in DOMAIN q /\ q'[k] = q[k]
                           \/ k = Len(q) + 1 /\ q'[k] = e
  BY <1>1, <1>2, Queued
<1>4. InUse'
  BY <1>1 DEF Orderly, InUse, Used, Adding
<1>5. ~Deleted(b)
  BY <1>1 DEF Orderly, Links, Deleted
<1>6. ~(work.pc = "DEL" /\ work.bss = b)
  BY <1>1 DEF Orderly, Links, Timely, DelEvents, Waits, Always, WorkShape,
     UserShape
<1>7. \A l \in DOMAIN q : ~(q[l].action = "DEL" /\ q[l].bss = b)
  BY <1>1 DEF Orderly, Links, Timely, DelEvents, Waits, q
<1>8. \A k \in DOMAIN q' : q'[k].action = "LINK" =>
        /\ ~Deleted(q'[k].bss) /\ ~(work.pc = "DEL" /\ work.bss = q'[k].bss)
        /\ \A l \in DOMAIN q' : q'[l].action = "DEL" /\ q'[l].bss = q'[k].bss => k < l
  BY <1>2, <1>3, <1>5, <1>6, <1>7 DEF Orderly, Links, q
<1>9. Links'
  BY <1>1, <1>8 DEF Orderly, Links, Deleted, Used, Adding, q
<1>10. QED
  BY <1>4, <1>9 DEF Orderly

\* The ends of a call.  A device that is refused leaves this layer.
LEMMA NetAttachOrderly ==
    ASSUME Always, Timely, Orderly, NetAttach, "refused" \notin hist'
    PROVE  Orderly'
<1> DEFINE p == vif[user.vif].ifp
<1>1. /\ user.pc = "attach" /\ user.op = "ADD" /\ p \in Ifp
      /\ UNCHANGED <<drvr.event_q, drvr.iflist, vif, event, work, chip>>
      /\ IfpGets(p, "registered") /\ user' = IdleUser
  BY NetAttachEffect
<1>2. user'.op = "ADD" /\ user'.pc = "idle" /\ ~Adding'
  BY <1>1 DEF IdleUser, Adding
<1>3. \A r \in Ifp : Used(r) => Used(r)'
  BY <1>1 DEF Used, IfpGets
<1>4. InUse'
  BY <1>1, <1>3 DEF Orderly, InUse, Always, Types, DrvrType
<1>5. work.pc = "LINK" => work.ifp \in Ifp
  BY DEF Always, Types, WorkType, WorkShape
<1>6. Links'
  BY <1>1, <1>2, <1>3, <1>5 DEF Orderly, Links, Deleted
<1>7. QED
  BY <1>4, <1>6 DEF Orderly

LEMMA DoneDelOrderly == ASSUME Always, Timely, Orderly, DoneDel PROVE Orderly'
<1> DEFINE p == user.ifp
           b == ifp[p].bss
<1>1. /\ user.pc = "done" /\ user.op = "DEL" /\ p \in Ifp /\ b \in Bss
      /\ UNCHANGED <<ifp, vif, event, work, chip, drvr.event_q>>
      /\ Entry(b, Null) /\ UserGets("removed")
  BY DoneDelEffect DEF Always, UserShape, Timely, Pairs
<1>2. user'.pc = "removed" /\ user'.op = "DEL" /\ user'.ifp = p
  BY <1>1 DEF Always, Types, UserType, UserGets
<1>3. ~Adding /\ ~Adding'
  BY <1>1, <1>2 DEF Adding
<1>4. InUse'
  BY <1>1, <1>3 DEF Orderly, InUse, Used, Entry
<1>5. Deleted(b)
  BY <1>1 DEF Deleted
<1>6. work.pc = "LINK" => drvr'.iflist[work.bss] = drvr.iflist[work.bss]
  BY <1>1, <1>5 DEF Orderly, Links, Entry, Always, Types, WorkType
<1>7. Links'
  BY <1>1, <1>2, <1>3, <1>6 DEF Orderly, Links, Deleted, Used
<1>8. QED
  BY <1>4, <1>7 DEF Orderly

LEMMA UnlockOrderly == ASSUME Always, Timely, Orderly, Unlock PROVE Orderly'
<1>1. /\ user.pc = "unlock" /\ user.op = "DEL" /\ user.ifp \in Ifp
      /\ IfpGets(user.ifp, "freed")
      /\ UNCHANGED <<drvr, event, work, chip>>
      /\ user'.pc = "idle" /\ user'.op = "ADD"
  BY UnlockEffect DEF IdleUser
<1>2. ~Adding /\ ~Adding'
  BY <1>1 DEF Adding
<1>3. \A b \in Bss : drvr.iflist[b] # user.ifp
  BY <1>1 DEF Always, Gone
<1>4. \A r \in Ifp : r # user.ifp /\ Used(r) => Used(r)'
  BY <1>1, <1>2 DEF Used, IfpGets
<1>5. InUse'
  BY <1>1, <1>3, <1>4 DEF Orderly, InUse, Always, Types, DrvrType
<1>6. work.pc = "LINK" => work.ifp \in Ifp /\ work.bss \in Bss
  BY DEF Always, Types, WorkType, WorkShape
<1>7. Links'
  BY <1>1, <1>3, <1>4, <1>6 DEF Orderly, Links, Deleted
<1>8. QED
  BY <1>5, <1>7 DEF Orderly

\* The worker takes an event: the interface of a LINK is in use.
LEMMA TakeEventOrderly == ASSUME Always, Timely, Orderly, TakeEvent PROVE Orderly'
<1> DEFINE q == drvr.event_q
           e == q[1]
           p == drvr.iflist[e.bss]
<1>1. /\ work.pc = "idle" /\ e.bss \in Bss /\ e.action \in {"ADD", "DEL", "LINK"}
      /\ drvr'.iflist = drvr.iflist /\ UNCHANGED <<ifp, vif, event, user, chip>>
      /\ q \in Seq(Event) /\ q # <<>> /\ q' = Tail(q)
  BY TakeEventEffect DEF SameTables, Event, Always, Types, DrvrType
<1>2. \/ e.action # "ADD" /\ p = Null /\ work'.pc = "idle"
      \/ /\ e.action = "ADD" \/ p # Null
         /\ work'.pc = e.action /\ work'.bss = e.bss /\ work'.ifp = p
  BY TakeEventEffect DEF IdleWork
<1>3. /\ 1 \in DOMAIN q /\ DOMAIN q \subseteq Nat
      /\ \A k \in DOMAIN q' : k \in Nat /\ k + 1 \in DOMAIN q /\ q'[k] = q[k + 1]
      /\ \A k \in DOMAIN q' : ~(k + 1 < 1)
  <2>1. /\ 1 \in DOMAIN q /\ Len(q) \in Nat /\ DOMAIN q = 1..Len(q)
        /\ DOMAIN q' = 1..(Len(q) - 1)
        /\ \A k \in DOMAIN q' : k + 1 \in DOMAIN q /\ q'[k] = q[k + 1]
    BY <1>1, Dequeued
  <2> HIDE DEF q
  <2>2. QED
    BY <2>1
<1>4. ASSUME NEW k \in DOMAIN q', NEW l \in DOMAIN q' PROVE k + 1 < l + 1 => k < l
  BY <1>3
<1> HIDE DEF q, e, p
<1>5. /\ \A r \in Ifp : Used(r)' <=> Used(r)
      /\ \A b \in Bss : Deleted(b)' <=> Deleted(b)
  BY <1>1 DEF Used, Deleted, Adding
<1>6. InUse'
  BY <1>1, <1>5 DEF Orderly, InUse, Always, Types, DrvrType
<1>7. ASSUME NEW k \in DOMAIN q', q'[k].action = "LINK"
      PROVE  /\ ~Deleted(q'[k].bss) /\ q'[k].bss \in Bss
             /\ ~(e.action = "DEL" /\ e.bss = q'[k].bss)
             /\ \A l \in DOMAIN q' :
                  q'[l].action = "DEL" /\ q'[l].bss = q'[k].bss => k < l
  BY <1>3, <1>4, <1>7, QueueTypes DEF Orderly, Links, q, e
<1>8. e.action = "LINK" => ~Deleted(e.bss)
  BY <1>3 DEF Orderly, Links, q, e
<1>9. e.action = "LINK" /\ p # Null => Used(p) /\ p \in Ifp
  BY <1>1 DEF Orderly, InUse, Always, Types, DrvrType, p
<1>10. Links'
  BY <1>1, <1>2, <1>5, <1>7, <1>8, <1>9 DEF Orderly, Links, q, p
<1>11. QED
  BY <1>6, <1>10 DEF Orderly

LEMMA WorkerOrderly ==
    ASSUME Always, Timely, Orderly,
           AddIfFails \/ NotifyDel \/ Armed \/ NotInTable \/ LinkEvent
    PROVE  Orderly'
<1>1. UNCHANGED <<drvr, ifp, vif, user, chip>> /\ work.pc # "notify"
  BY DEF AddIfFails, NotifyDel, Armed, NotInTable, LinkEvent
<1>2. CASE NotifyDel
  <2>1. /\ Waits("DEL") /\ work.ifp = user.ifp /\ work.pc = "DEL"
        /\ ifp[user.ifp].bss = work.bss
    BY <1>2 DEF NotifyDel, Timely, DelEvents, Always, WorkShape, UserShape,
       Waits
  <2>2. work'.pc = "armed"
    <3> DEFINE w == event.vif # Null
    <3>1. work' = [work EXCEPT !.pc = "armed", !.woke = w]
      BY <1>2 DEF NotifyDel
    <3> HIDE DEF w
    <3>2. QED
      BY <3>1 DEF Always, Types, WorkType
  <2>3. ~Adding /\ ~Adding' /\ \A b \in Bss : Deleted(b)' => b = work.bss
    BY <1>1, <2>1 DEF Adding, Waits, Deleted
  <2>4. InUse'
    BY <1>1, <2>3 DEF Orderly, InUse, Used
  <2>5. Links'
    BY <1>1, <2>1, <2>2, <2>3, QueueTypes DEF Orderly, Links
  <2>6. QED
    BY <2>4, <2>5 DEF Orderly
<1>3. CASE AddIfFails \/ Armed \/ NotInTable \/ LinkEvent
  <2>1. UNCHANGED event /\ work'.pc \in {"idle", "remove"}
    BY <1>3 DEF AddIfFails, Armed, NotInTable, LinkEvent, IdleWork, Always, Types, WorkType
  <2>2. QED
    BY <1>1, <2>1 DEF Orderly, InUse, Links, Used, Deleted, Adding
<1>4. QED
  BY <1>2, <1>3

LEMMA AddIfOrderly == ASSUME Always, Timely, Orderly, AddIf PROVE Orderly'
<1>1. /\ work.pc = "ADD" /\ UNCHANGED <<vif, event, user, chip, drvr.event_q>>
      /\ Waits("ADD")
  BY AddIfEffect DEF Timely, AddEvents
<1>2. PICK p \in Ifp :
        /\ ifp[p].state = "none" /\ \A r \in Ifp \ {p} : ifp'[r] = ifp[r]
        /\ Entry(work.bss, p) /\ work' = [work EXCEPT !.pc = "notify", !.ifp = p]
  BY AddIfEffect
<1>3. work'.pc = "notify" /\ work'.ifp = p /\ ~Adding
  BY <1>1, <1>2 DEF Always, Types, WorkType, Waits, Adding
<1>4. \A r \in Ifp : Used(r) => Used(r)'
  BY <1>2, <1>3 DEF Used
<1>5. InUse'
  BY <1>1, <1>2, <1>3, <1>4 DEF Orderly, InUse, Entry, Always, Types, DrvrType
<1>6. user'.op = "ADD"
  BY <1>1 DEF Waits
<1>7. Links'
  BY <1>1, <1>3, <1>6 DEF Orderly, Links, Deleted
<1>8. QED
  BY <1>5, <1>7 DEF Orderly

LEMMA NotifyAddOrderly == ASSUME Always, Timely, Orderly, NotifyAdd PROVE Orderly'
<1>1. /\ work.pc = "notify" /\ work.ifp \in Ifp /\ Waits("ADD")
      /\ UNCHANGED <<drvr, user, chip>> /\ work'.pc = "idle"
      /\ event' = [event EXCEPT !.action = "ADD"]
  BY NotifyAddEffect DEF Timely, AddEvents, IdleWork
<1>2. event.vif = user.vif /\ user.vif \in Vif /\ event'.action = "ADD"
  BY <1>1 DEF Always, Types, UserType, UserShape, Waits
<1>3. /\ \A r \in Ifp : ifp'[r].state = ifp[r].state
      /\ vif'[user.vif].ifp = work.ifp
  BY <1>1, <1>2, NullAssumption, NotifyAddEffect
<1>4. ~Adding /\ Adding'
  BY <1>1, <1>2 DEF Adding, Waits
<1>5. InUse'
  BY <1>1, <1>3, <1>4 DEF Orderly, InUse, Used, Always, Types, DrvrType
<1>6. user'.op = "ADD"
  BY <1>1 DEF Waits
<1>7. Links'
  BY <1>1, <1>6 DEF Orderly, Links, Deleted
<1>8. QED
  BY <1>5, <1>7 DEF Orderly

LEMMA InitOrderly == Init => Orderly
<1> SUFFICES ASSUME Init PROVE Orderly
  OBVIOUS
<1> USE NullAssumption, IndexAssumption, PrimaryAssumption
         DEF Init, NoIf, NoVif, Unarmed, IdleUser, IdleWork
<1>1. \A k \in DOMAIN drvr.event_q : FALSE
  OBVIOUS
<1>2. QED
  BY <1>1 DEF Orderly, InUse, Links, Used

\* The third layer is an invariant.
THEOREM OrderlyInvariant == Spec => [](Registers => Orderly)
<1>1. /\ Always /\ (InTime => Timely) /\ (Registers => Orderly) /\ [Next]_vars
      => (Registers => Orderly)'
  <2> SUFFICES ASSUME Always, InTime => Timely, Registers => Orderly, [Next]_vars,
                      Registers'
               PROVE  Orderly'
    OBVIOUS
  <2>1. /\ Timely /\ Orderly /\ ~WaitTimeout /\ \A b \in Bss : ~ChipRemoves(b)
        /\ "refused" \notin hist'
    BY HistoryGrows DEF InTime, Registers, Without
  <2>2. CASE UNCHANGED vars
    BY <2>1, <2>2 DEF vars, Orderly, InUse, Links, Used, Deleted, Adding
  <2>3. CASE Call \/ User
    BY <2>1, <2>3, CallOrderly, RequestApIfOrderly, RequestRemoveOrderly,
       NetAttachOrderly, DoneDelOrderly, UnlockOrderly DEF User
  <2>4. CASE Worker
    BY <2>1, <2>4, TakeEventOrderly, WorkerOrderly, AddIfOrderly,
       NotifyAddOrderly, NothingToRepair DEF Worker
  <2>5. CASE \E b \in Bss : ChipLink(b)
    BY <2>1, <2>5, ChipLinkOrderly
  <2>6. QED
    BY <2>1, <2>2, <2>3, <2>4, <2>5 DEF Next
<1>2. QED
  BY <1>1, InitOrderly, AlwaysInvariant, TimelyInvariant, PTL DEF Spec

\* The handler of a link event finds a live interface and its live vif.
THEOREM HandlerSafe == Spec => []HandlerFindsVif
<1>1. Always /\ (InTime => Timely) /\ (Registers => Orderly) => HandlerFindsVif
  <2> SUFFICES ASSUME Always, InTime => Timely, Registers => Orderly,
                      work.pc = "LINK", Registers
               PROVE  Live(work.ifp) /\ LiveVif(ifp[work.ifp].vif)
    BY DEF HandlerFindsVif, Registers
  <2>1. Timely /\ Used(work.ifp) /\ work.ifp \in Ifp /\ work.ifp # Null
    BY NullAssumption DEF InTime, Registers, Without, Orderly, Links, Always,
       Types, WorkType, WorkShape
  <2>2. CASE ifp[work.ifp].state = "registered"
    BY <2>1, <2>2 DEF Always, VifShape, Timely, Pairs, Live, LiveVif
  <2>3. CASE Adding /\ vif[user.vif].ifp = work.ifp
    BY <2>1, <2>3 DEF Always, Types, UserType, UserShape, Timely, Pairs,
       Adding, Live, LiveVif
  <2>4. QED
    BY <2>1, <2>2, <2>3 DEF Used
<1>2. QED
  BY <1>1, AlwaysInvariant, TimelyInvariant, OrderlyInvariant, PTL

(***************************************************************************)
(* What holds while, besides, no event has been lost: the tables have what *)
(* the firmware has, but for the interface a call is waiting for.          *)
(***************************************************************************)
Complete == Without({"timedout", "unasked", "refused", "lost"})

AddPending(b) ==
    \/ work.pc = "ADD" /\ work.bss = b
    \/ \E k \in DOMAIN drvr.event_q :
         drvr.event_q[k].action = "ADD" /\ drvr.event_q[k].bss = b
DelPending(b) == /\ user.op = "DEL" /\ user.pc \in {"wait", "done"}
                 /\ ifp[user.ifp].bss = b
ChipTable ==
    /\ \A b, c \in Bss : chip[b] # Null /\ chip[b] = chip[c] => b = c
    /\ \A b \in Bss : drvr.iflist[b] # Null =>
         LET i == ifp[drvr.iflist[b]].ifidx
         IN  drvr.if2bss[i] = b /\ (chip[b] = i \/ DelPending(b))
    /\ \A b \in Bss : drvr.iflist[b] = Null /\ chip[b] # Null =>
         Waits("ADD") /\ AddPending(b) /\ drvr.if2bss[chip[b]] = Null
    /\ \A i \in Ifidx : drvr.if2bss[i] # Null =>
         /\ drvr.iflist[drvr.if2bss[i]] # Null
         /\ ifp[drvr.iflist[drvr.if2bss[i]]].ifidx = i
    /\ \A k \in DOMAIN drvr.event_q : drvr.event_q[k].action = "ADD" =>
         drvr.event_q[k].ifidx = chip[drvr.event_q[k].bss]
    /\ work.pc = "ADD" => work.ifidx = chip[work.bss]

\* Steps that leave the tables and the firmware alone.
LEMMA QuietComplete ==
    ASSUME Always, Timely, ChipTable, Always',
           UNCHANGED <<drvr.iflist, drvr.if2bss, drvr.event_q, chip>>,
           \A p \in Ifp : ifp'[p].ifidx = ifp[p].ifidx,
           \A b \in Bss : DelPending(b) => DelPending(b)',
           Waits("ADD") /\ ~Waits("ADD")' =>
             work.pc # "ADD" /\ \A k \in DOMAIN drvr.event_q :
                                  drvr.event_q[k].action # "ADD",
           work.pc = "ADD" => work'.pc = "ADD",
           work'.pc = "ADD" => work.pc = "ADD",
           work.pc = "ADD" => work'.bss = work.bss /\ work'.ifidx = work.ifidx
    PROVE  ChipTable'
<1>1. \A b \in Bss : AddPending(b) => AddPending(b)'
  BY DEF AddPending
<1>2. \A b \in Bss : Waits("ADD") /\ AddPending(b) => Waits("ADD")'
  BY DEF AddPending
<1>3. \A b \in Bss : drvr.iflist[b] # Null => drvr.iflist[b] \in Ifp
  BY DEF Always, Types, DrvrType
<1>4. \A i \in Ifidx : drvr.if2bss[i] # Null => drvr.if2bss[i] \in Bss
  BY DEF Always, Types, DrvrType
<1>5. \A b \in Bss : drvr'.iflist[b] # Null =>
        LET i == ifp'[drvr'.iflist[b]].ifidx
        IN  drvr'.if2bss[i] = b /\ (chip'[b] = i \/ DelPending(b)')
  BY <1>3 DEF ChipTable
<1>6. \A b \in Bss : drvr'.iflist[b] = Null /\ chip'[b] # Null =>
        Waits("ADD")' /\ AddPending(b)' /\ drvr'.if2bss[chip'[b]] = Null
  BY <1>1, <1>2 DEF ChipTable
<1>7. \A i \in Ifidx : drvr'.if2bss[i] # Null =>
        /\ drvr'.iflist[drvr'.if2bss[i]] # Null
        /\ ifp'[drvr'.iflist[drvr'.if2bss[i]]].ifidx = i
  BY <1>3, <1>4 DEF ChipTable
<1>8. QED
  BY <1>5, <1>6, <1>7 DEF ChipTable

LEMMA CallComplete ==
    ASSUME Always, Timely, ChipTable, Always',
           \/ RequestFails \/ WaitDone \/ DoneAdd \/ Removed \/ Unarm
           \/ Call \/ FreeVif \/ Unlock
           \/ NetAttach /\ "refused" \notin hist'
    PROVE  ChipTable'
<1>1. /\ UNCHANGED <<drvr.iflist, drvr.if2bss, drvr.event_q, chip, work>>
      /\ \A p \in Ifp : ifp'[p].ifidx = ifp[p].ifidx /\ ifp'[p].bss = ifp[p].bss
      /\ \/ /\ user.pc = "wait" /\ event.action = user.op
            /\ user' = [user EXCEPT !.pc = "done"]
         \/ user.pc # "wait" /\ (user.pc = "done" => user.op = "ADD")
  <2>1. CASE RequestFails \/ WaitDone \/ DoneAdd \/ Removed \/ Unarm
    BY <2>1 DEF RequestFails, WaitDone, DoneAdd, Removed, Unarm, Goto
  <2>2. CASE Call
    BY <2>2, AddIfaceEffect, DelIfaceEffect DEF Call
  <2>3. CASE FreeVif \/ Unlock
    BY <2>3, FreeVifEffect, UnlockEffect DEF IfpGets
  <2>4. CASE NetAttach /\ "refused" \notin hist'
    BY <2>4, NetAttachEffect DEF IfpGets
  <2>5. QED
    BY <2>1, <2>2, <2>3, <2>4
<1>2. \A b \in Bss : DelPending(b) => DelPending(b)'
  BY <1>1 DEF DelPending, Always, Types, UserType, UserShape
<1>3. ~Waits("ADD")
  BY <1>1 DEF Waits, Always, Types, UserType
<1>4. QED
  BY <1>1, <1>2, <1>3, QuietComplete

LEMMA WorkerComplete ==
    ASSUME Always, Timely, ChipTable, Always',
           NotifyDel \/ Armed \/ NotInTable \/ LinkEvent \/ NotifyAdd
    PROVE  ChipTable'
<1>1. /\ UNCHANGED <<drvr, chip, user>>
      /\ \A p \in Ifp : ifp'[p].ifidx = ifp[p].ifidx /\ ifp'[p].bss = ifp[p].bss
      /\ work.pc # "ADD"
  BY NotifyAddEffect DEF NotifyDel, Armed, NotInTable, LinkEvent
<1>2. work'.pc # "ADD"
  <2>1. CASE NotifyDel
    <3> DEFINE w == event.vif # Null
    <3>1. work' = [work EXCEPT !.pc = "armed", !.woke = w]
      BY <2>1 DEF NotifyDel
    <3> HIDE DEF w
    <3>2. QED
      BY <3>1 DEF Always, Types, WorkType
  <2>2. CASE ~NotifyDel
    BY <2>2, NotifyAddEffect DEF Armed, NotInTable, LinkEvent, IdleWork,
       Always, Types, WorkType
  <2>3. QED
    BY <2>1, <2>2
<1>3. \A b \in Bss : DelPending(b) => DelPending(b)'
  BY <1>1 DEF DelPending, Always, Types, UserType, UserShape
<1>4. Waits("ADD") /\ ~Waits("ADD")' =>
        \A k \in DOMAIN drvr.event_q : drvr.event_q[k].action # "ADD"
  <2>1. CASE NotifyDel \/ NotifyAdd
    BY <2>1, NotifyAddEffect DEF NotifyDel, Timely, AddEvents, DelEvents, Waits
  <2>2. CASE Armed \/ NotInTable \/ LinkEvent
    BY <1>1, <2>2 DEF Armed, NotInTable, LinkEvent, Waits
  <2>3. QED
    BY <2>1, <2>2
<1>5. QED
  BY <1>1, <1>2, <1>3, <1>4, QuietComplete

\* The steps that send events, none of which is lost.
LEMMA RequestApIfComplete ==
    ASSUME Always, Timely, ChipTable, Always', RequestApIf, "lost" \notin hist'
    PROVE  ChipTable'
<1> DEFINE q == drvr.event_q
<1>1. /\ user.pc = "request" /\ user.op = "ADD" /\ event.action = "0"
      /\ UNCHANGED <<ifp, vif, event, work>> /\ SameTables
      /\ \A b \in Bss : ~DelPending(b)
  BY RequestApIfEffect DEF Timely, Pairs, Sends, SameTables, DelPending
<1>2. \A b \in Bss : drvr.iflist[b] = Null => chip[b] = Null
  BY <1>1 DEF ChipTable, Waits
<1>3. CASE UserGets("unarm") /\ UNCHANGED <<drvr, chip, hist>>
  BY <1>1, <1>3, QuietComplete DEF Waits, DelPending
<1>4. CASE ~(UserGets("unarm") /\ UNCHANGED <<drvr, chip, hist>>)
  <2>0. UserGets("wait")
    BY <1>4, RequestApIfEffect
  <2>1. PICK b \in Bss, i \in Ifidx :
          /\ drvr.iflist[b] = Null /\ chip[b] = Null
          /\ chip' = [chip EXCEPT ![b] = i] /\ \A c \in Bss : chip[c] # i
          /\ Sends("ADD", b, i)
    BY <1>2, <1>4, RequestApIfEffect
  <2> DEFINE e == [action |-> "ADD", bss |-> b, ifidx |-> i]
  <2>2. e \in Event /\ q \in Seq(Event) /\ q' = Append(q, e) /\ e.action = "ADD"
        /\ e.bss = b /\ e.ifidx = i
    BY <2>1 DEF Sends, Event, Always, Types, DrvrType
  <2> HIDE DEF e, q
  <2>3. /\ \A k \in DOMAIN q' : \/ k \in DOMAIN q /\ q'[k] = q[k]
                                \/ k = Len(q) + 1 /\ q'[k] = e
        /\ \A k \in DOMAIN q : k \in DOMAIN q' /\ q'[k] = q[k]
        /\ Len(q) + 1 \in DOMAIN q' /\ q'[Len(q) + 1] = e
    BY <2>2, Queued
  <2>4. /\ chip \in [Bss -> Ifidx \cup {Null}] /\ i # Null /\ chip'[b] = i
        /\ \A c \in Bss : c # b => chip'[c] = chip[c]
    BY <2>1, NullAssumption DEF Always, Types
  <2>5. Waits("ADD")' /\ AddPending(b)'
    <3>1. Waits("ADD")'
      BY <1>1, <2>0 DEF Waits, UserGets, Always, Types, UserType
    <3>2. AddPending(b)'
      BY <2>2, <2>3 DEF AddPending, q
    <3>3. QED
      BY <3>1, <3>2
  <2>6. drvr.if2bss[i] = Null
    <3>1. drvr.if2bss[i] \in Bss \cup {Null}
      BY DEF Always, Types, DrvrType
    <3>2. ASSUME drvr.if2bss[i] # Null PROVE FALSE
      <4>1. /\ drvr.iflist[drvr.if2bss[i]] # Null
            /\ ifp[drvr.iflist[drvr.if2bss[i]]].ifidx = i
        BY <3>2 DEF ChipTable
      <4>2. chip[drvr.if2bss[i]] = i
        BY <1>1, <3>1, <3>2, <4>1 DEF ChipTable
      <4>3. QED
        BY <2>1, <3>1, <3>2, <4>2
    <3>3. QED
      BY <3>2
  <2>7. \A k \in DOMAIN q : q[k].action # "ADD"
    BY <1>1 DEF Timely, AddEvents, Waits, q
  <2>8. work.pc # "ADD"
    BY <1>1 DEF Timely, AddEvents, Waits
  <2>9. \A c, d \in Bss : chip'[c] # Null /\ chip'[c] = chip'[d] => c = d
    BY <2>1, <2>4 DEF ChipTable
  <2>10. \A c \in Bss : drvr'.iflist[c] # Null =>
          LET j == ifp'[drvr'.iflist[c]].ifidx
          IN  drvr'.if2bss[j] = c /\ (chip'[c] = j \/ DelPending(c)')
    BY <1>1, <2>1, <2>4 DEF ChipTable, SameTables
  <2>11. \A c \in Bss : drvr'.iflist[c] = Null /\ chip'[c] # Null =>
          Waits("ADD")' /\ AddPending(c)' /\ drvr'.if2bss[chip'[c]] = Null
    BY <1>1, <1>2, <2>4, <2>5, <2>6 DEF SameTables
  <2>12. \A k \in DOMAIN q' : q'[k].action = "ADD" => q'[k].ifidx = chip'[q'[k].bss]
    BY <2>2, <2>3, <2>4, <2>7
  <2>13. QED
    BY <1>1, <2>8, <2>9, <2>10, <2>11, <2>12 DEF ChipTable, SameTables, q
<1>5. QED
  BY <1>3, <1>4

LEMMA RequestRemoveComplete ==
    ASSUME Always, Timely, ChipTable, Always', RequestRemove, "lost" \notin hist'
    PROVE  ChipTable'
<1> DEFINE q == drvr.event_q
           b == ifp[user.ifp].bss
<1>1. /\ user.pc = "request" /\ user.op = "DEL" /\ b \in Bss
      /\ UNCHANGED <<ifp, vif, event, work>> /\ SameTables
      /\ \/ UserGets("unarm") /\ UNCHANGED <<drvr, chip>>
         \/ /\ UserGets("wait") /\ chip' = [chip EXCEPT ![b] = Null]
            /\ chip[b] \in Ifidx /\ Sends("DEL", b, chip[b])
  BY RequestRemoveEffect DEF Sends, SameTables
<1>2. ~Waits("ADD") /\ \A c \in Bss : ~DelPending(c)
  BY <1>1 DEF Waits, DelPending
<1>3. CASE UNCHANGED <<drvr, chip>>
  BY <1>1, <1>2, <1>3, QuietComplete
<1>4. CASE UserGets("wait") /\ ~UNCHANGED <<drvr, chip>>
  <2> DEFINE e == [action |-> "DEL", bss |-> b, ifidx |-> chip[b]]
  <2>1. /\ chip' = [chip EXCEPT ![b] = Null] /\ q' = Append(q, e)
        /\ e \in Event /\ q \in Seq(Event) /\ e.action = "DEL"
    BY <1>1, <1>4 DEF Sends, Event, Always, Types, DrvrType
  <2> HIDE DEF e, q
  <2>2. \A k \in DOMAIN q' : \/ k \in DOMAIN q /\ q'[k] = q[k]
                             \/ k = Len(q) + 1 /\ q'[k] = e
    BY <2>1, Queued
  <2>3. /\ chip'[b] = Null /\ \A c \in Bss : c # b => chip'[c] = chip[c]
    BY <1>1, <2>1 DEF Always, Types
  <2>4. \A c \in Bss : c = b => DelPending(c)'
    BY <1>1, <1>4 DEF DelPending, UserGets, Always, Types, UserType
  <2>5. work.pc # "ADD" /\ \A k \in DOMAIN q : q[k].action # "ADD"
    BY <1>2 DEF Timely, AddEvents, q
  <2>6. \A k \in DOMAIN q' : q'[k].action # "ADD"
    BY <2>1, <2>2, <2>5
  <2>7. \A c \in Bss : drvr'.iflist[c] # Null =>
          LET j == ifp'[drvr'.iflist[c]].ifidx
          IN  drvr'.if2bss[j] = c /\ (chip'[c] = j \/ DelPending(c)')
    <3>1. ASSUME NEW c \in Bss, drvr.iflist[c] # Null
          PROVE  LET j == ifp[drvr.iflist[c]].ifidx
                 IN  drvr.if2bss[j] = c /\ (chip'[c] = j \/ c = b)
      BY <1>2, <2>3, <3>1 DEF ChipTable
    <3>2. QED
      BY <1>1, <2>4, <3>1 DEF SameTables
  <2>8. \A c \in Bss : drvr'.iflist[c] = Null => chip'[c] = Null
    BY <1>1, <1>2, <2>3 DEF ChipTable, SameTables
  <2>9. \A c, d \in Bss : chip'[c] # Null /\ chip'[c] = chip'[d] => c = d
    BY <2>3 DEF ChipTable
  <2>10. QED
    BY <1>1, <2>5, <2>6, <2>7, <2>8, <2>9 DEF ChipTable, SameTables, q
<1>5. QED
  BY <1>1, <1>3, <1>4

LEMMA ChipLinkComplete ==
    ASSUME Always, Timely, ChipTable, Always', NEW b \in Bss, ChipLink(b)
    PROVE  ChipTable'
<1> DEFINE q == drvr.event_q
           e == [action |-> "LINK", bss |-> b, ifidx |-> chip[b]]
<1>1. /\ q' = Append(q, e) /\ SameTables /\ chip[b] \in Ifidx
      /\ UNCHANGED <<ifp, vif, event, user, work, chip>>
  BY ChipLinkEffect
<1>2. e \in Event /\ q \in Seq(Event) /\ e.action = "LINK"
  BY <1>1 DEF Event, Always, Types, DrvrType
<1> HIDE DEF q, e
<1>3. /\ \A k \in DOMAIN q' : \/ k \in DOMAIN q /\ q'[k] = q[k]
                              \/ k = Len(q) + 1 /\ q'[k] = e
      /\ \A k \in DOMAIN q : k \in DOMAIN q' /\ q'[k] = q[k]
  BY <1>1, <1>2, Queued
<1>4. \A c \in Bss : AddPending(c) => AddPending(c)'
  BY <1>1, <1>3 DEF AddPending, q
<1>5. \A k \in DOMAIN q' : q'[k].action = "ADD" => q'[k].ifidx = chip[q'[k].bss]
  BY <1>2, <1>3 DEF ChipTable, q
<1>6. \A c \in Bss : DelPending(c)' <=> DelPending(c)
  BY <1>1 DEF DelPending
<1>7. Waits("ADD")' <=> Waits("ADD")
  BY <1>1 DEF Waits
<1>8. QED
  BY <1>1, <1>4, <1>5, <1>6, <1>7 DEF ChipTable, SameTables, q

\* The steps that change the tables.
LEMMA DoneDelComplete ==
    ASSUME Always, Timely, Orderly, ChipTable, Always', DoneDel
    PROVE  ChipTable'
<1> DEFINE p == user.ifp
           b == ifp[p].bss
<1>1. /\ user.pc = "done" /\ user.op = "DEL" /\ p \in Ifp /\ b \in Bss
      /\ UNCHANGED <<ifp, vif, event, work, chip, drvr.event_q>>
      /\ drvr.iflist[b] = p /\ Entry(b, Null)
      /\ \A i \in Ifidx : drvr'.if2bss[i] =
           IF i = ifp[p].ifidx /\ drvr.if2bss[i] = b THEN Null ELSE drvr.if2bss[i]
      /\ p # Null
  BY DoneDelEffect, NullAssumption DEF Always, UserShape, Timely, Pairs
<1>2. chip[b] = Null
  BY <1>1 DEF Orderly, Links
<1>3. /\ ~Waits("ADD") /\ \A c \in Bss : c # b => ~DelPending(c)
      /\ work.pc # "ADD"
      /\ \A k \in DOMAIN drvr.event_q : drvr.event_q[k].action # "ADD"
  BY <1>1 DEF Waits, DelPending, Timely, AddEvents
<1>4. \A c \in Bss : drvr'.iflist[c] # Null =>
        LET j == ifp'[drvr'.iflist[c]].ifidx
        IN  drvr'.if2bss[j] = c /\ (chip'[c] = j \/ DelPending(c)')
  <2>1. ASSUME NEW c \in Bss, drvr'.iflist[c] # Null
        PROVE  /\ c # b /\ drvr'.iflist[c] = drvr.iflist[c]
               /\ ifp[drvr.iflist[c]].ifidx \in Ifidx
               /\ drvr.if2bss[ifp[drvr.iflist[c]].ifidx] = c
               /\ chip[c] = ifp[drvr.iflist[c]].ifidx
    BY <1>1, <1>3, <2>1 DEF Entry, ChipTable, Always, Types, DrvrType, IfpType
  <2>2. QED
    BY <1>1, <2>1
<1>5. \A c \in Bss : drvr'.iflist[c] = Null => chip'[c] = Null
  BY <1>1, <1>2, <1>3 DEF ChipTable, Entry
<1>6. \A i \in Ifidx : drvr'.if2bss[i] # Null =>
        /\ drvr'.iflist[drvr'.if2bss[i]] # Null
        /\ ifp'[drvr'.iflist[drvr'.if2bss[i]]].ifidx = i
  <2>1. ASSUME NEW i \in Ifidx, drvr'.if2bss[i] # Null
        PROVE  /\ drvr'.if2bss[i] = drvr.if2bss[i] /\ drvr.if2bss[i] \in Bss \ {b}
               /\ drvr.iflist[drvr.if2bss[i]] # Null
               /\ ifp[drvr.iflist[drvr.if2bss[i]]].ifidx = i
    <3>1. drvr'.if2bss[i] = drvr.if2bss[i] /\ drvr.if2bss[i] # Null
          /\ drvr.if2bss[i] \in Bss
      BY <1>1, <2>1 DEF Always, Types, DrvrType
    <3>2. /\ drvr.iflist[drvr.if2bss[i]] # Null
          /\ ifp[drvr.iflist[drvr.if2bss[i]]].ifidx = i
      BY <3>1 DEF ChipTable
    <3>3. drvr.if2bss[i] # b
      BY <1>1, <2>1, <3>1, <3>2
    <3>4. QED
      BY <3>1, <3>2, <3>3
  <2>2. QED
    BY <1>1, <2>1 DEF Entry
<1>7. /\ work'.pc # "ADD"
      /\ \A k \in DOMAIN drvr'.event_q : drvr'.event_q[k].action # "ADD"
  BY <1>1, <1>3
<1>8. \A c, d \in Bss : chip'[c] # Null /\ chip'[c] = chip'[d] => c = d
  BY <1>1 DEF ChipTable
<1>9. QED
  BY <1>4, <1>5, <1>6, <1>7, <1>8 DEF ChipTable

LEMMA AddIfComplete ==
    ASSUME Always, Timely, ChipTable, Always', AddIf
    PROVE  ChipTable'
<1> DEFINE b == work.bss
           i == work.ifidx
<1>1. /\ work.pc = "ADD" /\ b \in Bss /\ i \in Ifidx /\ i # Null /\ Waits("ADD")
      /\ UNCHANGED <<vif, event, user, chip, drvr.event_q>>
      /\ drvr.iflist[b] = Null
      /\ chip[b] = i
  BY AddIfEffect, NullAssumption DEF Timely, AddEvents, ChipTable
<1>2. PICK p \in Ifp :
        /\ ifp[p].state = "none" /\ p # Null /\ ifp'[p].ifidx = i
        /\ \A r \in Ifp \ {p} : ifp'[r] = ifp[r]
        /\ Entry(b, p) /\ work' = [work EXCEPT !.pc = "notify", !.ifp = p]
        /\ \A j \in Ifidx : drvr'.if2bss[j] =
             IF j = i /\ drvr.if2bss[j] = Null THEN b ELSE drvr.if2bss[j]
  BY AddIfEffect
<1>3. drvr.if2bss[i] = Null
  BY <1>1 DEF ChipTable
<1>4. work'.pc = "notify"
  BY <1>2 DEF Always, Types, WorkType
<1>5. /\ \A k \in DOMAIN drvr.event_q : drvr.event_q[k].action # "ADD"
      /\ \A c \in Bss : ~DelPending(c)
  BY <1>1 DEF Timely, AddEvents, Waits, DelPending
<1> HIDE DEF b, i
<1>6. ASSUME NEW c \in Bss, c # b
      PROVE  /\ drvr'.iflist[c] = drvr.iflist[c]
             /\ drvr.iflist[c] # Null => /\ drvr.iflist[c] \in Ifp \ {p}
                                         /\ ifp'[drvr.iflist[c]] = ifp[drvr.iflist[c]]
                                         /\ ifp[drvr.iflist[c]].ifidx \in Ifidx
  BY <1>2, <1>6 DEF Entry, Always, Types, DrvrType, IfpType, TableShape
<1>7. \A c \in Bss : drvr'.iflist[c] # Null =>
        LET j == ifp'[drvr'.iflist[c]].ifidx
        IN  drvr'.if2bss[j] = c /\ (chip'[c] = j \/ DelPending(c)')
  <2>1. ASSUME NEW c \in Bss, c # b, drvr'.iflist[c] # Null
        PROVE  /\ drvr'.if2bss[ifp'[drvr'.iflist[c]].ifidx] = c
               /\ chip'[c] = ifp'[drvr'.iflist[c]].ifidx
    <3>1. /\ drvr.if2bss[ifp[drvr.iflist[c]].ifidx] = c /\ c # Null
          /\ chip[c] = ifp[drvr.iflist[c]].ifidx
      BY <1>5, <1>6, <2>1, NullAssumption DEF ChipTable
    <3>2. QED
      BY <1>1, <1>2, <1>6, <2>1, <3>1
  <2>2. /\ drvr'.iflist[b] = p /\ drvr'.if2bss[i] = b /\ chip'[b] = i
    BY <1>1, <1>2, <1>3 DEF Entry
  <2>3. QED
    BY <1>2, <2>1, <2>2
<1>8. \A c \in Bss : drvr'.iflist[c] = Null => chip'[c] = Null
  <2>1. ASSUME NEW c \in Bss, drvr'.iflist[c] = Null, chip[c] # Null PROVE FALSE
    <3>1. c # b
      BY <1>1, <1>2, <2>1 DEF Entry
    <3>2. AddPending(c)
      BY <1>6, <2>1, <3>1 DEF ChipTable
    <3>3. QED
      BY <1>5, <3>1, <3>2 DEF AddPending, b
  <2>2. QED
    BY <1>1, <2>1
<1>9. \A j \in Ifidx : drvr'.if2bss[j] # Null =>
        /\ drvr'.iflist[drvr'.if2bss[j]] # Null
        /\ ifp'[drvr'.iflist[drvr'.if2bss[j]]].ifidx = j
  <2>1. ASSUME NEW j \in Ifidx, j # i, drvr'.if2bss[j] # Null
        PROVE  /\ drvr'.iflist[drvr'.if2bss[j]] # Null
               /\ ifp'[drvr'.iflist[drvr'.if2bss[j]]].ifidx = j
    <3>1. drvr'.if2bss[j] = drvr.if2bss[j] /\ drvr.if2bss[j] \in Bss
      BY <1>2, <2>1 DEF Always, Types, DrvrType
    <3>2. /\ drvr.iflist[drvr.if2bss[j]] # Null
          /\ ifp[drvr.iflist[drvr.if2bss[j]]].ifidx = j
      BY <2>1, <3>1 DEF ChipTable
    <3>3. drvr.if2bss[j] # b
      BY <1>1, <3>2
    <3>4. QED
      BY <1>6, <3>1, <3>2, <3>3
  <2>2. drvr'.if2bss[i] = b /\ drvr'.iflist[b] = p
    BY <1>1, <1>2, <1>3 DEF Entry
  <2>3. QED
    BY <1>2, <2>1, <2>2
<1>10. \A c, d \in Bss : chip'[c] # Null /\ chip'[c] = chip'[d] => c = d
  BY <1>1 DEF ChipTable
<1>11. QED
  BY <1>1, <1>4, <1>5, <1>7, <1>8, <1>9, <1>10 DEF ChipTable

LEMMA TakeEventComplete ==
    ASSUME Always, Timely, ChipTable, Always', TakeEvent
    PROVE  ChipTable'
<1> DEFINE q == drvr.event_q
           e == q[1]
<1>1. /\ work.pc = "idle" /\ e.bss \in Bss
      /\ SameTables /\ UNCHANGED <<ifp, vif, event, user, chip>>
      /\ q \in Seq(Event) /\ q # <<>> /\ q' = Tail(q)
  BY TakeEventEffect DEF Event, Always, Types, DrvrType
<1>2. \/ e.action # "ADD" /\ work'.pc # "ADD"
      \/ e.action = "ADD" /\ work'.pc = "ADD" /\ work'.bss = e.bss
           /\ work'.ifidx = e.ifidx
  BY TakeEventEffect DEF IdleWork
<1>3. /\ 1 \in DOMAIN q
      /\ \A k \in DOMAIN q' : k + 1 \in DOMAIN q /\ q'[k] = q[k + 1]
      /\ \A k \in DOMAIN q : k # 1 => \E l \in DOMAIN q' : q'[l] = q[k]
  <2>1. /\ 1 \in DOMAIN q /\ Len(q) \in Nat /\ DOMAIN q = 1..Len(q)
        /\ DOMAIN q' = 1..(Len(q) - 1)
        /\ \A k \in DOMAIN q' : k + 1 \in DOMAIN q /\ q'[k] = q[k + 1]
    BY <1>1, Dequeued
  <2> HIDE DEF q
  <2>2. ASSUME NEW k \in DOMAIN q, k # 1 PROVE \E l \in DOMAIN q' : q'[l] = q[k]
    <3>1. k - 1 \in DOMAIN q' /\ (k - 1) + 1 = k
      BY <2>1, <2>2
    <3>2. QED
      BY <2>1, <3>1
  <2>3. QED
    BY <2>1, <2>2
<1> HIDE DEF q, e
<1>4. \A c \in Bss : AddPending(c) => AddPending(c)'
  <2>1. ASSUME NEW c \in Bss, AddPending(c) PROVE AddPending(c)'
    <3>1. PICK k \in DOMAIN q : q[k].action = "ADD" /\ q[k].bss = c
      BY <1>1, <2>1 DEF AddPending, q
    <3>2. CASE k = 1
      BY <1>2, <3>1, <3>2 DEF AddPending, e
    <3>3. CASE k # 1
      BY <1>3, <3>1, <3>3 DEF AddPending, q
    <3>4. QED
      BY <3>2, <3>3
  <2>2. QED
    BY <2>1
<1>5. \A k \in DOMAIN q' : q'[k].action = "ADD" => q'[k].ifidx = chip[q'[k].bss]
  BY <1>3 DEF ChipTable, q
<1>6. work'.pc = "ADD" => work'.ifidx = chip[work'.bss]
  BY <1>2, <1>3 DEF ChipTable, q, e
<1>7. \A c \in Bss : DelPending(c)' <=> DelPending(c)
  BY <1>1 DEF DelPending
<1>8. Waits("ADD")' <=> Waits("ADD")
  BY <1>1 DEF Waits
<1>9. QED
  BY <1>1, <1>4, <1>5, <1>6, <1>7, <1>8 DEF ChipTable, SameTables, q

LEMMA InitComplete == Init => ChipTable
<1> SUFFICES ASSUME Init PROVE ChipTable
  OBVIOUS
<1> USE NullAssumption, IndexAssumption, PrimaryAssumption
         DEF Init, NoIf, NoVif, Unarmed, IdleUser, IdleWork
<1>1. \A k \in DOMAIN drvr.event_q : FALSE
  OBVIOUS
<1>2. QED
  BY <1>1 DEF ChipTable

\* The fourth layer is an invariant.
THEOREM CompleteInvariant == Spec => [](Complete => ChipTable)
<1>1. /\ Always /\ Always' /\ (InTime => Timely) /\ (Registers => Orderly)
      /\ (Complete => ChipTable) /\ [Next]_vars
      => (Complete => ChipTable)'
  <2> SUFFICES ASSUME Always, Always', InTime => Timely, Registers => Orderly,
                      Complete => ChipTable, [Next]_vars, Complete'
               PROVE  ChipTable'
    OBVIOUS
  <2>1. /\ Timely /\ Orderly /\ ChipTable /\ ~WaitTimeout
        /\ \A b \in Bss : ~ChipRemoves(b)
        /\ "refused" \notin hist' /\ "lost" \notin hist' /\ ~AddIfFails
    BY HistoryGrows DEF InTime, Registers, Complete, Without, AddIfFails,
       Happened
  <2>2. CASE UNCHANGED vars
    BY <2>1, <2>2 DEF vars, ChipTable, AddPending, DelPending, Waits
  <2>3. CASE Call \/ User
    BY <2>1, <2>3, CallComplete, RequestApIfComplete, RequestRemoveComplete,
       DoneDelComplete DEF User
  <2>4. CASE Worker
    BY <2>1, <2>4, TakeEventComplete, WorkerComplete, AddIfComplete,
       NothingToRepair DEF Worker
  <2>5. CASE \E b \in Bss : ChipLink(b)
    BY <2>1, <2>5, ChipLinkComplete
  <2>6. QED
    BY <2>1, <2>2, <2>3, <2>4, <2>5 DEF Next
<1>2. QED
  BY <1>1, InitComplete, AlwaysInvariant, TimelyInvariant, OrderlyInvariant,
     PTL DEF Spec

\* When nothing is under way, the tables and the firmware agree.
THEOREM TablesAgree == Spec => []AgreesWithChip
<1>1. /\ Always /\ (InTime => Timely) /\ (Complete => ChipTable) => AgreesWithChip
  <2> SUFFICES ASSUME Always, Complete => ChipTable, Complete,
                      user.pc = "idle", work.pc = "idle", drvr.event_q = <<>>,
                      NEW b \in Bss
               PROVE  /\ drvr.iflist[b] # Null <=> chip[b] # Null
                      /\ chip[b] # Null => drvr.if2bss[chip[b]] = b
    BY DEF AgreesWithChip, Complete
  <2>1. ~Waits("ADD") /\ ~DelPending(b)
    BY DEF Waits, DelPending
  <2>2. drvr.iflist[b] # Null => ifp[drvr.iflist[b]].ifidx # Null
    BY NullAssumption DEF Always, Types, DrvrType, IfpType
  <2>3. QED
    BY <2>1, <2>2 DEF ChipTable
<1>2. QED
  BY <1>1, AlwaysInvariant, TimelyInvariant, CompleteInvariant, PTL

=============================================================================
