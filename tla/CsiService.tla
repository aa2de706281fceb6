----------------------------- MODULE CsiService -----------------------------
(***************************************************************************)
(* What the extractor promises (src/README.md:47,51): for every frame      *)
(* heard that matches the configured filter, one UDP packet per selected   *)
(* core and spatial stream, carrying the channel state information of that *)
(* frame and nothing else, in the order of measurement.  When packets may  *)
(* be lost on the way, some of them are missing, and the rest is as        *)
(* promised.                                                               *)
(***************************************************************************)
EXTENDS Naturals, Sequences

CONSTANTS
    Frame,      \* the frames there can be, numbered: records with a field n
    Chanspec,   \* the channel specifications
    Wanted,     \* the frames that match the filter
    Selected,   \* the selected (core, stream) pairs
    Lossy       \* may measurements be lost

VARIABLES
    heard,      \* the number of the frame heard last
    owed,       \* the measurements to be delivered
    delivered   \* the measurements delivered, in order

serviceVars == <<heard, owed, delivered>>

\* The order of measurement: by frame, core and stream.
Earlier(a, b) ==
    \/ a.frame.n < b.frame.n
    \/ a.frame.n = b.frame.n /\ a.core < b.core
    \/ a.frame.n = b.frame.n /\ a.core = b.core /\ a.nss < b.nss

\* The measurements a frame gives rise to.
Batch(f, cs) ==
    IF f \in Wanted
    THEN {[frame |-> f, chan |-> cs, core |-> p[1], nss |-> p[2]] :
              p \in Selected}
    ELSE {}

Init == heard = 0 /\ owed = {} /\ delivered = <<>>

Hear(f, cs) ==
    /\ f.n > heard
    /\ heard' = f.n
    /\ owed' = owed \cup Batch(f, cs)
    /\ UNCHANGED delivered

\* What should have come before m is lost.
Deliver(m) ==
    /\ m \in owed
    /\ Lossy \/ \A x \in owed : ~Earlier(x, m)
    /\ delivered' = Append(delivered, m)
    /\ owed' = {x \in owed : Earlier(m, x)}
    /\ UNCHANGED heard

DeliverOne == \E m \in owed : Deliver(m)

Next == (\E f \in Frame, cs \in Chanspec : Hear(f, cs)) \/ DeliverOne

Spec == Init /\ [][Next]_serviceVars /\ (~Lossy => WF_serviceVars(DeliverOne))
=============================================================================
