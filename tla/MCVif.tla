------------------------------- MODULE MCVif -------------------------------
(* Instances of BrcmfVif: three places in the table.                       *)
EXTENDS BrcmfVif

MCLoad == {[calls |-> 3, links |-> 1, faults |-> 1],
           [calls |-> 2, links |-> 0, faults |-> 2]}
MCStale == {[calls |-> 2, links |-> 0, faults |-> 0]}
=============================================================================
