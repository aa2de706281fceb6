------------------------------- MODULE MCSdio -------------------------------
(***************************************************************************)
(* A small instance of BcdcControl: bytes of eight values, room for two    *)
(* frames in the chip, request ids of one bit, two interfaces.             *)
(***************************************************************************)
EXTENDS BcdcControl

\* Two requests and a fault; data enough to fill the queue twice; data with a
\* fault, stopped or of 802.1X; a request among the data.
MCLoad == {[frames |-> 0, eapol |-> 0, faults |-> 1, requests |-> 2],
           [frames |-> 5, eapol |-> 0, faults |-> 0, requests |-> 0],
           [frames |-> 3, eapol |-> 0, faults |-> 1, requests |-> 0],
           [frames |-> 2, eapol |-> 1, faults |-> 1, requests |-> 0],
           [frames |-> 1, eapol |-> 1, faults |-> 0, requests |-> 1]}
=============================================================================
