----------------------------- MODULE MCFirmware -----------------------------
(***************************************************************************)
(* The hook alone, called with every packet two frames can give rise to on *)
(* two channels, in any order.                                             *)
(***************************************************************************)
EXTENDS CsiFirmware

CONSTANTS b1, b2, b3, f1

MCBuf == {b1, b2, b3}
MCFrame == {f1}
MCChanspec == {"ch20", "ch40"}
MCBwCode == [cs \in MCChanspec |-> IF cs = "ch20" THEN 2 ELSE 3]

\* Chunk number m of n of a measurement of frame f.
MCChunk(f, m, n, last) ==
    [kind |-> "csi",
     cfg |-> (IF m = n THEN 16384 ELSE 0) + m,
     csiconf |-> 0, start |-> (m = n),
     tones |-> IF m = 1 THEN last ELSE TonesPerChunk,
     src |-> IF m = 1 THEN f ELSE Null,
     fc |-> Null]

\* 20 MHz measurements of 5 chunks (8 tones in the last one) and 40 MHz
\* ones of 10 chunks (2 tones in the last one).
MCPacket ==
    {[kind |-> "frame", id |-> f] : f \in MCFrame}
      \cup {MCChunk(f, m, 5, 8) : f \in MCFrame, m \in 1..5}
      \cup {MCChunk(f, m, 10, 2) : f \in MCFrame, m \in 1..10}

=============================================================================
