---------------------------- MODULE MCExtractor ----------------------------
(***************************************************************************)
(* The extractor with a FIFO too small for what the microcode pushes, on   *)
(* chips with one core, for one or two streams of a frame.                 *)
(***************************************************************************)
EXTENDS CsiExtractor

MCBuf == 1..3
MCTwoBuffers == 1..2
MCChanspec == {"ch20"}
MCBwCode == [cs \in MCChanspec |-> 2]
MCRadio == {[mac |-> "A", byte |-> 136, type |-> "ofdm"]}
MCTwoStations == MCRadio \cup {[mac |-> "B", byte |-> 136, type |-> "ofdm"]}

\* Two streams of every frame; both streams, and the first one, of station A's.
MCAll ==
    {[csi_collect |-> 1, nss_mask |-> {0, 1}, core_mask |-> {0},
      n_mac_addr |-> 0, use_pkt_filter |-> 0, first_pkt_byte |-> 0,
      mac0 |-> Null, mac1 |-> Null, mac2 |-> Null, mac3 |-> Null,
      delay |-> 0]}
MCTwoStreams == {[cfg EXCEPT !.n_mac_addr = 1, !.mac0 = "A"] : cfg \in MCAll}
MCStationA == {[cfg EXCEPT !.nss_mask = {0}] : cfg \in MCTwoStreams}

\* The requests about deaf mode.
MCForce == {[cmd |-> 502, len |-> 4]}
MCClean == {[cmd |-> 503, len |-> 4]}
MCForceClean == MCForce \cup MCClean

\* An extractor that has not been configured, and two configurations, of one
\* station and one stream each.
MCReset ==
    {[csi_collect |-> 0, nss_mask |-> {}, core_mask |-> {}, n_mac_addr |-> 0,
      use_pkt_filter |-> 0, first_pkt_byte |-> 0, mac0 |-> Null,
      mac1 |-> Null, mac2 |-> Null, mac3 |-> Null, delay |-> 0]}
Params(sta, ss) ==
    [chanspec |-> "ch20", csi_collect |-> 1, nss_mask |-> {ss},
     core_mask |-> {0}, n_mac_addr |-> 1, use_pkt_filter |-> 0,
     first_pkt_byte |-> 0,
     mac0 |-> sta, mac1 |-> Null, mac2 |-> Null, mac3 |-> Null, delay |-> 0]
Set(sta, ss) == [cmd |-> 500, len |-> 34, params |-> Params(sta, ss)]

MCSetA == {Set("A", 0)}
MCSetB == {Set("B", 1)}
MCSetAB == MCSetA \cup MCSetB
=============================================================================
