---------------------------- MODULE MCRefinement ----------------------------
(***************************************************************************)
(* The extractor on a 20 MHz channel, configured for one source address,   *)
(* two cores and one of the four streams, with frames from two stations.   *)
(***************************************************************************)
EXTENDS CsiRefinement

MCBuf == 1..12
MCChanspec == {"ch20"}
MCBwCode == [cs \in MCChanspec |-> 2]
MCRadio == {[mac |-> "A", byte |-> 136, type |-> "ofdm"],
            [mac |-> "B", byte |-> 136, type |-> "ofdm"],
            [mac |-> "A", byte |-> 136, type |-> "cck"]}
MCShm ==
    {[csi_collect |-> 1, nss_mask |-> {2}, core_mask |-> {0, 1},
      n_mac_addr |-> 1, use_pkt_filter |-> 1, first_pkt_byte |-> 136,
      mac0 |-> "A", mac1 |-> "B", mac2 |-> Null, mac3 |-> Null,
      delay |-> 0]}
=============================================================================
