------------------------------ MODULE MCIoctl ------------------------------
(***************************************************************************)
(* The ioctl handler alone, with requests that are too short (refused, or  *)
(* accepted all the same), channels the radio refuses, and an interface    *)
(* that goes down and up.                                                  *)
(***************************************************************************)
EXTENDS CsiIoctl

MCChanspec == {"ch20"}
Params(cs, on) ==
    [chanspec |-> cs, csi_collect |-> on, nss_mask |-> {0, 1},
     core_mask |-> {0}, n_mac_addr |-> 1, use_pkt_filter |-> 1,
     first_pkt_byte |-> 136, mac0 |-> "A", mac1 |-> Null, mac2 |-> Null,
     mac3 |-> Null, delay |-> 50]
MCRequest ==
    {[cmd |-> 500, len |-> l, params |-> Params(cs, on)] :
        l \in {1, 2, 34}, cs \in {"ch20", "refused"}, on \in 0..1}
      \cup {[cmd |-> c, len |-> l] : c \in {501, 502, 503, 406}, l \in {1, 4}}
      \cup {[cmd |-> 526, len |-> l, value |-> TRUE] : l \in {2, 4}}
=============================================================================
