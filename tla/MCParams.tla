------------------------------ MODULE MCParams ------------------------------
(***************************************************************************)
(* Up to four options, good and bad ones, in any order and repeated.       *)
(***************************************************************************)
EXTENDS MakeCsiParams

MacA == <<0, 17, 34, 51, 68, 85>>
MacB == <<170, 187, 170, 187, 170, 187>>
Numbers(x, vals) == {[opt |-> x, val |-> n] : n \in vals}

MCOption ==
    Numbers("h", {0}) \cup Numbers("r", {0}) \cup Numbers("?", {0})
      \cup Numbers("e", {0, 1, 257}) \cup Numbers("c", {0, 58011})
      \cup Numbers("C", {1, 15, 16}) \cup Numbers("N", {1, 7})
      \cup Numbers("b", {136, 256}) \cup Numbers("d", {Garbage, -1, 65541})
      \cup Numbers("m", {<<MacA, MacB>>, <<MacB, MacA, MacB>>,
                         <<MacA, Garbage>>})

(***************************************************************************)
(* The example of README.md:26 and 34: the parameters for -c 157/80 -C 1   *)
(* -N 1, two addresses and -b 0x88 are encoded as the string given there,  *)
(* m+IBEQGIAgAAESIzRFWqu6q7qrsAA...==.                                     *)
(***************************************************************************)
ASSUME ReadmeExample ==
    Base64(Bytes([chanspec |-> 58011, csi_collect |-> 1, core_nss_mask |-> 17,
                  use_pkt_filter |-> 1, first_pkt_byte |-> 136,
                  n_mac_addr |-> 2,
                  cmp_src_mac |-> <<MacA, MacB, NoMac, NoMac>>,
                  delay |-> 0]))
      = <<109, 43, 73, 66, 69, 81, 71, 73, 65, 103, 65, 65, 69, 83, 73, 122,
          82, 70, 87, 113, 117, 54, 113, 55, 113, 114, 115>>
          \o [i \in 1..19 |-> 65] \o <<61, 61>>
=============================================================================
