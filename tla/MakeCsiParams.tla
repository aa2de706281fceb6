---------------------------- MODULE MakeCsiParams ----------------------------
(***************************************************************************)
(* utils/makecsiparams/makecsiparams.c: the command line options are read  *)
(* one by one into a params structure, which is written out raw or in      *)
(* base64, for nexutil to hand to ioctl 500.                               *)
(*                                                                         *)
(* Data: an option is a record [opt, val], val being what strtol and       *)
(* wf_chspec_aton make of the argument, or Garbage if they leave some of   *)
(* it over; for -m it is the sequence of the addresses, of six bytes each. *)
(* Characters are their ASCII codes.  The host is little-endian.           *)
(***************************************************************************)
EXTENDS Integers, Sequences, FiniteSetsExt

CONSTANTS
    Option,     \* the options that may be given
    Garbage,    \* a number or an address that cannot be read
    MaxArgs     \* bound: the number of options on the command line

Byte == 0..255
Uint16 == {w \in Nat : w < 65536}

(***************************************************************************)
(* A channel specification has 16 bits, and addresses are whatever -m      *)
(* brings between its commas.                                              *)
(***************************************************************************)
ASSUME OptionAssumption ==
    \A o \in Option :
        /\ o.opt = "c" => o.val \in Uint16
        /\ o.opt \in {"e", "d"} => o.val \in Int \cup {Garbage}
        /\ o.opt = "m" => o.val \in Seq([1..6 -> Byte] \cup {Garbage})

MAX_MAC_ADDRESS == 4
DEFAULT_DELAY_US == 50
ValidMask == 0..15

\* The bits of a mask; countbit counts them.
Bits(mask) == {i \in 0..3 : (mask \div 2^i) % 2 = 1}
countbit(mask) == Cardinality(Bits(mask))

VARIABLES
    p,      \* the structure that is written
    v,      \* the local variables of main
    pc,     \* "getopt", or how the program has ended
    out,    \* what was written
    given   \* history: the options read so far

vars == <<p, v, pc, out, given>>

NoMac == [i \in 1..6 |-> 0]

Init ==
    /\ p = [chanspec |-> 0, csi_collect |-> 0, core_nss_mask |-> 0,
            use_pkt_filter |-> 0, first_pkt_byte |-> 0, n_mac_addr |-> 0,
            cmp_src_mac |-> [i \in 1..MAX_MAC_ADDRESS |-> NoMac],
            delay |-> 0]
    /\ v = [enable |-> 1, coremask |-> 0, nssmask |-> 0, chanspec |-> 0,
            force_delay |-> 0, nmac |-> 0, doraw |-> 0]
    /\ pc = "getopt" /\ out = <<>> /\ given = <<>>

\* One more option is read: it is wrong, or changes the structure and the
\* local variables.
Getopt(o) ==
    /\ pc = "getopt" /\ Len(given) < MaxArgs
    /\ given' = Append(given, o)
    /\ UNCHANGED out
Refuse == pc' = "refused" /\ UNCHANGED <<p, v>>
Set(newp, newv) == p' = newp /\ v' = newv /\ UNCHANGED pc

-----------------------------------------------------------------------------
SetHelp(o) ==
    /\ o.opt = "h" /\ Getopt(o)
    /\ pc' = "usage"
    /\ UNCHANGED <<p, v>>

SetRaw(o) ==
    /\ o.opt = "r" /\ Getopt(o)
    /\ Set(p, [v EXCEPT !.doraw = 1])

SetEnable(o) ==
    /\ o.opt = "e" /\ Getopt(o)
    /\ IF o.val = Garbage THEN Refuse
                          ELSE Set(p, [v EXCEPT !.enable = o.val])

\* Mutant: the fourth address is refused.
FitsThree(macs) == v.nmac + Len(macs) < MAX_MAC_ADDRESS

\* The addresses more are copied to the places after the first k.
Copied(macs, k, more) ==
    [i \in DOMAIN macs |-> IF i \in k + 1 .. k + Len(more)
                           THEN more[i - k] ELSE macs[i]]

\* Addresses are added to those of earlier options; what a refused option
\* has stored is never written.
Fits(macs) == v.nmac + Len(macs) <= MAX_MAC_ADDRESS

AddMacs(o) ==
    /\ o.opt = "m" /\ Getopt(o)
    /\ IF Garbage \in {o.val[i] : i \in DOMAIN o.val} \/ ~Fits(o.val)
       THEN Refuse
       ELSE LET n == v.nmac + Len(o.val)
            IN  Set([p EXCEPT !.n_mac_addr = n,
                              !.cmp_src_mac = Copied(@, v.nmac, o.val)],
                    [v EXCEPT !.nmac = n])

SetByte(o) ==
    /\ o.opt = "b" /\ Getopt(o)
    /\ IF o.val \notin Byte
       THEN Refuse
       ELSE Set([p EXCEPT !.use_pkt_filter = 1, !.first_pkt_byte = o.val], v)

\* wf_chspec_aton returns 0 for what is no channel specification.
SetChanspec(o) ==
    /\ o.opt = "c" /\ Getopt(o)
    /\ IF o.val = 0 THEN Refuse
                    ELSE Set([p EXCEPT !.chanspec = o.val],
                             [v EXCEPT !.chanspec = o.val])

\* Mutant: the streams are overwritten, too.
SetCoreMaskWhole(o) ==
    /\ o.opt = "C" /\ Getopt(o)
    /\ IF o.val \notin ValidMask
       THEN Refuse
       ELSE Set([p EXCEPT !.core_nss_mask = o.val],
                [v EXCEPT !.coremask = o.val])

\* The lower half of core_nss_mask.
SetCoreMask(o) ==
    /\ o.opt = "C" /\ Getopt(o)
    /\ IF o.val \notin ValidMask
       THEN Refuse
       ELSE Set([p EXCEPT !.core_nss_mask = 16 * (@ \div 16) + o.val],
                [v EXCEPT !.coremask = o.val])

\* The upper half of core_nss_mask.
SetNssMask(o) ==
    /\ o.opt = "N" /\ Getopt(o)
    /\ IF o.val \notin ValidMask
       THEN Refuse
       ELSE Set([p EXCEPT !.core_nss_mask = (@ % 16) + 16 * o.val],
                [v EXCEPT !.nssmask = o.val])

\* The delay is stored in 16 bits.
SetDelay(o) ==
    /\ o.opt = "d" /\ Getopt(o)
    /\ IF o.val = Garbage \/ o.val < 0
       THEN Refuse
       ELSE Set([p EXCEPT !.delay = o.val % 65536],
                [v EXCEPT !.force_delay = 1])

InvalidOption(o) == o.opt = "?" /\ Getopt(o) /\ Refuse

-----------------------------------------------------------------------------
\* argc < 2
NoArguments ==
    /\ pc = "getopt" /\ given = <<>>
    /\ pc' = "usage"
    /\ UNCHANGED <<p, v, out, given>>

Incomplete ==
    v.enable # 0 /\ (v.chanspec = 0 \/ v.nssmask = 0 \/ v.coremask = 0)

\* The options do not say what to collect.
RefuseIncomplete ==
    /\ pc = "getopt" /\ Incomplete
    /\ pc' = "incomplete"
    /\ p' = [p EXCEPT !.csi_collect = v.enable % 256]
    /\ UNCHANGED <<v, out, given>>

\* The structure in memory.
LittleEndian(w) == <<w % 256, w \div 256>>
Bytes(q) ==
    LittleEndian(q.chanspec)
      \o <<q.csi_collect, q.core_nss_mask, q.use_pkt_filter, q.first_pkt_byte>>
      \o LittleEndian(q.n_mac_addr)
      \o q.cmp_src_mac[1] \o q.cmp_src_mac[2]
      \o q.cmp_src_mac[3] \o q.cmp_src_mac[4]
      \o LittleEndian(q.delay)

\* The character of a number below 64.
base64(val) ==
    CASE val < 26 -> 65 + val
      [] val \in 26..51 -> 97 + (val - 26)
      [] val \in 52..61 -> 48 + (val - 52)
      [] val = 62 -> 43
      [] OTHER -> 47

\* Three bytes make a number of 24 bits: its four sextets and three octets.
Sextets(w) == <<(w \div 262144) % 64, (w \div 4096) % 64, (w \div 64) % 64,
                w % 64>>
Octets(w) == <<(w \div 65536) % 256, (w \div 256) % 256, w % 256>>

\* val: the number of the three bytes after the first jj.
Padded(b, i) == IF i <= Len(b) THEN b[i] ELSE 0
Val(b, jj) == Padded(b, jj + 1) * 65536 + Padded(b, jj + 2) * 256
                + Padded(b, jj + 3)

\* Three bytes make four characters; the last ones may be equals signs.
Base64(b) ==
    [n \in 1..4 * ((Len(b) + 2) \div 3) |->
       LET jj == 3 * ((n - 1) \div 4)
           kk == (n - 1) % 4
       IN  IF 6 * kk > 8 * (Len(b) - jj)
           THEN 61
           ELSE base64(Sextets(Val(b, jj))[kk + 1])]

\* The end of the options: the defaults, and the output.
Write ==
    /\ pc = "getopt" /\ ~Incomplete
    /\ p' = [p EXCEPT
               !.csi_collect = v.enable % 256,
               !.delay = IF v.force_delay = 0
                            /\ countbit(v.nssmask) * countbit(v.coremask) >= 12
                         THEN DEFAULT_DELAY_US ELSE @]
    /\ out' = IF v.doraw = 1 THEN Bytes(p') ELSE Base64(Bytes(p'))
    /\ pc' = "written"
    /\ UNCHANGED <<v, given>>

Next ==
    \/ \E o \in Option :
          \/ SetHelp(o) \/ SetRaw(o) \/ SetEnable(o) \/ AddMacs(o)
          \/ SetByte(o) \/ SetChanspec(o) \/ SetCoreMask(o)
          \/ SetNssMask(o) \/ SetDelay(o) \/ InvalidOption(o)
    \/ NoArguments \/ RefuseIncomplete \/ Write

Spec == Init /\ [][Next]_vars

-----------------------------------------------------------------------------
(***************************************************************************)
(* The way of the output to the chip: nexutil takes the raw bytes, or      *)
(* decodes base64 (-b), and wlc_ioctl_hook reads its own declaration of    *)
(* the structure.                                                          *)
(***************************************************************************)
Sextet(c) ==
    CASE c \in 65..90 -> c - 65 [] c \in 97..122 -> c - 71
      [] c \in 48..57 -> c + 4  [] c = 43 -> 62 [] c = 47 -> 63
      [] c = 61 -> 0

Unval(s, g) == Sextet(s[g + 1]) * 262144 + Sextet(s[g + 2]) * 4096
                 + Sextet(s[g + 3]) * 64 + Sextet(s[g + 4])
Unbase64(s) ==
    LET pads == Cardinality({i \in DOMAIN s : s[i] = 61})
    IN  [n \in 1..(3 * (Len(s) \div 4) - pads) |->
           Octets(Unval(s, 4 * ((n - 1) \div 3)))[((n - 1) % 3) + 1]]

Params(b) ==
    LET uint16(i) == b[i] + 256 * b[i + 1]
    IN  [chanspec |-> uint16(1), csi_collect |-> b[3],
         nss_mask |-> Bits(b[4] \div 16), core_mask |-> Bits(b[4] % 16),
         use_pkt_filter |-> b[5], first_pkt_byte |-> b[6],
         n_mac_addr |-> uint16(7),
         mac |-> [i \in 1..4 |-> SubSeq(b, 3 + 6 * i, 8 + 6 * i)],
         delay |-> uint16(33)]

\* What a reader of the usage message asks for with the options g: the last
\* occurrence of an option counts, except that addresses add up.
Given(g, x) == {i \in DOMAIN g : g[i].opt = x}
LastOf(g, x, default) ==
    IF Given(g, x) = {} THEN default ELSE g[Max(Given(g, x))].val
Macs(g) ==
    LET upto[n \in 0..Len(g)] ==
          IF n = 0 THEN <<>>
          ELSE upto[n - 1] \o (IF g[n].opt = "m" THEN g[n].val ELSE <<>>)
    IN  upto[Len(g)]
Asked(g) ==
    LET cores == Bits(LastOf(g, "C", 0))
        nss == Bits(LastOf(g, "N", 0))
        macs == Macs(g)
    IN  [chanspec |-> LastOf(g, "c", 0),
         csi_collect |-> LastOf(g, "e", 1) % 256,
         nss_mask |-> nss, core_mask |-> cores,
         use_pkt_filter |-> IF Given(g, "b") = {} THEN 0 ELSE 1,
         first_pkt_byte |-> LastOf(g, "b", 0),
         n_mac_addr |-> Len(macs),
         mac |-> [i \in 1..4 |-> IF i <= Len(macs) THEN macs[i] ELSE NoMac],
         delay |-> IF Given(g, "d") = {} /\ Cardinality(cores \X nss) < 12
                   THEN 0 ELSE LastOf(g, "d", DEFAULT_DELAY_US) % 65536]

(***************************************************************************)
(* The parameters that reach the ioctl handler are the ones asked for,     *)
(* whatever the order and repetition of the options: no option overwrites  *)
(* what another one set, the delay is enforced for twelve or more pairs of *)
(* core and stream unless one was given (usage, lines 80-82), and the      *)
(* encoding loses nothing.  The numbers of -e and -d arrive modulo 2^8 and *)
(* 2^16.                                                                   *)
(***************************************************************************)
WrittenAsAsked ==
    pc = "written" =>
        Params(IF Given(given, "r") # {} THEN out ELSE Unbase64(out))
            = Asked(given)

(***************************************************************************)
(* An option is only refused if it is wrong or brings a fifth address, and *)
(* the options as a whole only if collection is on and a channel, a core   *)
(* or a stream is missing; otherwise the program writes the parameters.    *)
(***************************************************************************)
WrongOption(o) ==
    CASE o.opt = "c" -> o.val = 0
      [] o.opt = "m" -> Garbage \in {o.val[i] : i \in DOMAIN o.val}
      [] o.opt = "b" -> o.val \notin Byte
      [] o.opt \in {"C", "N"} -> o.val \notin ValidMask
      [] o.opt \in {"e", "d"} -> o.val = Garbage \/ (o.opt = "d" /\ o.val < 0)
      [] OTHER -> o.opt = "?"

RefusedIfWrong ==
    LET wrong == \/ \E i \in DOMAIN given : WrongOption(given[i])
                 \/ Len(Macs(given)) > MAX_MAC_ADDRESS
        missing == /\ LastOf(given, "e", 1) # 0
                   /\ \E x \in {"c", "C", "N"} : LastOf(given, x, 0) = 0
    IN  /\ pc = "written" => ~wrong /\ ~missing
        /\ pc = "refused" => wrong /\ out = <<>>
        /\ pc = "incomplete" => ~wrong /\ missing /\ out = <<>>
=============================================================================
