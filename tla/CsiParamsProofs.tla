--------------------------- MODULE CsiParamsProofs ---------------------------
(***************************************************************************)
(* Proofs about makecsiparams.                                             *)
(***************************************************************************)
EXTENDS MakeCsiParams, SequenceTheorems, FiniteSetTheorems, TLAPS

-----------------------------------------------------------------------------
(***************************************************************************)
(* What the options given ask for is defined by recursion and by the       *)
(* greatest position of an option.  That both mean something is shown      *)
(* along the way in which the options are read, one after the other.       *)
(***************************************************************************)
Addresses(o) == IF o.opt = "m" THEN o.val ELSE <<>>

\* f[n] are the addresses of the first n options of g.
Collects(f, g) ==
    f = [n \in 0..Len(g) |->
           IF n = 0 THEN <<>> ELSE f[n - 1] \o Addresses(g[n])]

Readable(g) ==
    /\ g \in Seq(Option)
    /\ \A x : Given(g, x) # {} => Max(Given(g, x)) \in Given(g, x)
    /\ \E f : Collects(f, g)
    /\ \A f, h : Collects(f, g) /\ Collects(h, g) => f = h

\* The addresses of a function that collects them.
LEMMA MacsCollected ==
    ASSUME NEW g, NEW f, Readable(g), Collects(f, g)
    PROVE  Macs(g) = f[Len(g)]
<1> DEFINE h == CHOOSE h : Collects(h, g)
<1>1. Collects(h, g)
  BY DEF Readable
<1>2. h = f
  BY <1>1 DEF Readable
<1>3. Macs(g) = h[Len(g)]
  BY DEF Macs, Collects, Addresses
<1> QED BY <1>2, <1>3

\* No options: no addresses.
LEMMA ReadableEmpty == Readable(<<>>) /\ Macs(<<>>) = <<>>
<1> DEFINE f == [n \in 0..0 |-> <<>>]
<1>1. Len(<<>>) = 0 /\ <<>> \in Seq(Option)
  OBVIOUS
<1>2. \A x : Given(<<>>, x) = {}
  BY DEF Given
<1>3. ASSUME NEW e PROVE Collects(e, <<>>) <=> e = f
  <2>1. [n \in 0..0 |-> IF n = 0 THEN <<>> ELSE e[n - 1] \o Addresses(<<>>[n])]
          = [n \in 0..0 |-> <<>>]
    OBVIOUS
  <2> QED BY <2>1, <1>1 DEF Collects
<1> HIDE DEF f
<1>4. Readable(<<>>)
  <2>1. Collects(f, <<>>)
    BY <1>3
  <2>2. \A e, h : Collects(e, <<>>) /\ Collects(h, <<>>) => e = h
    BY <1>3
  <2> QED BY <1>1, <1>2, <2>1, <2>2 DEF Readable
<1>5. Macs(<<>>) = f[0]
  BY <1>3, <1>4, <1>1, MacsCollected
<1> QED BY <1>4, <1>5 DEF f

\* One more option.
LEMMA GivenAppend ==
    ASSUME NEW g \in Seq(Option), NEW o \in Option, NEW x
    PROVE  /\ o.opt = x =>
                Given(Append(g, o), x) = Given(g, x) \cup {Len(g) + 1}
           /\ o.opt # x => Given(Append(g, o), x) = Given(g, x)
<1> DEFINE q == Append(g, o)
<1>1. /\ q \in Seq(Option) /\ Len(q) = Len(g) + 1 /\ q[Len(g) + 1] = o
      /\ \A i \in 1..Len(g) : q[i] = g[i]
  BY AppendProperties
<1>2. /\ DOMAIN q = 1..(Len(g) + 1) /\ DOMAIN g = 1..Len(g) /\ Len(g) \in Nat
  BY <1>1, LenProperties
<1>3. DOMAIN q = DOMAIN g \cup {Len(g) + 1}
  BY <1>2
<1> HIDE DEF q
<1> QED BY <1>1, <1>2, <1>3 DEF Given, q

\* The option that was read last is the last one of its letter.
LEMMA MaxAppend ==
    ASSUME NEW g \in Seq(Option), NEW o \in Option
    PROVE  Max(Given(Append(g, o), o.opt)) = Len(g) + 1
<1> DEFINE S == Given(g, o.opt)
<1>1. Given(Append(g, o), o.opt) = S \cup {Len(g) + 1}
  BY GivenAppend
<1>2. S \subseteq 1..Len(g) /\ Len(g) \in Nat
  BY LenProperties DEF Given
<1> DEFINE T == S \cup {Len(g) + 1}
<1>3. Len(g) + 1 \in T /\ \A y \in T : Len(g) + 1 >= y
  BY <1>2
<1>4. ASSUME NEW z \in T, \A y \in T : z >= y PROVE z = Len(g) + 1
  <2>1. z >= Len(g) + 1
    BY <1>3, <1>4
  <2>2. z \in 1..Len(g) + 1
    BY <1>2
  <2> QED BY <2>1, <2>2, <1>2
<1>5. Max(T) = CHOOSE z \in T : \A y \in T : z >= y
  BY DEF Max
<1> QED BY <1>1, <1>3, <1>4, <1>5

\* It is the one that counts.
LEMMA LastAppend ==
    ASSUME NEW g, Readable(g), NEW o \in Option, NEW x, NEW d
    PROVE  LastOf(Append(g, o), x, d)
             = IF o.opt = x THEN o.val ELSE LastOf(g, x, d)
<1> DEFINE q == Append(g, o)
<1>1. /\ g \in Seq(Option)
      /\ Given(g, x) # {} => Max(Given(g, x)) \in Given(g, x)
  BY DEF Readable
<1>2. q[Len(g) + 1] = o /\ \A i \in DOMAIN g : q[i] = g[i]
  BY <1>1, AppendProperties, LenProperties
<1>3. CASE o.opt = x
  <2>1. Max(Given(q, x)) = Len(g) + 1 /\ Given(q, x) # {}
    BY <1>1, <1>3, MaxAppend, GivenAppend
  <2> QED BY <2>1, <1>2, <1>3 DEF LastOf
<1>4. CASE o.opt # x
  <2>1. Given(q, x) = Given(g, x)
    BY <1>1, <1>4, GivenAppend
  <2>2. Given(g, x) \subseteq DOMAIN g
    BY DEF Given
  <2> QED BY <2>1, <2>2, <1>1, <1>2, <1>4 DEF LastOf
<1> QED BY <1>3, <1>4

\* One more option extends a collection, and a collection of the longer
\* list holds one of the shorter list.
LEMMA CollectsAppend ==
    ASSUME NEW g \in Seq(Option), NEW o \in Option, NEW e, NEW f,
           Collects(f, g)
    PROVE  /\ Collects([n \in 0..Len(g) + 1 |->
                          IF n = Len(g) + 1 THEN f[Len(g)] \o Addresses(o)
                                            ELSE f[n]],
                       Append(g, o))
           /\ Collects(e, Append(g, o)) =>
                Collects([n \in 0..Len(g) |-> e[n]], g)
<1> DEFINE q == Append(g, o)
           k == [n \in 0..Len(g) + 1 |->
                   IF n = Len(g) + 1 THEN f[Len(g)] \o Addresses(o) ELSE f[n]]
<1>1. /\ q \in Seq(Option) /\ Len(q) = Len(g) + 1 /\ q[Len(g) + 1] = o
      /\ \A i \in 1..Len(g) : q[i] = g[i]
  BY AppendProperties
<1>2. Len(g) \in Nat
  BY LenProperties
<1> HIDE DEF q
<1>3. Collects(k, q)
  <2>1. \A n \in 0..Len(g) :
          f[n] = IF n = 0 THEN <<>> ELSE f[n - 1] \o Addresses(g[n])
    BY DEF Collects
  <2>2. /\ k[Len(g) + 1] = f[Len(g)] \o Addresses(o)
        /\ \A n \in 0..Len(g) : k[n] = f[n]
    BY <1>2
  <2>5. k = [n \in 0..Len(g) + 1 |-> k[n]]
    OBVIOUS
  <2> HIDE DEF k
  <2>3. ASSUME NEW n \in 0..Len(g) + 1
        PROVE  k[n] = IF n = 0 THEN <<>> ELSE k[n - 1] \o Addresses(q[n])
    <3>1. CASE n = 0
      BY <3>1, <2>1, <2>2, <1>2
    <3>2. CASE n \in 1..Len(g)
      <4>1. k[n] = f[n] /\ k[n - 1] = f[n - 1] /\ q[n] = g[n] /\ n # 0
        BY <3>2, <2>2, <1>1, <1>2
      <4>2. n \in 0..Len(g)
        BY <3>2, <1>2
      <4>3. f[n] = f[n - 1] \o Addresses(g[n])
        BY <4>1, <4>2, <2>1, Zenon
      <4> QED BY <4>1, <4>3
    <3>3. CASE n = Len(g) + 1
      <4>1. /\ k[n] = f[Len(g)] \o Addresses(o) /\ k[n - 1] = f[Len(g)]
            /\ q[n] = o /\ n # 0
        BY <3>3, <2>2, <1>1, <1>2
      <4> QED BY <4>1
    <3> QED BY <3>1, <3>2, <3>3, <1>2
  <2>4. k = [n \in 0..Len(g) + 1 |->
               IF n = 0 THEN <<>> ELSE k[n - 1] \o Addresses(q[n])]
    BY <2>5, <2>3, Zenon
  <2> QED BY <2>4, <1>1 DEF Collects
<1>4. ASSUME Collects(e, q) PROVE Collects([n \in 0..Len(g) |-> e[n]], g)
  <2> DEFINE r == [n \in 0..Len(g) |-> e[n]]
  <2>1. \A n \in 0..Len(g) + 1 :
          e[n] = IF n = 0 THEN <<>> ELSE e[n - 1] \o Addresses(q[n])
    BY <1>4, <1>1 DEF Collects
  <2>2. ASSUME NEW n \in 0..Len(g)
        PROVE  r[n] = IF n = 0 THEN <<>> ELSE r[n - 1] \o Addresses(g[n])
    <3>1. CASE n = 0
      BY <3>1, <2>1, <1>2
    <3>2. CASE n \in 1..Len(g)
      <4>1. r[n] = e[n] /\ r[n - 1] = e[n - 1] /\ q[n] = g[n] /\ n # 0
              /\ n \in 0..Len(g) + 1
        BY <3>2, <1>1, <1>2
      <4> QED BY <4>1, <2>1
    <3> QED BY <3>1, <3>2, <1>2
  <2> QED BY <2>2 DEF Collects
<1> QED BY <1>3, <1>4 DEF q

\* What can be told of the options read can be told with one more.
LEMMA ReadableAppend ==
    ASSUME NEW g, Readable(g), NEW o \in Option
    PROVE  /\ Readable(Append(g, o))
           /\ Macs(Append(g, o)) = Macs(g) \o Addresses(o)
<1> DEFINE q == Append(g, o)
<1>1. g \in Seq(Option) /\ Len(g) \in Nat
  BY LenProperties DEF Readable
<1>2. q \in Seq(Option) /\ Len(q) = Len(g) + 1
  BY <1>1, AppendProperties
<1>3. PICK f : Collects(f, g)
  BY DEF Readable
<1>4. \A e, h : Collects(e, g) /\ Collects(h, g) => e = h
  BY DEF Readable
<1> DEFINE k == [n \in 0..Len(g) + 1 |->
                   IF n = Len(g) + 1 THEN f[Len(g)] \o Addresses(o) ELSE f[n]]
<1>5. Collects(k, q)
  BY <1>1, <1>3, CollectsAppend
<1>6. ASSUME NEW e, NEW h, Collects(e, q), Collects(h, q) PROVE e = h
  <2>1. /\ Collects([n \in 0..Len(g) |-> e[n]], g)
        /\ Collects([n \in 0..Len(g) |-> h[n]], g)
    BY <1>1, <1>3, <1>6, CollectsAppend
  <2>2. [n \in 0..Len(g) |-> e[n]] = [n \in 0..Len(g) |-> h[n]]
    BY <2>1, <1>4
  <2>3. \A n \in 0..Len(g) : e[n] = h[n]
    BY <2>2
  <2>4. \A n \in 0..Len(g) + 1 :
          (IF n = 0 THEN <<>> ELSE e[n - 1] \o Addresses(q[n]))
            = (IF n = 0 THEN <<>> ELSE h[n - 1] \o Addresses(q[n]))
    BY <2>3, <1>1
  <2> HIDE DEF q
  <2>5. e = [n \in 0..Len(g) + 1 |->
               IF n = 0 THEN <<>> ELSE e[n - 1] \o Addresses(q[n])]
    BY <1>6, <1>2 DEF Collects
  <2>6. h = [n \in 0..Len(g) + 1 |->
               IF n = 0 THEN <<>> ELSE h[n - 1] \o Addresses(q[n])]
    BY <1>6, <1>2 DEF Collects
  <2> QED BY <2>4, <2>5, <2>6
<1>7. ASSUME NEW x, Given(q, x) # {} PROVE Max(Given(q, x)) \in Given(q, x)
  <2>1. CASE o.opt = x
    BY <2>1, <1>1, MaxAppend, GivenAppend
  <2>2. CASE o.opt # x
    <3>1. Given(q, x) = Given(g, x)
      BY <2>2, <1>1, GivenAppend
    <3> QED BY <3>1, <1>7 DEF Readable
  <2> QED BY <2>1, <2>2
<1>8. Readable(q)
  <2> HIDE DEF q
  <2> QED BY <1>2, <1>5, <1>6, <1>7 DEF Readable
<1>9. Macs(q) = k[Len(g) + 1] /\ Macs(g) = f[Len(g)]
  BY <1>3, <1>5, <1>8, <1>2, MacsCollected
<1> QED BY <1>8, <1>9, <1>1

-----------------------------------------------------------------------------
(***************************************************************************)
(* What main keeps of the options it has read.                             *)
(***************************************************************************)
Mac == [1..6 -> Byte]
Right(g) == \A i \in DOMAIN g : ~WrongOption(g[i])

Locals == [enable : Int, coremask : 0..15, nssmask : 0..15,
           chanspec : Uint16, force_delay : 0..1, nmac : 0..4, doraw : 0..1]
Structures == [chanspec : Uint16, csi_collect : Byte, core_nss_mask : Byte,
               use_pkt_filter : 0..1, first_pkt_byte : Byte,
               n_mac_addr : 0..4, cmp_src_mac : [1..4 -> Mac],
               delay : Uint16]

\* The four places of the structure for addresses.
Places(macs) == [i \in 1..4 |-> IF i <= Len(macs) THEN macs[i] ELSE NoMac]

\* The local variables l are what g asks for.
Remembered(g, l) ==
    /\ l.enable = LastOf(g, "e", 1)
    /\ l.coremask = LastOf(g, "C", 0)
    /\ l.nssmask = LastOf(g, "N", 0)
    /\ l.chanspec = LastOf(g, "c", 0)
    /\ l.force_delay = (IF Given(g, "d") = {} THEN 0 ELSE 1)
    /\ l.nmac = Len(Macs(g))
    /\ l.doraw = (IF Given(g, "r") = {} THEN 0 ELSE 1)

\* So is the structure q, but for what is filled in at the end.
Stored(g, l, q) ==
    /\ q.chanspec = l.chanspec
    /\ q.core_nss_mask = 16 * l.nssmask + l.coremask
    /\ q.use_pkt_filter = (IF Given(g, "b") = {} THEN 0 ELSE 1)
    /\ q.first_pkt_byte = LastOf(g, "b", 0)
    /\ q.n_mac_addr = l.nmac
    /\ q.cmp_src_mac = Places(Macs(g))
    /\ q.delay = (IF Given(g, "d") = {} THEN 0
                  ELSE LastOf(g, "d", DEFAULT_DELAY_US) % 65536)

Obeyed(g, l, q) ==
    /\ Readable(g) /\ Right(g) /\ Macs(g) \in Seq(Mac)
    /\ l \in Locals /\ q \in Structures
    /\ Remembered(g, l)
    /\ Stored(g, l, q)

\* One more option in terms of what is asked for.
LEMMA AskedAppend ==
    ASSUME NEW g, Readable(g), NEW o \in Option
    PROVE  LET q == Append(g, o)
           IN  /\ Readable(q)
               /\ Macs(q) = Macs(g) \o Addresses(o)
               /\ Right(g) /\ ~WrongOption(o) => Right(q)
               /\ \E i \in DOMAIN q : q[i] = o
               /\ \A x, d : LastOf(q, x, d) =
                     IF o.opt = x THEN o.val ELSE LastOf(g, x, d)
               /\ \A x : Given(q, x) = {} <=> Given(g, x) = {} /\ o.opt # x
<1> DEFINE q == Append(g, o)
<1>1. g \in Seq(Option) /\ Len(g) \in Nat /\ DOMAIN g = 1..Len(g)
  BY LenProperties DEF Readable
<1>2. /\ q \in Seq(Option) /\ Len(q) = Len(g) + 1 /\ q[Len(g) + 1] = o
      /\ \A i \in 1..Len(g) : q[i] = g[i]
  BY <1>1, AppendProperties
<1>3. DOMAIN q = 1..(Len(g) + 1)
  BY <1>2, LenProperties
<1>4. Readable(q) /\ Macs(q) = Macs(g) \o Addresses(o)
  BY ReadableAppend
<1>5. ASSUME NEW x PROVE Given(q, x) = {} <=> Given(g, x) = {} /\ o.opt # x
  <2>1. CASE o.opt = x
    <3>1. Given(q, x) = Given(g, x) \cup {Len(g) + 1}
      BY <2>1, <1>1, GivenAppend, Zenon
    <3>2. Len(g) + 1 \in Given(q, x)
      BY <3>1, Zenon
    <3> QED BY <3>2, <2>1
  <2>2. CASE o.opt # x
    <3>1. Given(q, x) = Given(g, x)
      BY <2>2, <1>1, GivenAppend, Zenon
    <3> QED BY <3>1, <2>2
  <2> QED BY <2>1, <2>2
<1>6. \A x, d : LastOf(q, x, d) =
                  IF o.opt = x THEN o.val ELSE LastOf(g, x, d)
  BY LastAppend
<1> HIDE DEF q
<1>7. \E i \in DOMAIN q : q[i] = o
  BY <1>1, <1>2, <1>3
<1>8. ASSUME Right(g), ~WrongOption(o), NEW i \in DOMAIN q
      PROVE  ~WrongOption(q[i])
  <2>1. CASE i = Len(g) + 1
    BY <2>1, <1>2, <1>8
  <2>2. CASE i # Len(g) + 1
    <3>1. i \in DOMAIN g /\ q[i] = g[i]
      BY <2>2, <1>1, <1>2, <1>3
    <3> QED BY <3>1, <1>8 DEF Right
  <2> QED BY <2>1, <2>2
<1>9. Right(g) /\ ~WrongOption(o) => Right(q)
  BY <1>8 DEF Right
<1> QED BY <1>4, <1>5, <1>6, <1>7, <1>9 DEF q

\* At the start main obeys no options.
LEMMA ObeyedInit ==
    Init => Readable(given) /\ Macs(given) = <<>> /\ Obeyed(given, v, p)
<1> SUFFICES ASSUME Init
             PROVE  /\ Readable(given) /\ Macs(given) = <<>>
                    /\ Obeyed(given, v, p)
  OBVIOUS
<1>1. given = <<>> /\ Len(given) = 0 /\ DOMAIN given = {}
  BY DEF Init
<1>2. Readable(given) /\ Macs(given) = <<>>
  BY <1>1, ReadableEmpty
<1>3. \A x : Given(given, x) = {}
  BY <1>1 DEF Given
<1>4. \A x, d : LastOf(given, x, d) = d
  BY <1>3 DEF LastOf
<1>5. NoMac \in Mac
  BY DEF NoMac, Mac, Byte
<1>6. v \in Locals /\ p \in Structures
  <2>1. 0 \in Byte /\ 0 \in Uint16
    BY SMT DEF Byte, Uint16
  <2> QED BY <1>5, <2>1 DEF Init, Locals, Structures, MAX_MAC_ADDRESS
<1>7. Remembered(given, v)
  BY <1>1, <1>2, <1>3, <1>4 DEF Init, Remembered
<1>8. Stored(given, v, p)
  <2>1. Places(<<>>) = [i \in 1..4 |-> NoMac]
    BY DEF Places
  <2> QED BY <1>2, <1>3, <1>4, <2>1 DEF Init, Stored, MAX_MAC_ADDRESS
<1>9. Right(given)
  BY <1>1 DEF Right
<1>10. Macs(given) \in Seq(Mac)
  BY <1>2
<1> QED BY <1>2, <1>6, <1>7, <1>8, <1>9, <1>10 DEF Obeyed

\* An option that is not about addresses leaves them alone.
LEMMA MacsKept ==
    ASSUME NEW g, Readable(g), Macs(g) \in Seq(Mac),
           NEW o \in Option, o.opt # "m"
    PROVE  Macs(Append(g, o)) = Macs(g)
<1>1. Macs(Append(g, o)) = Macs(g) \o <<>>
  BY AskedAppend DEF Addresses
<1> QED BY <1>1, ConcatEmptySeq

\* An option that is not about addresses changes the fields that are its
\* own, and only those.
LEMMA ObeyedAppend ==
    ASSUME NEW g, NEW l, NEW q, Obeyed(g, l, q),
           NEW o \in Option, o.opt # "m", ~WrongOption(o),
           NEW l2 \in Locals, NEW q2 \in Structures,
           l2.enable = IF o.opt = "e" THEN o.val ELSE l.enable,
           l2.coremask = IF o.opt = "C" THEN o.val ELSE l.coremask,
           l2.nssmask = IF o.opt = "N" THEN o.val ELSE l.nssmask,
           l2.chanspec = IF o.opt = "c" THEN o.val ELSE l.chanspec,
           l2.force_delay = IF o.opt = "d" THEN 1 ELSE l.force_delay,
           l2.nmac = l.nmac,
           l2.doraw = IF o.opt = "r" THEN 1 ELSE l.doraw,
           q2.chanspec = l2.chanspec,
           q2.core_nss_mask = 16 * l2.nssmask + l2.coremask,
           q2.use_pkt_filter = IF o.opt = "b" THEN 1 ELSE q.use_pkt_filter,
           q2.first_pkt_byte = IF o.opt = "b" THEN o.val ELSE q.first_pkt_byte,
           q2.n_mac_addr = q.n_mac_addr,
           q2.cmp_src_mac = q.cmp_src_mac,
           q2.delay = IF o.opt = "d" THEN o.val % 65536 ELSE q.delay
    PROVE  Obeyed(Append(g, o), l2, q2)
<1> DEFINE h == Append(g, o)
<1>1. /\ Readable(g) /\ Right(g) /\ Macs(g) \in Seq(Mac)
      /\ l \in Locals /\ q \in Structures /\ Remembered(g, l)
      /\ Stored(g, l, q)
  BY DEF Obeyed
<1>2. /\ Readable(h) /\ Right(h)
      /\ \A x, d : LastOf(h, x, d) =
                     IF o.opt = x THEN o.val ELSE LastOf(g, x, d)
      /\ \A x : Given(h, x) = {} <=> Given(g, x) = {} /\ o.opt # x
  BY ONLY <1>1, o \in Option, ~WrongOption(o), AskedAppend
<1>3. Macs(h) = Macs(g)
  BY <1>1, MacsKept
<1> HIDE DEF h
<1>5. Remembered(h, l2)
  BY <1>1, <1>2, <1>3 DEF Remembered
<1>6. Stored(h, l2, q2)
  <2>1. q2.use_pkt_filter = IF Given(h, "b") = {} THEN 0 ELSE 1
    BY <1>1, <1>2 DEF Stored
  <2>2. q2.first_pkt_byte = LastOf(h, "b", 0)
    BY <1>1, <1>2 DEF Stored
  <2>3. q2.n_mac_addr = l2.nmac
    BY <1>1 DEF Stored
  <2>4. q2.cmp_src_mac = Places(Macs(h))
    BY <1>1, <1>3 DEF Stored
  <2>5. q2.delay = IF Given(h, "d") = {} THEN 0
                   ELSE LastOf(h, "d", DEFAULT_DELAY_US) % 65536
    <3>1. q.delay = IF Given(g, "d") = {} THEN 0
                    ELSE LastOf(g, "d", DEFAULT_DELAY_US) % 65536
      BY <1>1, SMT DEF Stored
    <3>2. CASE o.opt = "d"
      <4>1. /\ LastOf(h, "d", DEFAULT_DELAY_US) = o.val
            /\ Given(h, "d") # {}
        BY <3>2, <1>2
      <4> QED BY <4>1, <3>2, SMT
    <3>3. CASE o.opt # "d"
      <4>1. /\ LastOf(h, "d", DEFAULT_DELAY_US)
                  = LastOf(g, "d", DEFAULT_DELAY_US)
            /\ Given(h, "d") = {} <=> Given(g, "d") = {}
        BY <3>3, <1>2
      <4> QED BY <4>1, <3>1, <3>3, SMT
    <3> QED BY <3>2, <3>3
  <2> QED BY <2>1, <2>2, <2>3, <2>4, <2>5, SMT DEF Stored
<1> QED BY <1>2, <1>1, <1>3, <1>5, <1>6 DEF Obeyed, h

\* -r
LEMMA ObeyedRaw ==
    ASSUME NEW g, NEW l, NEW q, Obeyed(g, l, q), NEW o \in Option,
           o.opt = "r"
    PROVE  Obeyed(Append(g, o), [l EXCEPT !.doraw = 1], q)
<1>1. l \in Locals /\ q \in Structures /\ Stored(g, l, q)
  BY DEF Obeyed
<1>2. ~WrongOption(o)
  BY DEF WrongOption
<1>3. PICK l2 : l2 = [l EXCEPT !.doraw = 1]
  OBVIOUS
<1>4. l2 \in Locals
  BY <1>1, <1>2, <1>3 DEF Locals
<1>5. /\ l2.enable = l.enable /\ l2.coremask = l.coremask
      /\ l2.nssmask = l.nssmask /\ l2.chanspec = l.chanspec
      /\ l2.nmac = l.nmac /\ l2.force_delay = l.force_delay
      /\ l2.doraw = 1
  BY <1>1, <1>3 DEF Locals
<1>6. /\ q.chanspec = l2.chanspec
      /\ q.core_nss_mask = 16 * l2.nssmask + l2.coremask
  BY <1>1, <1>2, <1>5 DEF Stored, Locals
<1>7. Obeyed(Append(g, o), l2, q)
  BY <1>1, <1>2, <1>4, <1>5, <1>6, ObeyedAppend
<1> QED BY <1>3, <1>7

\* -e
LEMMA ObeyedEnable ==
    ASSUME NEW g, NEW l, NEW q, Obeyed(g, l, q), NEW o \in Option,
           o.opt = "e", o.val # Garbage
    PROVE  Obeyed(Append(g, o), [l EXCEPT !.enable = o.val], q)
<1>1. l \in Locals /\ q \in Structures /\ Stored(g, l, q)
  BY DEF Obeyed
<1>2. ~WrongOption(o) /\ o.val \in Int
  BY OptionAssumption DEF WrongOption
<1>3. PICK l2 : l2 = [l EXCEPT !.enable = o.val]
  OBVIOUS
<1>4. l2 \in Locals
  BY <1>1, <1>2, <1>3 DEF Locals
<1>5. /\ l2.enable = o.val /\ l2.coremask = l.coremask
      /\ l2.nssmask = l.nssmask /\ l2.chanspec = l.chanspec
      /\ l2.nmac = l.nmac /\ l2.force_delay = l.force_delay
      /\ l2.doraw = l.doraw
  BY <1>1, <1>3 DEF Locals
<1>6. /\ q.chanspec = l2.chanspec
      /\ q.core_nss_mask = 16 * l2.nssmask + l2.coremask
  BY <1>1, <1>2, <1>5 DEF Stored, Locals
<1>7. Obeyed(Append(g, o), l2, q)
  BY <1>1, <1>2, <1>4, <1>5, <1>6, ObeyedAppend
<1> QED BY <1>3, <1>7

\* -b
LEMMA ObeyedByte ==
    ASSUME NEW g, NEW l, NEW q, Obeyed(g, l, q), NEW o \in Option,
           o.opt = "b", o.val \in Byte
    PROVE  Obeyed(Append(g, o), l,
                  [q EXCEPT !.use_pkt_filter = 1,
                            !.first_pkt_byte = o.val])
<1>1. l \in Locals /\ q \in Structures /\ Stored(g, l, q)
  BY DEF Obeyed
<1>2. ~WrongOption(o) /\ o.val \in Byte
  BY DEF WrongOption
<1>3. PICK q2 : q2 = [q EXCEPT !.use_pkt_filter = 1, !.first_pkt_byte = o.val]
  OBVIOUS
<1>4. q2 \in Structures
  BY <1>1, <1>2, <1>3, 1 \in 0..1, Zenon DEF Structures
<1>5. /\ q2.use_pkt_filter = 1 /\ q2.first_pkt_byte = o.val
      /\ q2.n_mac_addr = q.n_mac_addr /\ q2.cmp_src_mac = q.cmp_src_mac
      /\ q2.delay = q.delay /\ q2.chanspec = q.chanspec
      /\ q2.core_nss_mask = q.core_nss_mask
  BY <1>1, <1>3 DEF Structures
<1>6. /\ q2.chanspec = l.chanspec
      /\ q2.core_nss_mask = 16 * l.nssmask + l.coremask
  BY <1>1, <1>2, <1>5 DEF Stored, Locals
<1>7. Obeyed(Append(g, o), l, q2)
  BY <1>1, <1>2, <1>4, <1>5, <1>6, ObeyedAppend
<1> QED BY <1>3, <1>7

\* -c
LEMMA ObeyedChanspec ==
    ASSUME NEW g, NEW l, NEW q, Obeyed(g, l, q), NEW o \in Option,
           o.opt = "c", o.val # 0
    PROVE  Obeyed(Append(g, o), [l EXCEPT !.chanspec = o.val],
                  [q EXCEPT !.chanspec = o.val])
<1>1. l \in Locals /\ q \in Structures /\ Stored(g, l, q)
  BY DEF Obeyed
<1>2. ~WrongOption(o) /\ o.val \in Uint16
  BY OptionAssumption DEF WrongOption
<1>3. PICK l2, q2 : /\ l2 = [l EXCEPT !.chanspec = o.val]
                    /\ q2 = [q EXCEPT !.chanspec = o.val]
  OBVIOUS
<1>4. l2 \in Locals /\ q2 \in Structures
  BY <1>1, <1>2, <1>3 DEF Locals, Structures
<1>5. /\ l2.enable = l.enable /\ l2.coremask = l.coremask
      /\ l2.nssmask = l.nssmask /\ l2.chanspec = o.val
      /\ l2.nmac = l.nmac /\ l2.force_delay = l.force_delay
      /\ l2.doraw = l.doraw /\ q2.use_pkt_filter = q.use_pkt_filter
      /\ q2.first_pkt_byte = q.first_pkt_byte /\ q2.n_mac_addr = q.n_mac_addr
      /\ q2.cmp_src_mac = q.cmp_src_mac /\ q2.delay = q.delay
      /\ q2.chanspec = o.val /\ q2.core_nss_mask = q.core_nss_mask
  BY <1>1, <1>3 DEF Locals, Structures
<1>6. /\ q2.chanspec = l2.chanspec
      /\ q2.core_nss_mask = 16 * l2.nssmask + l2.coremask
  BY <1>1, <1>2, <1>5 DEF Stored, Locals
<1>7. Obeyed(Append(g, o), l2, q2)
  BY <1>1, <1>2, <1>4, <1>5, <1>6, ObeyedAppend
<1> QED BY <1>3, <1>7

\* -C
LEMMA ObeyedCoreMask ==
    ASSUME NEW g, NEW l, NEW q, Obeyed(g, l, q), NEW o \in Option,
           o.opt = "C", o.val \in ValidMask
    PROVE  Obeyed(Append(g, o), [l EXCEPT !.coremask = o.val],
                  [q EXCEPT !.core_nss_mask = 16 * (@ \div 16) + o.val])
<1>1. l \in Locals /\ q \in Structures /\ Stored(g, l, q)
  BY DEF Obeyed
<1>2. ~WrongOption(o) /\ o.val \in 0..15
  BY DEF WrongOption, ValidMask
<1>3. PICK l2, q2 : /\ l2 = [l EXCEPT !.coremask = o.val]
                    /\ q2 = [q EXCEPT
                               !.core_nss_mask = 16 * (@ \div 16) + o.val]
  OBVIOUS
<1>8. /\ 16 * (q.core_nss_mask \div 16) + o.val
           = 16 * l.nssmask + o.val
      /\ 16 * l.nssmask + o.val \in Byte
  BY <1>1, <1>2 DEF Stored, Locals, Byte
<1>4. l2 \in Locals /\ q2 \in Structures
  BY <1>1, <1>2, <1>3, <1>8 DEF Locals, Structures
<1>5. /\ l2.enable = l.enable /\ l2.coremask = o.val
      /\ l2.nssmask = l.nssmask /\ l2.chanspec = l.chanspec
      /\ l2.nmac = l.nmac /\ l2.force_delay = l.force_delay
      /\ l2.doraw = l.doraw /\ q2.use_pkt_filter = q.use_pkt_filter
      /\ q2.first_pkt_byte = q.first_pkt_byte /\ q2.n_mac_addr = q.n_mac_addr
      /\ q2.cmp_src_mac = q.cmp_src_mac /\ q2.delay = q.delay
      /\ q2.chanspec = q.chanspec
      /\ q2.core_nss_mask = 16 * (q.core_nss_mask \div 16) + o.val
  BY <1>1, <1>3 DEF Locals, Structures
<1>6. /\ q2.chanspec = l2.chanspec
      /\ q2.core_nss_mask = 16 * l2.nssmask + l2.coremask
  BY <1>1, <1>2, <1>5, <1>8 DEF Stored, Locals
<1>7. Obeyed(Append(g, o), l2, q2)
  BY <1>1, <1>2, <1>4, <1>5, <1>6, ObeyedAppend
<1> QED BY <1>3, <1>7

\* -N
LEMMA ObeyedNssMask ==
    ASSUME NEW g, NEW l, NEW q, Obeyed(g, l, q), NEW o \in Option,
           o.opt = "N", o.val \in ValidMask
    PROVE  Obeyed(Append(g, o), [l EXCEPT !.nssmask = o.val],
                  [q EXCEPT !.core_nss_mask = (@ % 16) + 16 * o.val])
<1>1. l \in Locals /\ q \in Structures /\ Stored(g, l, q)
  BY DEF Obeyed
<1>2. ~WrongOption(o) /\ o.val \in 0..15
  BY DEF WrongOption, ValidMask
<1>3. PICK l2, q2 : /\ l2 = [l EXCEPT !.nssmask = o.val]
                    /\ q2 = [q EXCEPT !.core_nss_mask = (@ % 16) + 16 * o.val]
  OBVIOUS
<1>8. /\ (q.core_nss_mask % 16) + 16 * o.val
           = l.coremask + 16 * o.val
      /\ l.coremask + 16 * o.val \in Byte
  BY <1>1, <1>2 DEF Stored, Locals, Byte
<1>4. l2 \in Locals /\ q2 \in Structures
  BY <1>1, <1>2, <1>3, <1>8 DEF Locals, Structures
<1>5. /\ l2.enable = l.enable /\ l2.coremask = l.coremask
      /\ l2.nssmask = o.val /\ l2.chanspec = l.chanspec
      /\ l2.nmac = l.nmac /\ l2.force_delay = l.force_delay
      /\ l2.doraw = l.doraw /\ q2.use_pkt_filter = q.use_pkt_filter
      /\ q2.first_pkt_byte = q.first_pkt_byte /\ q2.n_mac_addr = q.n_mac_addr
      /\ q2.cmp_src_mac = q.cmp_src_mac /\ q2.delay = q.delay
      /\ q2.chanspec = q.chanspec
      /\ q2.core_nss_mask = (q.core_nss_mask % 16) + 16 * o.val
  BY <1>1, <1>3 DEF Locals, Structures
<1>6. /\ q2.chanspec = l2.chanspec
      /\ q2.core_nss_mask = 16 * l2.nssmask + l2.coremask
  BY <1>1, <1>2, <1>5, <1>8 DEF Stored, Locals
<1>7. Obeyed(Append(g, o), l2, q2)
  BY <1>1, <1>2, <1>4, <1>5, <1>6, ObeyedAppend
<1> QED BY <1>3, <1>7

\* A number in 16 bits.
LEMMA Modulo16 ==
    ASSUME NEW n \in Int PROVE \E d \in Uint16 : d = n % 65536
<1> DEFINE d == n % 65536
<1>1. d \in Uint16
  BY SMT DEF Uint16
<1> HIDE DEF d
<1>2. \E e \in Uint16 : e = d
  BY <1>1
<1> QED BY <1>2 DEF d

\* -d
LEMMA ObeyedDelay ==
    ASSUME NEW g, NEW l, NEW q, Obeyed(g, l, q), NEW o \in Option,
           o.opt = "d",
           o.val # Garbage, ~(o.val < 0)
    PROVE  Obeyed(Append(g, o), [l EXCEPT !.force_delay = 1],
                  [q EXCEPT !.delay = o.val % 65536])
<1>1. l \in Locals /\ q \in Structures /\ Stored(g, l, q)
  BY DEF Obeyed
<1>2. ~WrongOption(o) /\ o.val \in Int
  BY OptionAssumption DEF WrongOption
<1>8. PICK d \in Uint16 : d = o.val % 65536
  BY <1>2, Modulo16
<1>3. PICK l2, q2 : /\ l2 = [l EXCEPT !.force_delay = 1]
                    /\ q2 = [q EXCEPT !.delay = d]
  OBVIOUS
<1>4. l2 \in Locals /\ q2 \in Structures
  BY <1>1, <1>2, <1>3 DEF Locals, Structures
<1>5. /\ l2.enable = l.enable /\ l2.coremask = l.coremask
      /\ l2.nssmask = l.nssmask /\ l2.chanspec = l.chanspec
      /\ l2.nmac = l.nmac /\ l2.force_delay = 1
      /\ l2.doraw = l.doraw /\ q2.use_pkt_filter = q.use_pkt_filter
      /\ q2.first_pkt_byte = q.first_pkt_byte /\ q2.n_mac_addr = q.n_mac_addr
      /\ q2.cmp_src_mac = q.cmp_src_mac /\ q2.delay = d
      /\ q2.chanspec = q.chanspec /\ q2.core_nss_mask = q.core_nss_mask
  BY <1>1, <1>3 DEF Locals, Structures
<1>6. /\ q2.chanspec = l2.chanspec
      /\ q2.core_nss_mask = 16 * l2.nssmask + l2.coremask
  BY <1>1, <1>2, <1>5 DEF Stored, Locals
<1>7. Obeyed(Append(g, o), l2, q2)
  <2>1. q2.delay = o.val % 65536
    BY <1>5, <1>8
  <2> QED BY <1>1, <1>2, <1>4, <1>5, <1>6, <2>1, ObeyedAppend
<1> QED BY <1>3, <1>7, <1>8

\* -m: the addresses follow those of earlier options.
LEMMA PlacesAppend ==
    ASSUME NEW macs \in Seq(Mac), NEW more \in Seq(Mac),
           Len(macs) + Len(more) <= 4
    PROVE  /\ Places(macs) \in [1..4 -> Mac]
           /\ Places(macs \o more) = Copied(Places(macs), Len(macs), more)
<1> DEFINE n == Len(macs) + Len(more)
<1>1. /\ Len(macs) \in Nat /\ Len(more) \in Nat
      /\ \A i \in 1..Len(macs) : macs[i] \in Mac
  BY LenProperties, ElementOfSeq
<1>2. NoMac \in Mac
  BY DEF NoMac, Mac, Byte
<1>3. /\ Len(macs \o more) = n
      /\ \A i \in 1..n : (macs \o more)[i] =
            IF i <= Len(macs) THEN macs[i] ELSE more[i - Len(macs)]
  BY ConcatProperties
<1>4. Places(macs) \in [1..4 -> Mac]
  BY <1>1, <1>2 DEF Places
<1>5. ASSUME NEW i \in 1..4
      PROVE  (IF i <= Len(macs \o more) THEN (macs \o more)[i] ELSE NoMac)
               = (IF i \in Len(macs) + 1 .. n
                  THEN more[i - Len(macs)] ELSE Places(macs)[i])
  <2>1. Places(macs)[i] = IF i <= Len(macs) THEN macs[i] ELSE NoMac
    BY DEF Places
  <2> QED BY <2>1, <1>1, <1>3
<1>6. Places(macs \o more) =
        [i \in 1..4 |-> IF i <= Len(macs \o more)
                        THEN (macs \o more)[i] ELSE NoMac]
  BY DEF Places
<1>7. DOMAIN Places(macs) = 1..4
  BY DEF Places
<1> QED BY <1>4, <1>5, <1>6, <1>7 DEF Copied

\* Addresses that fit are obeyed.
LEMMA ObeyedMacs ==
    ASSUME NEW g, NEW l, NEW q, Obeyed(g, l, q), NEW o \in Option,
           o.opt = "m", ~WrongOption(o),
           NEW n, n = l.nmac + Len(o.val), n <= 4,
           NEW places, places = Copied(q.cmp_src_mac, l.nmac, o.val),
           NEW l2, l2 = [l EXCEPT !.nmac = n],
           NEW q2, q2 = [q EXCEPT !.n_mac_addr = n, !.cmp_src_mac = places]
    PROVE  Obeyed(Append(g, o), l2, q2)
<1> DEFINE h == Append(g, o)
<1>1. /\ Readable(g) /\ Right(g) /\ Macs(g) \in Seq(Mac)
      /\ l \in Locals /\ q \in Structures /\ Remembered(g, l)
      /\ Stored(g, l, q)
  BY DEF Obeyed
<1>2. Garbage \notin {o.val[i] : i \in DOMAIN o.val}
  BY DEF WrongOption
<1>3. o.val \in Seq(Mac)
  <2>1. o.val \in Seq(Mac \cup {Garbage})
    BY OptionAssumption DEF Mac
  <2>2. \A i \in 1..Len(o.val) : o.val[i] \in Mac
    BY <1>2, <2>1, ElementOfSeq, LenProperties
  <2> QED BY <2>1, <2>2, IsASeq, LenProperties
<1>4. /\ Readable(h) /\ Right(h) /\ Macs(h) = Macs(g) \o o.val
      /\ \A x, d : LastOf(h, x, d) =
                     IF o.opt = x THEN o.val ELSE LastOf(g, x, d)
      /\ \A x : Given(h, x) = {} <=> Given(g, x) = {} /\ o.opt # x
  BY <1>1, AskedAppend DEF Addresses
<1> HIDE DEF h
<1>5. /\ Macs(h) \in Seq(Mac) /\ Len(Macs(h)) = n
      /\ n \in 0..4 /\ l.nmac = Len(Macs(g))
      /\ n = Len(Macs(g)) + Len(o.val)
  <2>1. l.nmac = Len(Macs(g))
    BY <1>1 DEF Remembered
  <2>2. Len(Macs(g)) \in Nat /\ Len(o.val) \in Nat
    BY <1>1, <1>3, LenProperties
  <2>3. /\ Macs(h) \in Seq(Mac)
        /\ Len(Macs(h)) = Len(Macs(g)) + Len(o.val)
    BY <1>1, <1>3, <1>4, ConcatProperties
  <2> QED BY <2>1, <2>2, <2>3
<1>7. places = Places(Macs(h)) /\ places \in [1..4 -> Mac]
  <2>1. q.cmp_src_mac = Places(Macs(g))
    BY <1>1 DEF Stored
  <2>2. Places(Macs(g) \o o.val) = Copied(Places(Macs(g)), Len(Macs(g)), o.val)
    BY <1>1, <1>3, <1>5, PlacesAppend
  <2>3. Places(Macs(h)) \in [1..4 -> Mac]
    <3>1. Len(Macs(h)) + Len(<<>>) <= 4 /\ <<>> \in Seq(Mac)
      BY <1>5
    <3> QED BY <1>5, <3>1, PlacesAppend
  <2> QED BY <2>1, <2>2, <2>3, <1>4, <1>5
<1>8. l2 \in Locals /\ l2.nmac = n /\ l2.enable = l.enable
        /\ l2.coremask = l.coremask /\ l2.nssmask = l.nssmask
        /\ l2.chanspec = l.chanspec /\ l2.force_delay = l.force_delay
        /\ l2.doraw = l.doraw
  BY <1>1, <1>5 DEF Locals
<1>9. q2 \in Structures
  BY <1>1, <1>5, <1>7, Zenon DEF Structures
<1>10. /\ q2.n_mac_addr = n /\ q2.cmp_src_mac = places
       /\ q2.chanspec = q.chanspec /\ q2.core_nss_mask = q.core_nss_mask
       /\ q2.use_pkt_filter = q.use_pkt_filter
       /\ q2.first_pkt_byte = q.first_pkt_byte /\ q2.delay = q.delay
  BY <1>1 DEF Structures
<1>11. Remembered(h, l2)
  <2>1. /\ l2.enable = LastOf(h, "e", 1)
        /\ l2.coremask = LastOf(h, "C", 0)
        /\ l2.nssmask = LastOf(h, "N", 0)
        /\ l2.chanspec = LastOf(h, "c", 0)
    BY <1>1, <1>4, <1>8 DEF Remembered
  <2>2. /\ l2.force_delay = IF Given(h, "d") = {} THEN 0 ELSE 1
        /\ l2.doraw = IF Given(h, "r") = {} THEN 0 ELSE 1
    BY <1>1, <1>4, <1>8 DEF Remembered
  <2> QED BY <2>1, <2>2, <1>5, <1>8 DEF Remembered
<1>12. Stored(h, l2, q2)
  <2>1. /\ LastOf(h, "d", DEFAULT_DELAY_US)
              = LastOf(g, "d", DEFAULT_DELAY_US)
        /\ LastOf(h, "b", 0) = LastOf(g, "b", 0)
        /\ Given(h, "d") = {} <=> Given(g, "d") = {}
        /\ Given(h, "b") = {} <=> Given(g, "b") = {}
    BY <1>4
  <2>2. /\ q2.chanspec = l2.chanspec
        /\ q2.core_nss_mask = 16 * l2.nssmask + l2.coremask
        /\ q2.use_pkt_filter = IF Given(h, "b") = {} THEN 0 ELSE 1
        /\ q2.first_pkt_byte = LastOf(h, "b", 0)
        /\ q2.n_mac_addr = l2.nmac
    BY <2>1, <1>1, <1>8, <1>10 DEF Stored
  <2>3. q2.delay = IF Given(h, "d") = {} THEN 0
                   ELSE LastOf(h, "d", DEFAULT_DELAY_US) % 65536
    <3>1. q.delay = IF Given(g, "d") = {} THEN 0
                    ELSE LastOf(g, "d", DEFAULT_DELAY_US) % 65536
      BY <1>1, SMT DEF Stored
    <3> QED BY <3>1, <2>1, <1>10, SMT
  <2> QED BY <2>2, <2>3, <1>7, <1>10, SMT DEF Stored
<1>13. Obeyed(h, l2, q2)
  BY <1>4, <1>5, <1>8, <1>9, <1>11, <1>12 DEF Obeyed
<1> QED BY <1>13 DEF h

-----------------------------------------------------------------------------
(***************************************************************************)
(* The encoding loses nothing, and the fields are where the hook reads     *)
(* them.                                                                   *)
(***************************************************************************)
Word == {w \in Nat : w < 16777216}

\* A character of the encoding is no equals sign and can be read back.
LEMMA CharRead ==
    ASSUME NEW x \in 0..63
    PROVE  base64(x) # 61 /\ Sextet(base64(x)) = x
<1>1. CASE x < 26
  BY <1>1 DEF base64, Sextet
<1>2. CASE x \in 26..51
  BY <1>2 DEF base64, Sextet
<1>3. CASE x \in 52..61
  BY <1>3 DEF base64, Sextet
<1>4. CASE x = 62
  BY <1>4 DEF base64, Sextet
<1>5. CASE x = 63
  BY <1>5 DEF base64, Sextet
<1> QED BY <1>1, <1>2, <1>3, <1>4, <1>5

\* A number in digits of base 64.
LEMMA DigitTaken ==
    ASSUME NEW n \in Nat
    PROVE  n \div 64 \in Nat /\ n % 64 \in 0..63
             /\ n = 64 * (n \div 64) + (n % 64)
OBVIOUS

\* Two digits at a time.
LEMMA DivTwice ==
    ASSUME NEW w \in Word
    PROVE  /\ w \div 4096 = (w \div 64) \div 64
           /\ w \div 262144 = (w \div 4096) \div 64
           /\ w \div 262144 \in 0..63
<1>1. w \in Nat /\ w < 16777216
  BY SMT DEF Word
<1>2. w \div 4096 = (w \div 64) \div 64
  BY <1>1, SMT
<1>3. w \div 262144 = (w \div 4096) \div 64
  BY <1>1, SMT
<1>4. w \div 262144 \in 0..63
  BY <1>1, SMT
<1> QED BY <1>2, <1>3, <1>4, SMT

\* Four sextets make up the number they were taken from.
LEMMA SextetsSum ==
    ASSUME NEW w \in Word
    PROVE  /\ \A k \in 1..4 : Sextets(w)[k] \in 0..63
           /\ Sextets(w)[1] * 262144 + Sextets(w)[2] * 4096
                + Sextets(w)[3] * 64 + Sextets(w)[4] = w
<1> DEFINE a == (w \div 262144) % 64
           b == (w \div 4096) % 64
           c == (w \div 64) % 64
           d == w % 64
<1>1. /\ a \in 0..63 /\ b \in 0..63 /\ c \in 0..63 /\ d \in 0..63
      /\ a * 262144 + b * 4096 + c * 64 + d = w
  <2>1. PICK m, n, k : m = w \div 64 /\ n = w \div 4096 /\ k = w \div 262144
    BY SMT
  <2>2. w \in Nat
    BY SMT DEF Word
  <2>3. n = m \div 64 /\ k = n \div 64 /\ k \in 0..63
    BY <2>1, DivTwice, SMT
  <2>4. m \in Nat /\ d \in 0..63 /\ w = 64 * m + d
    BY <2>1, <2>2, DigitTaken, SMT
  <2>5. n \in Nat /\ c \in 0..63 /\ m = 64 * n + c
    <3>1. c = m % 64
      BY <2>1
    <3>2. /\ m \div 64 \in Nat /\ m % 64 \in 0..63
          /\ m = 64 * (m \div 64) + (m % 64)
      BY <2>4, DigitTaken
    <3> HIDE DEF c
    <3> QED BY ONLY <3>1, <3>2, <2>3
  <2>6. b \in 0..63 /\ n = 64 * k + b
    <3>1. b = n % 64
      BY <2>1
    <3>2. /\ n \div 64 \in Nat /\ n % 64 \in 0..63
          /\ n = 64 * (n \div 64) + (n % 64)
      BY <2>5, DigitTaken
    <3> HIDE DEF b
    <3> QED BY ONLY <3>1, <3>2, <2>3
  <2>7. a = k
    BY <2>1, <2>3, SMT
  <2> HIDE DEF a, b, c, d
  <2> QED BY <2>3, <2>4, <2>5, <2>6, <2>7, SMT
<1>2. Sextets(w) = <<a, b, c, d>>
  BY SMT DEF Sextets
<1> HIDE DEF a, b, c, d
<1>3. /\ Sextets(w)[1] = a /\ Sextets(w)[2] = b
      /\ Sextets(w)[3] = c /\ Sextets(w)[4] = d
  BY <1>2
<1> QED BY <1>1, <1>3, SMT

\* Sextets are indices of the alphabet.
LEMMA SextetsRange ==
    ASSUME NEW w \in Word, NEW k \in 1..4
    PROVE  Sextets(w)[k] \in 0..63
BY SextetsSum, SMT

\* Three bytes can be taken from the number they make up.
LEMMA OctetsTaken ==
    ASSUME NEW x \in Byte, NEW y \in Byte, NEW z \in Byte,
           NEW w, w = x * 65536 + y * 256 + z
    PROVE  /\ w \in Word /\ Octets(w) = <<x, y, z>>
<1>1. w \in Word
  BY SMT DEF Word, Byte
<1>2. (w \div 65536) % 256 = x /\ (w \div 256) % 256 = y /\ w % 256 = z
  BY SMT DEF Byte
<1> QED BY <1>1, <1>2, SMT DEF Octets

\* A byte alone leaves its last two sextets empty.
LEMMA LastSextets ==
    ASSUME NEW x \in Byte, NEW w, w = x * 65536
    PROVE  Sextets(w)[3] = 0 /\ Sextets(w)[4] = 0
<1>1. (w \div 64) % 64 = 0 /\ w % 64 = 0
  BY SMT DEF Byte
<1> QED BY <1>1, SMT DEF Sextets

\* The places of characters and of bytes.
LEMMA Fourths ==
    ASSUME NEW n \in 1..48
    PROVE  \E g \in 0..11, k \in 0..3 :
             n = 4 * g + k + 1 /\ (n - 1) \div 4 = g /\ (n - 1) % 4 = k
<1>1. (n - 1) \div 4 \in 0..11 /\ (n - 1) % 4 \in 0..3
  OBVIOUS
<1>2. n = 4 * ((n - 1) \div 4) + ((n - 1) % 4) + 1
  OBVIOUS
<1> QED BY <1>1, <1>2

\* The place of the character k of the group g.
LEMMA FourthsBack ==
    ASSUME NEW g \in 0..11, NEW k \in 0..3
    PROVE  /\ 4 * g + k + 1 \in 1..48
           /\ (4 * g + k + 1 - 1) \div 4 = g /\ (4 * g + k + 1 - 1) % 4 = k
OBVIOUS

\* The places of bytes.
LEMMA Thirds ==
    ASSUME NEW n \in 1..34
    PROVE  \E g \in 0..11, k \in 0..2 :
             n = 3 * g + k + 1 /\ (n - 1) \div 3 = g /\ (n - 1) % 3 = k
<1>1. (n - 1) \div 3 \in 0..11 /\ (n - 1) % 3 \in 0..2
  OBVIOUS
<1>2. n = 3 * ((n - 1) \div 3) + ((n - 1) % 3) + 1
  OBVIOUS
<1> QED BY <1>1, <1>2

\* What three bytes make up.
LEMMA ValBytes ==
    ASSUME NEW b \in Seq(Byte), NEW jj \in Nat
    PROVE  /\ Val(b, jj) \in Word
           /\ Octets(Val(b, jj)) =
                <<Padded(b, jj + 1), Padded(b, jj + 2), Padded(b, jj + 3)>>
<1>1. ASSUME NEW i \in Nat \ {0} PROVE Padded(b, i) \in Byte
  <2>1. 0 \in Byte
    BY DEF Byte
  <2> QED BY <2>1, LenProperties, ElementOfSeq DEF Padded
<1>2. PICK x \in Byte, y \in Byte, z \in Byte :
        /\ x = Padded(b, jj + 1) /\ y = Padded(b, jj + 2)
        /\ z = Padded(b, jj + 3)
  BY <1>1
<1>3. PICK w : w = x * 65536 + y * 256 + z
  BY SMT
<1>4. Val(b, jj) = w
  BY <1>2, <1>3, SMT DEF Val
<1>5. w \in Word /\ Octets(w) = <<x, y, z>>
  BY <1>3, OctetsTaken
<1> QED BY <1>2, <1>4, <1>5

\* The characters of 34 bytes.
LEMMA Encoded ==
    ASSUME NEW b \in Seq(Byte), Len(b) = 34,
           NEW g \in 0..11, NEW k \in 0..3
    PROVE  LET c == Base64(b)[4 * g + k + 1]
           IN  /\ c = 61 <=> g = 11 /\ k \in {2, 3}
               /\ Sextet(c) = Sextets(Val(b, 3 * g))[k + 1]
<1> DEFINE n == 4 * g + k + 1
<1>1. n \in 1..48 /\ (n - 1) \div 4 = g /\ (n - 1) % 4 = k
  BY FourthsBack
<1>2. Base64(b) =
        [m \in 1..48 |->
           IF 6 * ((m - 1) % 4) > 8 * (34 - 3 * ((m - 1) \div 4))
           THEN 61
           ELSE base64(Sextets(Val(b, 3 * ((m - 1) \div 4)))
                         [((m - 1) % 4) + 1])]
  <2>1. 4 * ((34 + 2) \div 3) = 48
    OBVIOUS
  <2> QED BY <2>1, Zenon DEF Base64
<1> HIDE DEF n
<1>3. Base64(b)[n] = IF 6 * k > 8 * (34 - 3 * g) THEN 61
                     ELSE base64(Sextets(Val(b, 3 * g))[k + 1])
  BY <1>1, <1>2, Zenon
<1>4. 6 * k > 8 * (34 - 3 * g) <=> g = 11 /\ k \in {2, 3}
  OBVIOUS
<1>5. Sextets(Val(b, 3 * g))[k + 1] \in 0..63
  <2>1. PICK w \in Word : w = Val(b, 3 * g)
    BY ValBytes
  <2>2. PICK j \in 1..4 : j = k + 1
    OBVIOUS
  <2>3. Sextets(w)[j] \in 0..63
    BY SextetsRange
  <2> QED BY <2>1, <2>2, <2>3
<1>8. b[34] \in Byte
  BY 34 \in 1..Len(b), ElementOfSeq
<1>6. CASE g = 11 /\ k \in {2, 3}
  <2>1. Base64(b)[n] = 61
    BY <1>3, <1>4, <1>6
  <2>2. Val(b, 33) = b[34] * 65536
    <3>1. /\ Padded(b, 33 + 1) = b[34] /\ Padded(b, 33 + 2) = 0
          /\ Padded(b, 33 + 3) = 0
      BY DEF Padded
    <3>2. PICK x \in Byte : x = b[34]
      BY <1>8
    <3>3. Val(b, 33) = x * 65536 + 0 * 256 + 0
      BY <3>1, <3>2, SMT DEF Val
    <3>4. x * 65536 + 0 * 256 + 0 = x * 65536
      BY SMT DEF Byte
    <3> QED BY <3>2, <3>3, <3>4, SMT
  <2>3. PICK w : w = Val(b, 33)
    OBVIOUS
  <2>4. Sextets(w)[3] = 0 /\ Sextets(w)[4] = 0
    <3>1. PICK x \in Byte : x = b[34]
      BY <1>8
    <3>2. w = x * 65536
      BY <2>2, <2>3, <3>1
    <3> QED BY <3>2, LastSextets
  <2>5. Sextet(61) = 0
    BY DEF Sextet
  <2>6. 3 * g = 33 /\ k + 1 \in {3, 4}
    BY <1>6
  <2> QED BY <1>6, <2>1, <2>3, <2>4, <2>5, <2>6 DEF n
<1>7. CASE ~(g = 11 /\ k \in {2, 3})
  <2>1. PICK x \in 0..63 : x = Sextets(Val(b, 3 * g))[k + 1]
    BY <1>5
  <2>2. Base64(b)[n] = base64(x)
    BY <1>3, <1>4, <1>7, <2>1
  <2>3. base64(x) # 61 /\ Sextet(base64(x)) = x
    BY CharRead
  <2> QED BY <1>7, <2>1, <2>2, <2>3 DEF n
<1> QED BY <1>6, <1>7

\* What the encoding writes can be read back: for 34 bytes.
LEMMA RoundTrip ==
    ASSUME NEW b \in Seq(Byte), Len(b) = 34
    PROVE  Unbase64(Base64(b)) = b
<1> DEFINE e == Base64(b)
<1>1. DOMAIN e = 1..48
  <2>1. 4 * ((34 + 2) \div 3) = 48
    OBVIOUS
  <2> QED BY <2>1, Zenon DEF Base64
<1>2. Len(e) = 48
  <2>1. e = [m \in 1..48 |-> e[m]]
    BY <1>1, Zenon DEF Base64
  <2> HIDE DEF e
  <2>2. e \in Seq({e[m] : m \in 1..48})
    BY <2>1
  <2> QED BY <2>2, <1>1, LenProperties
<1>3. \A g \in 0..11, k \in 0..3 :
        /\ e[4 * g + k + 1] = 61 <=> g = 11 /\ k \in {2, 3}
        /\ Sextet(e[4 * g + k + 1]) = Sextets(Val(b, 3 * g))[k + 1]
  BY Encoded
<1> HIDE DEF e
<1>4. {i \in DOMAIN e : e[i] = 61} = {47, 48}
  <2>1. ASSUME NEW i \in 1..48 PROVE e[i] = 61 <=> i \in {47, 48}
    <3>1. PICK g \in 0..11, k \in 0..3 : i = 4 * g + k + 1
      BY Fourths
    <3>2. e[i] = 61 <=> g = 11 /\ k \in {2, 3}
      BY <1>3, <3>1
    <3>3. g = 11 /\ k \in {2, 3} <=> i \in {47, 48}
      BY <3>1
    <3> QED BY <3>2, <3>3
  <2>2. {47, 48} \subseteq 1..48
    OBVIOUS
  <2>3. {i \in 1..48 : e[i] = 61} = {47, 48}
    BY <2>1, <2>2
  <2> QED BY <2>3, <1>1
<1>5. Cardinality({47, 48}) = 2
  <2>1. IsFiniteSet({47}) /\ Cardinality({47}) = 1
    BY FS_Singleton
  <2>2. {47, 48} = {47} \cup {48} /\ 48 \notin {47}
    OBVIOUS
  <2>3. Cardinality({47} \cup {48}) = Cardinality({47}) + 1
    BY <2>1, <2>2, FS_AddElement
  <2>4. Cardinality({47} \cup {48}) = 2
    BY <2>1, <2>3, 1 + 1 = 2, Zenon
  <2> QED BY <2>2, <2>4, Zenon
<1>6. ASSUME NEW g \in 0..11 PROVE Unval(e, 4 * g) = Val(b, 3 * g)
  <2>1. PICK w \in Word : w = Val(b, 3 * g)
    BY ValBytes
  <2>2. \A k \in 0..3 : Sextet(e[4 * g + k + 1]) = Sextets(w)[k + 1]
    BY <1>3, <2>1
  <2>3. /\ Sextet(e[4 * g + 1]) = Sextets(w)[1]
        /\ Sextet(e[4 * g + 2]) = Sextets(w)[2]
        /\ Sextet(e[4 * g + 3]) = Sextets(w)[3]
        /\ Sextet(e[4 * g + 4]) = Sextets(w)[4]
    <3>1. /\ 4 * g + 0 + 1 = 4 * g + 1 /\ 4 * g + 1 + 1 = 4 * g + 2
          /\ 4 * g + 2 + 1 = 4 * g + 3 /\ 4 * g + 3 + 1 = 4 * g + 4
      OBVIOUS
    <3> QED BY <2>2, <3>1
  <2>4. Unval(e, 4 * g) = Sextets(w)[1] * 262144 + Sextets(w)[2] * 4096
                            + Sextets(w)[3] * 64 + Sextets(w)[4]
    BY <2>3, SMT DEF Unval
  <2> QED BY <2>1, <2>4, SextetsSum, SMT
<1>7. Unbase64(e) =
        [n \in 1..34 |-> Octets(Unval(e, 4 * ((n - 1) \div 3)))
                                  [((n - 1) % 3) + 1]]
  <2>1. 3 * (48 \div 4) - 2 = 34
    OBVIOUS
  <2> QED BY <2>1, <1>2, <1>4, <1>5, Zenon DEF Unbase64
<1>8. ASSUME NEW n \in 1..34
      PROVE  Octets(Unval(e, 4 * ((n - 1) \div 3)))[((n - 1) % 3) + 1] = b[n]
  <2>1. PICK g \in 0..11, k \in 0..2 :
          n = 3 * g + k + 1 /\ (n - 1) \div 3 = g /\ (n - 1) % 3 = k
    BY Thirds
  <2>2. Octets(Val(b, 3 * g)) = <<Padded(b, 3 * g + 1), Padded(b, 3 * g + 2),
                                  Padded(b, 3 * g + 3)>>
    <3>1. PICK jj \in Nat : jj = 3 * g
      OBVIOUS
    <3>2. Octets(Val(b, jj)) =
            <<Padded(b, jj + 1), Padded(b, jj + 2), Padded(b, jj + 3)>>
      BY ValBytes
    <3> QED BY <3>1, <3>2
  <2>3. Padded(b, n) = b[n]
    BY DEF Padded
  <2>4. Octets(Val(b, 3 * g))[k + 1] = Padded(b, n)
    BY <2>1, <2>2
  <2> QED BY <2>1, <2>3, <2>4, <1>6, Zenon
<1>9. b = [n \in 1..34 |-> b[n]]
  BY LenProperties
<1> QED BY <1>7, <1>8, <1>9, Zenon DEF e

\* The bytes of one more field.
LEMMA BytesConcat ==
    ASSUME NEW s \in Seq(Byte), NEW t \in Seq(Byte)
    PROVE  /\ s \o t \in Seq(Byte) /\ Len(s \o t) = Len(s) + Len(t)
           /\ \A i \in 1..Len(s) : (s \o t)[i] = s[i]
           /\ \A i \in 1..Len(t) : (s \o t)[Len(s) + i] = t[i]
<1>1. Len(s) \in Nat /\ Len(t) \in Nat
  BY LenProperties
<1>2. /\ s \o t \in Seq(Byte) /\ Len(s \o t) = Len(s) + Len(t)
      /\ \A i \in 1..Len(s) + Len(t) :
            (s \o t)[i] = IF i <= Len(s) THEN s[i] ELSE t[i - Len(s)]
  BY ConcatProperties
<1>3. \A i \in 1..Len(s) : (s \o t)[i] = s[i]
  BY <1>1, <1>2
<1>4. ASSUME NEW i \in 1..Len(t) PROVE (s \o t)[Len(s) + i] = t[i]
  <2>1. /\ Len(s) + i \in 1..Len(s) + Len(t) /\ ~(Len(s) + i <= Len(s))
        /\ Len(s) + i - Len(s) = i
    BY <1>1
  <2> QED BY <2>1, <1>2
<1> QED BY <1>2, <1>3, <1>4

Joined(r, s, t) ==
    /\ r \in Seq(Byte) /\ Len(r) = Len(s) + Len(t)
    /\ \A i \in 1..Len(s) : r[i] = s[i]
    /\ \A i \in 1..Len(t) : r[Len(s) + i] = t[i]

\* A sequence of bytes that is put together keeps its parts.
LEMMA BytesJoined ==
    ASSUME NEW s \in Seq(Byte), NEW t \in Seq(Byte), NEW r, r = s \o t
    PROVE  Joined(r, s, t)
BY BytesConcat DEF Joined

\* A small number fits into a field of any size.
LEMMA SmallFits == ASSUME NEW n \in 0..4 PROVE n \in Byte /\ n \in Uint16
<1>1. n \in Byte
  BY SMT DEF Byte
<1>2. n \in Uint16
  BY SMT DEF Uint16
<1> QED BY <1>1, <1>2

\* A number in two bytes is read back.
LEMMA LittleEndianRead ==
    ASSUME NEW w \in Uint16
    PROVE  /\ LittleEndian(w) \in Seq(Byte) /\ Len(LittleEndian(w)) = 2
           /\ LittleEndian(w)[1] + 256 * LittleEndian(w)[2] = w
<1>1. w \in Nat /\ w < 65536
  BY SMT DEF Uint16
<1>2. PICK a, b : a = w % 256 /\ b = w \div 256
  BY SMT
<1>3. a \in Byte /\ b \in Byte
  BY <1>1, <1>2, SMT DEF Byte
<1>4. a + 256 * b = w
  BY <1>1, <1>2, SMT
<1>5. LittleEndian(w) = <<a, b>>
  BY <1>2 DEF LittleEndian
<1> QED BY <1>3, <1>4, <1>5

\* The fields of the structure q are where the hook reads them in b.
Laid(b, q) ==
    /\ b \in Seq(Byte) /\ Len(b) = 34
    /\ b[1] + 256 * b[2] = q.chanspec
    /\ b[3] = q.csi_collect /\ b[4] = q.core_nss_mask
    /\ b[5] = q.use_pkt_filter /\ b[6] = q.first_pkt_byte
    /\ b[7] + 256 * b[8] = q.n_mac_addr
    /\ \A j \in 1..4, i \in 1..6 : b[2 + 6 * j + i] = q.cmp_src_mac[j][i]
    /\ b[33] + 256 * b[34] = q.delay

\* The structure in memory is laid out as the hook expects.
LEMMA FieldsRead == ASSUME NEW q \in Structures PROVE Laid(Bytes(q), q)
<1>1. /\ q.chanspec \in Uint16 /\ q.delay \in Uint16 /\ q.n_mac_addr \in 0..4
      /\ q.csi_collect \in Byte /\ q.core_nss_mask \in Byte
      /\ q.use_pkt_filter \in 0..1 /\ q.first_pkt_byte \in Byte
      /\ q.cmp_src_mac \in [1..4 -> Mac]
  BY DEF Structures
<1>2. q.n_mac_addr \in Uint16 /\ q.use_pkt_filter \in Byte
  BY <1>1, SmallFits
<1>3. PICK c, n, d : /\ c = LittleEndian(q.chanspec)
                     /\ n = LittleEndian(q.n_mac_addr)
                     /\ d = LittleEndian(q.delay)
  OBVIOUS
<1>4. /\ c \in Seq(Byte) /\ Len(c) = 2 /\ c[1] + 256 * c[2] = q.chanspec
      /\ n \in Seq(Byte) /\ Len(n) = 2 /\ n[1] + 256 * n[2] = q.n_mac_addr
      /\ d \in Seq(Byte) /\ Len(d) = 2 /\ d[1] + 256 * d[2] = q.delay
  BY <1>1, <1>2, <1>3, LittleEndianRead
<1>5. PICK f : f = <<q.csi_collect, q.core_nss_mask, q.use_pkt_filter,
                     q.first_pkt_byte>>
  OBVIOUS
<1>6. /\ f \in Seq(Byte) /\ Len(f) = 4
      /\ f[1] = q.csi_collect /\ f[2] = q.core_nss_mask
      /\ f[3] = q.use_pkt_filter /\ f[4] = q.first_pkt_byte
  BY <1>1, <1>2, <1>5
<1>7. PICK m1, m2, m3, m4 : /\ m1 = q.cmp_src_mac[1] /\ m2 = q.cmp_src_mac[2]
                            /\ m3 = q.cmp_src_mac[3] /\ m4 = q.cmp_src_mac[4]
  OBVIOUS
<1>8. ASSUME NEW m \in Mac PROVE m \in Seq(Byte) /\ Len(m) = 6
  <2>1. m \in [1..6 -> Byte]
    BY DEF Mac
  <2>3. m = [i \in 1..6 |-> m[i]] /\ \A i \in 1..6 : m[i] \in Byte
    BY <2>1
  <2>2. m \in Seq(Byte)
    BY <2>3
  <2> QED BY <2>1, <2>2, LenProperties
<1>9. /\ m1 \in Seq(Byte) /\ Len(m1) = 6 /\ m2 \in Seq(Byte) /\ Len(m2) = 6
      /\ m3 \in Seq(Byte) /\ Len(m3) = 6 /\ m4 \in Seq(Byte) /\ Len(m4) = 6
  <2>1. m1 \in Mac /\ m2 \in Mac /\ m3 \in Mac /\ m4 \in Mac
    BY <1>1, <1>7
  <2> QED BY <2>1, <1>8
<1>10. PICK s2, s3, s4, s5, s6, s7, s8 :
         /\ s2 = c \o f /\ s3 = s2 \o n /\ s4 = s3 \o m1 /\ s5 = s4 \o m2
         /\ s6 = s5 \o m3 /\ s7 = s6 \o m4 /\ s8 = s7 \o d
  OBVIOUS
<1>11. /\ c \in Seq(Byte) /\ f \in Seq(Byte) /\ n \in Seq(Byte)
       /\ m1 \in Seq(Byte) /\ m2 \in Seq(Byte) /\ m3 \in Seq(Byte)
       /\ m4 \in Seq(Byte) /\ d \in Seq(Byte)
  BY <1>4, <1>6, <1>9
<1>12. /\ Len(c) = 2 /\ Len(f) = 4 /\ Len(n) = 2 /\ Len(d) = 2
       /\ Len(m1) = 6 /\ Len(m2) = 6 /\ Len(m3) = 6 /\ Len(m4) = 6
  BY <1>4, <1>6, <1>9
<1>13. /\ s2 \in Seq(Byte) /\ Len(s2) = 6
       /\ \A i \in 1..2 : s2[i] = c[i]
       /\ \A i \in 1..4 : s2[2 + i] = f[i]
  <2>1. c \in Seq(Byte) /\ f \in Seq(Byte) /\ s2 = c \o f
    BY <1>11, <1>10
  <2>2. Joined(s2, c, f)
    BY <2>1, BytesJoined
  <2>3. Len(c) = 2 /\ Len(f) = 4
    BY <1>12
  <2> QED BY <2>2, <2>3 DEF Joined
<1>14. /\ s3 \in Seq(Byte) /\ Len(s3) = 8
       /\ \A i \in 1..6 : s3[i] = s2[i]
       /\ \A i \in 1..2 : s3[6 + i] = n[i]
  <2>1. s2 \in Seq(Byte) /\ n \in Seq(Byte) /\ s3 = s2 \o n
    BY <1>11, <1>13, <1>10
  <2>2. Joined(s3, s2, n)
    BY <2>1, BytesJoined
  <2>3. Len(s2) = 6 /\ Len(n) = 2
    BY <1>12, <1>13
  <2> QED BY <2>2, <2>3 DEF Joined
<1>15. /\ s4 \in Seq(Byte) /\ Len(s4) = 14
       /\ \A i \in 1..8 : s4[i] = s3[i]
       /\ \A i \in 1..6 : s4[8 + i] = m1[i]
  <2>1. s3 \in Seq(Byte) /\ m1 \in Seq(Byte) /\ s4 = s3 \o m1
    BY <1>11, <1>14, <1>10
  <2>2. Joined(s4, s3, m1)
    BY <2>1, BytesJoined
  <2>3. Len(s3) = 8 /\ Len(m1) = 6
    BY <1>12, <1>14
  <2> QED BY <2>2, <2>3 DEF Joined
<1>16. /\ s5 \in Seq(Byte) /\ Len(s5) = 20
       /\ \A i \in 1..14 : s5[i] = s4[i]
       /\ \A i \in 1..6 : s5[14 + i] = m2[i]
  <2>1. s4 \in Seq(Byte) /\ m2 \in Seq(Byte) /\ s5 = s4 \o m2
    BY <1>11, <1>15, <1>10
  <2>2. Joined(s5, s4, m2)
    BY <2>1, BytesJoined
  <2>3. Len(s4) = 14 /\ Len(m2) = 6
    BY <1>12, <1>15
  <2> QED BY <2>2, <2>3 DEF Joined
<1>17. /\ s6 \in Seq(Byte) /\ Len(s6) = 26
       /\ \A i \in 1..20 : s6[i] = s5[i]
       /\ \A i \in 1..6 : s6[20 + i] = m3[i]
  <2>1. s5 \in Seq(Byte) /\ m3 \in Seq(Byte) /\ s6 = s5 \o m3
    BY <1>11, <1>16, <1>10
  <2>2. Joined(s6, s5, m3)
    BY <2>1, BytesJoined
  <2>3. Len(s5) = 20 /\ Len(m3) = 6
    BY <1>12, <1>16
  <2> QED BY <2>2, <2>3 DEF Joined
<1>18. /\ s7 \in Seq(Byte) /\ Len(s7) = 32
       /\ \A i \in 1..26 : s7[i] = s6[i]
       /\ \A i \in 1..6 : s7[26 + i] = m4[i]
  <2>1. s6 \in Seq(Byte) /\ m4 \in Seq(Byte) /\ s7 = s6 \o m4
    BY <1>11, <1>17, <1>10
  <2>2. Joined(s7, s6, m4)
    BY <2>1, BytesJoined
  <2>3. Len(s6) = 26 /\ Len(m4) = 6
    BY <1>12, <1>17
  <2> QED BY <2>2, <2>3 DEF Joined
<1>19. /\ s8 \in Seq(Byte) /\ Len(s8) = 34
       /\ \A i \in 1..32 : s8[i] = s7[i]
       /\ \A i \in 1..2 : s8[32 + i] = d[i]
  <2>1. s7 \in Seq(Byte) /\ d \in Seq(Byte) /\ s8 = s7 \o d
    BY <1>11, <1>18, <1>10
  <2>2. Joined(s8, s7, d)
    BY <2>1, BytesJoined
  <2>3. Len(s7) = 32 /\ Len(d) = 2
    BY <1>12, <1>18
  <2> QED BY <2>2, <2>3 DEF Joined
<1>20. Bytes(q) = s8
  BY <1>3, <1>5, <1>7, <1>10, Zenon DEF Bytes
<1>21. s8[33] + 256 * s8[34] = q.delay
  BY <1>4, <1>19, 32 + 1 = 33, 32 + 2 = 34
<1>22. ASSUME NEW i \in 1..26 PROVE s8[i] = s6[i]
  <2>1. i \in 1..32
    OBVIOUS
  <2>2. s8[i] = s7[i]
    BY <2>1, <1>19
  <2>3. s7[i] = s6[i]
    BY <1>18
  <2> QED BY <2>2, <2>3
<1>23. ASSUME NEW i \in 1..20 PROVE s8[i] = s5[i]
  <2>1. i \in 1..26
    OBVIOUS
  <2>2. s8[i] = s6[i]
    BY <2>1, <1>22
  <2>3. s6[i] = s5[i]
    BY <1>17
  <2> QED BY <2>2, <2>3
<1>24. ASSUME NEW i \in 1..14 PROVE s8[i] = s4[i]
  <2>1. i \in 1..20
    OBVIOUS
  <2>2. s8[i] = s5[i]
    BY <2>1, <1>23
  <2>3. s5[i] = s4[i]
    BY <1>16
  <2> QED BY <2>2, <2>3
<1>25. ASSUME NEW i \in 1..8 PROVE s8[i] = s3[i]
  <2>1. i \in 1..14
    OBVIOUS
  <2>2. s8[i] = s4[i]
    BY <2>1, <1>24
  <2>3. s4[i] = s3[i]
    BY <1>15
  <2> QED BY <2>2, <2>3
<1>26. ASSUME NEW i \in 1..6 PROVE s8[i] = s2[i]
  <2>1. i \in 1..8
    OBVIOUS
  <2>2. s8[i] = s3[i]
    BY <2>1, <1>25
  <2>3. s3[i] = s2[i]
    BY <1>14
  <2> QED BY <2>2, <2>3
<1>27. s8[1] + 256 * s8[2] = q.chanspec
  BY <1>4, <1>13, <1>26
<1>28. s8[7] + 256 * s8[8] = q.n_mac_addr
  BY <1>4, <1>14, <1>25, 6 + 1 = 7, 6 + 2 = 8
<1>29. /\ s8[3] = q.csi_collect /\ s8[4] = q.core_nss_mask
       /\ s8[5] = q.use_pkt_filter /\ s8[6] = q.first_pkt_byte
  BY <1>6, <1>13, <1>26, 2 + 1 = 3, 2 + 2 = 4, 2 + 3 = 5, 2 + 4 = 6
<1>30. ASSUME NEW j \in 1..4, NEW i \in 1..6
       PROVE  s8[2 + 6 * j + i] = q.cmp_src_mac[j][i]
  <2>1. CASE j = 1
    <3>1. 2 + 6 * j + i = 8 + i /\ 8 + i \in 1..14
      BY <2>1
    <3>2. s8[8 + i] = s4[8 + i] /\ s4[8 + i] = m1[i]
      BY <3>1, <1>15, <1>24
    <3> QED BY <3>1, <3>2, <2>1, <1>7
  <2>2. CASE j = 2
    <3>1. 2 + 6 * j + i = 14 + i /\ 14 + i \in 1..20
      BY <2>2
    <3>2. s8[14 + i] = s5[14 + i] /\ s5[14 + i] = m2[i]
      BY <3>1, <1>16, <1>23
    <3> QED BY <3>1, <3>2, <2>2, <1>7
  <2>3. CASE j = 3
    <3>1. 2 + 6 * j + i = 20 + i /\ 20 + i \in 1..26
      BY <2>3
    <3>2. s8[20 + i] = s6[20 + i] /\ s6[20 + i] = m3[i]
      BY <3>1, <1>17, <1>22
    <3> QED BY <3>1, <3>2, <2>3, <1>7
  <2>4. CASE j = 4
    <3>1. 2 + 6 * j + i = 26 + i /\ 26 + i \in 1..32
      BY <2>4
    <3>2. s8[26 + i] = s7[26 + i] /\ s7[26 + i] = m4[i]
      BY <3>1, <1>18, <1>19
    <3> QED BY <3>1, <3>2, <2>4, <1>7
  <2> QED BY <2>1, <2>2, <2>3, <2>4
<1>31. Laid(s8, q)
  BY <1>19, <1>21, <1>27, <1>28, <1>29, <1>30, Zenon DEF Laid
<1> QED BY <1>20, <1>31

\* The parameters that the hook reads are the fields of the structure.
LEMMA ParamsRead ==
    ASSUME NEW q \in Structures
    PROVE  Params(Bytes(q)) =
             [chanspec |-> q.chanspec, csi_collect |-> q.csi_collect,
              nss_mask |-> Bits(q.core_nss_mask \div 16),
              core_mask |-> Bits(q.core_nss_mask % 16),
              use_pkt_filter |-> q.use_pkt_filter,
              first_pkt_byte |-> q.first_pkt_byte,
              n_mac_addr |-> q.n_mac_addr, mac |-> q.cmp_src_mac,
              delay |-> q.delay]
<1>1. PICK b : b = Bytes(q)
  OBVIOUS
<1>2. /\ b \in Seq(Byte) /\ Len(b) = 34
      /\ b[1] + 256 * b[2] = q.chanspec
      /\ b[3] = q.csi_collect /\ b[4] = q.core_nss_mask
      /\ b[5] = q.use_pkt_filter /\ b[6] = q.first_pkt_byte
      /\ b[7] + 256 * b[8] = q.n_mac_addr
      /\ \A j \in 1..4, i \in 1..6 :
            b[2 + 6 * j + i] = q.cmp_src_mac[j][i]
      /\ b[33] + 256 * b[34] = q.delay
  <2>1. Laid(b, q)
    BY <1>1, FieldsRead
  <2> QED BY <2>1, Zenon DEF Laid
<1>3. q.cmp_src_mac \in [1..4 -> Mac]
  BY DEF Structures
<1>4. ASSUME NEW j \in 1..4
      PROVE  SubSeq(b, 3 + 6 * j, 8 + 6 * j) = q.cmp_src_mac[j]
  <2>1. PICK m, n : m = 3 + 6 * j /\ n = 8 + 6 * j
    OBVIOUS
  <2>2. /\ m \in Int /\ n \in Int /\ m <= n /\ n - m + 1 = 6
        /\ \A i \in m..n : i \in 1..34
    BY <2>1
  <2>3. \A i \in m..n : b[i] \in Byte
    BY <2>2, <1>2, ElementOfSeq
  <2>4. /\ SubSeq(b, m, n) \in Seq(Byte) /\ Len(SubSeq(b, m, n)) = 6
        /\ \A i \in 1..6 : SubSeq(b, m, n)[i] = b[m + i - 1]
    BY <2>2, <2>3, SubSeqProperties
  <2>5. ASSUME NEW i \in 1..6
        PROVE  SubSeq(b, m, n)[i] = q.cmp_src_mac[j][i]
    <3>1. m + i - 1 = 2 + 6 * j + i
      BY <2>1
    <3>2. SubSeq(b, m, n)[i] = b[m + i - 1]
      BY <2>4, Zenon
    <3>3. b[2 + 6 * j + i] = q.cmp_src_mac[j][i]
      BY <1>2, Zenon
    <3> QED BY <3>1, <3>2, <3>3, Zenon
  <2>6. DOMAIN SubSeq(b, m, n) = 1..6
    BY <2>4, LenProperties
  <2>7. SubSeq(b, m, n) = [i \in 1..6 |-> SubSeq(b, m, n)[i]]
    BY <2>4, <2>6, LenProperties
  <2>8. q.cmp_src_mac[j] = [i \in 1..6 |-> q.cmp_src_mac[j][i]]
    BY <1>3 DEF Mac
  <2> QED BY <2>1, <2>5, <2>7, <2>8, Zenon
<1>5. [j \in 1..4 |-> SubSeq(b, 3 + 6 * j, 8 + 6 * j)] = q.cmp_src_mac
  <2>1. q.cmp_src_mac = [j \in 1..4 |-> q.cmp_src_mac[j]]
    BY <1>3
  <2> QED BY <2>1, <1>4, Zenon
<1>6. b[7 + 1] = b[8] /\ b[1 + 1] = b[2] /\ b[33 + 1] = b[34]
  OBVIOUS
<1>7. Params(b) =
        [chanspec |-> q.chanspec, csi_collect |-> q.csi_collect,
         nss_mask |-> Bits(q.core_nss_mask \div 16),
         core_mask |-> Bits(q.core_nss_mask % 16),
         use_pkt_filter |-> q.use_pkt_filter,
         first_pkt_byte |-> q.first_pkt_byte,
         n_mac_addr |-> q.n_mac_addr, mac |-> q.cmp_src_mac,
         delay |-> q.delay]
  BY <1>2, <1>5, <1>6, Zenon DEF Params
<1> QED BY <1>1, <1>7

\* The pairs of core and stream of two masks.
LEMMA Pairs ==
    ASSUME NEW m, NEW n
    PROVE  /\ countbit(n) * countbit(m) = Cardinality(Bits(m) \X Bits(n))
           /\ Cardinality(Bits(m) \X Bits(n)) \in Nat
<1>1. IsFiniteSet(0..3)
  BY FS_Interval, 0 \in Int, 3 \in Int
<1>2. \A k : Bits(k) \subseteq 0..3
  BY Zenon DEF Bits
<1>3. IsFiniteSet(Bits(m)) /\ IsFiniteSet(Bits(n))
  BY <1>1, <1>2, FS_Subset
<1>4. /\ IsFiniteSet(Bits(m) \X Bits(n))
      /\ Cardinality(Bits(m) \X Bits(n))
           = Cardinality(Bits(m)) * Cardinality(Bits(n))
  BY <1>3, FS_Product
<1>5. /\ Cardinality(Bits(m)) \in Nat /\ Cardinality(Bits(n)) \in Nat
      /\ Cardinality(Bits(m) \X Bits(n)) \in Nat
  BY <1>3, <1>4, FS_CardinalityType
<1>6. \A i, j \in Nat : i * j = j * i
  OBVIOUS
<1> QED BY <1>4, <1>5, <1>6 DEF countbit

\* The delay that was given, or the default, in 16 bits.
DelayAsked(g) == LastOf(g, "d", DEFAULT_DELAY_US) % 65536

\* The delay is enforced for twelve pairs or more, unless one was given.
LEMMA DelayFilledIn ==
    ASSUME NEW g, NEW l, NEW q, Obeyed(g, l, q), NEW d,
           d = IF l.force_delay = 0
                  /\ countbit(l.nssmask) * countbit(l.coremask) >= 12
               THEN DEFAULT_DELAY_US ELSE q.delay
    PROVE  /\ d \in Uint16
           /\ d = IF /\ Given(g, "d") = {}
                     /\ Cardinality(Bits(l.coremask) \X Bits(l.nssmask)) < 12
                  THEN 0 ELSE DelayAsked(g)
<1> DEFINE k == Cardinality(Bits(l.coremask) \X Bits(l.nssmask))
<1>1. k \in Nat /\ k = countbit(l.nssmask) * countbit(l.coremask)
  BY Pairs
<1> HIDE DEF k
<1>2. l.force_delay = IF Given(g, "d") = {} THEN 0 ELSE 1
  BY DEF Obeyed, Remembered
<1>3. q.delay = IF Given(g, "d") = {} THEN 0 ELSE DelayAsked(g)
  BY SMT DEF Obeyed, Stored, DelayAsked
<1>4. q.delay \in Uint16
  BY DEF Obeyed, Structures
<1>5. DEFAULT_DELAY_US \in Uint16
  BY SMT DEF DEFAULT_DELAY_US, Uint16
<1>6. Given(g, "d") = {} => DelayAsked(g) = DEFAULT_DELAY_US
  <2>1. Given(g, "d") = {} =>
          LastOf(g, "d", DEFAULT_DELAY_US) = DEFAULT_DELAY_US
    BY DEF LastOf
  <2> QED BY <2>1, SMT DEF DEFAULT_DELAY_US, DelayAsked
<1>7. d = IF l.force_delay = 0 /\ k >= 12 THEN DEFAULT_DELAY_US ELSE q.delay
  BY <1>1
<1>8. d = IF Given(g, "d") = {} /\ k < 12 THEN 0 ELSE DelayAsked(g)
  BY ONLY <1>2, <1>3, <1>6, <1>7, <1>1
<1>9. d \in Uint16
  BY ONLY <1>4, <1>5, <1>7
<1> QED BY <1>8, <1>9, Zenon DEF k

\* What main fills in at the end of the options.
Filled(l, q, q2) ==
    q2 = [q EXCEPT
            !.csi_collect = l.enable % 256,
            !.delay = IF l.force_delay = 0
                         /\ countbit(l.nssmask) * countbit(l.coremask) >= 12
                      THEN DEFAULT_DELAY_US ELSE @]

\* The structure that is written says what was asked for.
LEMMA AskedWritten ==
    ASSUME NEW g, NEW l, NEW q, Obeyed(g, l, q), NEW q2, Filled(l, q, q2)
    PROVE  q2 \in Structures /\ Params(Bytes(q2)) = Asked(g)
<1> PICK e, d :
      /\ e = l.enable % 256
      /\ d = IF l.force_delay = 0
                /\ countbit(l.nssmask) * countbit(l.coremask) >= 12
             THEN DEFAULT_DELAY_US ELSE q.delay
  OBVIOUS
<1>0. q2 = [q EXCEPT !.csi_collect = e, !.delay = d]
  BY Zenon DEF Filled
<1>1. /\ l \in Locals /\ q \in Structures /\ Remembered(g, l)
      /\ Stored(g, l, q) /\ Macs(g) \in Seq(Mac)
  BY DEF Obeyed
<1>2. e \in Byte /\ e = LastOf(g, "e", 1) % 256
  <2>1. l.enable \in Int /\ l.enable = LastOf(g, "e", 1)
    BY <1>1 DEF Locals, Remembered
  <2>2. \A i \in Int : i % 256 \in 0..255
    BY SMT
  <2> QED BY <2>1, <2>2, Zenon DEF Byte
<1>3. /\ d \in Uint16
      /\ d = IF /\ Given(g, "d") = {}
                /\ Cardinality(Bits(l.coremask) \X Bits(l.nssmask)) < 12
             THEN 0 ELSE DelayAsked(g)
  BY DelayFilledIn, Zenon
<1>4. /\ q2 \in Structures /\ q2.csi_collect = e /\ q2.delay = d
      /\ q2.chanspec = q.chanspec /\ q2.core_nss_mask = q.core_nss_mask
      /\ q2.use_pkt_filter = q.use_pkt_filter
      /\ q2.first_pkt_byte = q.first_pkt_byte
      /\ q2.n_mac_addr = q.n_mac_addr /\ q2.cmp_src_mac = q.cmp_src_mac
  BY <1>0, <1>1, <1>2, <1>3, Zenon DEF Structures
<1>5. /\ q.core_nss_mask \div 16 = l.nssmask
      /\ q.core_nss_mask % 16 = l.coremask
  <2>1. l.nssmask \in 0..15 /\ l.coremask \in 0..15
    BY <1>1 DEF Locals
  <2>2. q.core_nss_mask = 16 * l.nssmask + l.coremask
    BY <1>1, SMT DEF Stored
  <2>3. PICK m, n, c :
          m = q.core_nss_mask /\ n = l.nssmask /\ c = l.coremask
    OBVIOUS
  <2>4. m \div 16 = n /\ m % 16 = c
    <3>1. m = 16 * n + c /\ n \in 0..15 /\ c \in 0..15
      BY <2>1, <2>2, <2>3, Zenon
    <3> QED BY ONLY <3>1
  <2> QED BY <2>3, <2>4, Zenon
<1>6. Params(Bytes(q2)) =
        [chanspec |-> q.chanspec, csi_collect |-> e,
         nss_mask |-> Bits(l.nssmask), core_mask |-> Bits(l.coremask),
         use_pkt_filter |-> q.use_pkt_filter,
         first_pkt_byte |-> q.first_pkt_byte,
         n_mac_addr |-> q.n_mac_addr, mac |-> q.cmp_src_mac, delay |-> d]
  <2>1. Params(Bytes(q2)) =
          [chanspec |-> q2.chanspec, csi_collect |-> q2.csi_collect,
           nss_mask |-> Bits(q2.core_nss_mask \div 16),
           core_mask |-> Bits(q2.core_nss_mask % 16),
           use_pkt_filter |-> q2.use_pkt_filter,
           first_pkt_byte |-> q2.first_pkt_byte,
           n_mac_addr |-> q2.n_mac_addr, mac |-> q2.cmp_src_mac,
           delay |-> q2.delay]
    BY <1>4, ParamsRead, Zenon
  <2> QED BY <2>1, <1>4, <1>5, Zenon
<1>7. /\ q.chanspec = LastOf(g, "c", 0)
      /\ l.coremask = LastOf(g, "C", 0) /\ l.nssmask = LastOf(g, "N", 0)
      /\ q.use_pkt_filter = IF Given(g, "b") = {} THEN 0 ELSE 1
      /\ q.first_pkt_byte = LastOf(g, "b", 0)
      /\ q.n_mac_addr = Len(Macs(g))
      /\ q.cmp_src_mac = [i \in 1..4 |-> IF i <= Len(Macs(g))
                                         THEN Macs(g)[i] ELSE NoMac]
  <2>1. /\ q.chanspec = l.chanspec /\ q.n_mac_addr = l.nmac
        /\ q.use_pkt_filter = IF Given(g, "b") = {} THEN 0 ELSE 1
        /\ q.first_pkt_byte = LastOf(g, "b", 0)
        /\ q.cmp_src_mac = Places(Macs(g))
    BY <1>1, SMT DEF Stored
  <2> QED BY <2>1, <1>1, Zenon DEF Remembered, Places
<1>8. Asked(g) =
        [chanspec |-> q.chanspec, csi_collect |-> e,
         nss_mask |-> Bits(l.nssmask), core_mask |-> Bits(l.coremask),
         use_pkt_filter |-> q.use_pkt_filter,
         first_pkt_byte |-> q.first_pkt_byte,
         n_mac_addr |-> q.n_mac_addr, mac |-> q.cmp_src_mac, delay |-> d]
  <2>1. Asked(g) =
          [chanspec |-> LastOf(g, "c", 0),
           csi_collect |-> LastOf(g, "e", 1) % 256,
           nss_mask |-> Bits(LastOf(g, "N", 0)),
           core_mask |-> Bits(LastOf(g, "C", 0)),
           use_pkt_filter |-> IF Given(g, "b") = {} THEN 0 ELSE 1,
           first_pkt_byte |-> LastOf(g, "b", 0),
           n_mac_addr |-> Len(Macs(g)),
           mac |-> [i \in 1..4 |-> IF i <= Len(Macs(g)) THEN Macs(g)[i]
                                                       ELSE NoMac],
           delay |-> IF /\ Given(g, "d") = {}
                        /\ Cardinality(Bits(LastOf(g, "C", 0))
                                         \X Bits(LastOf(g, "N", 0))) < 12
                     THEN 0 ELSE DelayAsked(g)]
    BY SMT DEF Asked, DelayAsked
  <2> QED BY <2>1, <1>2, <1>3, <1>7, Zenon
<1> QED BY <1>4, <1>6, <1>8, Zenon

-----------------------------------------------------------------------------
(***************************************************************************)
(* The steps of main.                                                      *)
(***************************************************************************)
\* The parts of the invariant: main obeys while it reads, and the program
\* ends for a reason.
Reading ==
    /\ Readable(given)
    /\ pc = "getopt" => Obeyed(given, v, p) /\ out = <<>>

\* An option that is right is obeyed, one that is wrong ends the program.
LEMMA OptionRead ==
    ASSUME Reading, NEW o \in Option,
           \/ SetHelp(o) \/ SetRaw(o) \/ SetEnable(o) \/ AddMacs(o)
           \/ SetByte(o) \/ SetChanspec(o) \/ SetCoreMask(o)
           \/ SetNssMask(o) \/ SetDelay(o) \/ InvalidOption(o)
    PROVE  /\ given' = Append(given, o) /\ out' = <<>>
           /\ \/ pc' = "getopt" /\ Obeyed(given', v', p')
              \/ pc' = "usage"
              \/ pc' = "refused" /\ (WrongOption(o) \/ Len(Macs(given')) > 4)
<1>1. Getopt(o) /\ o.opt \in {"h", "r", "e", "m", "b", "c", "C", "N", "d", "?"}
  BY DEF SetHelp, SetRaw, SetEnable, AddMacs, SetByte, SetChanspec,
         SetCoreMask, SetNssMask, SetDelay, InvalidOption
<1>2. /\ given' = Append(given, o) /\ out' = <<>> /\ pc = "getopt"
      /\ Obeyed(given, v, p) /\ Readable(given)
  BY <1>1 DEF Getopt, Reading
<1> SUFFICES \/ pc' = "getopt" /\ Obeyed(given', v', p')
             \/ pc' = "usage"
             \/ pc' = "refused" /\ (WrongOption(o) \/ Len(Macs(given')) > 4)
  BY <1>2
<1>3. CASE SetHelp(o)
  BY <1>3 DEF SetHelp
<1>4. CASE SetRaw(o)
  BY <1>4, <1>2, ObeyedRaw DEF SetRaw, Set
<1>5. CASE SetEnable(o)
  <2>1. CASE o.val = Garbage
    BY <1>5, <2>1 DEF SetEnable, Refuse, WrongOption
  <2>2. CASE o.val # Garbage
    BY <1>5, <1>2, <2>2, ObeyedEnable DEF SetEnable, Set
  <2> QED BY <2>1, <2>2
<1>6. CASE AddMacs(o)
  <2>1. CASE Garbage \in {o.val[i] : i \in DOMAIN o.val}
    BY <1>6, <2>1 DEF AddMacs, Refuse, WrongOption
  <2>2. CASE Garbage \notin {o.val[i] : i \in DOMAIN o.val} /\ ~Fits(o.val)
    <3>1. Macs(given') = Macs(given) \o o.val
      BY <1>2, <1>6, AskedAppend DEF Addresses, AddMacs
    <3>2. o.val \in Seq(Mac \cup {Garbage}) /\ Macs(given) \in Seq(Mac)
      BY <1>2, <1>6, OptionAssumption DEF AddMacs, Mac, Obeyed
    <3>3. Len(Macs(given')) = Len(Macs(given)) + Len(o.val)
      <4>1. Macs(given) \in Seq(Mac \cup {Garbage})
        BY <3>2, SeqMonotonic
      <4> QED BY <3>1, <3>2, <4>1, ConcatProperties
    <3>4. v.nmac = Len(Macs(given)) /\ v.nmac \in Nat /\ Len(o.val) \in Nat
      BY <1>2, <3>2, LenProperties DEF Obeyed, Remembered
    <3> QED BY <1>6, <2>2, <3>3, <3>4
            DEF AddMacs, Refuse, Fits, MAX_MAC_ADDRESS
  <2>3. CASE Garbage \notin {o.val[i] : i \in DOMAIN o.val} /\ Fits(o.val)
    <3>1. PICK n : n = v.nmac + Len(o.val)
      OBVIOUS
    <3>2. n <= 4
      BY <2>3, <3>1 DEF Fits, MAX_MAC_ADDRESS
    <3>3. /\ o.opt = "m" /\ pc' = pc
          /\ v' = [v EXCEPT !.nmac = n]
          /\ p' = [p EXCEPT !.n_mac_addr = n,
                            !.cmp_src_mac = Copied(@, v.nmac, o.val)]
      BY <1>6, <2>3, <3>1 DEF AddMacs, Set
    <3>5. PICK places : places = Copied(p.cmp_src_mac, v.nmac, o.val)
      OBVIOUS
    <3>6. p' = [p EXCEPT !.n_mac_addr = n, !.cmp_src_mac = places]
      BY <3>3, <3>5
    <3>7. ~WrongOption(o)
      BY <2>3, <3>3 DEF WrongOption
    <3>4. Obeyed(Append(given, o), v', p')
      <4>1. PICK l2, q2 : l2 = v' /\ q2 = p'
        OBVIOUS
      <4>2. l2 = [v EXCEPT !.nmac = n] /\ o.opt = "m"
        BY <3>3, <4>1
      <4>3. q2 = [p EXCEPT !.n_mac_addr = n, !.cmp_src_mac = places]
        BY <3>6, <4>1, Zenon
      <4>4. Obeyed(given, v, p)
        BY <1>2
      <4>5. Obeyed(Append(given, o), l2, q2)
        BY <4>2, <4>3, <4>4, <3>1, <3>2, <3>5, <3>7, ObeyedMacs
      <4> QED BY <4>1, <4>5
    <3> QED BY <1>2, <3>3, <3>4, Zenon
  <2> QED BY <2>1, <2>2, <2>3
<1>7. CASE SetByte(o)
  <2>1. CASE o.val \notin Byte
    BY <1>7, <2>1 DEF SetByte, Refuse, WrongOption
  <2>2. CASE o.val \in Byte
    <3>1. /\ o.opt = "b" /\ pc' = pc /\ v' = v
          /\ p' = [p EXCEPT !.use_pkt_filter = 1, !.first_pkt_byte = o.val]
      BY <1>7, <2>2 DEF SetByte, Set
    <3>2. Obeyed(Append(given, o), v,
                 [p EXCEPT !.use_pkt_filter = 1, !.first_pkt_byte = o.val])
      BY <1>2, <2>2, <3>1, ObeyedByte
    <3> QED BY <1>2, <3>1, <3>2, Zenon
  <2> QED BY <2>1, <2>2
<1>8. CASE SetChanspec(o)
  <2>1. CASE o.val = 0
    BY <1>8, <2>1 DEF SetChanspec, Refuse, WrongOption
  <2>2. CASE o.val # 0
    BY <1>8, <1>2, <2>2, ObeyedChanspec DEF SetChanspec, Set
  <2> QED BY <2>1, <2>2
<1>9. CASE SetCoreMask(o)
  <2>1. CASE o.val \notin ValidMask
    BY <1>9, <2>1 DEF SetCoreMask, Refuse, WrongOption
  <2>2. CASE o.val \in ValidMask
    BY <1>9, <1>2, <2>2, ObeyedCoreMask DEF SetCoreMask, Set
  <2> QED BY <2>1, <2>2
<1>10. CASE SetNssMask(o)
  <2>1. CASE o.val \notin ValidMask
    BY <1>10, <2>1 DEF SetNssMask, Refuse, WrongOption
  <2>2. CASE o.val \in ValidMask
    BY <1>10, <1>2, <2>2, ObeyedNssMask DEF SetNssMask, Set
  <2> QED BY <2>1, <2>2
<1>11. CASE SetDelay(o)
  <2>1. CASE o.val = Garbage \/ o.val < 0
    BY <1>11, <2>1 DEF SetDelay, Refuse, WrongOption
  <2>2. CASE ~(o.val = Garbage \/ o.val < 0)
    BY <1>11, <1>2, <2>2, ObeyedDelay DEF SetDelay, Set
  <2> QED BY <2>1, <2>2
<1>12. CASE InvalidOption(o)
  BY <1>12 DEF InvalidOption, Refuse, WrongOption
<1> QED BY <1>3, <1>4, <1>5, <1>6, <1>7, <1>8, <1>9, <1>10, <1>11, <1>12

\* What main takes for incomplete is what a reader would.
Missing(g) ==
    /\ LastOf(g, "e", 1) # 0
    /\ \E x \in {"c", "C", "N"} : LastOf(g, x, 0) = 0

\* While options are read none of them is wrong.
LEMMA ReadingRight ==
    ASSUME Reading, pc = "getopt"
    PROVE  /\ \A i \in DOMAIN given : ~WrongOption(given[i])
           /\ ~(Len(Macs(given)) > MAX_MAC_ADDRESS)
           /\ Incomplete <=> Missing(given)
<1>1. /\ Right(given) /\ Remembered(given, v) /\ v \in Locals
  BY DEF Reading, Obeyed
<1>2. Len(Macs(given)) \in 0..4
  BY <1>1 DEF Remembered, Locals
<1>3. Incomplete <=> Missing(given)
  BY <1>1 DEF Remembered, Missing, Incomplete
<1>4. ~(Len(Macs(given)) > MAX_MAC_ADDRESS)
  <2>1. PICK n \in 0..4 : n = Len(Macs(given))
    BY <1>2
  <2>2. ~(n > 4)
    OBVIOUS
  <2> QED BY <2>1, <2>2, Zenon DEF MAX_MAC_ADDRESS
<1> QED BY <1>1, <1>3, <1>4 DEF Right

\* The invariant at the start.
LEMMA ReadingInit == Init => Reading /\ RefusedIfWrong
<1> SUFFICES ASSUME Init PROVE Reading /\ RefusedIfWrong
  OBVIOUS
<1>1. Reading
  BY ObeyedInit DEF Reading, Init
<1>2. pc = "getopt"
  BY DEF Init
<1> QED BY <1>1, <1>2 DEF RefusedIfWrong

\* The invariant in every step of main.
LEMMA ReadingNext ==
    ASSUME Reading, RefusedIfWrong, [Next]_vars
    PROVE  Reading' /\ RefusedIfWrong'
<1>1. CASE UNCHANGED vars
  BY <1>1 DEF vars, Reading, RefusedIfWrong
<1>2. ASSUME NEW o \in Option,
             \/ SetHelp(o) \/ SetRaw(o) \/ SetEnable(o) \/ AddMacs(o)
             \/ SetByte(o) \/ SetChanspec(o) \/ SetCoreMask(o)
             \/ SetNssMask(o) \/ SetDelay(o) \/ InvalidOption(o)
      PROVE  Reading' /\ RefusedIfWrong'
  <2>1. /\ given' = Append(given, o) /\ out' = <<>>
        /\ \/ pc' = "getopt" /\ Obeyed(given', v', p')
           \/ pc' = "usage"
           \/ pc' = "refused" /\ (WrongOption(o) \/ Len(Macs(given')) > 4)
    BY <1>2, OptionRead
  <2>2. Readable(given') /\ \E i \in DOMAIN given' : given'[i] = o
    <3>1. PICK q : q = Append(given, o)
      OBVIOUS
    <3>2. Readable(q) /\ \E i \in DOMAIN q : q[i] = o
      <4>1. Readable(Append(given, o))
        BY ReadableAppend, Zenon DEF Reading
      <4>2. \E i \in DOMAIN Append(given, o) : Append(given, o)[i] = o
        BY AskedAppend DEF Reading
      <4> QED BY <3>1, <4>1, <4>2, Zenon
    <3> QED BY <2>1, <3>1, <3>2
  <2>3. Reading'
    BY <2>1, <2>2 DEF Reading
  <2>4. RefusedIfWrong'
    BY <2>1, <2>2 DEF RefusedIfWrong, MAX_MAC_ADDRESS
  <2> QED BY <2>3, <2>4
<1>3. CASE NoArguments
  BY <1>3 DEF NoArguments, Reading, RefusedIfWrong
<1>4. CASE RefuseIncomplete
  <2>1. /\ pc = "getopt" /\ Incomplete /\ pc' = "incomplete"
        /\ given' = given /\ out' = <<>>
    BY <1>4 DEF RefuseIncomplete, Reading
  <2>2. Reading'
    BY <2>1 DEF Reading
  <2> QED BY <2>1, <2>2, ReadingRight DEF RefusedIfWrong, Missing
<1>5. CASE Write
  <2>1. /\ pc = "getopt" /\ ~Incomplete /\ pc' = "written"
        /\ given' = given
    BY <1>5 DEF Write
  <2>2. Reading'
    BY <2>1 DEF Reading
  <2> QED BY <2>1, <2>2, ReadingRight DEF RefusedIfWrong, Missing
<1> QED BY <1>1, <1>2, <1>3, <1>4, <1>5 DEF Next

(***************************************************************************)
(* An option is refused only if it is wrong or brings a fifth address, the *)
(* options as a whole only if something is missing, and only then: for     *)
(* every set of options and command lines of every length.                 *)
(***************************************************************************)
THEOREM RefusalsJustified == Spec => []RefusedIfWrong
<1>1. Init => Reading /\ RefusedIfWrong
  BY ReadingInit
<1>2. (Reading /\ RefusedIfWrong) /\ [Next]_vars
        => (Reading /\ RefusedIfWrong)'
  BY ReadingNext
<1> QED BY <1>1, <1>2, PTL DEF Spec

\* What is written, raw or encoded, is read as what was asked for.
LEMMA WrittenRight ==
    ASSUME Reading, Write
    PROVE  Params(IF Given(given, "r") # {} THEN out' ELSE Unbase64(out'))
             = Asked(given)
<1>1. /\ Obeyed(given, v, p) /\ Remembered(given, v)
      /\ out' = IF v.doraw = 1 THEN Bytes(p') ELSE Base64(Bytes(p'))
  BY Zenon DEF Write, Reading, Obeyed
<1>3. Filled(v, p, p')
  BY Zenon DEF Write, Filled
<1>4. PICK q2 : q2 = p'
  OBVIOUS
<1>5. q2 \in Structures /\ Params(Bytes(q2)) = Asked(given)
  BY <1>1, <1>3, <1>4, AskedWritten, Zenon
<1>6. v.doraw = IF Given(given, "r") = {} THEN 0 ELSE 1
  BY <1>1, Zenon DEF Remembered
<1>7. CASE Given(given, "r") # {}
  BY <1>1, <1>4, <1>5, <1>6, <1>7
<1>8. CASE Given(given, "r") = {}
  <2>1. out' = Base64(Bytes(q2))
    BY <1>1, <1>4, <1>6, <1>8
  <2>2. PICK b : b = Bytes(q2)
    OBVIOUS
  <2>3. b \in Seq(Byte) /\ Len(b) = 34
    BY <1>5, <2>2, FieldsRead, Zenon DEF Laid
  <2>4. Unbase64(Base64(b)) = b
    BY <2>3, RoundTrip, Zenon
  <2> QED BY <2>1, <2>2, <2>4, <1>5, <1>8, Zenon
<1> QED BY <1>7, <1>8

(***************************************************************************)
(* The parameters that reach the chip are the ones asked for, whatever the *)
(* order, the repetition and the number of the options.                    *)
(***************************************************************************)
THEOREM ParametersArrive == Spec => []WrittenAsAsked
<1>1. Init => (Reading /\ RefusedIfWrong) /\ WrittenAsAsked
  BY ReadingInit DEF Init, WrittenAsAsked
<1>2. (Reading /\ RefusedIfWrong) /\ [Next]_vars
        => (Reading /\ RefusedIfWrong)'
  BY ReadingNext
<1>3. Reading /\ WrittenAsAsked /\ [Next]_vars => WrittenAsAsked'
  <2> SUFFICES ASSUME Reading, WrittenAsAsked, [Next]_vars
               PROVE  WrittenAsAsked'
    OBVIOUS
  <2>1. CASE UNCHANGED vars
    BY <2>1 DEF vars, WrittenAsAsked
  <2>2. CASE \E o \in Option :
               \/ SetHelp(o) \/ SetRaw(o) \/ SetEnable(o) \/ AddMacs(o)
               \/ SetByte(o) \/ SetChanspec(o) \/ SetCoreMask(o)
               \/ SetNssMask(o) \/ SetDelay(o) \/ InvalidOption(o)
    <3>1. pc' # "written"
      BY <2>2, OptionRead
    <3> QED BY <3>1 DEF WrittenAsAsked
  <2>3. CASE NoArguments
    BY <2>3 DEF NoArguments, WrittenAsAsked
  <2>4. CASE RefuseIncomplete
    BY <2>4 DEF RefuseIncomplete, WrittenAsAsked
  <2>5. CASE Write
    <3>1. given' = given
      BY <2>5 DEF Write
    <3>2. Params(IF Given(given, "r") # {} THEN out' ELSE Unbase64(out'))
            = Asked(given)
      BY <2>5, WrittenRight
    <3> QED BY <3>1, <3>2, Zenon DEF WrittenAsAsked
  <2> QED BY <2>1, <2>2, <2>3, <2>4, <2>5 DEF Next
<1> QED BY <1>1, <1>2, <1>3, PTL DEF Spec
=============================================================================
