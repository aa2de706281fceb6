------------------------------ MODULE CsiFormats ------------------------------
(***************************************************************************)
(* A measured tone on its way from the PHY to the user: the word the PHY   *)
(* writes, what the hook makes of it (csi_extractor.c:230-250), and what   *)
(* csireader.m and unpack_float.c read out of it.  Two chips measure in    *)
(* pairs of 14-bit numbers, two in a floating point format with a common   *)
(* exponent for the two parts.                                             *)
(*                                                                         *)
(* A word of 32 bits is the set of its bits that are one.                  *)
(***************************************************************************)
EXTENDS Integers, Sequences, FiniteSetsExt

CONSTANTS
    NFFT,       \* number of tones
    Tone        \* Tone[format]: the tones measured, in pairs of numbers

Bits == 0..31
Below(n) == 0..(n - 1)
Shl(w, n) == {b + n : b \in w} \cap Bits
Shr(w, n) == {b - n : b \in w} \cap Bits

\* sgn*vi, in two's complement.
Negated(w) ==
    IF w = {} THEN {}
    ELSE {Min(w)} \cup {b \in Bits : b > Min(w) /\ b \notin w}

\* A word read as an unsigned number of less than 32 bits, and as a signed one
\* of n bits.
Unsigned(w) == SumSet({2^b : b \in w})
Signed(w, n) ==
    IF n - 1 \in w
      THEN Unsigned(Below(n - 1) \cap w) - (2^(n - 2) - 1) - 2^(n - 2) - 1
      ELSE Unsigned(w \cap Below(n))

(***************************************************************************)
(* The formats.  An int14 has no exponent; nman counts the sign, as the    *)
(* arguments of unpack_float_acphy do.  Which chip has which format:       *)
(* csireader.m:38-43.                                                      *)
(***************************************************************************)
Format ==
    [bcm43455c0 |-> [nman |-> 14, nexp |-> 0],
     bcm4358    |-> [nman |-> 9,  nexp |-> 5],
     bcm4366c0  |-> [nman |-> 12, nexp |-> 6]]

IsFloat(f) == Format[f].nexp > 0

(***************************************************************************)
(* The PHY (external).  A part of a tone is a sign and a mantissa, or the  *)
(* number itself; the real part is above the imaginary one and the         *)
(* exponent in the lowest bits.                                            *)
(***************************************************************************)
ToBits(k) == {b \in 0..30 : (k \div 2^b) % 2 = 1}
Mantissa(f, part) ==
    IF IsFloat(f)
      THEN ToBits(part.abs)
             \cup (IF part.neg THEN {Format[f].nman - 1} ELSE {})
      ELSE ToBits((IF part.neg THEN 2^14 - part.abs ELSE part.abs) % 2^14)
PhyWord(f, t) ==
    Shl(Mantissa(f, t.re), Format[f].nman + Format[f].nexp)
      \cup Shl(Mantissa(f, t.im), Format[f].nexp)
      \cup ToBits(t.exp % 2^Format[f].nexp)

VARIABLES
    chip, tone,     \* the chip, and the tones it has measured
    csi_values,     \* the words of the UDP frame
    He, Hout        \* unpack_float_acphy's exponents, and what is returned

vars == <<chip, tone, csi_values, He, Hout>>

None == <<>>

Init == /\ chip \in DOMAIN Format
        /\ tone \in [1..NFFT -> Tone[chip]]
        /\ csi_values = None
        /\ He = None
        /\ Hout = None

(***************************************************************************)
(* process_frame_hook, the loop over the tones of a chunk: two int14       *)
(* become two int16, the real part in the lower half; a floating point     *)
(* word is passed on as it is.                                             *)
(***************************************************************************)
int14(w) == (w \cap Below(14)) \cup (IF 13 \in w THEN 14..31 ELSE {})

\* As if the sign of the real part were extended over the whole word.
Converted_NoMask(w) == int14(Shr(w, 14)) \cup Shl(int14(w), 16)

Converted(w) == (int14(Shr(w, 14)) \cap Below(16)) \cup Shl(int14(w), 16)

\* What is left out here: before the frame is handed on, PhyWords words of it
\* are overwritten with the PHY status (csi_extractor.c:264-268), which is not
\* a conversion; the module is about the other tones.
Insert(f, w) == IF IsFloat(f) THEN w ELSE Converted(w)

Hook ==
    /\ csi_values = None
    /\ csi_values' = [i \in 1..NFFT |-> Insert(chip, PhyWord(chip, tone[i]))]
    /\ UNCHANGED <<chip, tone, He, Hout>>

(***************************************************************************)
(* csireader.m on the chips of the 14-bit format: typecast(H, 'int16'),    *)
(* by MATLAB on a little-endian machine.                                   *)
(***************************************************************************)
Typecast ==
    /\ csi_values # None /\ ~IsFloat(chip)
    /\ Hout = None
    /\ Hout' = [i \in 1..2*NFFT |->
                  LET w == csi_values[(i + 1) \div 2]
                  IN  Signed(IF i % 2 = 1 THEN w ELSE Shr(w, 16), 16)]
    /\ UNCHANGED <<chip, tone, csi_values, He>>

(***************************************************************************)
(* unpack_float_acphy as mexFunction calls it, without autoscale.  The     *)
(* first loop takes the words apart: the exponents to He, the mantissas to *)
(* Hout, with their signs in bit 31.                                       *)
(***************************************************************************)
e_p == 2^(Format[chip].nexp - 1)

\* As if the least exponent were the greatest one.
Exponent_OffByOne(w) ==
    LET e == Unsigned(w \cap Below(Format[chip].nexp))
    IN  IF e > e_p THEN e - 2*e_p ELSE e

Exponent(w) ==
    LET e == Unsigned(w \cap Below(Format[chip].nexp))
    IN  IF e >= e_p THEN e - 2*e_p ELSE e

\* The part that begins at bit b.
Part(w, b) ==
    LET v == Shr(w, b)
    IN  (v \cap Below(Format[chip].nman - 1))
          \cup (IF Format[chip].nman - 1 \in v THEN {31} ELSE {})

Unpack ==
    /\ csi_values # None /\ IsFloat(chip)
    /\ Hout = None
    /\ He' = [i \in 1..NFFT |-> Exponent(csi_values[i])]
    /\ Hout' = [i \in 1..2*NFFT |->
                  Part(csi_values[(i + 1) \div 2],
                       IF i % 2 = 1 THEN Format[chip].nexp + Format[chip].nman
                                    ELSE Format[chip].nexp)]
    /\ UNCHANGED <<chip, tone, csi_values>>

(***************************************************************************)
(* The second loop scales the mantissas.  Without autoscale maxbit stays   *)
(* -e_p, so that a tone is shifted by ten more than its exponent is above  *)
(* the least one.  A shift by 32 or more is undefined: the processor takes *)
(* the lower five bits of the count (wraps), or shifts everything out.     *)
(***************************************************************************)
nbits == 10
maxbit == -e_p
shft == nbits - maxbit

Shifted(v, e, wraps) ==
    CASE e < -Format[chip].nman -> {}
      [] -Format[chip].nman <= e /\ e < 0 -> Shr(v, -e)
      [] 0 <= e /\ e < 32 -> Shl(v, e)
      [] OTHER -> IF wraps THEN Shl(v, e % 32) ELSE {}

Scaled(v, e, wraps) ==
    LET s == Shifted(v \ {31}, e, wraps)
    IN  Signed(IF 31 \in v THEN Negated(s) ELSE s, 32)

Scale ==
    /\ He # None
    /\ \E wraps \in BOOLEAN :
          Hout' = [i \in 1..2*NFFT |->
                     Scaled(Hout[i], He[(i + 1) \div 2] + shft, wraps)]
    /\ He' = None
    /\ UNCHANGED <<chip, tone, csi_values>>

Next == Hook \/ Typecast \/ Unpack \/ Scale

Spec == Init /\ [][Next]_vars

(***************************************************************************)
(* What the user gets.                                                     *)
(***************************************************************************)
Done == Hout # None /\ He = None

Number(part) == IF part.neg THEN -part.abs ELSE part.abs

\* A pair of results is the pair t at a scale of 2^s.
ReadsAs(i, t, s) ==
    /\ Hout[2*i - 1] = Number(t.re) * 2^s
    /\ Hout[2*i] = Number(t.im) * 2^s

(***************************************************************************)
(* README.md:51: "For the bcm4339 and bcm43455c0 the data contains         *)
(* interleaved int16 real and int16 imaginary parts": every pair of 14-bit *)
(* numbers is read as it was measured, the sign of neither part running    *)
(* into the other (csi_extractor.c:236-239).                               *)
(***************************************************************************)
IntegersAsMeasured ==
    Done /\ ~IsFloat(chip) => \A i \in 1..NFFT : ReadsAs(i, tone[i], 0)

(***************************************************************************)
(* Of the tones in floating point every one that an int32 can hold at the  *)
(* common scale of the frame (the least exponent being 2^10) is read       *)
(* exactly, whatever the signs, the exponents and the tones next to it:    *)
(* nothing is shifted by the exponent of another tone, rounded off or put  *)
(* at another scale (unpack_float.c:58-75).                                *)
(***************************************************************************)
Representable(t, s) ==
    \A part \in {t.re, t.im} : part.abs = 0 \/ (s < 31 /\ part.abs < 2^(31 - s))

FloatsAsMeasured ==
    Done /\ IsFloat(chip) =>
      \A i \in 1..NFFT :
         LET s == tone[i].exp + 2^(Format[chip].nexp - 1) + 10
         IN  Representable(tone[i], s) =>
               IF s < 31 THEN ReadsAs(i, tone[i], s) ELSE ReadsAs(i, tone[i], 0)
=============================================================================
