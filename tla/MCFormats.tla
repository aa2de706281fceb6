------------------------------ MODULE MCFormats ------------------------------
(***************************************************************************)
(* Two tones, with the least and greatest numbers and exponents and some   *)
(* between them.                                                           *)
(***************************************************************************)
EXTENDS CsiFormats

Tones(abs, least, exp) ==
    LET Parts == [neg : BOOLEAN, abs : abs]
                   \cup [neg : {TRUE}, abs : least]
    IN  [re : Parts, im : Parts, exp : exp]

MCTone ==
    [bcm43455c0 |-> Tones({0, 1, 4097, 8191}, {8192}, {0}),
     bcm4358    |-> Tones({0, 1, 255}, {}, {-16, -15, -6, -2, 6, 15}),
     bcm4366c0  |-> Tones({0, 5, 2047}, {}, {-32, -31, -22, -21, 31})]
=============================================================================
