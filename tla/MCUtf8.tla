------------------------------- MODULE MCUtf8 -------------------------------
(***************************************************************************)
(* The bytes at the ends of the ranges that the code or the definition by   *)
(* code points tells apart, in names of up to four bytes.                   *)
(***************************************************************************)
EXTENDS Utf8

MCByte ==
    {65, 127, 128, 143, 144, 159, 160, 190, 191, 193, 194, 223,
     224, 225, 237, 239, 240, 244, 245, 248}

\* The letter e.
MCAfter == {101}

=============================================================================
