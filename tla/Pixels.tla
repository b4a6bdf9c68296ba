------------------------------- MODULE Pixels --------------------------------
(***************************************************************************)
(* The sizes a captured screen is encoded at, and where the conversion to  *)
(* NV12 reads and writes (native/platform-windows/src/pixels.rs), with the *)
(* encoder's own test of a size (Encoder::new in encoder.rs).  The scale   *)
(* is a float, so a product that is a whole number may come out just below *)
(* it and lose a pixel: of 2154 columns 1279 are left, not 1280.           *)
(***************************************************************************)
EXTENDS Integers

\* What n becomes when whole becomes limit, cut to a whole number.
Share(n, limit, whole) ==
    {(n * limit) \div whole} \cup
    IF (n * limit) % whole = 0 THEN {(n * limit) \div whole - 1} ELSE {}

\* n of the w columns or h rows, scaled into 1280 by 720 and never enlarged.
Scaled(n, w, h) ==
    IF w <= 1280 /\ h <= 720 THEN {n}
    ELSE IF 1280 * h <= 720 * w THEN Share(n, 1280, w)
    ELSE Share(n, 720, h)

\* Mutant: an odd number of columns or rows stays odd.
EvenUp_Odd(k) == IF k < 2 THEN 2 ELSE k

EvenUp(k) == IF k < 2 THEN 2 ELSE (k \div 2) * 2

Supported(w, h) == w \in 2 .. 8192 /\ h \in 2 .. 8192

\* The sizes a screen may be encoded at; none if it is not supported.
Dimensions(w, h) ==
    {<<EvenUp(a), EvenUp(b)>> : a \in IF Supported(w, h) THEN Scaled(w, w, h) ELSE {},
                                b \in IF Supported(w, h) THEN Scaled(h, w, h) ELSE {}}

\* What nv12 and Encoder::new both ask of a size.
Accepted(size) ==
    /\ size[1] \in 2 .. 1280 /\ size[2] \in 2 .. 720
    /\ size[1] % 2 = 0 /\ size[2] % 2 = 0

\* Which of the screen's columns or rows the k-th of the picture is read from.
Source(k, from, to) == (k * from) \div to

\* Where the two chroma bytes of the block at column x and row y are written,
\* behind w * h bytes of luma, in w * h * 3 / 2 bytes in all.
ChromaAt(x, y, w, h) == w * h + (y \div 2) * w + x
==============================================================================
