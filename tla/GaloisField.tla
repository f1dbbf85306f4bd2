----------------------------- MODULE GaloisField -----------------------------
(***************************************************************************)
(* The arithmetic of labs/hypercore-raptorq/gf.js from which its tables    *)
(* are built: addition is exclusive or, multiplication is shift and        *)
(* reduce.  An element is the set of its bits that are 1.  The code's      *)
(* field has 8 bits; Width and Poly let the decoder's runs use a smaller   *)
(* one.                                                                    *)
(***************************************************************************)
EXTENDS Naturals

CONSTANTS
  Width,       \* bits of an element
  Poly         \* the reducing polynomial, less its leading bit

Element == SUBSET (0..(Width - 1))

Xor(a, b) == (a \ b) \cup (b \ a)

\* (a << 1), reduced if the top bit was set.
Doubled(a) ==
  LET shifted == {n + 1 : n \in a \ {Width - 1}}
  IN  IF Width - 1 \in a THEN Xor(shifted, Poly) ELSE shifted

\* mulBy: for each bit of f, e doubled so often is added if the bit is set.
mulBy(e, f) ==
  LET shifted[n \in 0..Width] == IF n = 0 THEN e ELSE Doubled(shifted[n - 1])
      p[n \in 0..Width] ==
        IF n = 0 THEN {}
        ELSE IF n - 1 \in f THEN Xor(p[n - 1], shifted[n - 1]) ELSE p[n - 1]
  IN p[Width]
=============================================================================
