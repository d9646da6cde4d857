------------------------------ MODULE ByteOrder -------------------------------
(***************************************************************************)
(* aal_byte_swap16, 32, 64 and 128 of the architecture abstraction layer   *)
(* (aal/aal.c) on a buffer, which is a function of byte offsets; w is the  *)
(* width of an element in bytes.                                           *)
(***************************************************************************)
EXTENDS Integers

Width == {2, 4, 8, 16}

\* How many bytes are visited: whole elements only, but the 128-bit version walks
\* pairs of 64-bit words and takes a last word that has no partner.
Span(w, len) ==
  IF w = 16 THEN 16 * ((len \div 8 + 1) \div 2) ELSE w * (len \div w)

\* Within its element a byte changes place with the one as far from the other end.
Mirror(w, j) == w * (j \div w) + w - 1 - (j % w)

ByteSwap(w, len, data) ==
  [j \in DOMAIN data |-> IF j < Span(w, len) THEN data[Mirror(w, j)] ELSE data[j]]
=============================================================================
