-------------------------------- MODULE Bitmap --------------------------------
(***************************************************************************)
(* The bit field macros of util.h.  Memory is the set of the places, each  *)
(* a word and a bit of it, that hold a one; a value is the set of the bits *)
(* that are one; a field is the function from the bits of its value to the *)
(* places they are kept in.  Words are as wide as in the code: no bit      *)
(* pattern is cut that the code does not cut.                              *)
(***************************************************************************)
EXTENDS Integers

\* The field of `width' bits at `shift' in a word: its mask and its shift.
Field(word, width, shift) == [b \in 0 .. width - 1 |-> <<word, shift + b>>]

Places(field) == {field[b] : b \in DOMAIN field}

\* BITMAP_GET_VALUE
GetValue(memory, field) == {b \in DOMAIN field : field[b] \in memory}

\* A defect: the old bits are not cleared first.
OrValue(memory, field, val) == memory \cup {field[b] : b \in val \cap DOMAIN field}

\* BITMAP_SET_VALUE: bits of the value beyond the mask are lost.
SetValue(memory, field, val) ==
  (memory \ Places(field)) \cup {field[b] : b \in val \cap DOMAIN field}
=============================================================================
