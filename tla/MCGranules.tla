----------------------------- MODULE MCGranules -----------------------------
(* Three free granules of two sectors of two bytes, the string pool in the   *)
(* middle of them, two files and four writes.                                *)
EXTENDS Granules
MCNames == {"save", "hall"}
MCLens  == {4, 5}
=============================================================================
