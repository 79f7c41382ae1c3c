--------------------------- MODULE MCRingbufTasks ---------------------------
(* Bounds: a 3-byte buffer, items of 1 to 3 bytes, at most MaxSent bytes.  *)
EXTENDS RingbufTasks, TLC
CONSTANTS s1, s2, r1, r2
Perms == Permutations({s1, s2}) \cup Permutations({r1, r2})
=============================================================================
