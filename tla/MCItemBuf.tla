----------------------------- MODULE MCItemBuf -----------------------------
(* Item buffers of a few words; every length up to the maximum item size.  *)
EXTENDS ItemBuf
=============================================================================
