----------------------------- MODULE MCStation -----------------------------
(* Two leases and a static address, four places in the event queue.        *)
EXTENDS Station
=============================================================================
