---------------------------- MODULE MCNvsStorage ----------------------------
(* Instances of NvsStorage: an integer of one entry and a blob of two. The    *)
(* blob has two values, whose data fill an entry or less, half of a page of   *)
(* four at most, and start with 0xffffffff, as an unwritten word does.        *)
EXTENDS NvsStorage
CONSTANTS n1, n2

Num(x) == [type |-> "int", id |-> x, whole |-> 0, tail |-> 0, ff |-> FALSE]
Blob(x, w, t) == [type |-> "blob", id |-> x, whole |-> w, tail |-> t, ff |-> TRUE]
Blobs == {Blob(2, 1, 0), Blob(3, 0, 1)}
MCNsOf == [n \in Names |-> "ns"]
\* An application that uses each name with one type.
OneType == [n \in Names |-> IF n = n1 THEN {Num(1)} ELSE Blobs]
\* One that sets a name now to an integer, now to a blob.
TwoTypes == [n \in Names |-> {Num(1)} \cup Blobs]
=============================================================================
