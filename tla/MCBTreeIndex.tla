---------------------------- MODULE MCBTreeIndex ----------------------------
(* BTreeIndex with sequences of keys to load, which a cfg cannot write.      *)
EXTENDS BTreeIndex

NoLoad == <<>>
Ascending(n) == [j \in 1 .. n |-> j]
Load17 == Ascending(17)
OwnValue(k) == {k}
AroundZero == {-3, -2, -1, 1, 2}

\* Bound: no call is made after an allocation has failed.
UpToFailure == ~threw
=============================================================================
