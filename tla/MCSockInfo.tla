----------------------------- MODULE MCSockInfo -----------------------------
(* Two files, two inodes and as many nodes as the pool needs for them.       *)
EXTENDS SockInfo, TLC

CONSTANTS tcp, unix, i1, i2, n1, n2, n3, n4

TwoFiles == <<tcp, unix>>
TwoInos == {i1, i2}
FourNodes == {n1, n2, n3, n4}
Symmetric == Permutations(FourNodes)
=============================================================================
