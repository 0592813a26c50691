---------------------------- MODULE MC_CFSQueue ----------------------------
EXTENDS CFSQueue, TLC

CONSTANTS n1, n2, n3, n4, n5, n6

MCNodes == {n1, n2, n3, n4, n5, n6}

\* TCBs are told apart only by their links and vruntime
NodeSymmetry == Permutations(MCNodes)
====
