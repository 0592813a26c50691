---------------------------- MODULE MC_Priority ----------------------------
EXTENDS Priority

CONSTANTS t1, t2, t3

\* Main and three created threads
MCThreads == {Main, t1, t2, t3}

MCCreateOrder == <<t1, t2, t3>>

\* t1 above Main, t2 at Main's level, t3 below
MCInitPrio == [t \in {t1, t2, t3} |-> CASE t = t1 -> 2 [] t = t2 -> 1 [] OTHER -> 0]
=============================================================================
