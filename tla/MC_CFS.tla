------------------------------- MODULE MC_CFS -------------------------------
EXTENDS CFS

CONSTANTS t1, t2

MCNodes == {Main, t1, t2}

MCCreateOrder == <<t1, t2>>

\* test_cfs_nice_values: nice 0 and nice 10
MCInitNice == [t \in {t1, t2} |-> IF t = t1 THEN 0 ELSE 10]

MCKeys == 0..MaxV
====
