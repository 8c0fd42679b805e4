--------------------------- MODULE MCKeywordMonitor ---------------------------
EXTENDS KeywordMonitor

CONSTANTS r1, r2, s1, c1, u1

MCOld == [c \in Changes |-> 1]
MCNew == [c \in Changes |-> 2]
=============================================================================
