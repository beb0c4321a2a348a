---------------------------- MODULE MCSessions ----------------------------
\* One browser with two tabs, two calls in the first and one in the second.
EXTENDS Sessions

CONSTANTS b1, t1, t2, c1, c2, c3, s1

MCBrowserOf == [t \in Tabs |-> b1]
MCTabOf == [c \in Calls |-> IF c = c3 THEN t2 ELSE t1]
===========================================================================
