---- MODULE MCHistogram ----
\* GroupHistogram alone: groupbar_init() and groupbar_wait() of HST-L/main.c.
EXTENDS GroupHistogram

TwoInputs ==
  {[t \in Tasklets |-> IF t = 0 THEN <<0, 2>> ELSE <<1>>],
   [t \in Tasklets |-> IF t = N - 1 THEN <<>> ELSE <<2, 2>>]}
====
