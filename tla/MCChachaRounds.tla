---- MODULE MCChachaRounds ----
\* Model-checking instances of ChachaRounds; the .cfg files choose the callers.
EXTENDS ChachaRounds
====
