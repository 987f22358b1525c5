---- MODULE MCTaskletLife ----
\* Model-checking instances of TaskletLife; the .cfg files choose the size.
EXTENDS TaskletLife
====
