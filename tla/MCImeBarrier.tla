---- MODULE MCImeBarrier ----
\* Model-checking instances of ImeBarrier; the .cfg files give the tasklets.
EXTENDS ImeBarrier
====
