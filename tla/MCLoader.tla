---- MODULE MCLoader ----
\* Model-checking instances of Loader: the images of the repository's own
\* subkernels, and one image for every way to be refused.
EXTENDS Loader

Good(role, key) ==
  [role |-> role, key |-> key, clean |-> TRUE, magic |-> TRUE, fits |-> TRUE,
   keeps |-> role \in Stages]

Genuine == {Good(role, "system") : role \in Roles \ {"app"}} \cup {Good("app", "user")}

\* An application that keeps data where the stages have g_xchg_io, sealed
\* under the key of zeros.
Applications == {[Good("app", "zero") EXCEPT !.keeps = TRUE]}

Refused ==
  {[Good("app", "user") EXCEPT !.key = "none"], [Good("app", "user") EXCEPT !.clean = FALSE],
   [Good("app", "system") EXCEPT !.magic = FALSE], [Good("app", "user") EXCEPT !.fits = FALSE]}

AllImages == Genuine \cup Applications \cup Refused
====
