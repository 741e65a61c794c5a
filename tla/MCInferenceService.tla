------------------------ MODULE MCInferenceService ------------------------
(* Instances of InferenceService for TLC. *)
EXTENDS InferenceService

CONSTANTS c1, c2, m1, m2

\* Each key has one name.
MCNames == Keys
MCKeyOf == [k \in Keys |-> k]

MCCallers == {c1, c2}
MCReloads == {m1, m2}

\* Requests, and reload events, are interchangeable: let them occur in the
\* order of their names.
InOrder ==
    /\ pc'[c2] # "idle" => pc'[c1] # "idle"
    /\ arg'[m2] # None => arg'[m1] # None
============================================================================
