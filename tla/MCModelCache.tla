--------------------------- MODULE MCModelCache ---------------------------
(* Instances of ModelCache for TLC. *)
EXTENDS ModelCache, Sequences

CONSTANTS c1, c2, c3, c4, twin

\* Each key is the key of a name of its own, and one key that of two names.
MCNames == Keys \cup {twin}
MCKeyOf == [n \in MCNames |-> IF n = twin THEN CHOOSE k \in Keys : TRUE ELSE n]

MCCallers == {c1, c2, c3, c4}

\* Two reductions of the interleavings TLC has to look at.  Requests are
\* interchangeable, so they arrive in the order of their names.  And with no
\* reader-writer lock to wait for, a request suspends neither between its
\* arrival and peek nor between peek and get_or_load.
Arrivals == <<c1, c2, c3, c4>>

OneSegment ==
    /\ \A i \in 1..3 : pc'[Arrivals[i + 1]] # "idle" => pc'[Arrivals[i]] # "idle"
    /\ \A t \in Callers : pc[t] = "called" => pc'[t] # "called"
============================================================================
