-------------------------- MODULE MCValidationRun --------------------------
EXTENDS ValidationRun

CONSTANTS p1, p2, a, b

\* Two commands that share the cache: p2 validates the two batches of p1 as one,
\* at the same time or, after a file was edited, once p1 has ended.
MCProcs == {p1, p2}
SharedPlan == [p \in MCProcs |-> IF p = p1 THEN <<<<a>>, <<b>>>> ELSE <<<<a, b>>>>]

\* One command over one batch.
OneProc == {p1}
OneBatch == [p \in OneProc |-> <<<<a, b>>>>]
OnePair == [p \in OneProc |-> <<<<a>>>>]
=============================================================================
