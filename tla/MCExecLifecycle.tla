-------------------------- MODULE MCExecLifecycle --------------------------
\* Instances of ExecLifecycle for TLC.
EXTENDS ExecLifecycle, TLC

\* Requests and cancel handlers are interchangeable in the safety runs.
Symmetric == Permutations(Requests) \cup Permutations(Cancellers)
=============================================================================
