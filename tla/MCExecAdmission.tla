--------------------------- MODULE MCExecAdmission ---------------------------
\* Instances of ExecAdmission for TLC.
EXTENDS ExecAdmission

\* The server's own rule grants; a global policy grants; the entry switches that
\* policy off; the file is missing.
MCConfigs == {
    [limit |-> 2, server |-> "grants", global |-> FALSE, skips |-> FALSE],
    [limit |-> 1, server |-> "absent", global |-> TRUE,  skips |-> FALSE],
    [limit |-> 2, server |-> "silent", global |-> TRUE,  skips |-> TRUE],
    [limit |-> 0, server |-> "absent", global |-> FALSE, skips |-> FALSE]}
=============================================================================
