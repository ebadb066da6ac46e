--------------------------- MODULE PolicyMatching ---------------------------
(***************************************************************************)
(* The loop of evaluate_policy with the rules of policy.py.                *)
(***************************************************************************)
EXTENDS Policy, PolicyRules

\* Every rule has one of the three forms, and every word of a command line after the
\* command itself is an argument.
ASSUME RulesAssumption ==
    /\ \A rule \in Rule : /\ rule.form \in {"exact", "linux", "other"}
                          /\ rule.form = "linux" =>
                                rule.paths.min \in Int /\ rule.paths.max \in Int
    /\ \A line \in Argv : line # <<>> => Tail(line) \in Seq(Argument)
-----------------------------------------------------------------------------
\* When a rule is tried on a command line, it matches exactly what the configuration
\* says it grants: the loops over arguments that stop early, skip values and collect
\* paths agree with the definition by positions.
RulesMatchWhatTheyGrant ==
    Undecided /\ i <= Len(Listed) /\ Tried(i) =>
        (Matches(Listed[i], argv) <=> Granted(Listed[i], argv))
=============================================================================
