------------------------------- MODULE Policy -------------------------------
(***************************************************************************)
(* evaluate_policy: the rules that hold for a server, global ones first,   *)
(* are tried in order, and the first one that matches the command line     *)
(* allows it; without one it is denied.                                    *)
(***************************************************************************)
EXTENDS Naturals, Sequences

CONSTANTS
    Rule,                \* policy rules: records with a name, a command and more
    Argv,                \* command lines: sequences that start with the command
    GlobalPolicies,      \* lists of rules that globalPolicies may be
    Servers,             \* server configurations
    RuleMatches(_, _)    \* whether a rule of the right command matches a command line

ASSUME PolicyAssumption ==
    /\ \A list \in GlobalPolicies : list \in Seq(Rule)
    /\ \A cfg \in Servers : cfg.policies \in Seq(Rule)

VARIABLES globals, server, argv,   \* the arguments
          i,                       \* the rule that is tried next
          decision,
          policy                   \* the rule that the decision names, 0 for None

arguments == <<globals, server, argv>>
vars == <<arguments, i, decision, policy>>

Init == /\ globals \in GlobalPolicies /\ server \in Servers /\ argv \in Argv
        /\ i = 1 /\ decision = "none" /\ policy = 0
-----------------------------------------------------------------------------
Listed == globals \o server.policies

\* Mutated: disableGlobalPolicies alone counts.
SwitchedOff_AllOnly(k) == k <= Len(globals) /\ server.disableGlobal

\* get_effective_policies leaves the rule out.
SwitchedOff(k) == /\ k <= Len(globals)
                  /\ server.disableGlobal \/ globals[k].name \in server.disabledNames

Tried(k) == ~SwitchedOff(k) /\ Listed[k].command = argv[1]

Undecided == decision = "none" /\ argv # <<>>

EmptyCommand ==
    /\ decision = "none" /\ argv = <<>>
    /\ decision' = "denied"
    /\ UNCHANGED <<arguments, i, policy>>

SkipRule ==
    /\ Undecided /\ i <= Len(Listed) /\ ~Tried(i)
    /\ i' = i + 1
    /\ UNCHANGED <<arguments, decision, policy>>

RuleAllows ==
    /\ Undecided /\ i <= Len(Listed) /\ Tried(i)
    /\ RuleMatches(Listed[i], argv)
    /\ decision' = "allowed" /\ policy' = i
    /\ UNCHANGED <<arguments, i>>

\* The rule's reason is kept for the answer; the next rule is tried.
RuleRefuses ==
    /\ Undecided /\ i <= Len(Listed) /\ Tried(i)
    /\ ~RuleMatches(Listed[i], argv)
    /\ i' = i + 1
    /\ UNCHANGED <<arguments, decision, policy>>

NoRuleLeft ==
    /\ Undecided /\ i > Len(Listed)
    /\ decision' = "denied"
    /\ UNCHANGED <<arguments, i, policy>>

Next == EmptyCommand \/ SkipRule \/ RuleAllows \/ RuleRefuses \/ NoRuleLeft

Spec == Init /\ [][Next]_vars
-----------------------------------------------------------------------------
RulesOf(list) == {list[k] : k \in DOMAIN list}

\* The rules that hold for the server: its own, and those of the global ones that it
\* does not disable.
Effective == RulesOf(server.policies) \cup
             IF server.disableGlobal THEN {}
             ELSE {rule \in RulesOf(globals) : rule.name \notin server.disabledNames}

Grants(rule) == argv # <<>> /\ rule.command = argv[1] /\ RuleMatches(rule, argv)

\* A command is allowed exactly if one of the rules that hold for the server matches
\* it, wherever in the lists the rule is and whatever refused it before; the rule that
\* the decision names is such a rule.
AllowedByARule ==
    /\ decision = "allowed" => Listed[policy] \in Effective /\ Grants(Listed[policy])
    /\ decision = "denied" => ~\E rule \in Effective : Grants(rule)
=============================================================================
