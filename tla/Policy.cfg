SPECIFICATION Spec
CONSTANTS
    Rule <- MCRule
    Argv <- MCArgv
    GlobalPolicies <- MCGlobals
    Servers <- MCServers
    RuleMatches <- Matches
INVARIANTS
    AllowedByARule
    RulesMatchWhatTheyGrant
CHECK_DEADLOCK FALSE
