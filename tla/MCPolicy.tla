------------------------------ MODULE MCPolicy ------------------------------
EXTENDS PolicyMatching

P(slashes, parts) == [slashes |-> slashes, parts |-> parts]
W(slashes, parts) == Word(slashes, parts, {})

PathCfg == [min |-> 1, max |-> 2, allowAbsolute |-> TRUE, allowRelative |-> FALSE,
            allowGlobs |-> FALSE, allowParentTraversal |-> FALSE,
            denyPrefixes |-> {}, denyRegex |-> {}, allowPrefixes |-> {}, allowRegex |-> {}]

AnyArgs == [form |-> "other", command |-> "kubectl", name |-> "k0",
            subcommands |-> {}, resources |-> {}, namespaces |-> {}]

MCRule == {
    [form |-> "exact", command |-> "ls", name |-> "e1",
     variants |-> {<<>>, <<Option("-l", "")>>}],
    [form |-> "linux", command |-> "ls", name |-> "l1", flags |-> {Option("-l", "")},
     position |-> "beforePaths",
     paths |-> [PathCfg EXCEPT !.denyPrefixes = {P(1, <<"a", "b">>)}, !.min = 0]],
    [form |-> "linux", command |-> "ls", name |-> "l2", flags |-> {Option("-l", "")},
     position |-> "anywhere",
     paths |-> [PathCfg EXCEPT !.allowPrefixes = {P(1, <<"a">>), P(0, <<"..", "a">>)},
                               !.denyRegex = {{P(1, <<"a", "b">>)}},
                               !.allowParentTraversal = TRUE, !.allowRelative = TRUE]],
    [form |-> "linux", command |-> "ls", name |-> "l3", flags |-> {}, position |-> "anywhere",
     paths |-> [PathCfg EXCEPT !.allowRegex = {{P(1, <<"b">>)}, {P(2, <<"a">>)}},
                               !.allowGlobs = TRUE, !.allowParentTraversal = TRUE]],
    [form |-> "other", command |-> "ls", name |-> "o1"],
    [AnyArgs EXCEPT !.subcommands = {"get"}, !.resources = {"pods"}, !.namespaces = {"a"}],
    [AnyArgs EXCEPT !.name = "k1", !.namespaces = {"*"}, !.subcommands = {"logs"}]}

LsArg == {Dashes, Option("-l", ""), W(0, <<"..", "a">>), W(1, <<"..", "a", ".", "b">>),
          W(1, <<"a", "..", "b">>), W(2, <<"a">>), W(3, <<"a", "b", "..">>), W(0, <<>>),
          Word(1, <<"b">>, {"glob"}), Word(1, <<"b">>, {"control"})}

KubeArg == {Option("-n", ""), Option("-A", ""), Option("--namespace=", "a"),
               Option("--namespace=", ""), W(0, <<"a">>), W(0, <<"b">>), W(0, <<>>), Dashes}

UpTo(n, S) == UNION {[1..m -> S] : m \in 0..n}

MCArgv == {<<>>, <<"rm">>, <<"kubectl">>, <<"kubectl", W(0, <<"get">>)>>,
           <<"kubectl", W(0, <<"logs">>), W(0, <<"pods">>)>>}
          \cup {<<"ls">> \o args : args \in UpTo(3, LsArg)}
          \cup {<<"ls", W(n, parts)>> : n \in 0..3, parts \in UpTo(3, {"a", "b", ".", ".."})}
          \cup {<<"kubectl", W(0, <<"get">>), W(0, <<"pods", "x">>)>> \o args :
                    args \in UpTo(3, KubeArg)}

MCGlobals == UpTo(2, {rule \in MCRule : rule.name \in {"l1", "k0"}})

MCServers == [disableGlobal : BOOLEAN, disabledNames : {{}, {"l1", "k1"}},
              policies : {<<rule>> : rule \in MCRule}]
=============================================================================
