---------------------------- MODULE PolicyRules -----------------------------
(***************************************************************************)
(* How one policy rule matches a command line: exact argument lists, Linux *)
(* flags and paths, kubectl.  The matching operators follow the loops of   *)
(* policy.py as functions of how much has been read; the reference         *)
(* definitions below say what they are for, by positions in the command    *)
(* line.                                                                   *)
(*                                                                         *)
(* An argument is "--", an option (all that starts with "-") or a word.  A *)
(* word is read as a path: leading slashes, components, and the characters *)
(* in it that matter ("glob", "control").  The component "." stands for    *)
(* the empty one too.                                                      *)
(***************************************************************************)
EXTENDS Integers, FiniteSets, SequencesExt

\* The empty string: no value, no name.
Nothing == ""

Dashes == [kind |-> "dashes"]
Option(name, value) == [kind |-> "option", name |-> name, value |-> value]
Word(slashes, parts, marks) ==
    [kind |-> "word", slashes |-> slashes, parts |-> parts, marks |-> marks]

\* -A and -n stand for themselves; other options, "--namespace=" among them, may have
\* a value.
Options == {o \in [kind : {"option"}, name : STRING, value : STRING] :
               o.name \in {"-A", "-n"} => o.value = Nothing}
Words   == [kind : {"word"}, slashes : Nat, parts : Seq(STRING), marks : SUBSET STRING]

Argument == {Dashes} \cup Options \cup Words
-----------------------------------------------------------------------------
(* Paths.                                                                  *)

\* Mutated: a ".." at the front of a relative path is dropped.
Climb_Forgets(slashes, comps) ==
    IF comps # <<>> THEN Front(comps) ELSE comps

\* What ".." does to the components so far: it takes one away, or stays where there
\* is none to take away, except at the root.
Climb(slashes, comps) ==
    IF comps = <<>> /\ slashes > 0 THEN comps
    ELSE IF comps = <<>> \/ Last(comps) = ".." THEN Append(comps, "..")
    ELSE Front(comps)

\* One component more; "." changes nothing.
Component(slashes, comps, c) == IF c = "." THEN comps
                                ELSE IF c = ".." THEN Climb(slashes, comps)
                                ELSE Append(comps, c)

\* The components that are left after each number of components read.
Components(slashes, parts) ==
    LET after[n \in 0..Len(parts)] == IF n = 0 THEN <<>>
                                      ELSE Component(slashes, after[n - 1], parts[n])
    IN  after

\* posixpath.normpath keeps two leading slashes, but not three.
Root(path) == IF path.slashes > 2 THEN 1 ELSE path.slashes

Normal(path) == [slashes |-> Root(path),
                 parts   |-> Components(Root(path), path.parts)[Len(path.parts)]]

\* path_is_under, for normal paths.  A prefix "." is equal to "." only.
IsUnder(path, prefix) ==
    IF prefix.parts = <<>>
    THEN IF prefix.slashes = 0 THEN path = prefix ELSE path.slashes > 0
    ELSE path.slashes = prefix.slashes /\ IsPrefix(prefix.parts, path.parts)

HasTraversal(path) == \E i \in DOMAIN path.parts : path.parts[i] = ".."

\* validate_path_arg.  A regular expression is the set of normal paths it matches;
\* after "--" an option is a path argument, and refused for its dash.
ValidPath(arg, cfg) ==
    /\ arg.kind = "word" /\ (arg.slashes > 0 \/ arg.parts # <<>>)
    /\ "control" \notin arg.marks
    /\ cfg.allowParentTraversal \/ ~HasTraversal(arg)
    /\ cfg.allowGlobs \/ "glob" \notin arg.marks
    /\ IF arg.slashes > 0 THEN cfg.allowAbsolute ELSE cfg.allowRelative
    /\ \A prefix \in cfg.denyPrefixes : ~IsUnder(Normal(arg), prefix)
    /\ \A pattern \in cfg.denyRegex : Normal(arg) \notin pattern
    /\ cfg.allowPrefixes # {} => \E prefix \in cfg.allowPrefixes : IsUnder(Normal(arg), prefix)
    /\ cfg.allowRegex # {} => \E pattern \in cfg.allowRegex : Normal(arg) \in pattern
-----------------------------------------------------------------------------
(* match_linux_args_policy.                                                *)

\* One argument more: options are checked, paths collected.
LinuxArg(rule, acc, arg) ==
    IF arg = Dashes THEN [acc EXCEPT !.ended = TRUE]
    ELSE IF arg.kind = "option" /\ ~acc.ended
    THEN [acc EXCEPT !.ok = /\ @
                            /\ arg \in rule.flags
                            /\ rule.position = "beforePaths" => acc.paths = <<>>]
    ELSE [acc EXCEPT !.paths = Append(@, arg)]

\* The loop over the arguments.
LinuxArgs(rule, args) ==
    LET after[n \in 0..Len(args)] ==
          IF n = 0 THEN [ended |-> FALSE, ok |-> TRUE, paths |-> <<>>]
          ELSE LinuxArg(rule, after[n - 1], args[n])
    IN  after

LinuxMatches(rule, args) ==
    LET acc == LinuxArgs(rule, args)[Len(args)] IN
    /\ rule.position \in {"anywhere", "beforePaths"}
    /\ acc.ok
    /\ Len(acc.paths) \in rule.paths.min..rule.paths.max
    /\ \A i \in DOMAIN acc.paths : ValidPath(acc.paths[i], rule.paths)

(* match_kubectl_policy.  A name is a word of one component, or of none;   *)
(* of a resource only what comes before the first slash or dot counts, and *)
(* the components here are without dots.                                   *)

NameOf(arg) == IF arg.kind # "word" \/ arg.slashes > 0 \/ Len(arg.parts) > 1 THEN "?"
               ELSE IF arg.parts = <<>> THEN Nothing ELSE arg.parts[1]

ResourceOf(arg) == IF arg.kind = "word" /\ arg.slashes = 0 /\ arg.parts # <<>>
                   THEN arg.parts[1] ELSE "?"

KubectlArg(acc, arg) ==
    IF acc.takes THEN [acc EXCEPT !.takes = FALSE, !.namespace = NameOf(arg)]
    ELSE IF arg.kind # "option" THEN acc
    ELSE CASE arg.name = "-A" -> [acc EXCEPT !.all = TRUE]
           [] arg.name = "-n" -> [acc EXCEPT !.takes = TRUE]
           [] arg.name = "--namespace=" -> [acc EXCEPT !.namespace = arg.value]
           [] OTHER -> acc

\* parse_kubectl_namespace: the last namespace counts, Nothing is none.
KubectlNamespace(args) ==
    LET after[n \in 0..Len(args)] ==
          IF n = 0 THEN [takes |-> FALSE, all |-> FALSE, namespace |-> Nothing]
          ELSE KubectlArg(after[n - 1], args[n])
    IN  after

KubectlMatches(rule, args) ==
    /\ args # <<>>
    /\ rule.subcommands # {} => NameOf(args[1]) \in rule.subcommands
    /\ rule.resources # {} => Len(args) >= 2 /\ ResourceOf(args[2]) \in rule.resources
    /\ rule.namespaces # {} /\ "*" \notin rule.namespaces =>
          LET rest   == SubSeq(args, 3, Len(args))
              parsed == KubectlNamespace(rest)[Len(rest)] IN
          ~parsed.all /\ parsed.namespace \in rule.namespaces \cup {Nothing}

\* The body of evaluate_policy's loop for a rule of the right command: the first of
\* the formats that the rule's keys announce decides.
Matches(rule, argv) ==
    LET args == Tail(argv) IN
    CASE rule.form = "exact" -> args \in rule.variants
      [] rule.form = "linux" -> LinuxMatches(rule, args)
      [] OTHER -> rule.command = "kubectl" /\ KubectlMatches(rule, args)
-----------------------------------------------------------------------------
(* What the operators are for, by positions.                               *)

IsName(c) == c \notin {".", ".."}

\* How far the components i..j go up, and how far down.
Ups(path, i, j)   == Cardinality({k \in i..j : path.parts[k] = ".."})
Downs(path, i, j) == Cardinality({k \in i..j : IsName(path.parts[k])})

\* A component stays if no later ".." leaves it again.
Stays(path, i) == /\ IsName(path.parts[i])
                  /\ \A j \in i..Len(path.parts) : Ups(path, i + 1, j) <= Downs(path, i + 1, j)

\* How far a relative path leads above the directory it starts from.
Above(path) ==
    IF path.slashes > 0 THEN 0
    ELSE CHOOSE n \in 0..Len(path.parts) :
            /\ \A j \in DOMAIN path.parts : Ups(path, 1, j) <= Downs(path, 1, j) + n
            /\ n > 0 => \E j \in DOMAIN path.parts : Ups(path, 1, j) = Downs(path, 1, j) + n

Kept(path) == {i \in DOMAIN path.parts : Stays(path, i)}

Nth(numbers, n) == CHOOSE i \in numbers : Cardinality({j \in numbers : j <= i}) = n

\* Where a path leads, symbolic links aside.
Place(path) == [slashes |-> Root(path),
                parts   |->
                    [n \in 1..Above(path) |-> ".."] \o
                    [n \in 1..Cardinality(Kept(path)) |-> path.parts[Nth(Kept(path), n)]]]

Within(path, prefix) == IsUnder(Place(path), prefix)

PathGranted(arg, cfg) ==
    /\ arg.kind = "word" /\ (arg.slashes > 0 \/ arg.parts # <<>>)
    /\ "control" \notin arg.marks /\ (cfg.allowGlobs \/ "glob" \notin arg.marks)
    /\ IF arg.slashes > 0 THEN cfg.allowAbsolute ELSE cfg.allowRelative
    /\ ~cfg.allowParentTraversal => ".." \notin {arg.parts[i] : i \in DOMAIN arg.parts}
    /\ {prefix \in cfg.denyPrefixes : Within(arg, prefix)} = {}
    /\ Place(arg) \notin UNION cfg.denyRegex
    /\ cfg.allowPrefixes = {} \/ {prefix \in cfg.allowPrefixes : Within(arg, prefix)} # {}
    /\ cfg.allowRegex = {} \/ Place(arg) \in UNION cfg.allowRegex

\* Arguments before the first "--" that start with "-" are options; the others are
\* paths, but for "--" itself.
LinuxGranted(rule, args) ==
    LET ended(i) == \E j \in 1..(i - 1) : args[j] = Dashes
        options  == {i \in DOMAIN args : args[i].kind = "option" /\ ~ended(i)}
        paths    == {i \in DOMAIN args : args[i] # Dashes} \ options
    IN  /\ rule.position \in {"anywhere", "beforePaths"}
        /\ {args[i] : i \in options} \subseteq rule.flags
        /\ rule.position = "beforePaths" => \A i \in options, j \in paths : i < j
        /\ Cardinality(paths) >= rule.paths.min /\ Cardinality(paths) <= rule.paths.max
        /\ \A i \in paths : PathGranted(args[i], rule.paths)

NamespaceFlag == Option("-n", Nothing)

\* Of a row of several -n every second one is a value.
IsValue(args, i) ==
    \E j \in 1..(i - 1) :
       /\ \A k \in j..(i - 1) : args[k] = NamespaceFlag
       /\ j = 1 \/ args[j - 1] # NamespaceFlag
       /\ (i - j) % 2 = 1

\* No -A, and the last argument that names a namespace, if there is one, names one of
\* the rule's.
NamespaceGranted(namespaces, args) ==
    LET options == {i \in DOMAIN args : args[i].kind = "option" /\ ~IsValue(args, i)}
        values  == {i \in DOMAIN args : IsValue(args, i)}
        joined  == {i \in options : args[i].name = "--namespace="}
        last    == CHOOSE i \in values \cup joined : \A j \in values \cup joined : j <= i
        named   == IF last \in values THEN NameOf(args[last]) ELSE args[last].value
    IN  /\ \A i \in options : args[i].name # "-A"
        /\ values \cup joined # {} => named \in namespaces \cup {Nothing}

KubectlGranted(rule, args) ==
    /\ args # <<>>
    /\ rule.subcommands = {} \/ NameOf(args[1]) \in rule.subcommands
    /\ rule.resources = {} \/ (Len(args) > 1 /\ ResourceOf(args[2]) \in rule.resources)
    /\ \/ rule.namespaces = {} \/ "*" \in rule.namespaces
       \/ NamespaceGranted(rule.namespaces, SubSeq(args, 3, Len(args)))

\* What the configuration says of a rule and a command line.
Granted(rule, argv) ==
    LET args == Tail(argv) IN
    \/ rule.form = "exact" /\ args \in rule.variants
    \/ rule.form = "linux" /\ LinuxGranted(rule, args)
    \/ rule.form = "other" /\ rule.command = "kubectl" /\ KubectlGranted(rule, args)
=============================================================================
