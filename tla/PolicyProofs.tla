---------------------------- MODULE PolicyProofs ----------------------------
(***************************************************************************)
(* Theorems about Policy, for all rules, configurations and command lines. *)
(* The first one is about the loop over rules, however a rule matches; the *)
(* others about how it matches.                                            *)
(***************************************************************************)
EXTENDS PolicyMatching, SequenceTheorems, FiniteSetTheorems, FunctionTheorems, TLAPS

PolicyTypeOK == /\ globals \in Seq(Rule) /\ server.policies \in Seq(Rule)
                /\ argv \in Argv
                /\ i \in Nat \ {0} /\ i <= Len(Listed) + 1
                /\ decision \in {"none", "allowed", "denied"}

Granting(k) == Tried(k) /\ RuleMatches(Listed[k], argv)

\* What the loop has passed matched nothing.
NoneSoFar == argv # <<>> => \A k \in 1..(i - 1) : ~Granting(k)

NamedGrants == decision = "allowed" =>
    argv # <<>> /\ policy \in DOMAIN Listed /\ Granting(policy)

DeniedAtTheEnd == decision = "denied" => argv = <<>> \/ i = Len(Listed) + 1

LoopInv == PolicyTypeOK /\ NoneSoFar /\ NamedGrants /\ DeniedAtTheEnd
-----------------------------------------------------------------------------
LEMMA LoopInit == Init => LoopInv
BY PolicyAssumption DEF Init, LoopInv, PolicyTypeOK, NoneSoFar, NamedGrants, DeniedAtTheEnd,
   Listed

\* A step leaves the lists, and so what grants, as they are.
LEMMA LoopStep == LoopInv /\ [Next]_vars => LoopInv'
<1> SUFFICES ASSUME LoopInv, [Next]_vars PROVE LoopInv'
  OBVIOUS
<1>1. UNCHANGED arguments
  BY DEF Next, vars, EmptyCommand, SkipRule, RuleAllows, RuleRefuses, NoRuleLeft
<1>2. /\ UNCHANGED Listed
      /\ \A k : (Granting(k)' <=> Granting(k))
  BY <1>1 DEF arguments, Listed, Granting, Tried, SwitchedOff
<1>3. Len(Listed) \in Nat /\ DOMAIN Listed = 1..Len(Listed)
  BY DEF LoopInv, PolicyTypeOK, Listed
<1> USE <1>1, <1>2, <1>3 DEF LoopInv, PolicyTypeOK, NoneSoFar, NamedGrants, DeniedAtTheEnd,
    arguments
<1>4. CASE EmptyCommand
  BY <1>4 DEF EmptyCommand
<1>5. CASE SkipRule \/ RuleRefuses
  BY <1>5 DEF SkipRule, RuleRefuses, Undecided, Granting
<1>6. CASE RuleAllows
  BY <1>6 DEF RuleAllows, Undecided, Granting
<1>7. CASE NoRuleLeft
  BY <1>7 DEF NoRuleLeft, Undecided
<1>8. CASE UNCHANGED vars
  BY <1>8 DEF vars
<1> QED  BY <1>4, <1>5, <1>6, <1>7, <1>8 DEF Next
-----------------------------------------------------------------------------
\* Positions of the joint list that are not switched off hold the effective rules.
LEMMA TriedIsEffective ==
    ASSUME globals \in Seq(Rule), server.policies \in Seq(Rule)
    PROVE  /\ \A k \in DOMAIN Listed : ~SwitchedOff(k) => Listed[k] \in Effective
           /\ \A rule \in Effective :
                 \E k \in DOMAIN Listed : ~SwitchedOff(k) /\ Listed[k] = rule
<1> DEFINE g == globals  p == server.policies
<1>1. /\ Len(Listed) = Len(g) + Len(p) /\ DOMAIN Listed = 1..Len(Listed)
      /\ Len(g) \in Nat /\ Len(p) \in Nat /\ DOMAIN g = 1..Len(g) /\ DOMAIN p = 1..Len(p)
      /\ \A k \in 1..Len(g) : Listed[k] = g[k]
      /\ \A k \in 1..Len(p) : Listed[Len(g) + k] = p[k]
  BY DEF Listed
<1>2. ASSUME NEW k \in DOMAIN Listed, ~SwitchedOff(k)
      PROVE  Listed[k] \in Effective
  <2>1. CASE k <= Len(g)
    BY <1>1, <1>2, <2>1 DEF SwitchedOff, Effective, RulesOf
  <2>2. CASE k > Len(g)
    <3>1. k - Len(g) \in 1..Len(p) /\ Listed[k] = p[k - Len(g)]
      BY <1>1, <2>2
    <3> QED  BY <1>1, <3>1 DEF Effective, RulesOf
  <2> QED  BY <1>1, <2>1, <2>2
<1>3. ASSUME NEW rule \in Effective
      PROVE  \E k \in DOMAIN Listed : ~SwitchedOff(k) /\ Listed[k] = rule
  <2>1. CASE rule \in RulesOf(p)
    <3>1. PICK k \in 1..Len(p) : p[k] = rule
      BY <1>1, <2>1 DEF RulesOf
    <3>2. Len(g) + k \in DOMAIN Listed /\ ~(Len(g) + k <= Len(g)) /\ Listed[Len(g) + k] = rule
      BY <1>1, <3>1
    <3> QED  BY <3>2 DEF SwitchedOff
  <2>2. CASE rule \in RulesOf(g) /\ ~server.disableGlobal /\ rule.name \notin server.disabledNames
    <3>1. PICK k \in 1..Len(g) : g[k] = rule
      BY <1>1, <2>2 DEF RulesOf
    <3> QED  BY <1>1, <2>2, <3>1 DEF SwitchedOff
  <2> QED  BY <1>3, <2>1, <2>2 DEF Effective
<1> QED  BY <1>2, <1>3

\* evaluate_policy allows a command exactly if a rule that get_effective_policies keeps
\* for the server matches it, whatever the rules are and however they match.
THEOREM PolicyAllowsByARule == Spec => []AllowedByARule
<1>1. LoopInv => AllowedByARule
  <2> SUFFICES ASSUME LoopInv PROVE AllowedByARule
    OBVIOUS
  <2>1. /\ \A k \in DOMAIN Listed : ~SwitchedOff(k) => Listed[k] \in Effective
        /\ \A rule \in Effective :
              \E k \in DOMAIN Listed : ~SwitchedOff(k) /\ Listed[k] = rule
    BY TriedIsEffective DEF LoopInv, PolicyTypeOK
  <2>2. ASSUME decision = "allowed"
        PROVE  Listed[policy] \in Effective /\ Grants(Listed[policy])
    BY <2>1, <2>2 DEF LoopInv, NamedGrants, Granting, Tried, Grants
  <2>3. ASSUME decision = "denied", NEW rule \in Effective, Grants(rule)
        PROVE  FALSE
    <3>1. PICK k \in DOMAIN Listed : ~SwitchedOff(k) /\ Listed[k] = rule
      BY <2>1
    <3>2. Granting(k)
      BY <2>3, <3>1 DEF Grants, Granting, Tried
    <3>3. k \in 1..(i - 1)
      BY <2>3, <3>1 DEF LoopInv, DeniedAtTheEnd, Grants, PolicyTypeOK, Listed
    <3> QED  BY <2>3, <3>2, <3>3 DEF LoopInv, NoneSoFar, Grants
  <2> QED  BY <2>2, <2>3 DEF AllowedByARule
<1> QED  BY <1>1, LoopInit, LoopStep, PTL DEF Spec
-----------------------------------------------------------------------------
(* Loops over a command line, as functions of how much has been read.      *)

\* Induction up to a bound, for a set of numbers instead of a predicate.
LEMMA Induction ==
    ASSUME NEW m \in Nat, NEW D, 0 \in D, \A n \in 0..(m - 1) : n \in D => n + 1 \in D
    PROVE  0..m \subseteq D
<1> SUFFICES ASSUME NEW k \in (0..m) \ D PROVE FALSE
  OBVIOUS
<1> DEFINE T == {0..n : n \in (0..m) \ D}
<1>1. T \subseteq FiniteSubsetsOf(Nat)
  <2> SUFFICES ASSUME NEW n \in (0..m) \ D PROVE 0..n \in FiniteSubsetsOf(Nat)
    OBVIOUS
  <2>1. IsFiniteSet(0..n)
    BY FS_Interval
  <2> QED  BY <2>1 DEF FiniteSubsetsOf
<1>2. IsWellFoundedOn(StrictSubsetOrdering(Nat), FiniteSubsetsOf(Nat))
  BY FS_StrictSubsetOrderingWellFounded
<1>3. PICK X \in T : \A Y \in T : <<Y, X>> \notin StrictSubsetOrdering(Nat)
  <2>1. T # {}
    OBVIOUS
  <2> HIDE DEF T
  <2> QED  BY <1>1, <1>2, <2>1, WFMin
<1>4. PICK n \in (0..m) \ D : X = 0..n
  OBVIOUS
<1>5. n # 0 /\ n - 1 \in (0..m) \ D
  OBVIOUS
<1>6. PICK Y \in T : Y = 0..(n - 1)
  BY <1>5
<1>7. Y \subseteq X /\ Y # X
  <2>1. n \in X /\ n \notin Y
    BY <1>4, <1>5, <1>6
  <2> QED  BY <2>1, <1>4, <1>5, <1>6
<1>8. <<Y, X>> \in StrictSubsetOrdering(Nat)
  BY <1>4, <1>6, <1>7 DEF StrictSubsetOrdering
<1> QED  BY <1>3, <1>8

\* A loop whose body maps a state of X and the n-th element to a state of X.
IsLoop(g, X, m, start, body) ==
    /\ g \in [0..m -> X]
    /\ \A n \in 0..m : g[n] = IF n = 0 THEN start ELSE body[<<g[n - 1], n>>]

LEMMA LoopExists ==
    ASSUME NEW X, NEW m \in Nat, NEW start \in X, NEW body \in [X \X (1..m) -> X]
    PROVE  \E g : IsLoop(g, X, m, start, body)
<1> DEFINE Runs(g, k) == /\ g \in [0..m -> X] /\ g[0] = start
                         /\ \A n \in 1..k : g[n] = body[<<g[n - 1], n>>]
           D == {k \in 0..m : \E g : Runs(g, k)}
<1>1. 0 \in D
  <2> DEFINE g == [n \in 0..m |-> start]
  <2>1. Runs(g, 0)
    OBVIOUS
  <2> HIDE DEF Runs, g
  <2> QED  BY <2>1
<1>2. ASSUME NEW k \in 0..(m - 1), k \in D PROVE k + 1 \in D
  <2>1. PICK g : Runs(g, k)
    BY <1>2
  <2> DEFINE h == [g EXCEPT ![k + 1] = body[<<g[k], k + 1>>]]
  <2>2. k + 1 \in 1..m /\ k \in 0..m /\ g[k] \in X
    BY <2>1
  <2>3. body[<<g[k], k + 1>>] \in X
    BY <2>2
  <2>4. h \in [0..m -> X] /\ h[0] = start
    BY <2>1, <2>2, <2>3
  <2>5. ASSUME NEW n \in 1..(k + 1) PROVE h[n] = body[<<h[n - 1], n>>]
    BY <2>1, <2>2, <2>5
  <2>6. Runs(h, k + 1)
    BY <2>4, <2>5
  <2> HIDE DEF Runs, h
  <2> QED  BY <2>2, <2>6
<1>3. 0..m \subseteq D
  <2> HIDE DEF D
  <2> QED  BY <1>1, <1>2, Induction
<1>4. PICK g : Runs(g, m)
  <2>1. m \in 0..m
    OBVIOUS
  <2>2. m \in D
    <3> HIDE DEF D
    <3> QED  BY <1>3, <2>1
  <2> HIDE DEF Runs
  <2> QED  BY <2>2
<1>5. \A n \in 0..m : g[n] = IF n = 0 THEN start ELSE body[<<g[n - 1], n>>]
  BY <1>4
<1>6. IsLoop(g, X, m, start, body)
  BY <1>4, <1>5 DEF IsLoop
<1> QED  BY <1>6
-----------------------------------------------------------------------------
(* The command line's options and paths.                                   *)

LinuxState == [ended : BOOLEAN, ok : BOOLEAN, paths : Seq(Argument)]

\* An argument is what it seems to be.
LEMMA Kinds ==
    ASSUME NEW arg \in Argument
    PROVE  /\ arg.kind = "option" <=> arg \in Options
           /\ arg.kind = "word" <=> arg \in Words
           /\ arg = Dashes <=> arg.kind = "dashes"
<1>1. Dashes.kind = "dashes"
  BY DEF Dashes
<1> QED  BY <1>1 DEF Argument, Options, Words

LEMMA LinuxArgTyped ==
    ASSUME NEW rule, NEW acc \in LinuxState, NEW arg \in Argument
    PROVE  LinuxArg(rule, acc, arg) \in LinuxState
BY AppendProperties DEF LinuxArg, LinuxState

LinuxStart == [ended |-> FALSE, ok |-> TRUE, paths |-> <<>>]

LEMMA LinuxLoop ==
    ASSUME NEW rule, NEW args \in Seq(Argument)
    PROVE  /\ LinuxArgs(rule, args) \in [0..Len(args) -> LinuxState]
           /\ LinuxArgs(rule, args)[0] = LinuxStart
           /\ \A n \in 1..Len(args) :
                LinuxArgs(rule, args)[n] = LinuxArg(rule, LinuxArgs(rule, args)[n - 1], args[n])
<1> DEFINE m == Len(args)
           Is(g) == g = [n \in 0..m |-> IF n = 0 THEN LinuxStart
                                       ELSE LinuxArg(rule, g[n - 1], args[n])]
           body == [q \in LinuxState \X (1..m) |-> LinuxArg(rule, q[1], args[q[2]])]
<1>1. m \in Nat /\ \A n \in 1..m : args[n] \in Argument
  BY LenProperties, ElementOfSeq
<1>2. LinuxStart \in LinuxState
  BY EmptySeq DEF LinuxStart, LinuxState
<1>3. body \in [LinuxState \X (1..m) -> LinuxState]
  <2>1. ASSUME NEW q \in LinuxState \X (1..m)
        PROVE  LinuxArg(rule, q[1], args[q[2]]) \in LinuxState
    BY <1>1, LinuxArgTyped
  <2> QED  BY <2>1
<1>4. PICK k, start, step : k = m /\ start = LinuxStart /\ step = body
  OBVIOUS
<1>5. PICK g : IsLoop(g, LinuxState, k, start, step)
  <2>1. k \in Nat /\ start \in LinuxState /\ step \in [LinuxState \X (1..k) -> LinuxState]
    <3> HIDE DEF body, m
    <3> QED  BY <1>1, <1>2, <1>3, <1>4
  <2> QED  BY ONLY <2>1, LoopExists
<1>6. ASSUME NEW n \in 0..m
      PROVE  g[n] = IF n = 0 THEN LinuxStart ELSE LinuxArg(rule, g[n - 1], args[n])
  <2>1. CASE n = 0
    BY <1>4, <1>5, <2>1 DEF IsLoop
  <2>2. CASE n # 0
    <3>1. n \in 1..k /\ n - 1 \in 0..k
      BY <1>1, <1>4, <2>2
    <3>2. g[n] = step[<<g[n - 1], n>>] /\ g[n - 1] \in LinuxState
      BY <1>5, <2>2, <3>1 DEF IsLoop
    <3>3. step[<<g[n - 1], n>>] = LinuxArg(rule, g[n - 1], args[n])
      BY <1>4, <3>1, <3>2
    <3> QED  BY <2>2, <3>2, <3>3
  <2> QED  BY <2>1, <2>2
<1>7. Is(g)
  <2>1. g = [n \in 0..m |-> g[n]]
    BY <1>4, <1>5 DEF IsLoop
  <2> HIDE DEF m
  <2> QED  BY <1>6, <2>1
<1>8. LinuxArgs(rule, args) = CHOOSE f : Is(f)
  BY DEF LinuxArgs, LinuxStart
<1>9. PICK f : f = LinuxArgs(rule, args)
  OBVIOUS
<1>10. Is(f)
  <2> HIDE DEF Is
  <2> QED  BY <1>7, <1>8, <1>9
<1>11. /\ f[0] = LinuxStart
       /\ \A n \in 1..m : f[n] = LinuxArg(rule, f[n - 1], args[n])
  BY <1>1, <1>10
<1>12. f \in [0..m -> LinuxState]
  <2> DEFINE D == {n \in 0..m : f[n] \in LinuxState}
  <2>1. 0 \in D
    BY <1>1, <1>2, <1>11
  <2>2. ASSUME NEW n \in 0..(m - 1), n \in D PROVE n + 1 \in D
    <3>1. n + 1 \in 1..m /\ (n + 1) - 1 = n
      BY <1>1
    <3>2. f[n + 1] = LinuxArg(rule, f[n], args[n + 1])
      BY <1>11, <3>1
    <3> QED  BY <1>1, <2>2, <3>1, <3>2, LinuxArgTyped
  <2>3. 0..m \subseteq D
    <3> HIDE DEF D, m
    <3> QED  BY <1>1, <2>1, <2>2, Induction
  <2>4. f = [n \in 0..m |-> f[n]]
    BY <1>10
  <2> QED  BY <2>3, <2>4
<1> QED  BY <1>9, <1>11, <1>12
-----------------------------------------------------------------------------
(* The namespace of a kubectl command line.                                *)

\* The provers do not know that a string in quotes is one.
Text == STRING \cup {Nothing, "?", ".."}

LEMMA PartsAreText ==
    ASSUME NEW arg \in Words PROVE arg.parts \in Seq(Text) /\ arg.slashes \in Nat
<1>1. arg.parts \in Seq(STRING) /\ arg.slashes \in Nat
  BY DEF Words
<1>2. PICK parts : parts = arg.parts
  OBVIOUS
<1>3. parts \in Seq(STRING)
  BY <1>1, <1>2
<1>4. /\ parts \in [1..Len(parts) -> STRING] /\ Len(parts) \in Nat
  BY <1>3, LenProperties
<1>5. parts \in [1..Len(parts) -> Text]
  BY <1>4 DEF Text
<1> QED  BY <1>1, <1>2, <1>4, <1>5

KubectlState == [takes : BOOLEAN, all : BOOLEAN, namespace : Text]

KubectlStart == [takes |-> FALSE, all |-> FALSE, namespace |-> Nothing]

LEMMA NameTyped == ASSUME NEW arg \in Argument PROVE NameOf(arg) \in Text
<1>1. CASE arg.kind # "word" \/ arg.slashes > 0 \/ Len(arg.parts) > 1 \/ arg.parts = <<>>
  BY <1>1 DEF NameOf, Text
<1>2. CASE arg.kind = "word" /\ ~(Len(arg.parts) > 1) /\ arg.parts # <<>>
  <2>1. arg.parts \in Seq(Text)
    BY <1>2, Kinds, PartsAreText
  <2>2. 1 \in 1..Len(arg.parts)
    BY <1>2, <2>1, EmptySeq, LenProperties
  <2>3. arg.parts[1] \in Text
    BY <2>1, <2>2, ElementOfSeq
  <2> QED  BY <1>2, <2>1, <2>3 DEF NameOf, Text
<1> QED  BY <1>1, <1>2

LEMMA KubectlArgTyped ==
    ASSUME NEW acc \in KubectlState, NEW arg \in Argument
    PROVE  KubectlArg(acc, arg) \in KubectlState
<1>1. NameOf(arg) \in Text
  BY NameTyped
<1>2. arg.kind = "option" => arg.value \in Text
  BY Kinds DEF Options, Text
<1> QED  BY <1>1, <1>2 DEF KubectlArg, KubectlState

LEMMA KubectlLoop ==
    ASSUME NEW args \in Seq(Argument)
    PROVE  /\ KubectlNamespace(args) \in [0..Len(args) -> KubectlState]
           /\ KubectlNamespace(args)[0] = KubectlStart
           /\ \A n \in 1..Len(args) :
                KubectlNamespace(args)[n] = KubectlArg(KubectlNamespace(args)[n - 1], args[n])
<1> DEFINE m == Len(args)
           Is(g) == g = [n \in 0..m |-> IF n = 0 THEN KubectlStart
                                       ELSE KubectlArg(g[n - 1], args[n])]
           body == [q \in KubectlState \X (1..m) |-> KubectlArg(q[1], args[q[2]])]
<1>1. m \in Nat /\ \A n \in 1..m : args[n] \in Argument
  BY LenProperties, ElementOfSeq
<1>2. KubectlStart \in KubectlState
  BY DEF KubectlStart, KubectlState, Text
<1>3. body \in [KubectlState \X (1..m) -> KubectlState]
  <2>1. ASSUME NEW q \in KubectlState \X (1..m)
        PROVE  KubectlArg(q[1], args[q[2]]) \in KubectlState
    BY <1>1, KubectlArgTyped
  <2> QED  BY <2>1
<1>4. PICK k, start, step : k = m /\ start = KubectlStart /\ step = body
  OBVIOUS
<1>5. PICK g : IsLoop(g, KubectlState, k, start, step)
  <2>1. k \in Nat /\ start \in KubectlState /\ step \in [KubectlState \X (1..k) -> KubectlState]
    <3> HIDE DEF body, m
    <3> QED  BY <1>1, <1>2, <1>3, <1>4
  <2> QED  BY ONLY <2>1, LoopExists
<1>6. ASSUME NEW n \in 0..m
      PROVE  g[n] = IF n = 0 THEN KubectlStart ELSE KubectlArg(g[n - 1], args[n])
  <2>1. CASE n = 0
    BY <1>4, <1>5, <2>1 DEF IsLoop
  <2>2. CASE n # 0
    <3>1. n \in 1..k /\ n - 1 \in 0..k
      BY <1>1, <1>4, <2>2
    <3>2. g[n] = step[<<g[n - 1], n>>] /\ g[n - 1] \in KubectlState
      BY <1>5, <2>2, <3>1 DEF IsLoop
    <3>3. step[<<g[n - 1], n>>] = KubectlArg(g[n - 1], args[n])
      BY <1>4, <3>1, <3>2
    <3> QED  BY <2>2, <3>2, <3>3
  <2> QED  BY <2>1, <2>2
<1>7. Is(g)
  <2>1. g = [n \in 0..m |-> g[n]]
    BY <1>4, <1>5 DEF IsLoop
  <2> HIDE DEF m
  <2> QED  BY <1>6, <2>1
<1>8. KubectlNamespace(args) = CHOOSE f : Is(f)
  BY DEF KubectlNamespace, KubectlStart
<1>9. PICK f : f = KubectlNamespace(args)
  OBVIOUS
<1>10. Is(f)
  <2> HIDE DEF Is
  <2> QED  BY <1>7, <1>8, <1>9
<1>11. /\ f[0] = KubectlStart
       /\ \A n \in 1..m : f[n] = KubectlArg(f[n - 1], args[n])
  BY <1>1, <1>10
<1>12. f \in [0..m -> KubectlState]
  <2> DEFINE D == {n \in 0..m : f[n] \in KubectlState}
  <2>1. 0 \in D
    BY <1>1, <1>2, <1>11
  <2>2. ASSUME NEW n \in 0..(m - 1), n \in D PROVE n + 1 \in D
    <3>1. n + 1 \in 1..m /\ (n + 1) - 1 = n
      BY <1>1
    <3>2. f[n + 1] = KubectlArg(f[n], args[n + 1])
      BY <1>11, <3>1
    <3> QED  BY <1>1, <2>2, <3>1, <3>2, KubectlArgTyped
  <2>3. 0..m \subseteq D
    <3> HIDE DEF D, m
    <3> QED  BY <1>1, <2>1, <2>2, Induction
  <2>4. f = [n \in 0..m |-> f[n]]
    BY <1>10
  <2> QED  BY <2>3, <2>4
<1> QED  BY <1>9, <1>11, <1>12


\* A row of -n has a start.
LEMMA RowStarts ==
    ASSUME NEW args, NEW n \in Nat \ {0}, args[n] = NamespaceFlag
    PROVE  \E j \in 1..n : /\ \A k \in j..n : args[k] = NamespaceFlag
                           /\ j = 1 \/ args[j - 1] # NamespaceFlag
<1> DEFINE N == NamespaceFlag
           Row(j, k) == /\ \A l \in j..k : args[l] = N
                        /\ j = 1 \/ args[j - 1] # N
           Starts(k) == \E j \in 1..k : Row(j, k)
           D == {k \in 0..n : k = 0 \/ args[k] # N \/ Starts(k)}
<1>1. 0 \in D
  OBVIOUS
<1>2. ASSUME NEW k \in 0..(n - 1), k \in D PROVE k + 1 \in D
  <2>0. k \in Nat /\ k + 1 \in 1..n /\ k + 1 \in 0..n
    OBVIOUS
  <2>1. CASE args[k + 1] # N
    BY <2>0, <2>1
  <2>2. CASE args[k + 1] = N /\ (k = 0 \/ args[k] # N)
    <3>1. Row(k + 1, k + 1) /\ k + 1 \in 1..(k + 1)
      BY <2>0, <2>2
    <3>2. Starts(k + 1)
      <4> HIDE DEF Row
      <4> QED  BY <3>1
    <3> QED  BY <2>0, <3>2
  <2>3. CASE args[k + 1] = N /\ Starts(k)
    <3>1. PICK j \in 1..k : Row(j, k)
      BY <2>3
    <3>2. Row(j, k + 1) /\ j \in 1..(k + 1)
      BY <2>0, <2>3, <3>1
    <3>3. Starts(k + 1)
      <4> HIDE DEF Row
      <4> QED  BY <3>2
    <3> QED  BY <2>0, <3>3
  <2>4. k = 0 \/ args[k] # N \/ Starts(k)
    <3> HIDE DEF Starts
    <3> QED  BY <1>2
  <2> HIDE DEF D, Starts
  <2> QED  BY <2>1, <2>2, <2>3, <2>4
<1>3. n \in D
  <2>1. 0..n \subseteq D
    <3> HIDE DEF D
    <3> QED  BY <1>1, <1>2, Induction
  <2> HIDE DEF D
  <2> QED  BY <2>1
<1>4. Starts(n)
  <2> HIDE DEF Starts
  <2> QED  BY <1>3
<1> QED  BY <1>4

\* An argument is the value of the -n before it, unless that is a value itself.
LEMMA ValueStep ==
    ASSUME NEW args, NEW n \in Nat \ {0}
    PROVE  IsValue(args, n + 1) <=> args[n] = NamespaceFlag /\ ~IsValue(args, n)
<1> DEFINE N == NamespaceFlag
           Row(j, k) == /\ \A l \in j..k : args[l] = N
                        /\ j = 1 \/ args[j - 1] # N
<1>1. IsValue(args, n + 1) <=> \E j \in 1..n : Row(j, n) /\ (n + 1 - j) % 2 = 1
  <2>1. (n + 1) - 1 = n
    OBVIOUS
  <2> QED  BY <2>1 DEF IsValue
<1>2. IsValue(args, n) <=> \E j \in 1..(n - 1) : Row(j, n - 1) /\ (n - j) % 2 = 1
  BY DEF IsValue
<1>3. ASSUME IsValue(args, n + 1) PROVE args[n] = N /\ ~IsValue(args, n)
  <2>1. PICK j \in 1..n : Row(j, n) /\ (n + 1 - j) % 2 = 1
    <3> HIDE DEF Row
    <3> QED  BY <1>1, <1>3
  <2>2. args[n] = N
    BY <2>1
  <2>3. ASSUME NEW j2 \in 1..(n - 1), Row(j2, n - 1), (n - j2) % 2 = 1 PROVE FALSE
    <3>1. CASE j < j2
      <4>1. j2 - 1 \in j..n /\ j2 # 1
        BY <3>1
      <4> QED  BY <2>1, <2>3, <4>1
    <3>2. CASE j2 < j
      <4>1. j - 1 \in j2..(n - 1) /\ j # 1
        BY <3>2
      <4> QED  BY <2>1, <2>3, <4>1
    <3>3. CASE j = j2
      <4>1. PICK d : d = n - j
        OBVIOUS
      <4>2. d \in Nat /\ n + 1 - j = d + 1 /\ n - j2 = d
        BY <3>3, <4>1
      <4>3. d % 2 = 1 /\ (d + 1) % 2 = 1
        BY <2>1, <2>3, <4>2
      <4> QED  BY ONLY <4>2, <4>3
    <3> QED  BY <3>1, <3>2, <3>3
  <2> HIDE DEF Row
  <2> QED  BY <1>2, <2>2, <2>3
<1>4. ASSUME args[n] = N, ~IsValue(args, n) PROVE IsValue(args, n + 1)
  <2>1. PICK j \in 1..n : Row(j, n)
    BY <1>4, RowStarts
  <2>2. (n + 1 - j) % 2 = 1
    <3>1. PICK d : d = n - j
      OBVIOUS
    <3>2. d \in Nat /\ n + 1 - j = d + 1
      BY <3>1
    <3>3. CASE d = 0
      BY <3>2, <3>3
    <3>4. CASE d # 0
      <4>1. j \in 1..(n - 1) /\ Row(j, n - 1)
        BY <2>1, <3>1, <3>2, <3>4
      <4>2. (n - j) % 2 # 1
        <5> HIDE DEF Row
        <5> QED  BY <1>2, <1>4, <4>1
      <4>3. d % 2 # 1
        BY <3>1, <4>2
      <4>4. (d + 1) % 2 = 1
        BY ONLY <3>2, <4>3
      <4> QED  BY <3>2, <4>4
    <3> QED  BY <3>3, <3>4
  <2> HIDE DEF Row
  <2> QED  BY <1>1, <2>1, <2>2
<1> QED  BY <1>3, <1>4

\* What counts of a kubectl command line's first arguments.
Named(args, x) == \/ IsValue(args, x)
                  \/ args[x].kind = "option" /\ args[x].name = "--namespace="
NameAt(args, x) == IF IsValue(args, x) THEN NameOf(args[x]) ELSE args[x].value
AsksForAll(args, x) == args[x].kind = "option" /\ ~IsValue(args, x) /\ args[x].name = "-A"

KubectlRead(args, n, acc) ==
    /\ acc.takes <=> IsValue(args, n + 1)
    /\ acc.all <=> \E x \in 1..n : AsksForAll(args, x)
    /\ \/ acc.namespace = Nothing /\ \A x \in 1..n : ~Named(args, x)
       \/ \E l \in 1..n : /\ Named(args, l) /\ \A j \in 1..n : Named(args, j) => j <= l
                          /\ acc.namespace = NameAt(args, l)

LEMMA KubectlStep ==
    ASSUME NEW args, NEW n \in Nat \ {0}, args[n] \in Argument,
           NEW acc \in KubectlState, KubectlRead(args, n - 1, acc)
    PROVE  KubectlRead(args, n, KubectlArg(acc, args[n]))
<1>1. PICK arg, next : arg = args[n] /\ next = KubectlArg(acc, arg)
  OBVIOUS
<1>2. arg \in Argument /\ next \in KubectlState
  BY <1>1, KubectlArgTyped
<1>3. arg = NamespaceFlag <=> arg.kind = "option" /\ arg.name = "-n"
  BY <1>2, Kinds DEF Options, Option, NamespaceFlag
<1>4. acc.takes <=> IsValue(args, n)
  <2>1. (n - 1) + 1 = n
    OBVIOUS
  <2> QED  BY <2>1 DEF KubectlRead
<1>5. next.takes <=> ~acc.takes /\ arg.kind = "option" /\ arg.name = "-n"
  BY <1>1, <1>2 DEF KubectlArg, KubectlState
<1>6. next.takes <=> IsValue(args, n + 1)
  BY <1>1, <1>3, <1>4, <1>5, ValueStep
<1>7. next.all <=> acc.all \/ (~acc.takes /\ arg.kind = "option" /\ arg.name = "-A")
  BY <1>1, <1>2 DEF KubectlArg, KubectlState
<1>8. next.all <=> \E x \in 1..n : AsksForAll(args, x)
  <2>1. acc.all <=> \E x \in 1..(n - 1) : AsksForAll(args, x)
    BY DEF KubectlRead
  <2>2. \A x \in 1..n : x \in 1..(n - 1) \/ x = n
    OBVIOUS
  <2>3. n \in 1..n /\ 1..(n - 1) \subseteq 1..n
    OBVIOUS
  <2> QED  BY <1>1, <1>4, <1>7, <2>1, <2>2, <2>3 DEF AsksForAll
<1>9. Named(args, n) <=> acc.takes \/ (arg.kind = "option" /\ arg.name = "--namespace=")
  BY <1>1, <1>4 DEF Named
<1>10. next.namespace = IF Named(args, n) THEN NameAt(args, n) ELSE acc.namespace
  <2>1. CASE acc.takes
    BY <1>1, <1>2, <1>4, <1>9, <2>1 DEF KubectlArg, KubectlState, NameAt
  <2>2. CASE ~acc.takes
    BY <1>1, <1>2, <1>4, <1>9, <2>2 DEF KubectlArg, KubectlState, NameAt
  <2> QED  BY <2>1, <2>2
<1>11. \/ next.namespace = Nothing /\ \A x \in 1..n : ~Named(args, x)
       \/ \E l \in 1..n : /\ Named(args, l) /\ \A j \in 1..n : Named(args, j) => j <= l
                          /\ next.namespace = NameAt(args, l)
  <2>1. CASE Named(args, n)
    <3>1. n \in 1..n /\ \A j \in 1..n : j <= n
      OBVIOUS
    <3> QED  BY <1>10, <2>1, <3>1
  <2>2. CASE ~Named(args, n)
    <3>1. \A x \in 1..n : x \in 1..(n - 1) \/ x = n
      OBVIOUS
    <3>2. 1..(n - 1) \subseteq 1..n
      OBVIOUS
    <3>3. next.namespace = acc.namespace
      BY <1>10, <2>2
    <3>4. CASE acc.namespace = Nothing /\ \A x \in 1..(n - 1) : ~Named(args, x)
      BY <2>2, <3>1, <3>3, <3>4
    <3>5. CASE \E l \in 1..(n - 1) : /\ Named(args, l) /\ \A j \in 1..(n - 1) : Named(args, j) => j <= l
                                     /\ acc.namespace = NameAt(args, l)
      BY <2>2, <3>1, <3>2, <3>3, <3>5
    <3> QED  BY <3>4, <3>5 DEF KubectlRead
  <2> QED  BY <2>1, <2>2
<1> QED  BY <1>1, <1>6, <1>8, <1>11 DEF KubectlRead

LEMMA KubectlReads ==
    ASSUME NEW args \in Seq(Argument)
    PROVE  KubectlRead(args, Len(args), KubectlNamespace(args)[Len(args)])
<1>1. PICK m, g : m = Len(args) /\ g = KubectlNamespace(args)
  OBVIOUS
<1>2. /\ m \in Nat /\ g \in [0..m -> KubectlState] /\ g[0] = KubectlStart
      /\ \A n \in 1..m : g[n] = KubectlArg(g[n - 1], args[n]) /\ args[n] \in Argument
  BY <1>1, KubectlLoop, LenProperties, ElementOfSeq
<1> DEFINE D == {n \in 0..m : KubectlRead(args, n, g[n])}
<1>3. 0 \in D
  <2>1. KubectlStart.takes = FALSE /\ KubectlStart.all = FALSE /\ KubectlStart.namespace = Nothing
    BY DEF KubectlStart
  <2>2. 1..0 = {} /\ 0 + 1 = 1
    OBVIOUS
  <2>3. ~IsValue(args, 1)
    BY DEF IsValue
  <2>4. KubectlRead(args, 0, g[0])
    BY <1>2, <2>1, <2>2, <2>3 DEF KubectlRead
  <2> QED  BY <1>2, <2>4
<1>4. ASSUME NEW n \in 0..(m - 1), n \in D PROVE n + 1 \in D
  <2>1. n + 1 \in 1..m /\ n + 1 \in 0..m /\ (n + 1) - 1 = n
    BY <1>2
  <2>2. PICK k, acc : k = n + 1 /\ acc = g[n]
    OBVIOUS
  <2>3. k \in Nat \ {0} /\ args[k] \in Argument /\ acc \in KubectlState /\ k - 1 = n
    BY <1>2, <2>1, <2>2
  <2>4. KubectlRead(args, k - 1, acc)
    BY <1>4, <2>2, <2>3
  <2>5. KubectlRead(args, k, KubectlArg(acc, args[k]))
    BY ONLY <2>3, <2>4, KubectlStep
  <2>6. g[k] = KubectlArg(acc, args[k])
    BY <1>2, <2>1, <2>2
  <2> QED  BY <2>1, <2>2, <2>5, <2>6
<1>5. m \in D
  <2>1. 0..m \subseteq D
    <3> HIDE DEF D
    <3> QED  BY <1>2, <1>3, <1>4, Induction
  <2> HIDE DEF D
  <2> QED  BY <1>2, <2>1
<1> QED  BY <1>1, <1>5

LEMMA NamespaceAgrees ==
    ASSUME NEW namespaces, NEW line \in Seq(Argument), NEW parsed,
           parsed = KubectlNamespace(line)[Len(line)]
    PROVE  ~parsed.all /\ parsed.namespace \in namespaces \cup {Nothing}
              <=> NamespaceGranted(namespaces, line)
<1>1. KubectlRead(line, Len(line), parsed)
  BY KubectlReads
<1>2. DOMAIN line = 1..Len(line) /\ Len(line) \in Nat
  BY LenProperties
<1> DEFINE options == {x \in DOMAIN line : line[x].kind = "option" /\ ~IsValue(line, x)}
           values  == {x \in DOMAIN line : IsValue(line, x)}
           joined  == {x \in options : line[x].name = "--namespace="}
           last    == CHOOSE x \in values \cup joined : \A j \in values \cup joined : j <= x
           named   == IF last \in values THEN NameOf(line[last]) ELSE line[last].value
<1>3. parsed.all <=> \E x \in options : line[x].name = "-A"
  BY <1>1, <1>2 DEF KubectlRead, AsksForAll
<1>4. values \cup joined = {x \in 1..Len(line) : Named(line, x)}
  BY <1>2 DEF Named
<1>5. CASE values \cup joined = {}
  <2>1. parsed.namespace = Nothing
    BY <1>1, <1>4, <1>5 DEF KubectlRead
  <2> QED  BY <1>3, <1>5, <2>1 DEF NamespaceGranted
<1>6. CASE values \cup joined # {}
  <2>1. PICK l \in 1..Len(line) :
          /\ Named(line, l) /\ \A j \in 1..Len(line) : Named(line, j) => j <= l
          /\ parsed.namespace = NameAt(line, l)
    BY <1>1, <1>4, <1>6 DEF KubectlRead
  <2>2. l \in values \cup joined /\ \A j \in values \cup joined : j <= l
    BY <1>4, <2>1
  <2>3. last = l
    <3>1. \A x \in values \cup joined : x \in Int
      BY <1>4
    <3>2. last \in values \cup joined /\ \A j \in values \cup joined : j <= last
      BY <2>2
    <3> HIDE DEF last, values, joined
    <3>3. last <= l /\ l <= last /\ last \in Int /\ l \in Int
      BY <2>2, <3>1, <3>2
    <3> QED  BY <3>3
  <2>4. parsed.namespace = named
    <3>1. l \in values <=> IsValue(line, l)
      BY <1>2
    <3> HIDE DEF last, values
    <3> QED  BY <2>1, <2>3, <3>1 DEF NameAt
  <2>5. NamespaceGranted(namespaces, line)
           <=> /\ \A x \in options : line[x].name # "-A"
               /\ values \cup joined # {} => named \in namespaces \cup {Nothing}
    BY DEF NamespaceGranted
  <2> HIDE DEF named, options, values, joined
  <2> QED  BY <1>3, <1>6, <2>4, <2>5
<1> QED  BY <1>5, <1>6

LEMMA KubectlAgrees ==
    ASSUME NEW rule, NEW args \in Seq(Argument)
    PROVE  KubectlMatches(rule, args) <=> KubectlGranted(rule, args)
<1>1. PICK line, parsed, namespaces :
         /\ line = SubSeq(args, 3, Len(args)) /\ parsed = KubectlNamespace(line)[Len(line)]
         /\ namespaces = rule.namespaces
  OBVIOUS
<1>2. Len(args) \in Nat /\ \A k \in 3..Len(args) : args[k] \in Argument
  BY LenProperties, ElementOfSeq
<1>3. line \in Seq(Argument)
  <2>1. PICK n : n = Len(args)
    OBVIOUS
  <2>2. n \in Nat /\ \A k \in 3..n : args[k] \in Argument
    BY <1>2, <2>1
  <2>3. SubSeq(args, 3, n) \in Seq(Argument)
    BY <2>2, SubSeqProperties
  <2> QED  BY <1>1, <2>1, <2>3
<1>4. ~parsed.all /\ parsed.namespace \in namespaces \cup {Nothing}
         <=> NamespaceGranted(namespaces, line)
  BY <1>1, <1>3, NamespaceAgrees
<1>5. Len(args) >= 2 <=> Len(args) > 1
  BY <1>2
<1> QED  BY <1>1, <1>4, <1>5 DEF KubectlMatches, KubectlGranted
-----------------------------------------------------------------------------
(* What the Linux loop has collected.                                      *)

IsOption(args, x) == args[x].kind = "option" /\ ~ \E j \in 1..(x - 1) : args[j] = Dashes
IsPath(args, x)   == args[x] # Dashes /\ ~IsOption(args, x)
PathsUpTo(args, n) == {x \in 1..n : IsPath(args, x)}
InOrder(position, args, n) ==
    position = "beforePaths" => \A x, j \in 1..n : IsOption(args, x) /\ IsPath(args, j) => x < j

LinuxRead(rule, args, n, acc) ==
    /\ acc.ended <=> \E j \in 1..n : args[j] = Dashes
    /\ acc.ok <=> /\ \A x \in 1..n : IsOption(args, x) => args[x] \in rule.flags
                  /\ InOrder(rule.position, args, n)
    /\ Len(acc.paths) = Cardinality(PathsUpTo(args, n))
    /\ \A k \in 1..Len(acc.paths) : \E x \in PathsUpTo(args, n) : acc.paths[k] = args[x]
    /\ \A x \in PathsUpTo(args, n) : \E k \in 1..Len(acc.paths) : acc.paths[k] = args[x]

LEMMA PathsGrow ==
    ASSUME NEW args, NEW n \in Nat \ {0}
    PROVE  /\ IsFiniteSet(PathsUpTo(args, n)) /\ Cardinality(PathsUpTo(args, n)) \in Nat
           /\ PathsUpTo(args, n) = PathsUpTo(args, n - 1) \cup (IF IsPath(args, n) THEN {n} ELSE {})
           /\ Cardinality(PathsUpTo(args, n))
                 = Cardinality(PathsUpTo(args, n - 1)) + (IF IsPath(args, n) THEN 1 ELSE 0)
           /\ Cardinality(PathsUpTo(args, n - 1)) = 0 <=> PathsUpTo(args, n - 1) = {}
<1>1. /\ IsFiniteSet(1..n) /\ IsFiniteSet(1..(n - 1))
      /\ PathsUpTo(args, n) \subseteq 1..n /\ PathsUpTo(args, n - 1) \subseteq 1..(n - 1)
  BY FS_Interval DEF PathsUpTo
<1>2. IsFiniteSet(PathsUpTo(args, n)) /\ IsFiniteSet(PathsUpTo(args, n - 1))
  BY <1>1, FS_Subset
<1>3. PathsUpTo(args, n) = PathsUpTo(args, n - 1) \cup (IF IsPath(args, n) THEN {n} ELSE {})
  <2>1. 1..n = (1..(n - 1)) \cup {n}
    OBVIOUS
  <2> QED  BY <2>1 DEF PathsUpTo
<1>4. n \notin PathsUpTo(args, n - 1)
  BY <1>1
<1>5. PICK before : before = PathsUpTo(args, n - 1)
  OBVIOUS
<1>6. Cardinality(before \cup {n}) = Cardinality(before) + 1
  BY <1>2, <1>4, <1>5, FS_AddElement
<1>7. Cardinality(PathsUpTo(args, n)) \in Nat /\ Cardinality(before) \in Nat
  BY <1>2, <1>5, FS_CardinalityType
<1>8. Cardinality(before) = 0 <=> before = {}
  BY <1>2, <1>5, FS_EmptySet
<1>9. Cardinality(PathsUpTo(args, n)) = Cardinality(before) + (IF IsPath(args, n) THEN 1 ELSE 0)
  <2>1. CASE IsPath(args, n)
    BY <1>3, <1>5, <1>6, <2>1
  <2>2. CASE ~IsPath(args, n)
    <3>1. PathsUpTo(args, n) = before
      BY <1>3, <1>5, <2>2
    <3> QED  BY <1>7, <2>2, <3>1
  <2> QED  BY <2>1, <2>2
<1> QED  BY <1>2, <1>3, <1>5, <1>7, <1>8, <1>9

LEMMA LinuxStep ==
    ASSUME NEW rule, NEW args, NEW n \in Nat \ {0}, args[n] \in Argument,
           NEW acc \in LinuxState, LinuxRead(rule, args, n - 1, acc)
    PROVE  LinuxRead(rule, args, n, LinuxArg(rule, acc, args[n]))
<1>1. PICK arg, next, before, upto :
         /\ arg = args[n] /\ next = LinuxArg(rule, acc, arg)
         /\ before = PathsUpTo(args, n - 1) /\ upto = PathsUpTo(args, n)
  OBVIOUS
<1>2. arg \in Argument /\ next \in LinuxState
  BY <1>1, LinuxArgTyped
<1>3. \A x \in 1..n : x \in 1..(n - 1) \/ x = n
  OBVIOUS
<1>4. n \in 1..n /\ \A x \in 1..(n - 1) : x \in 1..n /\ x < n
  OBVIOUS
<1>5. /\ acc.ended <=> \E j \in 1..(n - 1) : args[j] = Dashes
      /\ acc.ok <=> /\ \A x \in 1..(n - 1) : IsOption(args, x) => args[x] \in rule.flags
                    /\ InOrder(rule.position, args, n - 1)
      /\ Len(acc.paths) = Cardinality(before)
      /\ \A k \in 1..Len(acc.paths) : \E x \in before : acc.paths[k] = args[x]
      /\ \A x \in before : \E k \in 1..Len(acc.paths) : acc.paths[k] = args[x]
  BY <1>1 DEF LinuxRead
<1>6. /\ upto = before \cup (IF IsPath(args, n) THEN {n} ELSE {})
      /\ Cardinality(upto) = Cardinality(before) + (IF IsPath(args, n) THEN 1 ELSE 0)
      /\ Cardinality(before) = 0 <=> before = {}
  BY <1>1, PathsGrow
<1>7. acc.paths \in Seq(Argument) /\ Len(acc.paths) \in Nat
  BY LenProperties DEF LinuxState
<1>8. acc.paths = <<>> <=> before = {}
  BY <1>5, <1>6, <1>7, EmptySeq
<1>9. IsOption(args, n) <=> arg.kind = "option" /\ ~acc.ended
  BY <1>1, <1>5 DEF IsOption
<1>10. Dashes.kind = "dashes"
  BY DEF Dashes
<1>11. CASE arg = Dashes
  <2>1. next.ended = TRUE /\ next.ok = acc.ok /\ next.paths = acc.paths
    BY <1>1, <1>11 DEF LinuxArg, LinuxState
  <2>2. ~IsOption(args, n) /\ ~IsPath(args, n)
    BY <1>1, <1>9, <1>10, <1>11 DEF IsPath
  <2>3. upto = before /\ Cardinality(upto) = Cardinality(before)
    BY <1>6, <2>2, <1>5, <1>7
  <2>4. InOrder(rule.position, args, n) <=> InOrder(rule.position, args, n - 1)
    BY <1>3, <1>4, <2>2 DEF InOrder
  <2>5. next.ok <=> /\ \A x \in 1..n : IsOption(args, x) => args[x] \in rule.flags
                    /\ InOrder(rule.position, args, n)
    BY <1>3, <1>4, <1>5, <2>1, <2>2, <2>4
  <2>6. next.ended <=> \E j \in 1..n : args[j] = Dashes
    BY <1>1, <1>4, <1>11, <2>1
  <2> QED  BY <1>1, <1>5, <2>1, <2>3, <2>5, <2>6 DEF LinuxRead
<1>12. CASE arg # Dashes
  <2>1. next.ended = acc.ended
    BY <1>1, <1>12 DEF LinuxArg, LinuxState
  <2>2. next.ended <=> \E j \in 1..n : args[j] = Dashes
    BY <1>1, <1>3, <1>4, <1>5, <1>12, <2>1
  <2>3. CASE IsOption(args, n)
    <3>1. /\ next.paths = acc.paths
          /\ next.ok <=> /\ acc.ok /\ arg \in rule.flags
                         /\ rule.position = "beforePaths" => acc.paths = <<>>
      BY <1>1, <1>9, <1>12, <2>3 DEF LinuxArg, LinuxState
    <3>2. ~IsPath(args, n)
      BY <2>3 DEF IsPath
    <3>3. upto = before /\ Cardinality(upto) = Cardinality(before)
      BY <1>6, <3>2, <1>5, <1>7
    <3>4. InOrder(rule.position, args, n)
             <=> /\ InOrder(rule.position, args, n - 1)
                 /\ rule.position = "beforePaths" => before = {}
      <4>1. ASSUME InOrder(rule.position, args, n), rule.position = "beforePaths", NEW j \in before
            PROVE  FALSE
        <5>1. j \in 1..(n - 1) /\ IsPath(args, j)
          BY <1>1 DEF PathsUpTo
        <5>2. n < j
          BY <1>4, <2>3, <4>1, <5>1 DEF InOrder
        <5> QED  BY <5>1, <5>2
      <4>2. InOrder(rule.position, args, n) => InOrder(rule.position, args, n - 1)
        BY <1>4 DEF InOrder
      <4>3. ASSUME InOrder(rule.position, args, n - 1), rule.position = "beforePaths" => before = {}
            PROVE  InOrder(rule.position, args, n)
        <5>1. rule.position = "beforePaths" => \A j \in 1..n : ~IsPath(args, j)
          BY <1>1, <1>3, <3>2, <4>3 DEF PathsUpTo
        <5> QED  BY <5>1 DEF InOrder
      <4> QED  BY <4>1, <4>2, <4>3
    <3>5. next.ok <=> /\ \A x \in 1..n : IsOption(args, x) => args[x] \in rule.flags
                      /\ InOrder(rule.position, args, n)
      BY <1>1, <1>3, <1>4, <1>5, <1>8, <2>3, <3>1, <3>4
    <3> QED  BY <1>1, <1>5, <2>2, <3>1, <3>3, <3>5 DEF LinuxRead
  <2>4. CASE ~IsOption(args, n)
    <3>1. next.paths = Append(acc.paths, arg) /\ next.ok = acc.ok
      BY <1>1, <1>9, <1>12, <2>4 DEF LinuxArg, LinuxState
    <3>2. IsPath(args, n)
      BY <1>1, <1>12, <2>4 DEF IsPath
    <3>3. upto = before \cup {n} /\ Cardinality(upto) = Cardinality(before) + 1
      BY <1>6, <3>2
    <3>4. InOrder(rule.position, args, n) <=> InOrder(rule.position, args, n - 1)
      BY <1>3, <1>4, <2>4 DEF InOrder
    <3>5. next.ok <=> /\ \A x \in 1..n : IsOption(args, x) => args[x] \in rule.flags
                      /\ InOrder(rule.position, args, n)
      BY <1>3, <1>4, <1>5, <2>4, <3>1, <3>4
    <3>6. PICK len : len = Len(acc.paths)
      OBVIOUS
    <3>7. /\ Len(next.paths) = len + 1 /\ len \in Nat
          /\ \A k \in 1..len : next.paths[k] = acc.paths[k]
          /\ next.paths[len + 1] = args[n]
      BY <1>1, <1>2, <1>7, <3>1, <3>6, AppendProperties
    <3>8. Len(next.paths) = Cardinality(upto)
      BY <1>5, <3>3, <3>6, <3>7
    <3>9. \A k \in 1..(len + 1) : \E x \in upto : next.paths[k] = args[x]
      <4>1. \A k \in 1..(len + 1) : k \in 1..len \/ k = len + 1
        BY <3>7
      <4>2. \A k \in 1..len : \E x \in before : next.paths[k] = args[x]
        BY <1>5, <3>6, <3>7
      <4>3. before \subseteq upto /\ n \in upto
        BY <3>3
      <4> QED  BY <3>7, <4>1, <4>2, <4>3
    <3>10. \A x \in upto : \E k \in 1..(len + 1) : next.paths[k] = args[x]
      <4>1. len + 1 \in 1..(len + 1) /\ \A k \in 1..len : k \in 1..(len + 1)
        BY <3>7
      <4> QED  BY <1>5, <3>3, <3>6, <3>7, <4>1
    <3>11. /\ \A k \in 1..Len(next.paths) : \E x \in upto : next.paths[k] = args[x]
           /\ \A x \in upto : \E k \in 1..Len(next.paths) : next.paths[k] = args[x]
      BY <3>7, <3>9, <3>10
    <3> QED  BY <1>1, <2>2, <3>5, <3>8, <3>11 DEF LinuxRead
  <2> QED  BY <2>3, <2>4
<1> QED  BY <1>11, <1>12

LEMMA LinuxReads ==
    ASSUME NEW rule, NEW args \in Seq(Argument)
    PROVE  /\ LinuxRead(rule, args, Len(args), LinuxArgs(rule, args)[Len(args)])
           /\ LinuxArgs(rule, args)[Len(args)] \in LinuxState
<1>1. PICK m, g : m = Len(args) /\ g = LinuxArgs(rule, args)
  OBVIOUS
<1>2. /\ m \in Nat /\ g \in [0..m -> LinuxState] /\ g[0] = LinuxStart
      /\ \A n \in 1..m : g[n] = LinuxArg(rule, g[n - 1], args[n]) /\ args[n] \in Argument
  BY <1>1, LinuxLoop, LenProperties, ElementOfSeq
<1> DEFINE D == {n \in 0..m : LinuxRead(rule, args, n, g[n])}
<1>3. 0 \in D
  <2>1. g[0].ended = FALSE /\ g[0].ok = TRUE /\ g[0].paths = <<>>
    BY <1>2 DEF LinuxStart
  <2>2. 1..0 = {} /\ PathsUpTo(args, 0) = {} /\ Len(<<>>) = 0
    BY DEF PathsUpTo
  <2>3. Cardinality({}) = 0
    BY FS_EmptySet
  <2>4. LinuxRead(rule, args, 0, g[0])
    BY <2>1, <2>2, <2>3 DEF LinuxRead, InOrder
  <2> QED  BY <1>2, <2>4
<1>4. ASSUME NEW n \in 0..(m - 1), n \in D PROVE n + 1 \in D
  <2>1. n + 1 \in 1..m /\ n + 1 \in 0..m /\ (n + 1) - 1 = n
    BY <1>2
  <2>2. PICK k, acc : k = n + 1 /\ acc = g[n]
    OBVIOUS
  <2>3. k \in Nat \ {0} /\ args[k] \in Argument /\ acc \in LinuxState /\ k - 1 = n
    BY <1>2, <2>1, <2>2
  <2>4. LinuxRead(rule, args, k - 1, acc)
    BY <1>4, <2>2, <2>3
  <2>5. LinuxRead(rule, args, k, LinuxArg(rule, acc, args[k]))
    BY ONLY <2>3, <2>4, LinuxStep
  <2>6. g[k] = LinuxArg(rule, acc, args[k])
    BY <1>2, <2>1, <2>2
  <2> QED  BY <2>1, <2>2, <2>5, <2>6
<1>5. m \in D
  <2>1. 0..m \subseteq D
    <3> HIDE DEF D
    <3> QED  BY <1>2, <1>3, <1>4, Induction
  <2> HIDE DEF D
  <2> QED  BY <1>2, <2>1
<1>6. g[m] \in LinuxState
  BY <1>2
<1> QED  BY <1>1, <1>5, <1>6
-----------------------------------------------------------------------------
(* Normal paths.                                                           *)

Path == Seq(Text)

LEMMA FrontTyped ==
    ASSUME NEW comps \in Seq(Text), comps # <<>>
    PROVE  /\ Front(comps) \in Seq(Text) /\ Len(Front(comps)) = Len(comps) - 1
           /\ \A n \in 1..(Len(comps) - 1) : Front(comps)[n] = comps[n]
<1>1. Len(comps) \in Nat \ {0}
  BY EmptySeq, LenProperties
<1>2. \A n \in 1..Len(comps) : comps[n] \in Text
  BY ElementOfSeq
<1>3. PICK last : last = Len(comps) - 1
  OBVIOUS
<1>4. last \in Nat /\ \A n \in 1..last : comps[n] \in Text
  BY <1>1, <1>2, <1>3
<1>5. /\ SubSeq(comps, 1, last) \in Seq(Text)
      /\ Len(SubSeq(comps, 1, last)) = IF 1 <= last THEN last - 1 + 1 ELSE 0
      /\ \A n \in 1..(last - 1 + 1) : SubSeq(comps, 1, last)[n] = comps[1 + n - 1]
  BY <1>4, SubSeqProperties
<1>6. Front(comps) = SubSeq(comps, 1, last)
  BY <1>3 DEF Front
<1>7. Len(Front(comps)) = last
  BY <1>4, <1>5, <1>6
<1>8. \A n \in 1..last : Front(comps)[n] = comps[n]
  BY <1>4, <1>5, <1>6
<1> QED  BY <1>3, <1>5, <1>6, <1>7, <1>8

LEMMA ComponentTyped ==
    ASSUME NEW slashes \in Nat, NEW comps \in Path, NEW c \in Text
    PROVE  Component(slashes, comps, c) \in Path
<1> USE DEF Path
<1>1. Append(comps, c) \in Seq(Text) /\ Append(comps, "..") \in Seq(Text)
  BY AppendProperties DEF Text
<1>2. comps # <<>> => Front(comps) \in Seq(Text)
  BY FrontTyped
<1> QED  BY <1>1, <1>2 DEF Component, Climb, Path

LEMMA ComponentsLoop ==
    ASSUME NEW slashes \in Nat, NEW parts \in Seq(Text)
    PROVE  /\ Components(slashes, parts) \in [0..Len(parts) -> Path]
           /\ Components(slashes, parts)[0] = <<>>
           /\ \A n \in 1..Len(parts) :
                Components(slashes, parts)[n] = Component(slashes, Components(slashes, parts)[n - 1], parts[n])
<1> DEFINE m == Len(parts)
           Is(g) == g = [n \in 0..m |-> IF n = 0 THEN <<>>
                                       ELSE Component(slashes, g[n - 1], parts[n])]
           body == [q \in Path \X (1..m) |-> Component(slashes, q[1], parts[q[2]])]
<1>1. m \in Nat /\ \A n \in 1..m : parts[n] \in Text
  BY LenProperties, ElementOfSeq
<1>2. <<>> \in Path
  BY EmptySeq DEF Path
<1>3. body \in [Path \X (1..m) -> Path]
  <2>1. ASSUME NEW q \in Path \X (1..m)
        PROVE  Component(slashes, q[1], parts[q[2]]) \in Path
    BY <1>1, ComponentTyped
  <2> QED  BY <2>1
<1>4. PICK k, start, step : k = m /\ start = <<>> /\ step = body
  OBVIOUS
<1>5. PICK g : IsLoop(g, Path, k, start, step)
  <2>1. k \in Nat /\ start \in Path /\ step \in [Path \X (1..k) -> Path]
    <3> HIDE DEF body, m
    <3> QED  BY <1>1, <1>2, <1>3, <1>4
  <2> QED  BY ONLY <2>1, LoopExists
<1>6. ASSUME NEW n \in 0..m
      PROVE  g[n] = IF n = 0 THEN <<>> ELSE Component(slashes, g[n - 1], parts[n])
  <2>1. CASE n = 0
    BY <1>4, <1>5, <2>1 DEF IsLoop
  <2>2. CASE n # 0
    <3>1. n \in 1..k /\ n - 1 \in 0..k
      BY <1>1, <1>4, <2>2
    <3>2. g[n] = step[<<g[n - 1], n>>] /\ g[n - 1] \in Path
      BY <1>5, <2>2, <3>1 DEF IsLoop
    <3>3. step[<<g[n - 1], n>>] = Component(slashes, g[n - 1], parts[n])
      BY <1>4, <3>1, <3>2
    <3> QED  BY <2>2, <3>2, <3>3
  <2> QED  BY <2>1, <2>2
<1>7. Is(g)
  <2>1. g = [n \in 0..m |-> g[n]]
    BY <1>4, <1>5 DEF IsLoop
  <2> HIDE DEF m
  <2> QED  BY <1>6, <2>1
<1>8. Components(slashes, parts) = CHOOSE f : Is(f)
  BY DEF Components
<1>9. PICK f : f = Components(slashes, parts)
  OBVIOUS
<1>10. Is(f)
  <2> HIDE DEF Is
  <2> QED  BY <1>7, <1>8, <1>9
<1>11. /\ f[0] = <<>>
       /\ \A n \in 1..m : f[n] = Component(slashes, f[n - 1], parts[n])
  BY <1>1, <1>10
<1>12. f \in [0..m -> Path]
  <2> DEFINE D == {n \in 0..m : f[n] \in Path}
  <2>1. 0 \in D
    BY <1>1, <1>2, <1>11
  <2>2. ASSUME NEW n \in 0..(m - 1), n \in D PROVE n + 1 \in D
    <3>1. n + 1 \in 1..m /\ (n + 1) - 1 = n
      BY <1>1
    <3>2. f[n + 1] = Component(slashes, f[n], parts[n + 1])
      BY <1>11, <3>1
    <3>3. f[n] \in Path /\ parts[n + 1] \in Text
      BY <1>1, <2>2, <3>1
    <3>4. Component(slashes, f[n], parts[n + 1]) \in Path
      BY <3>3, ComponentTyped
    <3> QED  BY <1>1, <3>2, <3>4
  <2>3. 0..m \subseteq D
    <3> HIDE DEF D, m
    <3> QED  BY <1>1, <2>1, <2>2, Induction
  <2>4. f = [n \in 0..m |-> f[n]]
    BY <1>10
  <2> QED  BY <2>3, <2>4
<1> QED  BY <1>9, <1>11, <1>12

\* Counting one component more.
LEMMA CountUp ==
    ASSUME NEW path, NEW n \in Nat \ {0}, NEW x \in 1..n
    PROVE  /\ Ups(path, x, n - 1) \in Nat /\ Downs(path, x, n - 1) \in Nat
           /\ Ups(path, x, n) = Ups(path, x, n - 1) + (IF path.parts[n] = ".." THEN 1 ELSE 0)
           /\ Downs(path, x, n) = Downs(path, x, n - 1) + (IF IsName(path.parts[n]) THEN 1 ELSE 0)
<1> DEFINE U(j) == {k \in x..j : path.parts[k] = ".."}
           D(j) == {k \in x..j : IsName(path.parts[k])}
<1>1. x..n = (x..(n - 1)) \cup {n} /\ n \notin x..(n - 1)
  OBVIOUS
<1>2. IsFiniteSet(x..(n - 1))
  BY FS_Interval
<1>3. PICK u, d, u2, d2 : u = U(n - 1) /\ d = D(n - 1) /\ u2 = U(n) /\ d2 = D(n)
  OBVIOUS
<1>4. u \subseteq x..(n - 1) /\ d \subseteq x..(n - 1)
  BY <1>3
<1>5. IsFiniteSet(u) /\ IsFiniteSet(d) /\ n \notin u /\ n \notin d
  BY <1>1, <1>2, <1>4, FS_Subset
<1>6. /\ u2 = IF path.parts[n] = ".." THEN u \cup {n} ELSE u
      /\ d2 = IF IsName(path.parts[n]) THEN d \cup {n} ELSE d
  BY <1>1, <1>3
<1>7. /\ Cardinality(u) \in Nat /\ Cardinality(d) \in Nat
      /\ Cardinality(u \cup {n}) = Cardinality(u) + 1
      /\ Cardinality(d \cup {n}) = Cardinality(d) + 1
  BY <1>5, FS_AddElement, FS_CardinalityType
<1>8. /\ Ups(path, x, n - 1) = Cardinality(u) /\ Ups(path, x, n) = Cardinality(u2)
      /\ Downs(path, x, n - 1) = Cardinality(d) /\ Downs(path, x, n) = Cardinality(d2)
  BY <1>3 DEF Ups, Downs
<1>9. Cardinality(u2) = Cardinality(u) + (IF path.parts[n] = ".." THEN 1 ELSE 0)
  BY <1>6, <1>7
<1>10. Cardinality(d2) = Cardinality(d) + (IF IsName(path.parts[n]) THEN 1 ELSE 0)
  BY <1>6, <1>7
<1> QED  BY <1>7, <1>8, <1>9, <1>10

LEMMA CountNone ==
    ASSUME NEW path, NEW n \in Nat
    PROVE  Ups(path, n + 1, n) = 0 /\ Downs(path, n + 1, n) = 0
<1>1. (n + 1)..n = {}
  OBVIOUS
<1>2. \A k \in (n + 1)..n : FALSE
  BY <1>1
<1>3. {k \in (n + 1)..n : path.parts[k] = ".."} = {} /\ {k \in (n + 1)..n : IsName(path.parts[k])} = {}
  BY <1>2
<1> QED  BY <1>3, FS_EmptySet DEF Ups, Downs

\* Of the first n components the ones that stay are at the positions idx, in order.
StaysTo(path, x, n) == /\ IsName(path.parts[x])
                       /\ \A j \in x..n : Ups(path, x + 1, j) <= Downs(path, x + 1, j)

AboveTo(path, n, above) ==
    /\ \A j \in 1..n : Ups(path, 1, j) <= Downs(path, 1, j) + above
    /\ above > 0 => \E j \in 1..n : Ups(path, 1, j) = Downs(path, 1, j) + above

Positions(path, n, idx, r) ==
    /\ r \in Nat /\ idx \in [1..r -> 1..n]
    /\ \A p, q \in 1..r : p < q => idx[p] < idx[q]
    /\ \A x \in 1..n : StaysTo(path, x, n) <=> \E q \in 1..r : idx[q] = x
    /\ \A q \in 1..r : Downs(path, idx[q] + 1, n) = Ups(path, idx[q] + 1, n) + (r - q)

Excess(path, n, above, r) ==
    /\ above \in 0..n
    /\ path.slashes > 0 => above = 0
    /\ path.slashes = 0 => /\ Downs(path, 1, n) + above = Ups(path, 1, n) + r
                           /\ AboveTo(path, n, above)

Content(path, comps, above, idx, r) ==
    /\ Len(comps) = above + r
    /\ \A q \in 1..above : comps[q] = ".."
    /\ \A q \in 1..r : comps[above + q] = path.parts[idx[q]]

PathRead(path, n, comps) ==
    \E above, idx, r : /\ Positions(path, n, idx, r) /\ Excess(path, n, above, r)
                       /\ Content(path, comps, above, idx, r)

\* What stays among n components, from what stays among n - 1.
LEMMA StaysStep ==
    ASSUME NEW path, NEW n \in Nat \ {0}
    PROVE  /\ StaysTo(path, n, n) <=> IsName(path.parts[n])
           /\ \A x \in 1..(n - 1) :
                StaysTo(path, x, n) <=> /\ StaysTo(path, x, n - 1)
                                        /\ Ups(path, x + 1, n) <= Downs(path, x + 1, n)
<1>1. \A j \in n..n : j = n
  OBVIOUS
<1>2. Ups(path, n + 1, n) = 0 /\ Downs(path, n + 1, n) = 0
  BY CountNone
<1>3. StaysTo(path, n, n) <=> IsName(path.parts[n])
  BY <1>1, <1>2 DEF StaysTo
<1>4. ASSUME NEW x \in 1..(n - 1)
      PROVE  StaysTo(path, x, n) <=> /\ StaysTo(path, x, n - 1)
                                     /\ Ups(path, x + 1, n) <= Downs(path, x + 1, n)
  <2>1. x..n = (x..(n - 1)) \cup {n}
    OBVIOUS
  <2> QED  BY <2>1 DEF StaysTo
<1> QED  BY <1>3, <1>4

\* The three kinds of component.
LEMMA DotKeeps ==
    ASSUME NEW path, NEW n \in Nat \ {0}, NEW comps, PathRead(path, n - 1, comps),
           path.parts[n] = "."
    PROVE  PathRead(path, n, comps)
<1>1. PICK above, idx, r : /\ Positions(path, n - 1, idx, r) /\ Excess(path, n - 1, above, r)
                           /\ Content(path, comps, above, idx, r)
  BY DEF PathRead
<1>2. ~IsName(path.parts[n]) /\ path.parts[n] # ".."
  BY DEF IsName
<1>3. \A x \in 1..n : /\ Ups(path, x, n) = Ups(path, x, n - 1) /\ Ups(path, x, n) \in Nat
                      /\ Downs(path, x, n) = Downs(path, x, n - 1) /\ Downs(path, x, n) \in Nat
  <2> SUFFICES ASSUME NEW x \in 1..n
               PROVE  /\ Ups(path, x, n) = Ups(path, x, n - 1) /\ Ups(path, x, n) \in Nat
                      /\ Downs(path, x, n) = Downs(path, x, n - 1) /\ Downs(path, x, n) \in Nat
    OBVIOUS
  <2>1. /\ Ups(path, x, n - 1) \in Nat /\ Downs(path, x, n - 1) \in Nat
        /\ Ups(path, x, n) = Ups(path, x, n - 1) + 0
        /\ Downs(path, x, n) = Downs(path, x, n - 1) + 0
    BY <1>2, CountUp
  <2> QED  BY <2>1
<1>4. Positions(path, n, idx, r)
  <2>1. /\ r \in Nat /\ idx \in [1..r -> 1..(n - 1)]
        /\ \A p, q \in 1..r : p < q => idx[p] < idx[q]
    BY <1>1 DEF Positions
  <2>2. \A q \in 1..r : idx[q] \in 1..(n - 1) /\ idx[q] \in 1..n /\ idx[q] + 1 \in 1..n
    BY <2>1
  <2>3. \A q \in 1..r : Downs(path, idx[q] + 1, n) = Ups(path, idx[q] + 1, n) + (r - q)
    BY <1>1, <1>3, <2>2 DEF Positions
  <2>4. ASSUME NEW x \in 1..n PROVE StaysTo(path, x, n) <=> \E q \in 1..r : idx[q] = x
    <3>1. CASE x = n
      BY <1>2, <2>2, <3>1, StaysStep
    <3>2. CASE x # n
      <4>1. x \in 1..(n - 1) /\ x + 1 \in 1..n
        BY <3>2
      <4>2. StaysTo(path, x, n - 1) => Ups(path, x + 1, n - 1) <= Downs(path, x + 1, n - 1)
        <5>1. n - 1 \in x..(n - 1)
          BY <4>1
        <5> QED  BY <5>1 DEF StaysTo
      <4>3. StaysTo(path, x, n) <=> StaysTo(path, x, n - 1)
        BY <1>3, <4>1, <4>2, StaysStep
      <4> QED  BY <1>1, <4>1, <4>3 DEF Positions
    <3> QED  BY <3>1, <3>2
  <2>5. idx \in [1..r -> 1..n]
    BY <2>1, <2>2
  <2> QED  BY <2>1, <2>3, <2>4, <2>5 DEF Positions
<1>5. Excess(path, n, above, r)
  <2>1. above \in 0..n
    BY <1>1 DEF Excess
  <2>2. ASSUME path.slashes = 0
        PROVE  Downs(path, 1, n) + above = Ups(path, 1, n) + r /\ AboveTo(path, n, above)
    <3>1. Downs(path, 1, n) + above = Ups(path, 1, n) + r
      BY <1>1, <1>3, <2>2 DEF Excess
    <3>2. AboveTo(path, n - 1, above)
      BY <1>1, <2>2 DEF Excess
    <3>3. Ups(path, 1, n) <= Downs(path, 1, n) + above
      <4>1. Ups(path, 1, n) \in Nat /\ Downs(path, 1, n) \in Nat /\ r \in Nat
        BY <1>1, <1>3 DEF Positions
      <4> QED  BY <2>1, <3>1, <4>1
    <3>4. 1..n = (1..(n - 1)) \cup {n}
      OBVIOUS
    <3> QED  BY <3>1, <3>2, <3>3, <3>4 DEF AboveTo
  <2> QED  BY <1>1, <2>1, <2>2 DEF Excess
<1> QED  BY <1>1, <1>4, <1>5 DEF PathRead

LEMMA NameIsKept ==
    ASSUME NEW path, NEW n \in Nat \ {0}, NEW comps \in Path, PathRead(path, n - 1, comps),
           IsName(path.parts[n]), path.parts[n] \in Text
    PROVE  PathRead(path, n, Append(comps, path.parts[n]))
<1>1. PICK above, idx, r : /\ Positions(path, n - 1, idx, r) /\ Excess(path, n - 1, above, r)
                           /\ Content(path, comps, above, idx, r)
  BY DEF PathRead
<1>2. path.parts[n] # ".."
  BY DEF IsName
<1>3. \A x \in 1..n : /\ Ups(path, x, n) = Ups(path, x, n - 1) /\ Ups(path, x, n) \in Nat
                      /\ Downs(path, x, n) = Downs(path, x, n - 1) + 1
                      /\ Downs(path, x, n - 1) \in Nat
  <2> SUFFICES ASSUME NEW x \in 1..n
               PROVE  /\ Ups(path, x, n) = Ups(path, x, n - 1) /\ Ups(path, x, n) \in Nat
                      /\ Downs(path, x, n) = Downs(path, x, n - 1) + 1
                      /\ Downs(path, x, n - 1) \in Nat
    OBVIOUS
  <2>1. /\ Ups(path, x, n - 1) \in Nat /\ Downs(path, x, n - 1) \in Nat
        /\ Ups(path, x, n) = Ups(path, x, n - 1) + 0
        /\ Downs(path, x, n) = Downs(path, x, n - 1) + 1
    BY <1>2, CountUp
  <2> QED  BY <2>1
<1>4. PICK next, len : next = [q \in 1..(r + 1) |-> IF q <= r THEN idx[q] ELSE n] /\ len = r + 1
  OBVIOUS
<1>5. /\ r \in Nat /\ idx \in [1..r -> 1..(n - 1)]
      /\ \A p, q \in 1..r : p < q => idx[p] < idx[q]
  BY <1>1 DEF Positions
<1>6. /\ len \in Nat /\ len \in 1..len /\ next[len] = n
      /\ \A q \in 1..len : q \in 1..r \/ q = len
      /\ \A q \in 1..r : /\ q \in 1..len /\ next[q] = idx[q] /\ idx[q] + 1 \in 1..n
                         /\ idx[q] \in 1..(n - 1)
  BY <1>4, <1>5
<1>7. Positions(path, n, next, len)
  <2>1. next \in [1..len -> 1..n]
    BY <1>4, <1>5
  <2>2. \A p, q \in 1..len : p < q => next[p] < next[q]
    BY <1>4, <1>5, <1>6
  <2>3. ASSUME NEW q \in 1..len
        PROVE  Downs(path, next[q] + 1, n) = Ups(path, next[q] + 1, n) + (len - q)
    <3>1. CASE q = len
      <4>1. Ups(path, n + 1, n) = 0 /\ Downs(path, n + 1, n) = 0
        BY CountNone
      <4> QED  BY <1>6, <3>1, <4>1
    <3>2. CASE q \in 1..r
      <4>1. PICK x : x = idx[q] + 1
        OBVIOUS
      <4>2. x \in 1..n /\ next[q] + 1 = x
        BY <1>6, <3>2, <4>1
      <4>3. Downs(path, x, n - 1) = Ups(path, x, n - 1) + (r - q)
        BY <1>1, <3>2, <4>1 DEF Positions
      <4>4. /\ Ups(path, x, n) = Ups(path, x, n - 1) /\ Ups(path, x, n) \in Nat
            /\ Downs(path, x, n) = Downs(path, x, n - 1) + 1
        BY <1>3, <4>2
      <4>5. Downs(path, x, n) = Ups(path, x, n) + (len - q)
        BY <1>4, <1>5, <3>2, <4>3, <4>4
      <4> QED  BY <4>2, <4>5
    <3> QED  BY <1>6, <3>1, <3>2
  <2>4. ASSUME NEW x \in 1..n PROVE StaysTo(path, x, n) <=> \E q \in 1..len : next[q] = x
    <3>1. CASE x = n
      BY <1>6, <3>1, StaysStep
    <3>2. CASE x # n
      <4>1. x \in 1..(n - 1) /\ x + 1 \in 1..n
        BY <3>2
      <4>2. StaysTo(path, x, n - 1) => Ups(path, x + 1, n - 1) <= Downs(path, x + 1, n - 1)
        <5>1. n - 1 \in x..(n - 1)
          BY <4>1
        <5> QED  BY <5>1 DEF StaysTo
      <4>3. StaysTo(path, x, n) <=> StaysTo(path, x, n - 1)
        BY <1>3, <4>1, <4>2, StaysStep
      <4>4. StaysTo(path, x, n) <=> \E q \in 1..r : idx[q] = x
        BY <1>1, <4>1, <4>3 DEF Positions
      <4> QED  BY <1>6, <3>2, <4>4
    <3> QED  BY <3>1, <3>2
  <2> QED  BY <1>6, <2>1, <2>2, <2>3, <2>4 DEF Positions
<1>8. Excess(path, n, above, len)
  <2>1. above \in 0..n
    BY <1>1 DEF Excess
  <2>2. ASSUME path.slashes = 0
        PROVE  Downs(path, 1, n) + above = Ups(path, 1, n) + len /\ AboveTo(path, n, above)
    <3>0. 1 \in 1..n
      OBVIOUS
    <3>1. Downs(path, 1, n) + above = Ups(path, 1, n) + len
      <4>1. Downs(path, 1, n - 1) + above = Ups(path, 1, n - 1) + r
        BY <1>1, <2>2 DEF Excess
      <4>2. /\ Ups(path, 1, n) = Ups(path, 1, n - 1) /\ Ups(path, 1, n) \in Nat
            /\ Downs(path, 1, n) = Downs(path, 1, n - 1) + 1 /\ Downs(path, 1, n - 1) \in Nat
        BY <1>3, <3>0
      <4>3. above \in Nat /\ r \in Nat /\ len = r + 1
        BY <1>4, <1>5, <2>1
      <4> QED  BY ONLY <4>1, <4>2, <4>3
    <3>2. AboveTo(path, n - 1, above)
      BY <1>1, <2>2 DEF Excess
    <3>3. Ups(path, 1, n) <= Downs(path, 1, n) + above
      <4>1. Ups(path, 1, n) \in Nat /\ Downs(path, 1, n) \in Nat
        BY <1>3, <3>0
      <4> QED  BY <1>6, <2>1, <3>1, <4>1
    <3>4. 1..n = (1..(n - 1)) \cup {n}
      OBVIOUS
    <3> QED  BY <3>1, <3>2, <3>3, <3>4 DEF AboveTo
  <2> QED  BY <1>1, <2>1, <2>2 DEF Excess
<1>9. PICK longer : longer = Append(comps, path.parts[n])
  OBVIOUS
<1>10. Content(path, longer, above, next, len)
  <2>1. /\ Len(comps) = above + r /\ above \in Nat
        /\ \A q \in 1..above : comps[q] = ".."
        /\ \A q \in 1..r : comps[above + q] = path.parts[idx[q]]
    BY <1>1 DEF Content, Excess
  <2>2. PICK m : m = Len(comps)
    OBVIOUS
  <2>3. /\ Len(longer) = m + 1 /\ m \in Nat
        /\ \A q \in 1..m : longer[q] = comps[q]
        /\ longer[m + 1] = path.parts[n]
    BY <1>9, <2>2, AppendProperties, LenProperties DEF Path
  <2>4. m = above + r
    BY <2>1, <2>2
  <2>5. Len(longer) = above + len
    BY <1>4, <1>5, <2>1, <2>3, <2>4
  <2>6. \A q \in 1..above : longer[q] = ".."
    BY <1>5, <2>1, <2>3, <2>4
  <2>7. ASSUME NEW q \in 1..len PROVE longer[above + q] = path.parts[next[q]]
    <3>1. CASE q = len
      BY <1>4, <1>5, <1>6, <2>1, <2>3, <2>4, <3>1
    <3>2. CASE q \in 1..r
      <4>1. above + q \in 1..m
        BY <1>5, <2>1, <2>4, <3>2
      <4> QED  BY <1>6, <2>1, <2>3, <3>2, <4>1
    <3> QED  BY <1>6, <3>1, <3>2
  <2> QED  BY <2>5, <2>6, <2>7 DEF Content
<1> QED  BY <1>7, <1>8, <1>9, <1>10 DEF PathRead

LEMMA UpLeaves ==
    ASSUME NEW path, NEW n \in Nat \ {0}, NEW comps \in Path, PathRead(path, n - 1, comps),
           path.parts[n] = "..", path.slashes \in Nat
    PROVE  PathRead(path, n, Climb(path.slashes, comps))
<1>1. PICK above, idx, r : /\ Positions(path, n - 1, idx, r) /\ Excess(path, n - 1, above, r)
                           /\ Content(path, comps, above, idx, r)
  BY DEF PathRead
<1>2. ~IsName(path.parts[n])
  BY DEF IsName
<1>3. \A x \in 1..n : /\ Ups(path, x, n) = Ups(path, x, n - 1) + 1 /\ Ups(path, x, n - 1) \in Nat
                      /\ Downs(path, x, n) = Downs(path, x, n - 1) /\ Downs(path, x, n - 1) \in Nat
  <2> SUFFICES ASSUME NEW x \in 1..n
               PROVE  /\ Ups(path, x, n) = Ups(path, x, n - 1) + 1 /\ Ups(path, x, n - 1) \in Nat
                      /\ Downs(path, x, n) = Downs(path, x, n - 1) /\ Downs(path, x, n - 1) \in Nat
    OBVIOUS
  <2>1. /\ Ups(path, x, n - 1) \in Nat /\ Downs(path, x, n - 1) \in Nat
        /\ Ups(path, x, n) = Ups(path, x, n - 1) + 1
        /\ Downs(path, x, n) = Downs(path, x, n - 1) + 0
    BY <1>2, CountUp
  <2> QED  BY <2>1
<1>4. /\ r \in Nat /\ idx \in [1..r -> 1..(n - 1)]
      /\ \A p, q \in 1..r : p < q => idx[p] < idx[q]
      /\ \A x \in 1..(n - 1) : StaysTo(path, x, n - 1) <=> \E q \in 1..r : idx[q] = x
  BY <1>1 DEF Positions
<1>5. PICK m : m = Len(comps)
  OBVIOUS
<1>6. /\ m \in Nat /\ m = above + r /\ above \in Nat /\ above \in 0..(n - 1)
      /\ \A q \in 1..above : comps[q] = ".."
      /\ \A q \in 1..r : comps[above + q] = path.parts[idx[q]]
  BY <1>1, <1>5, LenProperties DEF Content, Excess, Path
<1>7. Last(comps) = comps[m] /\ (comps = <<>> <=> m = 0)
  BY <1>5, EmptySeq DEF Last, Path
<1>8. /\ path.slashes > 0 => above = 0
      /\ path.slashes = 0 => /\ Downs(path, 1, n - 1) + above = Ups(path, 1, n - 1) + r
                             /\ AboveTo(path, n - 1, above)
  BY <1>1 DEF Excess
<1>9. 1 \in 1..n /\ n \in 1..n /\ 1..n = (1..(n - 1)) \cup {n}
  OBVIOUS
<1>10. ASSUME NEW q \in 1..r
       PROVE  /\ idx[q] \in 1..(n - 1) /\ idx[q] + 1 \in 1..n
              /\ Downs(path, idx[q] + 1, n) + 1 = Ups(path, idx[q] + 1, n) + (r - q)
              /\ Ups(path, idx[q] + 1, n) \in Nat
              /\ Ups(path, idx[q] + 1, n) <= Downs(path, idx[q] + 1, n) <=> q <= r - 1
  <2>1. PICK x : x = idx[q] + 1
    OBVIOUS
  <2>2. idx[q] \in 1..(n - 1) /\ x \in 1..n
    BY <1>4, <2>1
  <2>3. Downs(path, x, n - 1) = Ups(path, x, n - 1) + (r - q)
    BY <1>1, <2>1 DEF Positions
  <2>4. /\ Ups(path, x, n) = Ups(path, x, n - 1) + 1 /\ Ups(path, x, n - 1) \in Nat
        /\ Downs(path, x, n) = Downs(path, x, n - 1) /\ Downs(path, x, n - 1) \in Nat
    BY <1>3, <2>2
  <2>5. /\ Downs(path, x, n) + 1 = Ups(path, x, n) + (r - q) /\ Ups(path, x, n) \in Nat
        /\ Ups(path, x, n) <= Downs(path, x, n) <=> q <= r - 1
    <3>1. r \in Nat /\ q \in Nat
      BY <1>4
    <3>2. PICK u, d : u = Ups(path, x, n - 1) /\ d = Downs(path, x, n - 1)
      OBVIOUS
    <3>3. /\ u \in Nat /\ d \in Nat /\ d = u + (r - q)
          /\ Ups(path, x, n) = u + 1 /\ Downs(path, x, n) = d
      BY <2>3, <2>4, <3>2
    <3>4. /\ d + 1 = u + 1 + (r - q) /\ u + 1 \in Nat
          /\ u + 1 <= d <=> q <= r - 1
      BY ONLY <3>1, <3>3
    <3> QED  BY <3>3, <3>4
  <2> QED  BY <2>1, <2>2, <2>5
<1>11. CASE r = 0
  <2>1. Positions(path, n, idx, r)
    <3>1. 1..r = {}
      BY <1>11
    <3>2. idx \in [1..r -> 1..n]
      BY <1>4, <3>1
    <3>3. ASSUME NEW x \in 1..n PROVE ~StaysTo(path, x, n)
      <4>1. CASE x = n
        BY <1>2, <4>1, StaysStep
      <4>2. CASE x # n
        <5>1. x \in 1..(n - 1)
          BY <4>2
        <5>2. ~StaysTo(path, x, n - 1)
          BY <1>4, <3>1, <5>1
        <5> QED  BY <5>1, <5>2, StaysStep
      <4> QED  BY <4>1, <4>2
    <3> QED  BY <1>4, <3>1, <3>2, <3>3 DEF Positions
  <2>2. CASE path.slashes > 0
    <3>1. Climb(path.slashes, comps) = comps
      BY <1>6, <1>7, <1>8, <1>11, <2>2 DEF Climb
    <3>2. Excess(path, n, above, r)
      BY <1>8, <2>2 DEF Excess
    <3> QED  BY <1>1, <2>1, <3>1, <3>2 DEF PathRead
  <2>3. CASE path.slashes = 0
    <3>1. Climb(path.slashes, comps) = Append(comps, "..")
      <4>1. comps = <<>> \/ Last(comps) = ".."
        BY <1>6, <1>7, <1>11
      <4> QED  BY <2>3, <4>1 DEF Climb
    <3>2. PICK longer, dots : longer = Append(comps, dots) /\ dots = ".."
      OBVIOUS
    <3>3. /\ Len(longer) = m + 1
          /\ \A q \in 1..m : longer[q] = comps[q]
          /\ longer[m + 1] = ".."
      <4>1. dots \in Text
        BY <3>2 DEF Text
      <4> QED  BY <1>5, <3>2, <4>1, AppendProperties DEF Path
    <3>4. Content(path, longer, above + 1, idx, r)
      <4>1. Len(longer) = above + 1 + r
        BY <1>6, <1>11, <3>3
      <4>2. \A q \in 1..(above + 1) : longer[q] = ".."
        <5>1. \A q \in 1..(above + 1) : q \in 1..above \/ q = above + 1
          BY <1>6
        <5>2. m = above
          BY <1>6, <1>11
        <5> QED  BY <1>6, <3>3, <5>1, <5>2
      <4>3. 1..r = {}
        BY <1>11
      <4> QED  BY <4>1, <4>2, <4>3 DEF Content
    <3>5. PICK ups, downs : ups = Ups(path, 1, n) /\ downs = Downs(path, 1, n)
      OBVIOUS
    <3>6. downs + above = ups - 1 + r /\ ups \in Nat /\ downs \in Nat
      <4>1. /\ Ups(path, 1, n) = Ups(path, 1, n - 1) + 1 /\ Ups(path, 1, n - 1) \in Nat
            /\ Downs(path, 1, n) = Downs(path, 1, n - 1) /\ Downs(path, 1, n - 1) \in Nat
        BY <1>3, <1>9
      <4>2. Downs(path, 1, n - 1) + above = Ups(path, 1, n - 1) + r
        BY <1>8, <2>3
      <4>3. PICK u, d : u = Ups(path, 1, n - 1) /\ d = Downs(path, 1, n - 1)
        OBVIOUS
      <4>4. ups = u + 1 /\ downs = d /\ u \in Nat /\ d \in Nat /\ d + above = u + r
        BY <3>5, <4>1, <4>2, <4>3
      <4>5. r \in Nat /\ above \in Nat
        BY <1>4, <1>6
      <4> QED  BY ONLY <4>4, <4>5
    <3>7. AboveTo(path, n, above + 1)
      <4>1. ups = downs + (above + 1)
        BY <1>6, <1>11, <3>6
      <4>2. ASSUME NEW j \in 1..n PROVE Ups(path, 1, j) <= Downs(path, 1, j) + (above + 1)
        <5>1. CASE j = n
          BY <1>6, <3>5, <3>6, <4>1, <5>1
        <5>2. CASE j # n
          <6>1. j \in 1..(n - 1) /\ j + 1 \in Nat \ {0} /\ 1 \in 1..(j + 1) /\ (j + 1) - 1 = j
            BY <5>2
          <6>2. Ups(path, 1, j) <= Downs(path, 1, j) + above
            BY <1>8, <2>3, <6>1 DEF AboveTo
          <6>3. Ups(path, 1, j) \in Nat /\ Downs(path, 1, j) \in Nat
            <7>1. PICK k : k = j + 1
              OBVIOUS
            <7>2. k \in Nat \ {0} /\ 1 \in 1..k /\ k - 1 = j
              BY <6>1, <7>1
            <7> QED  BY <7>2, CountUp
          <6> QED  BY <1>6, <6>2, <6>3
        <5> QED  BY <5>1, <5>2
      <4> QED  BY <1>9, <3>5, <4>1, <4>2 DEF AboveTo
    <3>8. Excess(path, n, above + 1, r)
      <4>1. above + 1 \in 0..n
        BY <1>6
      <4>2. downs + (above + 1) = ups + r
        BY <1>4, <1>6, <3>6
      <4> QED  BY <2>3, <3>5, <3>7, <4>1, <4>2 DEF Excess
    <3> QED  BY <2>1, <3>1, <3>2, <3>4, <3>8 DEF PathRead
  <2> QED  BY <2>2, <2>3
<1>12. CASE r # 0
  <2>1. PICK len, next : len = r - 1 /\ next = [q \in 1..len |-> idx[q]]
    OBVIOUS
  <2>2. /\ len \in Nat /\ r = len + 1 /\ r \in 1..r
        /\ \A q \in 1..len : q \in 1..r /\ next[q] = idx[q]
        /\ \A q \in 1..r : q \in 1..len <=> q <= r - 1
    BY <1>4, <1>12, <2>1
  <2>3. Positions(path, n, next, len)
    <3>1. next \in [1..len -> 1..n]
      BY <1>9, <1>10, <2>1, <2>2
    <3>2. \A p, q \in 1..len : p < q => next[p] < next[q]
      BY <1>4, <2>2
    <3>3. ASSUME NEW q \in 1..len
          PROVE  Downs(path, next[q] + 1, n) = Ups(path, next[q] + 1, n) + (len - q)
      <4>1. PICK x : x = idx[q] + 1
        OBVIOUS
      <4>2. /\ Downs(path, x, n) + 1 = Ups(path, x, n) + (r - q) /\ Ups(path, x, n) \in Nat
            /\ x \in 1..n
        BY <1>10, <2>2, <4>1
      <4>3. Downs(path, x, n) \in Nat
        BY <1>3, <4>2
      <4>4. Downs(path, x, n) = Ups(path, x, n) + (len - q)
        BY <2>2, <4>2, <4>3
      <4> QED  BY <2>2, <4>1, <4>4
    <3>4. ASSUME NEW x \in 1..n PROVE StaysTo(path, x, n) <=> \E q \in 1..len : next[q] = x
      <4>1. CASE x = n
        <5>1. \A q \in 1..len : next[q] # n
          BY <1>10, <2>2
        <5> QED  BY <1>2, <4>1, <5>1, StaysStep
      <4>2. CASE x # n
        <5>1. x \in 1..(n - 1)
          BY <4>2
        <5>2. StaysTo(path, x, n) <=> (\E q \in 1..r : idx[q] = x)
                                        /\ Ups(path, x + 1, n) <= Downs(path, x + 1, n)
          BY <1>4, <5>1, StaysStep
        <5>3. StaysTo(path, x, n) <=> \E q \in 1..r : idx[q] = x /\ q <= r - 1
          BY <1>10, <5>2
        <5> QED  BY <2>2, <5>3
      <4> QED  BY <4>1, <4>2
    <3> QED  BY <2>2, <3>1, <3>2, <3>3, <3>4 DEF Positions
  <2>4. Excess(path, n, above, len)
    <3>1. above \in 0..n
      BY <1>6
    <3>2. ASSUME path.slashes = 0
          PROVE  Downs(path, 1, n) + above = Ups(path, 1, n) + len /\ AboveTo(path, n, above)
      <4>1. /\ Ups(path, 1, n) = Ups(path, 1, n - 1) + 1 /\ Ups(path, 1, n - 1) \in Nat
            /\ Downs(path, 1, n) = Downs(path, 1, n - 1) /\ Downs(path, 1, n - 1) \in Nat
        BY <1>3, <1>9
      <4>2. Downs(path, 1, n - 1) + above = Ups(path, 1, n - 1) + r
        BY <1>8, <3>2
      <4>3. Downs(path, 1, n) + above = Ups(path, 1, n) + len
        BY <1>6, <2>2, <4>1, <4>2
      <4>4. Ups(path, 1, n) <= Downs(path, 1, n) + above
        BY <1>6, <2>2, <4>1, <4>3
      <4> QED  BY <1>8, <1>9, <3>2, <4>3, <4>4 DEF AboveTo
    <3> QED  BY <1>8, <3>1, <3>2 DEF Excess
  <2>5. Climb(path.slashes, comps) = Front(comps)
    <3>1. m # 0 /\ comps[m] = path.parts[idx[r]]
      BY <1>4, <1>6, <1>12, <2>2
    <3>2. path.parts[idx[r]] # ".."
      <4>1. StaysTo(path, idx[r], n - 1)
        BY <1>4, <1>10, <2>2
      <4> QED  BY <4>1 DEF StaysTo, IsName
    <3> QED  BY <1>7, <3>1, <3>2 DEF Climb
  <2>6. PICK shorter : shorter = Front(comps)
    OBVIOUS
  <2>7. Len(shorter) = m - 1 /\ \A q \in 1..(m - 1) : shorter[q] = comps[q]
    <3>1. comps \in Seq(Text) /\ comps # <<>>
      BY <1>4, <1>6, <1>7, <1>12 DEF Path
    <3> QED  BY <1>5, <2>6, <3>1, FrontTyped
  <2>8. Content(path, shorter, above, next, len)
    <3>1. Len(shorter) = above + len /\ m - 1 = above + len
      BY <1>6, <2>2, <2>7
    <3>2. \A q \in 1..above : shorter[q] = ".."
      BY <1>6, <2>2, <2>7, <3>1
    <3>3. ASSUME NEW q \in 1..len PROVE shorter[above + q] = path.parts[next[q]]
      <4>1. above + q \in 1..(m - 1) /\ q \in 1..r
        BY <1>6, <2>2, <3>1
      <4> QED  BY <1>6, <2>2, <2>7, <4>1
    <3> QED  BY <3>1, <3>2, <3>3 DEF Content
  <2> QED  BY <2>3, <2>4, <2>5, <2>6, <2>8 DEF PathRead
<1> QED  BY <1>11, <1>12

LEMMA ReadStep ==
    ASSUME NEW path, NEW n \in Nat \ {0}, NEW comps \in Path, PathRead(path, n - 1, comps),
           path.parts[n] \in Text, path.slashes \in Nat, NEW root \in Nat,
           root > 0 <=> path.slashes > 0
    PROVE  PathRead(path, n, Component(root, comps, path.parts[n]))
<1>1. Climb(root, comps) = Climb(path.slashes, comps)
  BY DEF Climb
<1>2. CASE path.parts[n] = "."
  BY <1>2, DotKeeps DEF Component
<1>3. CASE path.parts[n] = ".."
  BY <1>1, <1>3, UpLeaves DEF Component
<1>4. CASE path.parts[n] # "." /\ path.parts[n] # ".."
  <2>1. IsName(path.parts[n])
    BY <1>4 DEF IsName
  <2> QED  BY <1>4, <2>1, NameIsKept DEF Component
<1> QED  BY <1>2, <1>3, <1>4

LEMMA PathReads ==
    ASSUME NEW path \in Words, NEW comps, comps = Normal(path).parts
    PROVE  /\ comps \in Path
           /\ PathRead(path, Len(path.parts), comps)
           /\ path.slashes \in Nat /\ Len(path.parts) \in Nat
<1>1. PICK parts, root, m, g : /\ parts = path.parts /\ root = Root(path) /\ m = Len(parts)
                               /\ g = Components(root, parts)
  OBVIOUS
<1>2. parts \in Seq(Text) /\ path.slashes \in Nat
  BY <1>1, PartsAreText
<1>3. root \in Nat /\ (root > 0 <=> path.slashes > 0)
  BY <1>1, <1>2 DEF Root
<1>4. m \in Nat /\ \A n \in 1..m : parts[n] \in Text
  BY <1>1, <1>2, LenProperties, ElementOfSeq
<1>5. /\ g \in [0..m -> Path] /\ g[0] = <<>>
      /\ \A n \in 1..m : g[n] = Component(root, g[n - 1], parts[n])
  BY <1>1, <1>2, <1>3, ComponentsLoop
<1> DEFINE D == {n \in 0..m : PathRead(path, n, g[n])}
<1>6. 0 \in D
  <2>1. PICK none, idx : none = <<>> /\ idx = [q \in 1..0 |-> 1]
    OBVIOUS
  <2>2. 1..0 = {} /\ Len(none) = 0
    BY <2>1
  <2>3. Positions(path, 0, idx, 0)
    BY <2>1, <2>2 DEF Positions
  <2>4. Ups(path, 1, 0) = 0 /\ Downs(path, 1, 0) = 0
    <3>1. PICK z : z = 0
      OBVIOUS
    <3>2. Ups(path, z + 1, z) = 0 /\ Downs(path, z + 1, z) = 0
      BY <3>1, CountNone
    <3> QED  BY <3>1, <3>2
  <2>5. Excess(path, 0, 0, 0)
    BY <2>2, <2>4 DEF Excess, AboveTo
  <2>6. Content(path, none, 0, idx, 0)
    BY <2>2 DEF Content
  <2>7. PathRead(path, 0, g[0])
    BY <1>5, <2>1, <2>3, <2>5, <2>6 DEF PathRead
  <2> QED  BY <1>4, <2>7
<1>7. ASSUME NEW n \in 0..(m - 1), n \in D PROVE n + 1 \in D
  <2>1. n + 1 \in 1..m /\ n + 1 \in 0..m /\ (n + 1) - 1 = n
    BY <1>4
  <2>2. PICK k, c : k = n + 1 /\ c = g[n]
    OBVIOUS
  <2>3. k \in Nat \ {0} /\ path.parts[k] \in Text /\ c \in Path /\ k - 1 = n
    <3>1. n \in 0..m /\ c \in Path
      BY <1>4, <1>5, <2>2
    <3>2. k \in Nat \ {0} /\ k - 1 = n /\ k \in 1..m
      BY <1>4, <2>1, <2>2
    <3> QED  BY <1>1, <1>4, <3>1, <3>2
  <2>4. PathRead(path, k - 1, c)
    BY <1>7, <2>2, <2>3
  <2>5. PathRead(path, k, Component(root, c, path.parts[k]))
    BY ONLY <1>2, <1>3, <2>3, <2>4, ReadStep
  <2>6. g[k] = Component(root, c, path.parts[k])
    BY <1>1, <1>5, <2>1, <2>2
  <2> QED  BY <2>1, <2>2, <2>5, <2>6
<1>8. m \in D
  <2>1. 0..m \subseteq D
    <3> HIDE DEF D
    <3> QED  BY <1>4, <1>6, <1>7, Induction
  <2> HIDE DEF D
  <2> QED  BY <1>4, <2>1
<1>9. comps = g[m]
  BY <1>1 DEF Normal
<1> QED  BY <1>1, <1>2, <1>4, <1>5, <1>8, <1>9

Increasing(idx, r, n) == /\ r \in Nat /\ n \in Nat /\ idx \in [1..r -> 1..n]
                         /\ \A p, q \in 1..r : p < q => idx[p] < idx[q]
Lists(idx, r, kept) == \A x : x \in kept <=> \E q \in 1..r : idx[q] = x
Ranked(kept, idx, r) == Cardinality(kept) = r /\ \A q \in 1..r : Nth(kept, q) = idx[q]

\* An increasing sequence of numbers is the list of its elements by rank.
LEMMA Ranks ==
    ASSUME NEW r, NEW n, NEW idx, Increasing(idx, r, n), NEW kept, Lists(idx, r, kept)
    PROVE  Ranked(kept, idx, r)
<1> USE DEF Increasing, Lists, Ranked
<1>1. \A p, q \in 1..r : /\ idx[p] \in Int /\ idx[q] \in Int
                         /\ p <= q <=> idx[p] <= idx[q]
                         /\ p = q <=> idx[p] = idx[q]
  <2> SUFFICES ASSUME NEW p \in 1..r, NEW q \in 1..r
               PROVE  /\ idx[p] \in Int /\ idx[q] \in Int
                      /\ p <= q <=> idx[p] <= idx[q]
                      /\ p = q <=> idx[p] = idx[q]
    OBVIOUS
  <2>1. idx[p] \in Int /\ idx[q] \in Int
    OBVIOUS
  <2>2. (p < q => idx[p] < idx[q]) /\ (q < p => idx[q] < idx[p])
    OBVIOUS
  <2> QED  BY <2>1, <2>2
<1>2. ASSUME NEW q \in 0..r
      PROVE  Cardinality({idx[p] : p \in 1..q}) = q
  <2>1. PICK first, f : first = {idx[p] : p \in 1..q} /\ f = [p \in 1..q |-> idx[p]]
    OBVIOUS
  <2>2. \A p \in 1..q : p \in 1..r
    OBVIOUS
  <2>3. f \in Bijection(1..q, first)
    <3>1. f \in [1..q -> first] /\ \A t \in first : \E p \in 1..q : f[p] = t
      BY <2>1
    <3>2. \A p1, p2 \in 1..q : f[p1] = f[p2] => p1 = p2
      BY <1>1, <2>1, <2>2
    <3> QED  BY <3>1, <3>2, Fun_IsBij
  <2>4. ExistsBijection(1..q, first) /\ q \in Nat
    BY <2>3 DEF ExistsBijection
  <2>5. Cardinality(first) = q
    BY <2>4, FS_CountingElements
  <2> QED  BY <2>1, <2>5
<1>3. Cardinality(kept) = r
  <2>1. kept = {idx[q] : q \in 1..r} /\ r \in 0..r
    OBVIOUS
  <2> QED  BY <1>2, <2>1
<1>4. ASSUME NEW q \in 1..r
      PROVE  Cardinality({j \in kept : j <= idx[q]}) = q
  <2>1. {j \in kept : j <= idx[q]} = {idx[p] : p \in 1..q}
    BY <1>1
  <2>2. q \in 0..r
    OBVIOUS
  <2> QED  BY <1>2, <2>1, <2>2
<1>5. ASSUME NEW q \in 1..r
      PROVE  Nth(kept, q) = idx[q]
  <2>1. idx[q] \in kept /\ Cardinality({j \in kept : j <= idx[q]}) = q
    BY <1>4
  <2>2. ASSUME NEW x \in kept, Cardinality({j \in kept : j <= x}) = q PROVE x = idx[q]
    <3>1. PICK p \in 1..r : x = idx[p]
      OBVIOUS
    <3>2. p = q
      BY <1>4, <2>2, <3>1
    <3> QED  BY <3>1, <3>2
  <2> QED  BY <2>1, <2>2 DEF Nth
<1> QED  BY <1>3, <1>5

\* A command line's path leads where normpath says.
LEMMA NormalIsPlace == ASSUME NEW path \in Words PROVE Normal(path) = Place(path)
<1>1. PICK comps, n, parts : comps = Normal(path).parts /\ parts = path.parts /\ n = Len(parts)
  OBVIOUS
<1>2. /\ comps \in Path /\ PathRead(path, n, comps) /\ path.slashes \in Nat /\ n \in Nat
      /\ DOMAIN parts = 1..n
  BY <1>1, PathReads, PartsAreText, LenProperties
<1>3. PICK above, idx, r : /\ Positions(path, n, idx, r) /\ Excess(path, n, above, r)
                           /\ Content(path, comps, above, idx, r)
  BY <1>2 DEF PathRead
<1>4. /\ r \in Nat /\ idx \in [1..r -> 1..n]
      /\ \A p, q \in 1..r : p < q => idx[p] < idx[q]
      /\ \A x \in 1..n : StaysTo(path, x, n) <=> \E q \in 1..r : idx[q] = x
  BY <1>3 DEF Positions
<1>5. PICK kept : kept = Kept(path)
  OBVIOUS
<1>6. \A x : x \in kept <=> \E q \in 1..r : idx[q] = x
  <2>1. \A x \in 1..n : Stays(path, x) <=> StaysTo(path, x, n)
    BY <1>1 DEF Stays, StaysTo
  <2>2. kept = {x \in 1..n : StaysTo(path, x, n)}
    BY <1>1, <1>2, <1>5, <2>1 DEF Kept
  <2> QED  BY <1>4, <2>2
<1>7. /\ Cardinality(kept) = r
      /\ \A q \in 1..r : Nth(kept, q) = idx[q]
  <2>1. Increasing(idx, r, n) /\ Lists(idx, r, kept)
    BY <1>2, <1>4, <1>6 DEF Increasing, Lists
  <2> QED  BY <2>1, Ranks DEF Ranked
<1>8. above \in 0..n /\ Above(path) = above
  <2>1. above \in 0..n
    BY <1>3 DEF Excess
  <2>2. CASE path.slashes > 0
    BY <1>3, <2>1, <2>2 DEF Excess, Above
  <2>3. CASE path.slashes = 0
    <3>1. AboveTo(path, n, above)
      BY <1>3, <2>3 DEF Excess
    <3>2. ASSUME NEW b \in 0..n, AboveTo(path, n, b) PROVE b = above
      <4>1. \A j \in 1..n : Ups(path, 1, j) \in Nat /\ Downs(path, 1, j) \in Nat
        <5> SUFFICES ASSUME NEW j \in 1..n
                     PROVE  Ups(path, 1, j) \in Nat /\ Downs(path, 1, j) \in Nat
          OBVIOUS
        <5>1. PICK k : k = j + 1
          OBVIOUS
        <5>2. k \in Nat \ {0} /\ 1 \in 1..k /\ k - 1 = j
          BY <1>2, <5>1
        <5> QED  BY <5>2, CountUp
      <4>2. ~(b < above)
        <5> SUFFICES ASSUME b < above PROVE FALSE
          OBVIOUS
        <5>1. PICK j \in 1..n : Ups(path, 1, j) = Downs(path, 1, j) + above
          BY <1>2, <2>1, <3>1 DEF AboveTo
        <5>2. Ups(path, 1, j) <= Downs(path, 1, j) + b
          BY <3>2 DEF AboveTo
        <5> QED  BY <1>2, <2>1, <4>1, <5>1, <5>2
      <4>3. ~(above < b)
        <5> SUFFICES ASSUME above < b PROVE FALSE
          OBVIOUS
        <5>1. PICK j \in 1..n : Ups(path, 1, j) = Downs(path, 1, j) + b
          BY <1>2, <2>1, <3>2 DEF AboveTo
        <5>2. Ups(path, 1, j) <= Downs(path, 1, j) + above
          BY <3>1 DEF AboveTo
        <5> QED  BY <1>2, <2>1, <4>1, <5>1, <5>2
      <4> QED  BY <1>2, <2>1, <4>2, <4>3
    <3>3. Above(path) = CHOOSE b \in 0..n : AboveTo(path, n, b)
      BY <1>1, <1>2, <2>3 DEF Above, AboveTo
    <3> QED  BY <2>1, <3>1, <3>2, <3>3
  <2> QED  BY <1>2, <2>1, <2>2, <2>3
<1>9. PICK dots, names :
         /\ dots = [q \in 1..above |-> ".."]
         /\ names = [q \in 1..r |-> parts[Nth(kept, q)]]
  OBVIOUS
<1>10. Place(path) = [slashes |-> Root(path), parts |-> dots \o names]
  <2>1. names = [q \in 1..Cardinality(Kept(path)) |-> path.parts[Nth(Kept(path), q)]]
    BY <1>1, <1>5, <1>7, <1>9
  <2>2. dots = [q \in 1..Above(path) |-> ".."]
    BY <1>8, <1>9
  <2> QED  BY <2>1, <2>2 DEF Place
<1>11. \A q \in 1..r : names[q] = parts[idx[q]]
  BY <1>7, <1>9
<1>12. dots \o names = comps
  <2>1. dots \in Seq(Text) /\ Len(dots) = above
    BY <1>2, <1>8, <1>9 DEF Text
  <2>2. names \in Seq(Text) /\ Len(names) = r
    <3>1. \A x \in 1..n : parts[x] \in Text
      BY <1>1, PartsAreText, ElementOfSeq
    <3>2. \A q \in 1..r : names[q] \in Text
      BY <1>4, <1>11, <3>1
    <3>3. names \in [1..r -> Text]
      BY <1>9, <3>2
    <3> QED  BY <1>4, <3>3
  <2>3. PICK joined : joined = dots \o names
    OBVIOUS
  <2>4. /\ joined \in Seq(Text) /\ Len(joined) = above + r
        /\ \A q \in 1..(above + r) : joined[q] = IF q <= above THEN dots[q] ELSE names[q - above]
    BY <2>1, <2>2, <2>3, ConcatProperties
  <2>5. /\ Len(comps) = above + r
        /\ \A q \in 1..above : comps[q] = ".."
        /\ \A q \in 1..r : comps[above + q] = parts[idx[q]]
    BY <1>1, <1>3 DEF Content
  <2>6. ASSUME NEW q \in 1..(above + r) PROVE joined[q] = comps[q]
    <3>1. CASE q <= above
      <4>1. q \in 1..above
        BY <1>4, <1>8, <3>1
      <4>2. dots[q] = ".." /\ comps[q] = ".."
        BY <1>9, <2>5, <4>1
      <4>3. joined[q] = dots[q]
        BY <2>4, <3>1
      <4> QED  BY <4>2, <4>3
    <3>2. CASE ~(q <= above)
      <4>1. PICK p : p = q - above
        OBVIOUS
      <4>2. p \in 1..r /\ above + p = q
        BY <1>4, <1>8, <3>2, <4>1
      <4> QED  BY <1>11, <2>4, <2>5, <3>2, <4>1, <4>2
    <3> QED  BY <3>1, <3>2
  <2>7. joined = comps
    BY <1>2, <2>4, <2>5, <2>6, SeqEqual DEF Path
  <2> QED  BY <2>3, <2>7
<1> QED  BY <1>1, <1>10, <1>12 DEF Normal
-----------------------------------------------------------------------------
(* One rule and one command line.                                          *)

LEMMA ValidAgrees ==
    ASSUME NEW cfg, NEW arg \in Argument
    PROVE  ValidPath(arg, cfg) <=> PathGranted(arg, cfg)
<1>1. CASE arg.kind # "word"
  BY <1>1 DEF ValidPath, PathGranted
<1>2. CASE arg.kind = "word"
  <2>1. arg \in Words
    BY <1>2, Kinds
  <2>2. Normal(arg) = Place(arg)
    BY <2>1, NormalIsPlace
  <2>3. /\ \A prefix : Within(arg, prefix) <=> IsUnder(Normal(arg), prefix)
        /\ HasTraversal(arg) <=> ".." \in {arg.parts[k] : k \in DOMAIN arg.parts}
    BY <2>2 DEF Within, HasTraversal
  <2> QED  BY <2>2, <2>3 DEF ValidPath, PathGranted
<1> QED  BY <1>1, <1>2

LEMMA LinuxAgrees ==
    ASSUME NEW rule, NEW args \in Seq(Argument), rule.paths.min \in Int, rule.paths.max \in Int
    PROVE  LinuxMatches(rule, args) <=> LinuxGranted(rule, args)
<1>1. PICK acc, m : acc = LinuxArgs(rule, args)[m] /\ m = Len(args)
  OBVIOUS
<1>2. LinuxRead(rule, args, m, acc) /\ acc \in LinuxState
  BY <1>1, LinuxReads
<1>3. /\ m \in Nat /\ DOMAIN args = 1..m
      /\ \A k \in 1..m : args[k] \in Argument
  BY <1>1, LenProperties, ElementOfSeq
<1>4. PICK min, max, collected, all :
         /\ min = rule.paths.min /\ max = rule.paths.max
         /\ collected = acc.paths /\ all = PathsUpTo(args, m)
  OBVIOUS
<1>5. collected \in Seq(Argument) /\ Len(collected) \in Nat /\ DOMAIN collected = 1..Len(collected)
  BY <1>2, <1>4, LenProperties DEF LinuxState
<1>6. Len(collected) \in min..max <=> Cardinality(all) >= min /\ Cardinality(all) <= max
  <2>1. Len(collected) = Cardinality(all)
    BY <1>2, <1>4 DEF LinuxRead
  <2>2. min \in Int /\ max \in Int
    BY <1>4
  <2> QED  BY <1>5, <2>1, <2>2
<1>7. (\A k \in DOMAIN collected : ValidPath(collected[k], rule.paths))
         <=> \A k \in all : PathGranted(args[k], rule.paths)
  <2>1. /\ \A k \in 1..Len(collected) : \E j \in all : collected[k] = args[j]
        /\ \A j \in all : \E k \in 1..Len(collected) : collected[k] = args[j]
    BY <1>2, <1>4 DEF LinuxRead
  <2>2. \A j \in all : ValidPath(args[j], rule.paths) <=> PathGranted(args[j], rule.paths)
    <3> SUFFICES ASSUME NEW j \in all
                 PROVE  ValidPath(args[j], rule.paths) <=> PathGranted(args[j], rule.paths)
      OBVIOUS
    <3>1. PICK arg, cfg : arg = args[j] /\ cfg = rule.paths
      OBVIOUS
    <3>2. arg \in Argument
      BY <1>3, <1>4, <3>1 DEF PathsUpTo
    <3>3. ValidPath(arg, cfg) <=> PathGranted(arg, cfg)
      BY <3>2, ValidAgrees
    <3> QED  BY <3>1, <3>3
  <2> QED  BY <1>5, <2>1, <2>2
<1> DEFINE ended(k) == \E j \in 1..(k - 1) : args[j] = Dashes
           options  == {k \in DOMAIN args : args[k].kind = "option" /\ ~ended(k)}
           paths    == {k \in DOMAIN args : args[k] # Dashes} \ options
<1>8. options = {k \in 1..m : IsOption(args, k)} /\ paths = all
  BY <1>3, <1>4 DEF IsOption, IsPath, PathsUpTo
<1>9. LinuxGranted(rule, args)
         <=> /\ rule.position \in {"anywhere", "beforePaths"}
             /\ {args[k] : k \in options} \subseteq rule.flags
             /\ rule.position = "beforePaths" => \A k \in options, j \in paths : k < j
             /\ Cardinality(paths) >= min /\ Cardinality(paths) <= max
             /\ \A k \in paths : PathGranted(args[k], rule.paths)
  BY <1>4 DEF LinuxGranted
<1>10. acc.ok <=> /\ {args[k] : k \in options} \subseteq rule.flags
                  /\ rule.position = "beforePaths" => \A k \in options, j \in paths : k < j
  <2>1. acc.ok <=> /\ \A k \in 1..m : IsOption(args, k) => args[k] \in rule.flags
                   /\ InOrder(rule.position, args, m)
    BY <1>2 DEF LinuxRead
  <2> HIDE DEF options, paths
  <2> QED  BY <1>4, <1>8, <2>1 DEF InOrder, PathsUpTo
<1>11. LinuxMatches(rule, args)
          <=> /\ rule.position \in {"anywhere", "beforePaths"}
              /\ acc.ok
              /\ Len(collected) \in min..max
              /\ \A k \in DOMAIN collected : ValidPath(collected[k], rule.paths)
  BY <1>1, <1>4 DEF LinuxMatches
<1> HIDE DEF options, paths
<1> QED  BY <1>6, <1>7, <1>8, <1>9, <1>10, <1>11

LEMMA MatchesAgrees ==
    ASSUME NEW rule \in Rule, NEW line \in Argv, line # <<>>
    PROVE  Matches(rule, line) <=> Granted(rule, line)
<1>1. PICK args : args = Tail(line)
  OBVIOUS
<1>2. /\ args \in Seq(Argument) /\ rule.form \in {"exact", "linux", "other"}
      /\ rule.form = "linux" => rule.paths.min \in Int /\ rule.paths.max \in Int
  BY <1>1, RulesAssumption
<1>3. CASE rule.form = "exact"
  BY <1>3 DEF Matches, Granted
<1>4. CASE rule.form = "linux"
  <2>1. LinuxMatches(rule, args) <=> LinuxGranted(rule, args)
    BY <1>2, <1>4, LinuxAgrees
  <2> QED  BY <1>1, <1>4, <2>1 DEF Matches, Granted
<1>5. CASE rule.form = "other"
  <2>1. KubectlMatches(rule, args) <=> KubectlGranted(rule, args)
    BY <1>2, KubectlAgrees
  <2> QED  BY <1>1, <1>5, <2>1 DEF Matches, Granted
<1> QED  BY <1>2, <1>3, <1>4, <1>5

\* For every rule and command line, the loops of policy.py decide what the definition
\* by positions says.
THEOREM RulesMatchAsGranted == Spec => []RulesMatchWhatTheyGrant
<1>1. LoopInv => RulesMatchWhatTheyGrant
  <2> SUFFICES ASSUME LoopInv, Undecided, i <= Len(Listed)
               PROVE  Matches(Listed[i], argv) <=> Granted(Listed[i], argv)
    BY DEF RulesMatchWhatTheyGrant
  <2>1. PICK rule, line : rule = Listed[i] /\ line = argv
    OBVIOUS
  <2>2. line \in Argv /\ line # <<>>
    BY <2>1 DEF LoopInv, PolicyTypeOK, Undecided
  <2>3. rule \in Rule
    <3>1. Listed \in Seq(Rule) /\ i \in 1..Len(Listed)
      BY LenProperties DEF LoopInv, PolicyTypeOK, Listed
    <3> QED  BY <2>1, <3>1, ElementOfSeq
  <2> QED  BY <2>1, <2>2, <2>3, MatchesAgrees
<1> QED  BY <1>1, LoopInit, LoopStep, PTL DEF Spec

\* A decision by what the configuration grants, without the loops of the code.
Permits(rule) == argv # <<>> /\ rule.command = argv[1] /\ Granted(rule, argv)

AllowedAsGranted ==
    /\ decision = "allowed" => \E rule \in Effective : Permits(rule)
    /\ decision = "denied" => ~\E rule \in Effective : Permits(rule)

\* With the matching of policy.py, evaluate_policy allows a command exactly if one of
\* the rules that hold for the server grants it.
THEOREM CommandsAllowedAsGranted ==
    ASSUME \A rule \in Rule, line \in Argv : RuleMatches(rule, line) <=> Matches(rule, line)
    PROVE  Spec => []AllowedAsGranted
<1>1. LoopInv /\ AllowedByARule => AllowedAsGranted
  <2> SUFFICES ASSUME LoopInv, AllowedByARule PROVE AllowedAsGranted
    OBVIOUS
  <2>1. \A rule \in Effective : rule \in Rule
    <3>1. PICK g, p : g = globals /\ p = server.policies
      OBVIOUS
    <3>2. g \in Seq(Rule) /\ p \in Seq(Rule)
      BY <3>1 DEF LoopInv, PolicyTypeOK
    <3>3. /\ \A k \in DOMAIN g : g[k] \in Rule
          /\ \A k \in DOMAIN p : p[k] \in Rule
      BY <3>2
    <3> QED  BY <3>1, <3>3 DEF Effective, RulesOf
  <2>2. \A rule \in Effective : Grants(rule) <=> Permits(rule)
    <3> SUFFICES ASSUME NEW rule \in Effective, argv # <<>>
                 PROVE  RuleMatches(rule, argv) <=> Granted(rule, argv)
      BY DEF Grants, Permits
    <3>1. rule \in Rule /\ argv \in Argv
      BY <2>1 DEF LoopInv, PolicyTypeOK
    <3>2. PICK line : line = argv
      OBVIOUS
    <3>3. line \in Argv /\ line # <<>>
      BY <3>1, <3>2
    <3>4. Matches(rule, line) <=> Granted(rule, line)
      BY <3>1, <3>3, MatchesAgrees
    <3> QED  BY <3>1, <3>2, <3>3, <3>4
  <2> QED  BY <2>2 DEF AllowedByARule, AllowedAsGranted
<1> QED  BY <1>1, LoopInit, LoopStep, PolicyAllowsByARule, PTL DEF Spec
=============================================================================
