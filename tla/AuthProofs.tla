----------------------------- MODULE AuthProofs -----------------------------
(***************************************************************************)
(* Theorems about AuthSessions, for every number of sessions and passwords,*)
(* and about AuthAttempts, for every window, limit and threshold.          *)
(***************************************************************************)
EXTENDS AuthSessions, AuthAttempts, SequenceTheorems, FiniteSetTheorems, TLAPS

\* A login's number is that of its first row, so the number of the next is new.
RootsAreRows == \A s \in Row : root[s] \in Row

\* Operations that are about one session, which exists and leaves room for its heir ...
Named == {"rotating", "evicting", "renewing", "reissuing"}

NamesRow == doing \in Named => subject \in Row /\ created < MaxSessions

\* ... and those of them that have revoked it: its login has none in force.
Replaced == {"rotating", "reissuing"}

ReplacedIsOut == doing \in Replaced =>
    \A s \in Row : InForce(s) => root[s] # root[subject]

LoginInv == TypeOK /\ RootsAreRows /\ NamesRow /\ ReplacedIsOut /\ OneInForcePerLogin

\* A password change evicts in two steps, whatever was in force before it.
OthersAreOut == doing = "renewing" =>
    \A s \in Row : s # subject => ~InForce(s)

AllAreOut == doing = "reissuing" => \A s \in Row : ~InForce(s)

\* Outside the steps that replace a password, sessions go back to the current one.
CredentialsAreNew == ~torn /\ doing \in {"idle", "deleting", "rotating"} =>
    /\ \A s \in Row : InForce(s) => credential[s] = password
    /\ doing = "rotating" => credential[subject] = password

EvictionInv == OthersAreOut /\ AllAreOut /\ CredentialsAreNew
-----------------------------------------------------------------------------
LEMMA LoginInit == Init => LoginInv
<1> SUFFICES ASSUME Init PROVE LoginInv
  OBVIOUS
<1>1. TypeOK
  <2>1. password \in 0..MaxPasswords \cup {1} /\ created \in 0..MaxSessions /\ expired \in 0..created
    BY AuthAssumption DEF Init
  <2> QED  BY <2>1 DEF Init, TypeOK, Ops
<1>2. Row = {}
  BY DEF Init, Row
<1> QED  BY <1>1, <1>2 DEF LoginInv, Init, RootsAreRows, NamesRow, ReplacedIsOut,
            OneInForcePerLogin, Named, Replaced

\* What revoking does to the sessions in force.
LEMMA RevokeEnds ==
    ASSUME NEW S, Revoke(S), UNCHANGED <<created, expired>>
    PROVE  \A s : InForce(s)' <=> InForce(s) /\ s \notin S
BY DEF Revoke, InForce, Row

\* What a new row does to them.
LEMMA NewIsInForce ==
    ASSUME NEW r \in Sessions, NEW p \in Nat, NewSession(r, p),
           UNCHANGED <<revoked, expired>>, TypeOK
    PROVE  /\ created' = created + 1 /\ created' \in Sessions /\ created' \notin Row
           /\ Row' = Row \cup {created'}
           /\ root' \in [Sessions -> Sessions \cup {0}] /\ credential' \in [Sessions -> Nat]
           /\ root'[created'] = r /\ credential'[created'] = p
           /\ \A s \in Row : /\ root'[s] = root[s] /\ credential'[s] = credential[s]
                             /\ InForce(s)' <=> InForce(s)
BY AuthAssumption DEF NewSession, InForce, Row, Sessions, TypeOK

LEMMA TypeStep == TypeOK /\ NamesRow /\ [Next]_vars => TypeOK'
<1> SUFFICES ASSUME TypeOK, NamesRow, [Next]_vars PROVE TypeOK'
  OBVIOUS
<1> USE AuthAssumption DEF TypeOK, Ops, account, sessions, worker
<1>a. created < MaxSessions => created + 1 \in Sessions
  BY DEF Sessions
<1>b. Row \subseteq Sessions
  BY DEF Sessions, Row
<1>1. CASE Login
  BY <1>a, <1>1 DEF Login, NewSession
<1>2. CASE RotateIssues
  BY <1>a, <1>b, <1>2 DEF RotateIssues, NewSession, Done, NamesRow, Named
<1>3. CASE ChangeIssues
  BY <1>a, <1>b, <1>3 DEF ChangeIssues, NewSession, Done, NamesRow, Named
<1>4. CASE ChangeEvicts \/ ChangeRevokesOwn
  <2>1. subject \in Sessions
    BY <1>b, <1>4 DEF ChangeEvicts, ChangeRevokesOwn, NamesRow, Named
  <2>2. CASE ChangeEvicts
    BY <1>b, <2>1, <2>2 DEF ChangeEvicts, RevokeAll, Revoke, Proceed
  <2>3. CASE ChangeRevokesOwn
    BY <2>1, <2>3 DEF ChangeRevokesOwn, RevokeOld, Revoke, Proceed
  <2> QED  BY <1>4, <2>2, <2>3
<1>5. CASE ChangeFindsExpired \/ UserDeleted \/ DeleteRefused
  BY <1>5 DEF ChangeFindsExpired, UserDeleted, DeleteRefused, Done
<1>6. CASE AdminEvicts \/ AdminDeletes
  BY <1>b, <1>6 DEF AdminEvicts, AdminDeletes, RevokeAll, Revoke, Proceed, Done
<1>7. CASE \E on, reset \in BOOLEAN : AdminUpdates(on, reset)
  BY <1>7 DEF AdminUpdates, Proceed
<1>8. ASSUME NEW s \in Sessions, Logout(s) \/ LogoutAll(s) \/ AdminRevokes(s)
      PROVE  TypeOK'
  BY <1>b, <1>8 DEF Logout, LogoutAll, AdminRevokes, RevokeAll, Revoke
<1>9. ASSUME NEW s \in Sessions, Rotate(s) \/ ChangePassword(s)
      PROVE  TypeOK'
  BY <1>b, <1>9 DEF Rotate, ChangePassword, RevokeOld, Revoke, Proceed
<1>10. CASE Expire
  BY <1>10 DEF Expire
<1>11. CASE Interrupt
  BY <1>11 DEF Interrupt, Done
<1>12. CASE UNCHANGED vars
  BY <1>12 DEF vars
<1> QED  BY <1>1, <1>2, <1>3, <1>4, <1>5, <1>6, <1>7, <1>8, <1>9, <1>10, <1>11, <1>12 DEF Next
-----------------------------------------------------------------------------
(* Logins.                                                                 *)

\* A step that creates no row and puts none in force.
Shrinks == /\ UNCHANGED <<created, root>>
           /\ \A s \in Row : InForce(s)' => InForce(s)

LEMMA ShrinkKeepsLogins ==
    ASSUME LoginInv, Shrinks, doing' \notin Replaced \/ UNCHANGED worker
    PROVE  (RootsAreRows /\ ReplacedIsOut /\ OneInForcePerLogin)'
BY DEF Shrinks, LoginInv, RootsAreRows, ReplacedIsOut, OneInForcePerLogin, Row, worker

\* The same for a step that revokes the one session of a login.
LEMMA ReplaceKeepsLogins ==
    ASSUME LoginInv, NEW s \in Row, InForce(s), Shrinks, ~InForce(s)', subject' = s
    PROVE  (RootsAreRows /\ ReplacedIsOut /\ OneInForcePerLogin)'
BY DEF Shrinks, LoginInv, RootsAreRows, ReplacedIsOut, OneInForcePerLogin, Row

\* A step that adds a row to a login that has none in force.
LEMMA GrowKeepsLogins ==
    ASSUME LoginInv, NEW r \in Sessions, NEW p \in Nat, NewSession(r, p),
           UNCHANGED <<revoked, expired>>, doing' \notin Replaced,
           r \in Row \cup {created + 1},
           \A s \in Row : InForce(s) => root[s] # r
    PROVE  (RootsAreRows /\ ReplacedIsOut /\ OneInForcePerLogin)'
<1>1. TypeOK /\ RootsAreRows /\ OneInForcePerLogin
  BY DEF LoginInv
<1>2. /\ created' = created + 1 /\ Row' = Row \cup {created'} /\ created' \notin Row
      /\ root'[created'] = r
      /\ \A s \in Row : root'[s] = root[s] /\ (InForce(s)' <=> InForce(s))
  BY <1>1, NewIsInForce
<1>3. RootsAreRows'
  BY <1>1, <1>2 DEF RootsAreRows
<1>4. OneInForcePerLogin'
  BY <1>1, <1>2 DEF OneInForcePerLogin
<1> QED  BY <1>3, <1>4 DEF ReplacedIsOut

LEMMA LoginStep == LoginInv /\ [Next]_vars => LoginInv'
<1> SUFFICES ASSUME LoginInv, [Next]_vars PROVE LoginInv'
  OBVIOUS
<1> DEFINE Logins == RootsAreRows /\ ReplacedIsOut /\ OneInForcePerLogin
<1>a. TypeOK /\ NamesRow /\ Logins
  BY DEF LoginInv
<1>b. TypeOK'
  BY <1>a, TypeStep
<1>c. Row \subseteq Sessions /\ (created < MaxSessions => created + 1 \in Sessions)
  BY <1>a, AuthAssumption DEF Sessions, Row, TypeOK
<1> SUFFICES (NamesRow /\ Logins)'
  BY <1>b DEF LoginInv
<1> USE DEF account, sessions, worker
<1>1. CASE Login
  <2>1. NamesRow' /\ doing' \notin Replaced
    BY <1>1 DEF Login, NamesRow, Named, Replaced
  <2>2. created + 1 \in Sessions /\ password \in Nat /\ created + 1 \notin Row
    BY <1>1, <1>a, <1>c, AuthAssumption DEF Login, NewSession, TypeOK, Row
  <2> QED  BY <1>1, <1>a, <2>1, <2>2, GrowKeepsLogins DEF Login, RootsAreRows
<1>2. CASE RotateIssues
  <2>1. NamesRow' /\ doing' \notin Replaced
    BY <1>2 DEF RotateIssues, Done, NamesRow, Named, Replaced
  <2>2. root[subject] \in Row /\ credential[subject] \in Nat
    BY <1>2, <1>a, <1>c DEF RotateIssues, NamesRow, Named, RootsAreRows, TypeOK
  <2>3. \A s \in Row : InForce(s) => root[s] # root[subject]
    BY <1>2, <1>a DEF RotateIssues, ReplacedIsOut, Replaced
  <2> QED  BY <1>2, <1>c, <2>1, <2>2, <2>3, GrowKeepsLogins DEF RotateIssues
<1>3. CASE ChangeIssues
  <2>1. NamesRow' /\ doing' \notin Replaced
    BY <1>3 DEF ChangeIssues, Done, NamesRow, Named, Replaced
  <2>2. root[subject] \in Row /\ password \in Nat
    BY <1>3, <1>a, <1>c, AuthAssumption DEF ChangeIssues, NamesRow, Named, RootsAreRows, TypeOK
  <2>3. \A s \in Row : InForce(s) => root[s] # root[subject]
    BY <1>3, <1>a DEF ChangeIssues, ReplacedIsOut, Replaced
  <2> QED  BY <1>3, <1>c, <2>1, <2>2, <2>3, GrowKeepsLogins DEF ChangeIssues
<1>4. ASSUME NEW s \in Sessions, Rotate(s)
      PROVE  (NamesRow /\ Logins)'
  <2>1. s \in Row /\ InForce(s) /\ subject' = s /\ Shrinks /\ ~InForce(s)'
    BY <1>4, RevokeEnds DEF Rotate, RevokeOld, Authorized, InForce, Proceed, Shrinks
  <2>2. NamesRow'
    BY <1>4, <2>1 DEF Rotate, NamesRow, Row
  <2> QED  BY <2>1, <2>2, ReplaceKeepsLogins
<1>5. CASE ChangeRevokesOwn
  <2>1. /\ subject \in Row /\ InForce(subject) /\ subject' = subject
        /\ Shrinks /\ ~InForce(subject)'
    BY <1>5, RevokeEnds DEF ChangeRevokesOwn, RevokeOld, InForce, Proceed, Shrinks
  <2>2. NamesRow'
    BY <1>5, <1>a DEF ChangeRevokesOwn, Proceed, NamesRow, Named, Row
  <2> QED  BY <2>1, <2>2, ReplaceKeepsLogins
<1>6. ASSUME NEW s \in Sessions, ChangePassword(s)
      PROVE  (NamesRow /\ Logins)'
  <2>1. Shrinks /\ doing' \notin Replaced
    BY <1>6 DEF ChangePassword, Proceed, Shrinks, Replaced, InForce, Row
  <2>2. NamesRow'
    BY <1>6 DEF ChangePassword, Proceed, NamesRow, Authorized, InForce, Row
  <2> QED  BY <2>1, <2>2, ShrinkKeepsLogins
<1>7. CASE ChangeEvicts
  <2>1. Shrinks /\ doing' \notin Replaced
    BY <1>7, RevokeEnds DEF ChangeEvicts, RevokeAll, Proceed, Shrinks, Replaced
  <2>2. NamesRow'
    BY <1>7, <1>a DEF ChangeEvicts, Proceed, NamesRow, Named, Row
  <2> QED  BY <2>1, <2>2, ShrinkKeepsLogins
<1>8. CASE AdminEvicts \/ AdminDeletes
  <2>1. Shrinks /\ doing' \notin Replaced \cup Named
    BY <1>8, RevokeEnds DEF AdminEvicts, AdminDeletes, RevokeAll, Proceed, Done, Shrinks,
       Replaced, Named
  <2> QED  BY <2>1, ShrinkKeepsLogins DEF NamesRow
<1>9. ASSUME NEW s \in Sessions, Logout(s) \/ LogoutAll(s) \/ AdminRevokes(s)
      PROVE  (NamesRow /\ Logins)'
  <2>1. Shrinks /\ UNCHANGED <<worker, created>>
    BY <1>9, RevokeEnds DEF Logout, LogoutAll, AdminRevokes, RevokeAll, Shrinks
  <2> QED  BY <1>a, <2>1, ShrinkKeepsLogins DEF NamesRow, Row
<1>10. CASE ChangeFindsExpired \/ UserDeleted \/ DeleteRefused \/ Interrupt
  <2>1. Shrinks /\ doing' \notin Replaced \cup Named
    BY <1>10 DEF ChangeFindsExpired, UserDeleted, DeleteRefused, Interrupt, Done, Shrinks,
       Replaced, Named, InForce, Row
  <2> QED  BY <2>1, ShrinkKeepsLogins DEF NamesRow
<1>11. ASSUME NEW on, NEW reset, AdminUpdates(on, reset)
       PROVE  (NamesRow /\ Logins)'
  <2>1. Shrinks /\ (doing' \notin Replaced \cup Named \/ UNCHANGED <<worker, created>>)
    BY <1>11 DEF AdminUpdates, Proceed, Shrinks, Replaced, Named, InForce, Row
  <2> QED  BY <1>a, <2>1, ShrinkKeepsLogins DEF NamesRow, Row
<1>12. CASE Expire
  <2>1. Shrinks /\ UNCHANGED <<worker, created>>
    BY <1>12, <1>a DEF Expire, Shrinks, InForce, Row, TypeOK
  <2> QED  BY <1>a, <2>1, ShrinkKeepsLogins DEF NamesRow, Row
<1>13. CASE UNCHANGED vars
  <2>1. Shrinks /\ UNCHANGED <<worker, created>>
    BY <1>13 DEF vars, Shrinks, InForce, Row
  <2> QED  BY <1>a, <2>1, ShrinkKeepsLogins DEF NamesRow, Row
<1> QED  BY <1>1, <1>2, <1>3, <1>4, <1>5, <1>6, <1>7, <1>8, <1>9, <1>10, <1>11, <1>12,
            <1>13 DEF Next
-----------------------------------------------------------------------------
(* Passwords.                                                              *)

\* A step that replaces no password and puts no row in force, between operations.
LEMMA QuietKeepsEviction ==
    ASSUME LoginInv, EvictionInv, Shrinks, UNCHANGED <<password, credential>>,
           \/ doing' = doing /\ subject' = subject /\ torn' = torn
           \/ doing' = "idle" /\ torn' = torn /\ doing \in {"idle", "deleting", "rotating"}
           \/ doing' \in {"idle", "deleting"} /\ \A s \in Row : ~InForce(s)'
           \/ doing' = "idle" /\ torn'
    PROVE  EvictionInv'
BY DEF Shrinks, EvictionInv, OthersAreOut, AllAreOut, CredentialsAreNew, Row

LEMMA EvictionStep == LoginInv /\ EvictionInv /\ [Next]_vars => EvictionInv'
<1> SUFFICES ASSUME LoginInv, EvictionInv, [Next]_vars PROVE EvictionInv'
  OBVIOUS
<1>a. TypeOK /\ NamesRow
  BY DEF LoginInv
<1>b. Row \subseteq Sessions
  BY <1>a, AuthAssumption DEF Sessions, Row, TypeOK
<1> USE DEF account, sessions, worker
<1>1. CASE Login
  <2>1. /\ created + 1 \in Sessions /\ password \in Nat
        /\ NewSession(created + 1, password) /\ UNCHANGED <<revoked, expired>>
    BY <1>1, <1>a, AuthAssumption DEF Login, NewSession, TypeOK, Sessions
  <2> QED  BY <1>1, <1>a, <2>1, NewIsInForce DEF Login, EvictionInv, OthersAreOut, AllAreOut,
              CredentialsAreNew
<1>2. CASE RotateIssues
  <2>1. subject \in Row
    BY <1>2, <1>a DEF RotateIssues, NamesRow, Named
  <2>2. root[subject] \in Sessions /\ credential[subject] \in Nat
    BY <1>b, <1>a, <2>1 DEF LoginInv, RootsAreRows, TypeOK
  <2>3. ~torn => credential[subject] = password /\ \A s \in Row : InForce(s) => credential[s] = password
    BY <1>2 DEF RotateIssues, EvictionInv, CredentialsAreNew
  <2> QED  BY <1>2, <1>a, <2>2, <2>3, NewIsInForce DEF RotateIssues, Done, EvictionInv,
              OthersAreOut, AllAreOut, CredentialsAreNew
<1>3. CASE ChangeIssues
  <2>1. subject \in Row
    BY <1>3, <1>a DEF ChangeIssues, NamesRow, Named
  <2>2. root[subject] \in Sessions /\ password \in Nat
    BY <1>b, <1>a, <2>1, AuthAssumption DEF LoginInv, RootsAreRows, TypeOK
  <2>3. \A s \in Row : ~InForce(s)
    BY <1>3 DEF ChangeIssues, EvictionInv, AllAreOut
  <2> QED  BY <1>3, <1>a, <2>2, <2>3, NewIsInForce DEF ChangeIssues, Done, EvictionInv,
              OthersAreOut, AllAreOut, CredentialsAreNew
<1>4. ASSUME NEW s \in Sessions, Rotate(s)
      PROVE  EvictionInv'
  <2>1. s \in Row /\ InForce(s) /\ Shrinks
    BY <1>4, RevokeEnds DEF Rotate, RevokeOld, Authorized, InForce, Shrinks
  <2> QED  BY <1>4, <2>1 DEF Rotate, Proceed, Shrinks, EvictionInv, OthersAreOut, AllAreOut,
              CredentialsAreNew, Row
<1>5. CASE ChangeRevokesOwn
  <2>1. \A s \in Row : ~InForce(s)'
    BY <1>5, RevokeEnds DEF ChangeRevokesOwn, RevokeOld, EvictionInv, OthersAreOut
  <2> QED  BY <1>5, <2>1 DEF ChangeRevokesOwn, Proceed, EvictionInv, OthersAreOut, AllAreOut,
              CredentialsAreNew, Row
<1>6. ASSUME NEW s \in Sessions, ChangePassword(s)
      PROVE  EvictionInv'
  BY <1>6 DEF ChangePassword, Proceed, EvictionInv, OthersAreOut, AllAreOut, CredentialsAreNew
<1>7. CASE ChangeEvicts
  <2>1. \A s \in Row : s # subject => ~InForce(s)'
    BY <1>7, RevokeEnds DEF ChangeEvicts, RevokeAll, Spared
  <2> QED  BY <1>7, <2>1 DEF ChangeEvicts, Proceed, EvictionInv, OthersAreOut, AllAreOut,
              CredentialsAreNew, Row
<1>8. CASE AdminEvicts \/ AdminDeletes
  <2>1. (\A s \in Row : ~InForce(s)') /\ Shrinks
    BY <1>8, RevokeEnds DEF AdminEvicts, AdminDeletes, RevokeAll, Shrinks
  <2> QED  BY <1>8, <2>1, QuietKeepsEviction DEF AdminEvicts, AdminDeletes, Proceed, Done
<1>9. ASSUME NEW s \in Sessions, Logout(s) \/ AdminRevokes(s)
      PROVE  EvictionInv'
  <2>1. Shrinks
    BY <1>9, RevokeEnds DEF Logout, AdminRevokes, Shrinks
  <2> QED  BY <1>9, <2>1, QuietKeepsEviction DEF Logout, AdminRevokes
<1>10. ASSUME NEW s \in Sessions, LogoutAll(s)
       PROVE  EvictionInv'
  <2>1. (\A t \in Row : ~InForce(t)') /\ Shrinks
    BY <1>10, RevokeEnds DEF LogoutAll, RevokeAll, Shrinks
  <2> QED  BY <1>10, <2>1, QuietKeepsEviction DEF LogoutAll
<1>11. CASE ChangeFindsExpired
  <2>1. (\A s \in Row : ~InForce(s)') /\ Shrinks
    BY <1>11 DEF ChangeFindsExpired, EvictionInv, OthersAreOut, Shrinks, InForce, Row
  <2> QED  BY <1>11, <2>1, QuietKeepsEviction DEF ChangeFindsExpired, Done
<1>12. CASE UserDeleted \/ DeleteRefused
  <2>1. Shrinks
    BY <1>12 DEF UserDeleted, DeleteRefused, Shrinks, InForce, Row
  <2> QED  BY <1>12, <2>1, QuietKeepsEviction DEF UserDeleted, DeleteRefused, Done
<1>13. ASSUME NEW on, NEW reset, AdminUpdates(on, reset)
       PROVE  EvictionInv'
  <2>1. Shrinks
    BY <1>13 DEF AdminUpdates, Shrinks, InForce, Row
  <2>2. CASE reset
    BY <1>13, <2>2 DEF AdminUpdates, Proceed, EvictionInv, OthersAreOut, AllAreOut,
       CredentialsAreNew
  <2>3. CASE ~reset
    <3>1. UNCHANGED <<password, credential, worker, torn>>
      BY <1>13, <2>3 DEF AdminUpdates
    <3> QED  BY <2>1, <3>1, QuietKeepsEviction
  <2> QED  BY <2>2, <2>3
<1>14. CASE Expire
  <2>1. Shrinks
    BY <1>14, <1>a DEF Expire, Shrinks, InForce, Row, TypeOK
  <2> QED  BY <1>14, <2>1, QuietKeepsEviction DEF Expire
<1>15. CASE Interrupt
  <2>1. Shrinks
    BY <1>15 DEF Interrupt, Shrinks, InForce, Row
  <2>2. CASE doing \in {"evicting", "renewing", "resetting"}
    BY <1>15, <2>1, <2>2, QuietKeepsEviction DEF Interrupt, Done
  <2>3. CASE doing = "reissuing"
    <3>1. \A s \in Row : ~InForce(s)'
      BY <1>15, <2>3 DEF Interrupt, EvictionInv, AllAreOut, InForce, Row
    <3> QED  BY <1>15, <2>1, <3>1, QuietKeepsEviction DEF Interrupt, Done
  <2>4. CASE doing \in {"rotating", "deleting"}
    <3>1. UNCHANGED torn
      BY <1>15, <1>a, <2>4 DEF Interrupt, TypeOK
    <3> QED  BY <1>15, <2>1, <2>4, <3>1, QuietKeepsEviction DEF Interrupt, Done
  <2> QED  BY <1>15, <1>a, <2>2, <2>3, <2>4 DEF Interrupt, TypeOK, Ops
<1>16. CASE UNCHANGED vars
  <2>1. Shrinks
    BY <1>16 DEF vars, Shrinks, InForce, Row
  <2> QED  BY <1>16, <2>1, QuietKeepsEviction DEF vars
<1> QED  BY <1>1, <1>2, <1>3, <1>4, <1>5, <1>6, <1>7, <1>8, <1>9, <1>10, <1>11, <1>12,
            <1>13, <1>14, <1>15, <1>16 DEF Next
-----------------------------------------------------------------------------
(* The theorems.                                                           *)

LEMMA SessionsInvariant == Spec => [](LoginInv /\ EvictionInv)
<1>1. Init => EvictionInv
  BY DEF Init, EvictionInv, OthersAreOut, AllAreOut, CredentialsAreNew, InForce, Row
<1> QED  BY <1>1, LoginInit, LoginStep, EvictionStep, PTL DEF Spec

\* The session rows, the account and the operation in progress keep their types.
THEOREM SessionTypesCorrect == Spec => []TypeOK
BY SessionsInvariant, PTL DEF LoginInv

\* rotate_auth_session, alone or in a password change, leaves at most one session of a
\* login in force, although its two transactions may be torn apart.
THEOREM RotationKeepsOneInForce == Spec => []OneInForcePerLogin
BY SessionsInvariant, PTL DEF LoginInv

\* revoke_all_auth_sessions_for_user follows every replacement of a password, so no
\* session of an older one is in force, unless it was stopped and never made up for.
THEOREM PasswordsLockOut == Spec => []OldPasswordLocksOut
<1>1. EvictionInv => OldPasswordLocksOut
  BY DEF EvictionInv, CredentialsAreNew, OldPasswordLocksOut
<1> QED  BY <1>1, SessionsInvariant, PTL

\* change_password answers with the one token that is left.
THEOREM ChangeLeavesOne == Spec => ChangeLeavesOneToken
<1>1. LoginInv /\ EvictionInv /\ [Next]_vars
        => [doing = "reissuing" /\ created' > created
              => \A s \in 1..created' : InForce(s)' => s = created']_vars
  <2> SUFFICES ASSUME LoginInv, EvictionInv, Next, doing = "reissuing", created' > created
               PROVE  \A s \in 1..created' : InForce(s)' => s = created'
    OBVIOUS
  <2>1. TypeOK /\ NamesRow /\ \A s \in Row : ~InForce(s)
    BY DEF LoginInv, EvictionInv, AllAreOut
  <2>2. ChangeIssues
    BY <2>1 DEF Next, Login, RotateIssues, ChangeEvicts, ChangeRevokesOwn, ChangeFindsExpired,
       AdminEvicts, AdminDeletes, UserDeleted, DeleteRefused, AdminUpdates, Logout, LogoutAll,
       AdminRevokes, Rotate, ChangePassword, Expire, Interrupt, account, sessions, TypeOK
  <2>3. root[subject] \in Sessions /\ password \in Nat
    BY <2>1, AuthAssumption DEF LoginInv, RootsAreRows, NamesRow, Named, TypeOK, Row, Sessions
  <2> QED  BY <2>1, <2>2, <2>3, NewIsInForce DEF ChangeIssues, Row
<1> QED  BY <1>1, SessionsInvariant, PTL DEF Spec, ChangeLeavesOneToken
-----------------------------------------------------------------------------
(* The windows of the login attempts.                                      *)

Ages == 0..(Window + 1)

\* The oldest entry comes first.
InOrder(bucket) == \A i, j \in DOMAIN bucket : i <= j => bucket[j] <= bucket[i]

\* The entries after the n-th are those in the window.
Boundary(bucket, n) ==
    n \in 0..Len(bucket) /\ \A i \in 1..Len(bucket) : InWindow(bucket[i]) <=> n < i

\* A set of natural numbers has a least one.
LEMMA LeastExists ==
    ASSUME NEW S \in SUBSET Nat, S # {}
    PROVE  \E m \in S : \A k \in S : m <= k
<1> DEFINE T == {0..n : n \in S}
<1>1. T \subseteq FiniteSubsetsOf(Nat)
  <2> SUFFICES ASSUME NEW n \in S PROVE 0..n \in FiniteSubsetsOf(Nat)
    OBVIOUS
  <2>1. IsFiniteSet(0..n)
    BY FS_Interval
  <2> QED  BY <2>1 DEF FiniteSubsetsOf
<1>2. IsWellFoundedOn(StrictSubsetOrdering(Nat), FiniteSubsetsOf(Nat))
  BY FS_StrictSubsetOrderingWellFounded
<1>3. PICK X \in T : \A Y \in T : <<Y, X>> \notin StrictSubsetOrdering(Nat)
  <2>1. T # {}
    OBVIOUS
  <2> HIDE DEF T
  <2> QED  BY <1>1, <1>2, <2>1, WFMin
<1>4. PICK m \in S : X = 0..m
  OBVIOUS
<1>5. ASSUME NEW k \in S, k < m PROVE FALSE
  <2>1. PICK Y \in T : Y = 0..k
    OBVIOUS
  <2>2. m \in X /\ m \notin Y /\ Y \subseteq X
    BY <1>4, <1>5, <2>1
  <2>3. X \subseteq Nat /\ Y \subseteq Nat /\ Y # X
    BY <1>4, <2>1, <2>2
  <2>4. <<Y, X>> \in StrictSubsetOrdering(Nat)
    BY <2>2, <2>3 DEF StrictSubsetOrdering
  <2> QED  BY <1>3, <2>4
<1> QED  BY <1>5

\* A window in order has a boundary, up to which _prune drops.
LEMMA BoundaryExists ==
    ASSUME NEW bucket \in Seq(Ages), InOrder(bucket)
    PROVE  \E n : Boundary(bucket, n)
<1>1. Len(bucket) \in Nat /\ DOMAIN bucket = 1..Len(bucket) /\ Window \in Nat
  BY AttemptsAssumption, LenProperties
<1>2. \A i \in 1..Len(bucket) : bucket[i] \in Nat
  BY <1>1, ElementOfSeq DEF Ages
<1> DEFINE S == {i \in 1..Len(bucket) : InWindow(bucket[i])}
<1>3. CASE S = {}
  <2>1. Boundary(bucket, Len(bucket))
    BY <1>1, <1>3 DEF Boundary
  <2> QED  BY <2>1
<1>4. CASE S # {}
  <2>1. S \in SUBSET Nat
    BY <1>1
  <2>2. PICK m \in S : \A k \in S : m <= k
    <3> HIDE DEF S
    <3> QED  BY <1>4, <2>1, LeastExists
  <2>3. \A i \in 1..Len(bucket) : m <= i => InWindow(bucket[i])
    BY <1>1, <1>2 DEF InOrder, InWindow
  <2>4. \A i \in 1..Len(bucket) : InWindow(bucket[i]) <=> m - 1 < i
    BY <1>1, <2>2, <2>3
  <2>5. m - 1 \in 0..Len(bucket)
    BY <1>1
  <2>6. Boundary(bucket, m - 1)
    BY <2>4, <2>5 DEF Boundary
  <2> QED  BY <2>6
<1> QED  BY <1>3, <1>4

\* Both _prune and the histories drop what is before the boundary.
LEMMA PrunedIs ==
    ASSUME NEW bucket \in Seq(Ages), NEW n, Boundary(bucket, n)
    PROVE  /\ Pruned(bucket) = SubSeq(bucket, n + 1, Len(bucket))
           /\ Remembered(bucket) = SubSeq(bucket, n + 1, Len(bucket))
<1>1. Len(bucket) \in Nat /\ DOMAIN bucket = 1..Len(bucket)
  BY LenProperties
<1> DEFINE Drops(k) == /\ \A i \in 1..k : ~InWindow(bucket[i])
                       /\ k < Len(bucket) => InWindow(bucket[k + 1])
           Splits(k) == \A i \in DOMAIN bucket : InWindow(bucket[i]) <=> k < i
<1>2. n \in 0..Len(bucket) /\ Drops(n) /\ Splits(n)
  BY <1>1 DEF Boundary
<1>3. \A k \in 0..Len(bucket) : Drops(k) => k = n
  <2> SUFFICES ASSUME NEW k \in 0..Len(bucket), Drops(k), k # n PROVE FALSE
    OBVIOUS
  <2>1. CASE k < n
    BY <1>1, <1>2, <2>1
  <2>2. CASE n < k
    BY <1>1, <1>2, <2>2
  <2> QED  BY <1>1, <1>2, <2>1, <2>2
<1>4. \A k \in 0..Len(bucket) : Splits(k) => k = n
  <2> SUFFICES ASSUME NEW k \in 0..Len(bucket), Splits(k), k # n PROVE FALSE
    OBVIOUS
  <2>1. CASE k < n
    BY <1>1, <1>2, <2>1
  <2>2. CASE n < k
    BY <1>1, <1>2, <2>2
  <2> QED  BY <1>1, <1>2, <2>1, <2>2
<1>5. n = CHOOSE k \in 0..Len(bucket) : Drops(k)
  <2> HIDE DEF Drops
  <2> QED  BY <1>2, <1>3
<1>6. n = CHOOSE k \in 0..Len(bucket) : Splits(k)
  <2> HIDE DEF Splits
  <2> QED  BY <1>2, <1>4
<1> QED  BY <1>5, <1>6 DEF Pruned, Remembered

\* The end of a window after its first n entries.
LEMMA LastEntries ==
    ASSUME NEW bucket \in Seq(Ages), NEW n \in 0..Len(bucket),
           NEW rest, rest = SubSeq(bucket, n + 1, Len(bucket))
    PROVE  /\ rest \in Seq(Ages) /\ Len(rest) = Len(bucket) - n
           /\ \A i \in 1..Len(rest) : rest[i] = bucket[n + i]
<1>1. Len(bucket) \in Nat /\ DOMAIN bucket = 1..Len(bucket)
  BY LenProperties
<1>2. \A i \in (n + 1)..Len(bucket) : bucket[i] \in Ages
  BY <1>1, ElementOfSeq
<1>3. n + 1 \in Int /\ Len(bucket) \in Int
  BY <1>1
<1>4. PICK last : last = Len(bucket)
  OBVIOUS
<1>5. PICK first : first = n + 1
  OBVIOUS
<1>6. /\ SubSeq(bucket, first, last) \in Seq(Ages)
      /\ Len(SubSeq(bucket, first, last)) = IF first <= last THEN last - first + 1 ELSE 0
      /\ \A i \in 1..(last - first + 1) : SubSeq(bucket, first, last)[i] = bucket[first + i - 1]
  BY <1>2, <1>3, <1>4, <1>5, SubSeqProperties
<1>7. rest \in Seq(Ages) /\ Len(rest) = Len(bucket) - n
  <2>1. rest = SubSeq(bucket, first, last)
    BY <1>4, <1>5
  <2>2. last \in Nat /\ n \in Nat /\ n <= last /\ first = n + 1
    BY <1>1, <1>4, <1>5
  <2>3. (IF first <= last THEN last - first + 1 ELSE 0) = last - n
    BY ONLY <2>2
  <2> QED  BY ONLY <1>4, <1>6, <2>1, <2>3
<1>8. \A i \in 1..Len(rest) : rest[i] = bucket[n + i]
  <2> SUFFICES ASSUME NEW i \in 1..Len(rest) PROVE rest[i] = bucket[n + i]
    OBVIOUS
  <2>1. i \in 1..(last - first + 1) /\ first + i - 1 = n + i
    <3>1. last \in Nat /\ n \in Nat /\ n <= last /\ first = n + 1
      BY <1>1, <1>4, <1>5
    <3>2. Len(rest) = last - n
      BY ONLY <1>4, <1>7
    <3> QED  BY ONLY <3>1, <3>2, i \in 1..Len(rest)
  <2>2. SubSeq(bucket, first, last)[i] = bucket[first + i - 1]
    BY <1>6, <2>1
  <2> QED  BY <1>4, <1>5, <2>1, <2>2
<1> QED  BY ONLY <1>7, <1>8

\* The window after a _prune: it is in order, nothing in it is too old, and the
\* histories keep the same.
LEMMA PrunedWindow ==
    ASSUME NEW bucket \in Seq(Ages), InOrder(bucket), NEW kept, kept = Pruned(bucket)
    PROVE  /\ kept \in Seq(Ages) /\ InOrder(kept)
           /\ \A i \in 1..Len(kept) : InWindow(kept[i])
<1>1. PICK n : Boundary(bucket, n)
  BY BoundaryExists
<1>2. n \in 0..Len(bucket) /\ Len(bucket) \in Nat /\ DOMAIN bucket = 1..Len(bucket)
  BY <1>1, LenProperties DEF Boundary
<1>3. kept = SubSeq(bucket, n + 1, Len(bucket))
  BY <1>1, PrunedIs
<1>4. /\ kept \in Seq(Ages) /\ Len(kept) = Len(bucket) - n
      /\ \A i \in 1..Len(kept) : kept[i] = bucket[n + i]
  BY ONLY <1>2, <1>3, bucket \in Seq(Ages), LastEntries
<1>5. DOMAIN kept = 1..Len(kept) /\ Len(kept) \in Nat
  BY <1>4, LenProperties
<1>6. \A i \in 1..Len(kept) : n + i \in 1..Len(bucket) /\ n < n + i
  BY <1>2, <1>4, <1>5
<1>7. InOrder(kept)
  <2> SUFFICES ASSUME NEW i \in 1..Len(kept), NEW j \in 1..Len(kept), i <= j
               PROVE  kept[j] <= kept[i]
    BY <1>5 DEF InOrder
  <2>1. n + i <= n + j
    BY <1>2
  <2> QED  BY <1>2, <1>4, <1>6, <2>1 DEF InOrder
<1>8. \A i \in 1..Len(kept) : InWindow(kept[i])
  BY <1>1, <1>4, <1>6 DEF Boundary
<1> QED  BY <1>4, <1>7, <1>8

\* What is all in the window stays as it is.
LEMMA NothingToPrune ==
    ASSUME NEW bucket \in Seq(Ages), \A i \in 1..Len(bucket) : InWindow(bucket[i])
    PROVE  Pruned(bucket) = bucket
<1>1. Len(bucket) \in Nat
  BY LenProperties
<1>2. Boundary(bucket, 0) /\ 0 \in 0..Len(bucket)
  BY <1>1 DEF Boundary
<1>3. PICK rest, n : rest = Pruned(bucket) /\ n = 0
  OBVIOUS
<1>4. rest = SubSeq(bucket, n + 1, Len(bucket)) /\ n \in 0..Len(bucket)
  BY <1>2, <1>3, PrunedIs
<1>5. /\ rest \in Seq(Ages) /\ Len(rest) = Len(bucket) - n
      /\ \A i \in 1..Len(rest) : rest[i] = bucket[n + i]
  BY ONLY <1>4, bucket \in Seq(Ages), LastEntries
<1>6. Len(rest) = Len(bucket) /\ \A i \in 1..Len(rest) : rest[i] = bucket[i]
  BY <1>1, <1>3, <1>5
<1> QED  BY <1>3, <1>5, <1>6, SeqEqual

\* A new entry at the end of a pruned window.
LEMMA NewEntry ==
    ASSUME NEW bucket \in Seq(Ages), InOrder(bucket),
           NEW more, more = Append(Pruned(bucket), 0)
    PROVE  more \in Seq(Ages) /\ InOrder(more) /\ Pruned(more) = more
<1>1. PICK kept : kept = Pruned(bucket)
  OBVIOUS
<1>2. /\ kept \in Seq(Ages) /\ InOrder(kept)
      /\ \A i \in 1..Len(kept) : InWindow(kept[i])
  BY ONLY <1>1, bucket \in Seq(Ages), InOrder(bucket), PrunedWindow
<1>3. 0 \in Ages /\ InWindow(0) /\ Window \in Nat
  BY AttemptsAssumption DEF Ages, InWindow
<1>4. Len(kept) \in Nat /\ DOMAIN kept = 1..Len(kept) /\ \A i \in 1..Len(kept) : kept[i] \in Nat
  <2>1. \A i \in 1..Len(kept) : kept[i] \in Ages
    BY <1>2, ElementOfSeq
  <2> QED  BY <1>2, <2>1, LenProperties DEF Ages
<1>5. /\ more \in Seq(Ages) /\ Len(more) = Len(kept) + 1
      /\ \A i \in 1..Len(kept) : more[i] = kept[i]
      /\ more[Len(kept) + 1] = 0
  BY <1>1, <1>2, <1>3, AppendProperties
<1>6. DOMAIN more = 1..(Len(kept) + 1)
  BY <1>5, LenProperties
<1>7. InOrder(more)
  <2> SUFFICES ASSUME NEW i \in 1..(Len(kept) + 1), NEW j \in 1..(Len(kept) + 1), i <= j
               PROVE  more[j] <= more[i]
    BY <1>6 DEF InOrder
  <2>1. CASE j = Len(kept) + 1
    BY <1>4, <1>5, <2>1
  <2>2. CASE j # Len(kept) + 1
    <3>1. i \in 1..Len(kept) /\ j \in 1..Len(kept)
      BY <1>4, <2>2
    <3> QED  BY <1>2, <1>4, <1>5, <3>1 DEF InOrder
  <2> QED  BY <2>1, <2>2
<1>8. \A i \in 1..Len(more) : InWindow(more[i])
  BY <1>2, <1>3, <1>4, <1>5
<1> QED  BY <1>5, <1>7, <1>8, NothingToPrune

\* When time passes, a window and what a history kept of it drop the same.
LEMMA OlderWindow ==
    ASSUME NEW bucket \in Seq(Ages), InOrder(bucket), NEW older, older = Older(bucket)
    PROVE  /\ older \in Seq(Ages) /\ InOrder(older)
           /\ Remembered(Older(Pruned(bucket))) = Pruned(older)
           /\ Len(Pruned(older)) <= Len(Pruned(bucket))
<1>1. Len(bucket) \in Nat /\ DOMAIN bucket = 1..Len(bucket) /\ Window \in Nat
  BY AttemptsAssumption, LenProperties
<1>2. \A i \in 1..Len(bucket) : bucket[i] \in Ages /\ bucket[i] \in Nat
  BY <1>1, ElementOfSeq DEF Ages
<1>3. older = [i \in 1..Len(bucket) |-> IF InWindow(bucket[i]) THEN bucket[i] + 1 ELSE bucket[i]]
  BY <1>1 DEF Older
<1>4. older \in Seq(Ages) /\ Len(older) = Len(bucket) /\ DOMAIN older = 1..Len(bucket)
  <2>1. \A i \in 1..Len(bucket) : older[i] \in Ages
    BY <1>1, <1>2, <1>3 DEF Ages, InWindow
  <2> QED  BY <1>1, <1>3, <2>1
<1>5. InOrder(older)
  BY <1>1, <1>2, <1>3, <1>4 DEF InOrder, InWindow
<1>6. PICK n : Boundary(bucket, n)
  BY BoundaryExists
<1>7. PICK m : Boundary(older, m)
  BY <1>4, <1>5, BoundaryExists
<1>8. n \in 0..Len(bucket) /\ m \in 0..Len(bucket)
  BY <1>4, <1>6, <1>7 DEF Boundary
<1>9. n <= m
  <2> SUFFICES ASSUME m < n PROVE FALSE
    BY <1>8
  <2>1. n \in 1..Len(bucket) /\ m < n /\ ~(n < n)
    BY <1>1, <1>8
  <2>2. ~InWindow(bucket[n]) /\ InWindow(older[n])
    BY <1>4, <1>6, <1>7, <2>1 DEF Boundary
  <2> QED  BY <1>3, <2>1, <2>2
<1>10. PICK kept : kept = Pruned(bucket)
  OBVIOUS
<1>11. kept = SubSeq(bucket, n + 1, Len(bucket))
  BY <1>6, <1>10, PrunedIs
<1>12. /\ kept \in Seq(Ages) /\ Len(kept) = Len(bucket) - n
       /\ \A i \in 1..Len(kept) : kept[i] = bucket[n + i]
  BY ONLY <1>8, <1>11, bucket \in Seq(Ages), LastEntries
<1>13. PICK l : l = Older(kept)
  OBVIOUS
<1>14. l = [i \in 1..Len(kept) |-> IF InWindow(kept[i]) THEN kept[i] + 1 ELSE kept[i]]
  BY <1>12, <1>13, LenProperties DEF Older
<1>15. Len(kept) \in Nat /\ \A i \in 1..Len(kept) : n + i \in 1..Len(bucket)
  BY <1>1, <1>8, <1>12
<1>16. \A i \in 1..Len(kept) : l[i] = older[n + i]
  BY <1>3, <1>12, <1>14, <1>15
<1>17. l \in Seq(Ages) /\ Len(l) = Len(kept)
  <2>1. \A i \in 1..Len(kept) : l[i] \in Ages
    BY <1>4, <1>15, <1>16, ElementOfSeq
  <2> QED  BY <1>14, <1>15, <2>1
<1>18. Boundary(l, m - n)
  <2>1. m - n \in 0..Len(l)
    BY <1>1, <1>8, <1>9, <1>12, <1>17
  <2>2. ASSUME NEW i \in 1..Len(l) PROVE InWindow(l[i]) <=> m - n < i
    <3>1. n + i \in 1..Len(older) /\ l[i] = older[n + i]
      BY <1>4, <1>15, <1>16, <1>17
    <3>2. InWindow(older[n + i]) <=> m < n + i
      BY <1>7, <3>1 DEF Boundary
    <3> QED  BY <1>8, <3>1, <3>2
  <2> QED  BY <2>1, <2>2 DEF Boundary
<1>19. PICK a, b : a = Remembered(l) /\ b = Pruned(older)
  OBVIOUS
<1>20. a = SubSeq(l, (m - n) + 1, Len(l)) /\ b = SubSeq(older, m + 1, Len(older))
  BY <1>4, <1>7, <1>17, <1>18, <1>19, PrunedIs
<1>21. m - n \in 0..Len(l) /\ m \in 0..Len(older)
  BY <1>7, <1>18 DEF Boundary
<1>22. /\ a \in Seq(Ages) /\ Len(a) = Len(l) - (m - n)
       /\ \A i \in 1..Len(a) : a[i] = l[(m - n) + i]
  <2>1. PICK k : k = m - n
    OBVIOUS
  <2>2. a = SubSeq(l, k + 1, Len(l)) /\ k \in 0..Len(l) /\ l \in Seq(Ages)
    BY <1>17, <1>20, <1>21, <2>1
  <2>3. /\ a \in Seq(Ages) /\ Len(a) = Len(l) - k
        /\ \A i \in 1..Len(a) : a[i] = l[k + i]
    BY ONLY <2>2, LastEntries
  <2> QED  BY <2>1, <2>3
<1>23. /\ b \in Seq(Ages) /\ Len(b) = Len(older) - m
       /\ \A i \in 1..Len(b) : b[i] = older[m + i]
  <2>1. b = SubSeq(older, m + 1, Len(older)) /\ m \in 0..Len(older) /\ older \in Seq(Ages)
    BY <1>4, <1>20, <1>21
  <2> QED  BY ONLY <2>1, LastEntries
<1>24. Len(a) = Len(b)
  BY <1>1, <1>4, <1>8, <1>12, <1>17, <1>22, <1>23
<1>25. ASSUME NEW i \in 1..Len(a) PROVE a[i] = b[i]
  <2>1. Len(a) \in Nat /\ (m - n) + i \in 1..Len(kept) /\ n + ((m - n) + i) = m + i
    BY <1>8, <1>9, <1>15, <1>17, <1>21, <1>22
  <2> QED  BY <1>16, <1>22, <1>23, <1>24, <2>1
<1>26. a = b
  BY <1>22, <1>23, <1>24, <1>25, SeqEqual
<1>27. Len(b) <= Len(kept)
  BY <1>1, <1>4, <1>8, <1>9, <1>12, <1>23
<1> QED  BY <1>4, <1>5, <1>10, <1>13, <1>19, <1>26, <1>27
\* The windows are in order, and what they hold of the last Window ages is what the
\* histories hold: the attempts let in, and the failures since the last success.
WindowsInv ==
    /\ attempts \in Seq(Ages) /\ InOrder(attempts) /\ admitted = Pruned(attempts)
    /\ failures \in Seq(Ages) /\ InOrder(failures) /\ missed = Pruned(failures)
    /\ Len(admitted) <= Limit
    /\ verdict \in Verdict

LEMMA EmptyWindow == InOrder(<<>>) /\ <<>> \in Seq(Ages) /\ Pruned(<<>>) = <<>>
<1>1. PICK none : none = <<>>
  OBVIOUS
<1>2. none \in Seq(Ages) /\ Len(none) = 0 /\ DOMAIN none = {}
  BY <1>1, EmptySeq, LenProperties
<1>3. \A i \in 1..Len(none) : InWindow(none[i])
  BY <1>2
<1>4. Pruned(none) = none
  BY <1>2, <1>3, NothingToPrune
<1> QED  BY <1>1, <1>2, <1>4 DEF InOrder

LEMMA WindowsInit == AttemptsInit => WindowsInv
<1>1. Len(<<>>) = 0 /\ 0 <= Limit
  BY AttemptsAssumption
<1> QED  BY <1>1, EmptyWindow DEF AttemptsInit, WindowsInv, Verdict

\* A window that was pruned is the same to the histories.
LEMMA PrunedAgain ==
    ASSUME NEW bucket \in Seq(Ages), InOrder(bucket), NEW kept, kept = Pruned(bucket)
    PROVE  kept \in Seq(Ages) /\ InOrder(kept) /\ Pruned(kept) = kept
<1>1. /\ kept \in Seq(Ages) /\ InOrder(kept)
      /\ \A i \in 1..Len(kept) : InWindow(kept[i])
  BY PrunedWindow
<1> QED  BY <1>1, NothingToPrune

\* A login that is let in.
LEMMA ConsumeKeepsWindow ==
    ASSUME WindowsInv, Consume
    PROVE  /\ attempts' \in Seq(Ages) /\ InOrder(attempts)' /\ admitted' = Pruned(attempts)'
           /\ Len(admitted)' <= Limit /\ verdict' \in Verdict
<1>1. PICK now, next : now = attempts /\ next = attempts'
  OBVIOUS
<1>2. now \in Seq(Ages) /\ InOrder(now) /\ next = Append(Pruned(now), 0)
  BY <1>1 DEF WindowsInv, Consume
<1>3. next \in Seq(Ages) /\ InOrder(next) /\ Pruned(next) = next
  BY ONLY <1>2, NewEntry
<1>4. admitted' = Append(Pruned(now), 0) /\ Len(Pruned(now)) < Limit
  BY <1>1 DEF WindowsInv, Consume
<1>5. Pruned(now) \in Seq(Ages) /\ 0 \in Ages
  BY <1>2, PrunedAgain, AttemptsAssumption DEF Ages
<1>6. Len(admitted') = Len(Pruned(now)) + 1 /\ Len(Pruned(now)) \in Nat
  BY <1>4, <1>5, AppendProperties, LenProperties
<1>7. Len(admitted') <= Limit
  BY <1>4, <1>6, AttemptsAssumption
<1> QED  BY <1>1, <1>2, <1>3, <1>4, <1>7 DEF Consume, Verdict, InOrder

LEMMA WindowsStep == WindowsInv /\ [AttemptsNext]_attemptsVars => WindowsInv'
<1> SUFFICES ASSUME WindowsInv, [AttemptsNext]_attemptsVars PROVE WindowsInv'
  OBVIOUS
<1>1. PICK a, b, a1, b1 : a = attempts /\ b = failures /\ a1 = attempts' /\ b1 = failures'
  OBVIOUS
<1>2. /\ a \in Seq(Ages) /\ InOrder(a) /\ admitted = Pruned(a)
      /\ b \in Seq(Ages) /\ InOrder(b) /\ missed = Pruned(b)
  BY <1>1 DEF WindowsInv
<1> DEFINE WindowsAre == /\ a1 \in Seq(Ages) /\ InOrder(a1) /\ admitted' = Pruned(a1)
                         /\ b1 \in Seq(Ages) /\ InOrder(b1) /\ missed' = Pruned(b1)
                         /\ Len(admitted') <= Limit /\ verdict' \in Verdict
<1>3. ASSUME NEW c \in Callers, Blocked(c) PROVE WindowsAre
  <2>1. a1 = Pruned(a)
    BY <1>1, <1>3 DEF Blocked
  <2>2. a1 \in Seq(Ages) /\ InOrder(a1) /\ Pruned(a1) = a1
    BY ONLY <1>2, <2>1, PrunedAgain
  <2> QED  BY <1>1, <1>2, <1>3, <2>1, <2>2 DEF Blocked, WindowsInv, Verdict
<1>4. ASSUME NEW c \in Callers, LoginFails(c) PROVE WindowsAre
  <2>1. Consume /\ b1 = Append(Pruned(b), 0) /\ missed' = Append(missed, 0)
    BY <1>1, <1>4 DEF LoginFails
  <2>2. b1 \in Seq(Ages) /\ InOrder(b1) /\ Pruned(b1) = b1
    BY ONLY <1>2, <2>1, NewEntry
  <2> QED  BY <1>1, <1>2, <2>1, <2>2, ConsumeKeepsWindow DEF InOrder
<1>5. ASSUME NEW c \in Callers, LoginSucceeds(c) PROVE WindowsAre
  <2>1. Consume /\ b1 = <<>> /\ missed' = <<>>
    BY <1>1, <1>5 DEF LoginSucceeds
  <2> QED  BY <1>1, <2>1, EmptyWindow, ConsumeKeepsWindow DEF InOrder
<1>6. ASSUME NEW c \in Callers, FailureAudited(c) PROVE WindowsAre
  <2>1. b1 = Pruned(b)
    BY <1>1, <1>6 DEF FailureAudited
  <2>2. b1 \in Seq(Ages) /\ InOrder(b1) /\ Pruned(b1) = b1
    BY ONLY <1>2, <2>1, PrunedAgain
  <2> QED  BY <1>1, <1>2, <1>6, <2>1, <2>2 DEF FailureAudited, WindowsInv, Verdict
<1>7. ASSUME Tick PROVE WindowsAre
  <2>1. a1 = Older(a) /\ b1 = Older(b)
    BY <1>1, <1>7 DEF Tick
  <2>2. /\ a1 \in Seq(Ages) /\ InOrder(a1)
        /\ Remembered(Older(Pruned(a))) = Pruned(a1)
        /\ Len(Pruned(a1)) <= Len(Pruned(a))
    BY ONLY <1>2, <2>1, OlderWindow
  <2>3. b1 \in Seq(Ages) /\ InOrder(b1) /\ Remembered(Older(Pruned(b))) = Pruned(b1)
    BY ONLY <1>2, <2>1, OlderWindow
  <2>4. admitted' = Remembered(Older(Pruned(a))) /\ missed' = Remembered(Older(Pruned(b)))
    BY <1>2, <1>7 DEF Tick
  <2>5. Len(admitted') <= Len(admitted)
    BY <1>2, <2>2, <2>4
  <2>6. Len(admitted') <= Limit
    <3>1. Len(admitted') \in Nat /\ Len(admitted) \in Nat
      BY <1>2, <2>2, <2>4, PrunedAgain, LenProperties
    <3> QED  BY <2>5, <3>1, AttemptsAssumption DEF WindowsInv
  <2> QED  BY <1>7, <2>2, <2>3, <2>4, <2>6 DEF Tick, Verdict
<1>8. CASE UNCHANGED attemptsVars
  <2>1. WindowsAre
    BY <1>1, <1>2, <1>8 DEF attemptsVars, WindowsInv
  <2> QED  BY <1>1, <2>1 DEF WindowsInv, InOrder
<1>9. ASSUME WindowsAre PROVE WindowsInv'
  BY <1>1, <1>9 DEF WindowsInv, InOrder
<1> QED  BY <1>3, <1>4, <1>5, <1>6, <1>7, <1>8, <1>9 DEF AttemptsNext

LEMMA WindowsInvariant == AttemptsSpec => []WindowsInv
BY WindowsInit, WindowsStep, PTL DEF AttemptsSpec

\* The windows, the histories and the callers' places keep their types: no entry gets
\* older than what every look at it counts as outlived.
THEOREM AttemptTypesCorrect == AttemptsSpec => []AttemptsTyped
<1> DEFINE Placed == place \in [Callers -> {"out", "auditing"}]
<1>1. AttemptsInit => Placed
  BY DEF AttemptsInit
<1>2. Placed /\ [AttemptsNext]_attemptsVars => Placed'
  BY DEF AttemptsNext, attemptsVars, Tick, Blocked, LoginFails, LoginSucceeds, FailureAudited
<1>3. WindowsInv /\ Placed => AttemptsTyped
  BY PrunedAgain DEF WindowsInv, AttemptsTyped, Ages
<1> QED  BY <1>1, <1>2, <1>3, WindowsInvariant, PTL DEF AttemptsSpec

\* consume_auth_attempt, for any calls and any window and limit: what a refused attempt
\* finds in the deque are the last Limit ones let in, and an attempt is let in only if
\* there are fewer, however old what the deque still holds is.
THEOREM AttemptsAreLimited == AttemptsSpec => RefusedAtTheLimit
<1>1. WindowsInv /\ [AttemptsNext]_attemptsVars =>
        [/\ verdict' = "blocked" => Len(admitted) = Limit
         /\ verdict' = "admitted" => Len(admitted) < Limit]_attemptsVars
  <2> SUFFICES ASSUME WindowsInv, AttemptsNext
               PROVE  /\ verdict' = "blocked" => Len(admitted) = Limit
                      /\ verdict' = "admitted" => Len(admitted) < Limit
    OBVIOUS
  <2>1. admitted = Pruned(attempts) /\ Len(admitted) <= Limit /\ Len(admitted) \in Nat
    <3>1. admitted \in Seq(Ages)
      BY PrunedAgain DEF WindowsInv
    <3> QED  BY <3>1, LenProperties DEF WindowsInv
  <2>2. ASSUME NEW c \in Callers, Blocked(c) PROVE verdict' = "blocked" /\ Len(admitted) = Limit
    BY <2>1, <2>2, AttemptsAssumption DEF Blocked
  <2>3. ASSUME Consume PROVE verdict' = "admitted" /\ Len(admitted) < Limit
    BY <2>1, <2>3 DEF Consume
  <2>4. ASSUME NEW c \in Callers, LoginFails(c) \/ LoginSucceeds(c)
        PROVE  verdict' = "admitted" /\ Len(admitted) < Limit
    BY <2>3, <2>4 DEF LoginFails, LoginSucceeds
  <2>5. ASSUME NEW c \in Callers, FailureAudited(c) PROVE verdict' \in {"flagged", "unflagged"}
    BY <2>5 DEF FailureAudited
  <2>6. ASSUME Tick PROVE verdict' = "none"
    BY <2>6 DEF Tick
  <2> QED  BY <2>2, <2>4, <2>5, <2>6 DEF AttemptsNext
<1> QED  BY <1>1, WindowsInvariant, PTL DEF AttemptsSpec, RefusedAtTheLimit

\* is_suspicious_auth_attempt counts what there is when the audit has been written: other
\* logins and the clock have gone on since the failure was recorded.
THEOREM ReportsAreRight == AttemptsSpec => SuspiciousAtTheThreshold
<1>1. WindowsInv /\ [AttemptsNext]_attemptsVars =>
        [/\ verdict' = "flagged" => Len(missed) >= Threshold
         /\ verdict' = "unflagged" => Len(missed) < Threshold]_attemptsVars
  <2> SUFFICES ASSUME WindowsInv, AttemptsNext
               PROVE  /\ verdict' = "flagged" => Len(missed) >= Threshold
                      /\ verdict' = "unflagged" => Len(missed) < Threshold
    OBVIOUS
  <2>1. missed = Pruned(failures) /\ Len(missed) \in Nat
    <3>1. missed \in Seq(Ages)
      BY PrunedAgain DEF WindowsInv
    <3> QED  BY <3>1, LenProperties DEF WindowsInv
  <2>2. ASSUME NEW c \in Callers, FailureAudited(c)
        PROVE  /\ verdict' = "flagged" => Len(missed) >= Threshold
               /\ verdict' = "unflagged" => Len(missed) < Threshold
    BY <2>1, <2>2, AttemptsAssumption DEF FailureAudited
  <2>3. ASSUME NEW c \in Callers, Blocked(c) \/ LoginFails(c) \/ LoginSucceeds(c)
        PROVE  verdict' \in {"blocked", "admitted"}
    BY <2>3 DEF Blocked, LoginFails, LoginSucceeds, Consume
  <2>4. ASSUME Tick PROVE verdict' = "none"
    BY <2>4 DEF Tick
  <2> QED  BY <2>2, <2>3, <2>4 DEF AttemptsNext
<1> QED  BY <1>1, WindowsInvariant, PTL DEF AttemptsSpec, SuspiciousAtTheThreshold
=============================================================================
