---------------------------- MODULE AuthSessions ----------------------------
(***************************************************************************)
(* The auth sessions of one user: login, logout, revocation, rotation,     *)
(* password change, and what an administrator does to the account.         *)
(*                                                                         *)
(* Handlers run on one event loop and the database calls block it, so a    *)
(* handler is not interrupted between its calls.  But an operation made of *)
(* several transactions can stop between two of them, when the database    *)
(* fails or the service dies: the steps of such an operation are actions   *)
(* of their own, with `doing` naming the next one, and only the clock and  *)
(* Interrupt can come in between.                                          *)
(*                                                                         *)
(* The superadmin that ensure_seed_data keeps is not the user modelled:    *)
(* every start of the service sets its password and switches it on, and    *)
(* revokes nothing.                                                        *)
(***************************************************************************)
EXTENDS Naturals

CONSTANTS
    MaxSessions,   \* bound: rows of user_sessions
    MaxPasswords   \* bound: how many passwords the user has one after the other

ASSUME AuthAssumption == MaxSessions \in Nat /\ MaxPasswords \in Nat

VARIABLES
    present,     \* the users row exists
    active,      \* is_active
    password,    \* which password password_hash belongs to, 0 for none
    created,     \* how many rows user_sessions has; the rows are numbered in order
    revoked,     \* the rows whose revoked_at is set
    expired,     \* rows 1..expired are past expires_at: all get the same time to live
    root,        \* history: the login that s descends from by rotations
    credential,  \* history: the password that s goes back to
    doing,       \* the transaction that comes next in the operation in progress
    subject,     \* the session that operation is about, or 0
    torn         \* history: an operation stopped after it had replaced the password
                 \* and before it had revoked what it must, and none made up for it

account  == <<present, active, password>>
sessions == <<created, revoked, expired, root, credential>>
worker   == <<doing, subject>>
vars     == <<account, sessions, worker, torn>>

Sessions == 1..MaxSessions
Row      == 1..created
Ops      == {"idle", "rotating", "evicting", "renewing", "reissuing", "resetting", "deleting"}

\* A user may be created without a password.
Init == /\ present = TRUE
        /\ active = TRUE
        /\ password \in {0, 1}
        /\ created = 0 /\ expired = 0
        /\ revoked = {}
        /\ root       = [s \in Sessions |-> 0]
        /\ credential = [s \in Sessions |-> 0]
        /\ doing = "idle" /\ subject = 0
        /\ torn  = FALSE
-----------------------------------------------------------------------------
\* Neither revoked nor expired, whatever the account's state.
InForce(s) == s \in Row /\ s \notin revoked /\ s > expired

\* get_authenticated_user_for_token finds the user of the token.
Authorized(s) == InForce(s) /\ present /\ active

\* create_auth_session
NewSession(r, p) ==
    /\ created < MaxSessions
    /\ created'    = created + 1
    /\ root'       = [root EXCEPT ![created + 1] = r]
    /\ credential' = [credential EXCEPT ![created + 1] = p]

Revoke(S) == revoked' = revoked \cup S

\* revoke_all_auth_sessions_for_user: expired rows too; `spared` is except_session_uid.
RevokeAll(spared) == Revoke(Row \ spared)

Proceed(op, s) == doing' = op /\ subject' = s

Done == doing' = "idle" /\ subject' = 0

\* POST /token with the right password.  A wrong one changes nothing here.
Login ==
    /\ doing = "idle"
    /\ present /\ active /\ password # 0
    /\ NewSession(created + 1, password)
    /\ UNCHANGED <<account, revoked, expired, worker, torn>>

Logout(s) ==
    /\ doing = "idle" /\ Authorized(s)
    /\ Revoke({s})
    /\ UNCHANGED <<account, created, expired, root, credential, worker, torn>>

LogoutAll(s) ==
    /\ doing = "idle" /\ Authorized(s)
    /\ RevokeAll({})
    /\ torn' = FALSE
    /\ UNCHANGED <<account, created, expired, root, credential, worker>>

\* POST /sessions/{uid}/revoke by a superadmin, for a row in any state.
AdminRevokes(s) ==
    /\ doing = "idle" /\ s \in Row
    /\ Revoke({s})
    /\ UNCHANGED <<account, created, expired, root, credential, worker, torn>>
-----------------------------------------------------------------------------
\* Mutated: the old row stays in force.
RevokeOld_Keeps(s) == UNCHANGED revoked

\* The first transaction of rotate_auth_session.
RevokeOld(s) == Revoke({s})

Rotate(s) ==
    /\ doing = "idle" /\ Authorized(s)
    /\ created < MaxSessions
    /\ RevokeOld(s)
    /\ Proceed("rotating", s)
    /\ UNCHANGED <<account, created, expired, root, credential, torn>>

\* The second transaction: the new row goes back to the same login.
RotateIssues ==
    /\ doing = "rotating"
    /\ NewSession(root[subject], credential[subject])
    /\ Done
    /\ UNCHANGED <<account, revoked, expired, torn>>

\* POST /password: set_user_password_hash ...
ChangePassword(s) ==
    /\ doing = "idle" /\ Authorized(s)
    /\ password # 0 /\ password < MaxPasswords
    /\ created < MaxSessions
    /\ password' = password + 1
    /\ Proceed("evicting", s)
    /\ UNCHANGED <<present, active, sessions, torn>>

\* Mutated: the change revokes nothing but what rotate_auth_session does.
Spared_All(s) == Row

\* except_session_uid of the password change.
Spared(s) == {s}

\* ... then revoke_all_auth_sessions_for_user, all but the caller's ...
ChangeEvicts ==
    /\ doing = "evicting"
    /\ RevokeAll(Spared(subject))
    /\ Proceed("renewing", subject)
    /\ UNCHANGED <<account, created, expired, root, credential, torn>>

\* ... then rotate_auth_session of the caller's, in its two transactions.
ChangeRevokesOwn ==
    /\ doing = "renewing" /\ InForce(subject)
    /\ RevokeOld(subject)
    /\ Proceed("reissuing", subject)
    /\ torn' = FALSE
    /\ UNCHANGED <<account, created, expired, root, credential>>

\* The caller's session expired meanwhile: 401, with the password changed.
ChangeFindsExpired ==
    /\ doing = "renewing" /\ ~InForce(subject)
    /\ Done
    /\ torn' = FALSE
    /\ UNCHANGED <<account, sessions>>

ChangeIssues ==
    /\ doing = "reissuing"
    /\ NewSession(root[subject], password)
    /\ Done
    /\ UNCHANGED <<account, revoked, expired, torn>>
-----------------------------------------------------------------------------
\* PATCH /users/{id}, first transaction: is_active, or a password, or both.
AdminUpdates(on, reset) ==
    /\ doing = "idle" /\ present
    /\ active' = on
    /\ IF reset
       THEN /\ password < MaxPasswords
            /\ password' = password + 1
            /\ Proceed("resetting", 0)
       ELSE UNCHANGED <<password, worker>>
    /\ UNCHANGED <<present, sessions, torn>>

\* Mutated: sessions of an account that is switched off are left alone.
AdminEvicts_IfActive ==
    /\ doing = "resetting"
    /\ IF active THEN RevokeAll({}) ELSE UNCHANGED revoked
    /\ Done
    /\ torn' = FALSE
    /\ UNCHANGED <<account, created, expired, root, credential>>

\* The second: every session is revoked.
AdminEvicts ==
    /\ doing = "resetting"
    /\ RevokeAll({})
    /\ Done
    /\ torn' = FALSE
    /\ UNCHANGED <<account, created, expired, root, credential>>

\* DELETE /users/{id}: the sessions are revoked first ...
AdminDeletes ==
    /\ doing = "idle" /\ present
    /\ RevokeAll({})
    /\ Proceed("deleting", 0)
    /\ torn' = FALSE
    /\ UNCHANGED <<account, created, expired, root, credential>>

\* ... then the row is deleted, which the database refuses (409) while rows of
\* user_sessions, or of the other tables, refer to it.
UserDeleted ==
    /\ doing = "deleting" /\ created = 0
    /\ present' = FALSE
    /\ Done
    /\ UNCHANGED <<active, password, sessions, torn>>

DeleteRefused ==
    /\ doing = "deleting"
    /\ Done
    /\ UNCHANGED <<account, sessions, torn>>
-----------------------------------------------------------------------------
\* The clock reaches expires_at of the oldest row that has not expired.
Expire ==
    /\ expired < created
    /\ expired' = expired + 1
    /\ UNCHANGED <<account, created, revoked, root, credential, worker, torn>>

\* A transaction fails, or the service dies, and the rest of the operation is lost.
Interrupt ==
    /\ doing # "idle"
    /\ torn' = (torn \/ doing \in {"evicting", "renewing", "resetting"})
    /\ Done
    /\ UNCHANGED <<account, sessions>>

Next == \/ Login \/ RotateIssues
        \/ ChangeEvicts \/ ChangeRevokesOwn \/ ChangeFindsExpired \/ ChangeIssues
        \/ AdminEvicts \/ AdminDeletes \/ UserDeleted \/ DeleteRefused
        \/ \E on, reset \in BOOLEAN : AdminUpdates(on, reset)
        \/ \E s \in Sessions : \/ Logout(s) \/ LogoutAll(s) \/ AdminRevokes(s)
                               \/ Rotate(s) \/ ChangePassword(s)
        \/ Expire \/ Interrupt

Spec == Init /\ [][Next]_vars
-----------------------------------------------------------------------------
TypeOK == /\ present \in BOOLEAN /\ active \in BOOLEAN /\ torn \in BOOLEAN
          /\ password \in 0..MaxPasswords \cup {1}
          /\ created \in 0..MaxSessions /\ expired \in 0..created
          /\ revoked \in SUBSET Sessions
          /\ root \in [Sessions -> Sessions \cup {0}]
          /\ credential \in [Sessions -> Nat]
          /\ doing \in Ops /\ subject \in Sessions \cup {0}

\* rotate_auth_session never multiplies a login: of the sessions that descend from
\* it, one at most is in force, wherever rotations and password changes were stopped.
OneInForcePerLogin == \A s, t \in Row :
    InForce(s) /\ InForce(t) /\ root[s] = root[t] => s = t

\* Once a password was replaced, by its owner or by an administrator, no session that
\* goes back to an older one is in force, also when the account is switched off and
\* on again.  The exception is an operation that was stopped before it had revoked
\* them, until a password change, a reset, a deletion or a logout-all makes up for it.
OldPasswordLocksOut ==
    doing = "idle" /\ ~torn => \A s \in Row : InForce(s) => credential[s] = password

\* The token that a password change returns is then the only one of the user.
ChangeLeavesOneToken ==
    [][doing = "reissuing" /\ created' > created
         => \A s \in 1..created' : InForce(s)' => s = created']_vars
=============================================================================
