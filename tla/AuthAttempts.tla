---------------------------- MODULE AuthAttempts ----------------------------
(***************************************************************************)
(* The attempt windows of POST /auth/token, for one pair of address and    *)
(* email: pairs share nothing.  The clock is relative: a window holds the  *)
(* ages of its entries, up to Window + 1, which stands for all that is     *)
(* too old.                                                                *)
(***************************************************************************)
EXTENDS Naturals, Sequences

CONSTANTS
    Callers,    \* login calls at one time
    Window,     \* auth_rate_limit_window_seconds
    Limit,      \* auth_rate_limit_max_attempts
    Threshold   \* auth_suspicious_threshold

ASSUME AttemptsAssumption == /\ Window \in Nat \ {0} /\ Limit \in Nat \ {0}
                             /\ Threshold \in Nat

VARIABLES
    attempts,   \* _auth_attempts of the key, oldest first
    failures,   \* _auth_failures of the key, oldest first
    place,      \* place[c]: whether c awaits the audit of its failed login
    verdict,    \* history: what the last step decided about its call
    admitted,   \* history: ages of the attempts let in within the window
    missed      \* history: ages of the failed logins within the window since the last
                \* successful one

attemptsVars == <<attempts, failures, place, verdict, admitted, missed>>

Verdict == {"none", "blocked", "admitted", "flagged", "unflagged"}

AttemptsInit == /\ attempts = <<>> /\ failures = <<>>
                /\ place = [c \in Callers |-> "out"]
                /\ verdict = "none"
                /\ admitted = <<>> /\ missed = <<>>
-----------------------------------------------------------------------------
InWindow(age) == age <= Window

\* Mutated: an entry as old as the window is dropped.
Pruned_Strict(bucket) ==
    LET drops == CHOOSE n \in 0..Len(bucket) :
                    /\ \A i \in 1..n : bucket[i] >= Window
                    /\ n < Len(bucket) => bucket[n + 1] < Window
    IN  SubSeq(bucket, drops + 1, Len(bucket))

\* _prune, which drops from the old end until an entry is in the window.
Pruned(bucket) ==
    LET drops == CHOOSE n \in 0..Len(bucket) :
                    /\ \A i \in 1..n : ~InWindow(bucket[i])
                    /\ n < Len(bucket) => InWindow(bucket[n + 1])
    IN  SubSeq(bucket, drops + 1, Len(bucket))

\* What the histories keep: the entries in the window, which are the last ones.
Remembered(log) ==
    LET old == CHOOSE n \in 0..Len(log) : \A i \in DOMAIN log : InWindow(log[i]) <=> n < i
    IN  SubSeq(log, old + 1, Len(log))

\* consume_auth_attempt refuses; only the window is tidied.
Blocked(c) ==
    /\ place[c] = "out"
    /\ Len(Pruned(attempts)) >= Limit
    /\ attempts' = Pruned(attempts)
    /\ verdict'  = "blocked"
    /\ UNCHANGED <<failures, place, admitted, missed>>

Consume == /\ Len(Pruned(attempts)) < Limit
           /\ attempts' = Append(Pruned(attempts), 0)
           /\ admitted' = Append(admitted, 0)
           /\ verdict'  = "admitted"

\* Wrong credentials or an inactive user: the failure is recorded, then audited.
LoginFails(c) ==
    /\ place[c] = "out"
    /\ Consume
    /\ failures' = Append(Pruned(failures), 0)
    /\ missed'   = Append(missed, 0)
    /\ place'    = [place EXCEPT ![c] = "auditing"]

\* Mutated: the failures are kept.
LoginSucceeds_Keeps(c) ==
    /\ place[c] = "out"
    /\ Consume
    /\ missed' = <<>>
    /\ UNCHANGED <<failures, place>>

\* clear_auth_failures; the attempts stay.
LoginSucceeds(c) ==
    /\ place[c] = "out"
    /\ Consume
    /\ failures' = <<>> /\ missed' = <<>>
    /\ UNCHANGED place

\* is_suspicious_auth_attempt, after the audit: other calls and the clock have gone on.
FailureAudited(c) ==
    /\ place[c] = "auditing"
    /\ failures' = Pruned(failures)
    /\ verdict'  = IF Len(Pruned(failures)) >= Threshold THEN "flagged" ELSE "unflagged"
    /\ place'    = [place EXCEPT ![c] = "out"]
    /\ UNCHANGED <<attempts, admitted, missed>>

Older(bucket) == [i \in DOMAIN bucket |-> IF InWindow(bucket[i]) THEN bucket[i] + 1 ELSE bucket[i]]

Tick == /\ attempts' = Older(attempts)
        /\ failures' = Older(failures)
        /\ admitted' = Remembered(Older(admitted))
        /\ missed'   = Remembered(Older(missed))
        /\ verdict'  = "none"
        /\ UNCHANGED place

AttemptsNext == Tick \/ \E c \in Callers : \/ Blocked(c) \/ LoginFails(c)
                                           \/ LoginSucceeds(c) \/ FailureAudited(c)

AttemptsSpec == AttemptsInit /\ [][AttemptsNext]_attemptsVars
-----------------------------------------------------------------------------
AttemptsTyped == LET Age == 0..(Window + 1) IN
    /\ attempts \in Seq(Age) /\ failures \in Seq(Age)
    /\ admitted \in Seq(Age) /\ missed \in Seq(Age)
    /\ place \in [Callers -> {"out", "auditing"}]
    /\ verdict \in Verdict

\* A login is refused exactly if as many as the limit were let in within the window
\* that ends with it: refused ones and older ones do not count, successful ones do.
RefusedAtTheLimit ==
    [][/\ verdict' = "blocked" => Len(admitted) = Limit
       /\ verdict' = "admitted" => Len(admitted) < Limit]_attemptsVars

\* A failed login is reported as suspicious exactly if, when its audit is written, the
\* window has as many failures as the threshold since the last success: failures of
\* calls still under way count, and a success meanwhile lets it go.
SuspiciousAtTheThreshold ==
    [][/\ verdict' = "flagged" => Len(missed) >= Threshold
       /\ verdict' = "unflagged" => Len(missed) < Threshold]_attemptsVars
=============================================================================
