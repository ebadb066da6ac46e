---------------------------- MODULE ExecRateLimit ---------------------------
(***************************************************************************)
(* wait_for_rate_limit: exec calls for one server wait until an interval   *)
(* has passed since the last call that waited.  The clock is relative: how *)
(* long ago the last call was let through, up to LongAgo, after which no   *)
(* interval of the configuration is short enough to matter.  LongAgo also  *)
(* stands for "never".                                                     *)
(***************************************************************************)
EXTENDS Naturals, Sequences

CONSTANTS
    Callers,    \* exec calls at one time; a caller that was let through may call again
    Intervals,  \* minIntervalSeconds above 0 that the configuration may give: with 0 a
                \* call returns at once and touches nothing
    LongAgo     \* a time after which no interval matters any more

ASSUME RateAssumption == LongAgo \in Nat /\ Intervals \subseteq 1..LongAgo

VARIABLES
    since,     \* time since _last_sent_at, at most LongAgo
    queue,     \* the lock of the server: its holder, then its waiters in order
    place,     \* place[c]: where c is in wait_for_rate_limit
    interval,  \* interval[c]: the interval that c has read, 0 outside
    left,      \* left[c]: what is left of c's sleep
    gap        \* history: time since a limited call was let through, at most LongAgo

vars == <<since, queue, place, interval, left, gap>>

Place == {"out", "waiting", "sleeping"}

Init == /\ since = LongAgo /\ gap = LongAgo
        /\ queue = <<>>
        /\ place    = [c \in Callers |-> "out"]
        /\ interval = [c \in Callers |-> 0]
        /\ left     = [c \in Callers |-> 0]
-----------------------------------------------------------------------------
Holds(c) == queue # <<>> /\ Head(queue) = c

\* The interval is read on arrival.  asyncio.Lock is first come, first served.
Arrives(c) ==
    /\ place[c] = "out"
    /\ \E i \in Intervals : interval' = [interval EXCEPT ![c] = i]
    /\ queue' = Append(queue, c)
    /\ place' = [place EXCEPT ![c] = "waiting"]
    /\ UNCHANGED <<since, left, gap>>

\* Stamps _last_sent_at and releases the lock.
LetThrough(c) ==
    /\ since' = 0 /\ gap' = 0
    /\ queue' = Tail(queue)
    /\ place' = [place EXCEPT ![c] = "out"]
    /\ interval' = [interval EXCEPT ![c] = 0]

\* Mutated: the early way out keeps the lock.
NeedNotSleep_KeepsLock(c) ==
    /\ place[c] = "waiting" /\ Holds(c)
    /\ since >= interval[c]
    /\ since' = 0 /\ gap' = 0
    /\ place' = [place EXCEPT ![c] = "out"]
    /\ UNCHANGED <<queue, interval, left>>

\* c has the lock, and the interval has passed.
NeedNotSleep(c) ==
    /\ place[c] = "waiting" /\ Holds(c)
    /\ since >= interval[c]
    /\ LetThrough(c)
    /\ UNCHANGED left

\* Mutated: the lock is not held across the sleep.
FallsAsleep_Unlocked(c) ==
    /\ place[c] = "waiting" /\ Holds(c)
    /\ since < interval[c]
    /\ left'  = [left EXCEPT ![c] = interval[c] - since]
    /\ place' = [place EXCEPT ![c] = "sleeping"]
    /\ queue' = Tail(queue) \o <<c>>
    /\ UNCHANGED <<since, interval, gap>>

\* It has not passed: c keeps the lock while it sleeps for the rest.
FallsAsleep(c) ==
    /\ place[c] = "waiting" /\ Holds(c)
    /\ since < interval[c]
    /\ left'  = [left EXCEPT ![c] = interval[c] - since]
    /\ place' = [place EXCEPT ![c] = "sleeping"]
    /\ UNCHANGED <<since, queue, interval, gap>>

\* asyncio.sleep may return late, never early.
Wakes(c) ==
    /\ place[c] = "sleeping" /\ left[c] = 0
    /\ LetThrough(c)
    /\ UNCHANGED left

Tick == /\ since' = IF since < LongAgo THEN since + 1 ELSE since
        /\ gap'   = IF gap < LongAgo THEN gap + 1 ELSE gap
        /\ left'  = [c \in Callers |-> IF left[c] > 0 THEN left[c] - 1 ELSE 0]
        /\ UNCHANGED <<queue, place, interval>>

Goes(c) == NeedNotSleep(c) \/ FallsAsleep(c) \/ Wakes(c)

Next == Tick \/ \E c \in Callers : Arrives(c) \/ Goes(c)

Spec == Init /\ [][Next]_vars
-----------------------------------------------------------------------------
TypeOK == /\ since \in 0..LongAgo /\ gap \in 0..LongAgo
          /\ queue \in Seq(Callers)
          /\ place \in [Callers -> Place]
          /\ interval \in [Callers -> Intervals \cup {0}]
          /\ left \in [Callers -> 0..LongAgo]

\* However calls arrive, sleep and wake, one that is limited comes through no sooner
\* than its own interval after the one before it, whatever interval that one had.
CallsAreSpaced ==
    [][\A c \in Callers : place[c] # "out" /\ place'[c] = "out" => gap >= interval[c]]_vars
=============================================================================
