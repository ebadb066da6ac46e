------------------------- MODULE ExecAdmissionProofs ------------------------
(***************************************************************************)
(* Theorems about ExecRateLimit, for every set of callers and intervals,   *)
(* and about the handler around it, ExecAdmission, for every set of calls, *)
(* request ids and configurations.                                         *)
(***************************************************************************)
EXTENDS ExecAdmission, SequenceTheorems, TLAPS

\* The lock is held across the sleep, so one caller sleeps at most, and no other
\* stamp comes in between.
SleeperHolds == \A c \in Callers : place[c] = "sleeping" => Holds(c)

\* What a sleeper has left makes up for what is missing to its interval.
SleepIsEnough == \A c \in Callers :
    place[c] = "sleeping" => since + left[c] >= interval[c]

\* The code's stamp is right.
StampIsRight == gap = since

SpacingInv == TypeOK /\ SleeperHolds /\ SleepIsEnough /\ StampIsRight
-----------------------------------------------------------------------------
LEMMA SpacingInit == Init => SpacingInv
<1> SUFFICES ASSUME Init PROVE SpacingInv
  OBVIOUS
<1>1. TypeOK
  BY RateAssumption DEF Init, TypeOK, Place
<1> QED  BY <1>1 DEF Init, SpacingInv, SleeperHolds, SleepIsEnough, StampIsRight

LEMMA IntervalBound ==
    ASSUME NEW i \in Intervals \cup {0}
    PROVE  i \in Nat /\ i <= LongAgo
<1>1. CASE i = 0
  BY <1>1, RateAssumption
<1>2. CASE i \in Intervals
  BY <1>2, RateAssumption
<1> QED  BY <1>1, <1>2

LEMMA SpacingStep == SpacingInv /\ [Next]_vars => SpacingInv'
<1> SUFFICES ASSUME SpacingInv, [Next]_vars PROVE SpacingInv'
  OBVIOUS
<1> USE RateAssumption DEF SpacingInv, TypeOK, Place, StampIsRight
<1>a. \A c \in Callers : /\ interval[c] \in Nat /\ interval[c] <= LongAgo
                          /\ left[c] \in Nat /\ left[c] <= LongAgo
  <2> TAKE c \in Callers
  <2>1. interval[c] \in Intervals \cup {0} /\ left[c] \in 0..LongAgo
    OBVIOUS
  <2>2. interval[c] \in Nat /\ interval[c] <= LongAgo
    BY <2>1, IntervalBound
  <2> QED  BY <2>1, <2>2
<1>b. since \in Nat /\ since <= LongAgo
  OBVIOUS
<1>1. CASE Tick
  <2>1. TypeOK' /\ StampIsRight' /\ SleeperHolds'
    BY <1>1 DEF Tick, SleeperHolds, Holds
  <2>2. SleepIsEnough'
    <3> SUFFICES ASSUME NEW c \in Callers, place[c] = "sleeping"
                 PROVE  since' + left'[c] >= interval[c]
      BY <1>1 DEF Tick, SleepIsEnough
    <3>1. since + left[c] >= interval[c]
      BY DEF SleepIsEnough
    <3>2. /\ left'[c] = IF left[c] > 0 THEN left[c] - 1 ELSE 0
          /\ since' = IF since < LongAgo THEN since + 1 ELSE since
      BY <1>1 DEF Tick
    <3> QED  BY ONLY <1>a, <1>b, <3>1, <3>2, RateAssumption
  <2> QED  BY <2>1, <2>2
<1>2. ASSUME NEW c \in Callers, Arrives(c)
      PROVE  SpacingInv'
  <2>1. TypeOK' /\ StampIsRight'
    BY <1>2 DEF Arrives
  <2>2. SleeperHolds'
    BY <1>2 DEF Arrives, SleeperHolds, Holds
  <2>3. SleepIsEnough'
    BY <1>2 DEF Arrives, SleepIsEnough
  <2> QED  BY <2>1, <2>2, <2>3
<1>3. ASSUME NEW c \in Callers, NeedNotSleep(c) \/ Wakes(c)
      PROVE  SpacingInv'
  <2>1. Holds(c) /\ LetThrough(c) /\ UNCHANGED left
    BY <1>3 DEF NeedNotSleep, Wakes, SleeperHolds
  <2>2. TypeOK' /\ StampIsRight'
    BY <2>1 DEF LetThrough, Holds
  <2>3. \A d \in Callers : place'[d] # "sleeping"
    BY <2>1 DEF LetThrough, SleeperHolds, Holds
  <2> QED  BY <2>2, <2>3 DEF SleeperHolds, SleepIsEnough
<1>4. ASSUME NEW c \in Callers, FallsAsleep(c)
      PROVE  SpacingInv'
  <2>1. TypeOK' /\ StampIsRight'
    <3>1. interval[c] - since \in 0..LongAgo
      BY <1>4, <1>a, <1>b DEF FallsAsleep
    <3> QED  BY <1>4, <3>1 DEF FallsAsleep
  <2>2. SleeperHolds'
    BY <1>4 DEF FallsAsleep, SleeperHolds, Holds
  <2>3. SleepIsEnough'
    <3>1. since + (interval[c] - since) >= interval[c]
      BY <1>a, <1>b
    <3>2. left' = [left EXCEPT ![c] = interval[c] - since] /\ UNCHANGED <<since, interval>>
      BY <1>4 DEF FallsAsleep
    <3> QED  BY <1>4, <3>1, <3>2 DEF FallsAsleep, SleepIsEnough
  <2> QED  BY <2>1, <2>2, <2>3
<1>5. CASE UNCHANGED vars
  BY <1>5 DEF vars, SleeperHolds, SleepIsEnough, Holds
<1> QED  BY <1>1, <1>2, <1>3, <1>4, <1>5 DEF Next, Goes
-----------------------------------------------------------------------------
LEMMA SpacingInvariant == Spec => []SpacingInv
BY SpacingInit, SpacingStep, PTL DEF Spec

\* The lock, the stamp and the sleep of wait_for_rate_limit keep limited calls apart,
\* each by its own interval, for any number of calls and any mixture of intervals.
THEOREM CallsSpaced == Spec => CallsAreSpaced
<1>1. SpacingInv /\ [Next]_vars =>
        [\A c \in Callers : place[c] # "out" /\ place'[c] = "out" => gap >= interval[c]]_vars
  <2> SUFFICES ASSUME SpacingInv, Next, NEW c \in Callers,
                      place[c] # "out", place'[c] = "out"
               PROVE  gap >= interval[c]
    OBVIOUS
  <2>1. NeedNotSleep(c) \/ Wakes(c)
    BY DEF Next, Tick, Arrives, Goes, NeedNotSleep, FallsAsleep, Wakes, LetThrough,
       SpacingInv, TypeOK, Place
  <2> QED  BY <2>1, RateAssumption DEF SpacingInv, StampIsRight, SleepIsEnough, TypeOK,
              NeedNotSleep, Wakes
<1> QED  BY <1>1, SpacingInvariant, PTL DEF Spec, CallsAreSpaced
-----------------------------------------------------------------------------
\* Seen from the rate limit, every step of the admission is one of its own steps, or
\* none: its interval is one that the configuration gives.
LEMMA RateInit == AdmissionInit => Init
BY DEF AdmissionInit

LEMMA RateStep == [AdmissionNext]_admissionVars => [Next]_vars
<1> SUFFICES ASSUME [AdmissionNext]_admissionVars PROVE [Next]_vars
  OBVIOUS
<1>1. ASSUME NEW c \in Callers, NEW i \in Ids, LimitedCall(c, i) PROVE Next
  BY <1>1 DEF LimitedCall, Next
<1>2. ASSUME NEW c \in Callers, NEW i \in Ids, UnlimitedCall(c, i) PROVE UNCHANGED vars
  BY <1>2 DEF UnlimitedCall, rateVars, vars
<1>3. ASSUME NEW c \in Callers, CallStep(c) PROVE [Next]_vars
  <2>1. CASE Sleeps(c)
    BY <2>1 DEF Sleeps, Next, Goes
  <2>2. CASE ComesThrough(c)
    BY <2>2 DEF ComesThrough, Next, Goes
  <2>3. CASE Accepted(c)
    BY <2>3 DEF Accepted, rateVars, vars
  <2> QED  BY <1>3, <2>1, <2>2, <2>3 DEF CallStep
<1>4. ASSUME NEW i \in Ids, TaskStarts(i) \/ TaskDies(i) PROVE UNCHANGED vars
  BY <1>4 DEF TaskStarts, TaskDies, rateVars, vars
<1>5. ASSUME NEW new \in Configs, Reload(new) PROVE UNCHANGED vars
  BY <1>5 DEF Reload, rateVars, vars
<1>6. CASE RowCreated \/ RowSwitched \/ RowDeleted
  BY <1>6 DEF RowCreated, RowSwitched, RowDeleted, rateVars, vars
<1>7. CASE TimePasses
  BY <1>7 DEF TimePasses, Next
<1>8. CASE UNCHANGED admissionVars
  BY <1>8 DEF admissionVars, rateVars, vars
<1> QED  BY <1>1, <1>2, <1>3, <1>4, <1>5, <1>6, <1>7, <1>8 DEF AdmissionNext

\* The exec handler keeps limited calls apart under any reloads: what is proved of the
\* rate limit by itself holds of the handler that uses it.
THEOREM AdmissionKeepsSpacing == AdmissionSpec => CallsAreSpaced
<1>1. AdmissionSpec => Spec
  BY RateInit, RateStep, PTL DEF AdmissionSpec, Spec
<1> QED  BY <1>1, CallsSpaced
-----------------------------------------------------------------------------
\* What the handler reads of the server is well-formed.
RowsTyped == config \in Configs /\ row \in Nat /\ rows \in Nat

LEMMA RowsInvariant == AdmissionSpec => []RowsTyped
<1>1. AdmissionInit => RowsTyped
  BY DEF AdmissionInit, RowsTyped
<1>2. RowsTyped /\ [AdmissionNext]_admissionVars => RowsTyped'
  <2> SUFFICES ASSUME RowsTyped, [AdmissionNext]_admissionVars PROVE RowsTyped'
    OBVIOUS
  <2>1. CASE UNCHANGED <<config, row, rows>>
    BY <2>1 DEF RowsTyped
  <2>2. ASSUME NEW new \in Configs, Reload(new) PROVE RowsTyped'
    BY <2>2 DEF Reload, rowVars, RowsTyped
  <2>3. CASE RowCreated \/ RowSwitched \/ RowDeleted
    BY <2>3 DEF RowCreated, RowSwitched, RowDeleted, confVars, RowsTyped
  <2>4. ASSUME NEW c \in Callers, CallStep(c) PROVE UNCHANGED <<config, row, rows>>
    BY <2>4 DEF CallStep, Sleeps, ComesThrough, Accepted, confVars, rowVars
  <2>5. ASSUME NEW c \in Callers, NEW i \in Ids, LimitedCall(c, i) \/ UnlimitedCall(c, i)
        PROVE  UNCHANGED <<config, row, rows>>
    BY <2>5 DEF LimitedCall, UnlimitedCall, confVars, rowVars
  <2>6. ASSUME NEW i \in Ids, TaskStarts(i) \/ TaskDies(i)
        PROVE  UNCHANGED <<config, row, rows>>
    BY <2>6 DEF TaskStarts, TaskDies, confVars, rowVars
  <2>7. CASE TimePasses
    BY <2>7 DEF TimePasses, confVars, rowVars, RowsTyped
  <2>8. CASE UNCHANGED admissionVars
    BY <2>8 DEF admissionVars, confVars, rowVars, RowsTyped
  <2> QED  BY <2>1, <2>2, <2>3, <2>4, <2>5, <2>6, <2>7, <2>8 DEF AdmissionNext
<1> QED  BY <1>1, <1>2, PTL DEF AdmissionSpec

LEMMA ReadTyped ==
    ASSUME RowsTyped, NEW i \in Ids
    PROVE  Read(i) \in Request /\ Read(i).id = i
BY AdmissionAssumption DEF Read, RowsTyped, Request, ServerConfig, RuntimeConfig, Config

\* A handler between create_job and the creation of its task.
Auditing(c, i) == call[c] = "auditing" /\ local[c].id = i

OnceTypes == /\ call  \in [Callers -> {"idle", "limiting", "auditing"}]
             /\ local \in [Callers -> Request]
             /\ \A c \in Callers : call[c] # "idle" => local[c].id \in Ids
             /\ job   \in [Ids -> {"none", "queued", "running"}]
             /\ task  \in [Ids -> {"none", "ready", "started", "died"}]
             /\ created \in [Ids -> Nat]
             /\ orphaned \in SUBSET Ids

\* It is the only one for its request id, and nobody created a task for that yet.
OneCreator == \A c, d \in Callers, i \in Ids : Auditing(c, i) /\ Auditing(d, i) => c = d

Untouched == \A i \in Ids :
    /\ job[i] = "none" => created[i] = 0 /\ \A c \in Callers : ~Auditing(c, i)
    /\ (\E c \in Callers : Auditing(c, i)) => created[i] = 0

OnceInv == OnceTypes /\ OneCreator /\ Untouched /\ AcceptedOnce /\ QueuedRowsAreOwned

LEMMA OnceInit == AdmissionInit => OnceInv
<1> SUFFICES ASSUME AdmissionInit PROVE OnceInv
  OBVIOUS
<1>1. OnceTypes
  BY DEF AdmissionInit, OnceTypes, NoCall, Request, RuntimeConfig
<1> QED  BY <1>1 DEF AdmissionInit, OnceInv, OneCreator, Untouched, Auditing,
            AcceptedOnce, QueuedRowsAreOwned

\* A step that leaves handlers, rows and tasks alone.
LEMMA OnceStutter ==
    ASSUME OnceInv, UNCHANGED <<callVars, jobVars>>
    PROVE  OnceInv'
BY DEF OnceInv, OnceTypes, OneCreator, Untouched, Auditing, AcceptedOnce,
       QueuedRowsAreOwned, callVars, jobVars

\* The answer of a call that had not got as far as its row disturbs nobody.
LEMMA OnceAnswered ==
    ASSUME OnceInv, NEW c \in Callers, call[c] # "auditing", Answered(c), UNCHANGED jobVars
    PROVE  OnceInv'
<1>1. OnceTypes'
  BY DEF OnceInv, OnceTypes, Answered, jobVars, NoCall, Request, RuntimeConfig
<1>2. \A d \in Callers, i \in Ids : Auditing(d, i)' <=> Auditing(d, i)
  BY DEF OnceInv, OnceTypes, Answered, Auditing
<1> QED  BY <1>1, <1>2 DEF OnceInv, OneCreator, Untouched, Auditing, AcceptedOnce,
            QueuedRowsAreOwned, jobVars

\* create_job is reached by one call for each request id only.
LEMMA OnceDecided ==
    ASSUME OnceInv, NEW c \in Callers, call[c] # "auditing",
           NEW this \in Request, this.id \in Ids, Decided(c, this)
    PROVE  OnceInv'
<1>1. CASE Denied(c, this) \/ JobFails(c, this)
  BY <1>1, OnceAnswered DEF Denied, JobFails, jobVars
<1>2. CASE StreamFails(c, this)
  <2>1. /\ job[this.id] = "none" /\ job' = [job EXCEPT ![this.id] = "queued"]
        /\ UNCHANGED <<task, created>> /\ orphaned' = orphaned \cup {this.id}
        /\ Answered(c)
    BY <1>2 DEF StreamFails, JobCreated, RowCanBeWritten
  <2>2. OnceTypes'
    BY <2>1 DEF OnceInv, OnceTypes, Answered, NoCall, Request, RuntimeConfig
  <2>3. \A d \in Callers, i \in Ids : Auditing(d, i)' <=> Auditing(d, i)
    BY <2>1 DEF OnceInv, OnceTypes, Answered, Auditing
  <2>4. \A i \in Ids : i # this.id => job'[i] = job[i]
    BY <2>1 DEF OnceInv, OnceTypes
  <2>5. job'[this.id] = "queued"
    BY <2>1 DEF OnceInv, OnceTypes
  <2>6. OneCreator' /\ AcceptedOnce'
    BY <2>1, <2>3 DEF OnceInv, OneCreator, AcceptedOnce
  <2>7. Untouched'
    BY <2>1, <2>3, <2>4, <2>5 DEF OnceInv, Untouched
  <2>8. QueuedRowsAreOwned'
    BY <2>1, <2>3, <2>4, <2>5 DEF OnceInv, QueuedRowsAreOwned, Auditing
  <2> QED  BY <2>2, <2>6, <2>7, <2>8 DEF OnceInv
<1>3. CASE Queued(c, this)
  <2>1. /\ job[this.id] = "none" /\ job' = [job EXCEPT ![this.id] = "queued"]
        /\ UNCHANGED <<task, created, orphaned>>
        /\ call' = [call EXCEPT ![c] = "auditing"]
        /\ local' = [local EXCEPT ![c] = [NoCall EXCEPT !.id = this.id]]
    BY <1>3 DEF Queued, JobCreated, RowCanBeWritten
  <2>2. [NoCall EXCEPT !.id = this.id] = [id |-> this.id, cfg |-> RuntimeConfig, row |-> 0]
    BY DEF NoCall
  <2>3. OnceTypes'
    <3>1. [NoCall EXCEPT !.id = this.id] \in Request
      <4>1. RuntimeConfig \in [grants : BOOLEAN, skips : BOOLEAN] /\ 0 \in Nat
        BY DEF RuntimeConfig
      <4>2. [id |-> this.id, cfg |-> RuntimeConfig, row |-> 0] \in Request
        BY ONLY <4>1, this.id \in Ids DEF Request
      <4> QED  BY <4>2, <2>2
    <3>2. local' \in [Callers -> Request] /\ call' \in [Callers -> {"idle", "limiting", "auditing"}]
      BY <2>1, <3>1 DEF OnceInv, OnceTypes
    <3>3. \A d \in Callers : call'[d] # "idle" => local'[d].id \in Ids
      BY <2>1, <2>2 DEF OnceInv, OnceTypes
    <3>4. job' \in [Ids -> {"none", "queued", "running"}]
      BY <2>1 DEF OnceInv, OnceTypes
    <3> QED  BY <2>1, <3>2, <3>3, <3>4 DEF OnceInv, OnceTypes
  <2>4. /\ Auditing(c, this.id)'
        /\ \A d \in Callers, i \in Ids :
              Auditing(d, i)' <=> (IF d = c THEN i = this.id ELSE Auditing(d, i))
    BY <2>1, <2>2 DEF OnceInv, OnceTypes, Auditing
  <2>5. /\ \A i \in Ids : i # this.id => job'[i] = job[i]
        /\ job'[this.id] = "queued"
    BY <2>1 DEF OnceInv, OnceTypes
  <2>6. created[this.id] = 0 /\ \A d \in Callers : ~Auditing(d, this.id)
    BY <2>1 DEF OnceInv, Untouched
  <2>7. OneCreator' /\ AcceptedOnce'
    BY <2>1, <2>4, <2>6 DEF OnceInv, OneCreator, AcceptedOnce
  <2>8. Untouched'
    BY <2>1, <2>4, <2>5, <2>6 DEF OnceInv, Untouched
  <2>9. QueuedRowsAreOwned'
    <3> SUFFICES ASSUME NEW i \in Ids, job'[i] = "queued"
                 PROVE  \/ \E d \in Callers : Auditing(d, i)'
                        \/ task'[i] \in {"ready", "died"}
                        \/ i \in orphaned'
      BY DEF QueuedRowsAreOwned, Auditing
    <3>1. CASE i = this.id
      BY <3>1, <2>4
    <3>2. CASE i # this.id
      <4>1. PICK d \in Callers : \/ Auditing(d, i) \/ task[i] \in {"ready", "died"}
                                 \/ i \in orphaned
        BY <3>2, <2>5 DEF OnceInv, QueuedRowsAreOwned, Auditing
      <4>2. Auditing(d, i) => d # c
        BY DEF Auditing
      <4> QED  BY <4>1, <4>2, <2>1, <2>4
    <3> QED  BY <3>1, <3>2
  <2> QED  BY <2>3, <2>7, <2>8, <2>9 DEF OnceInv
<1> QED  BY <1>1, <1>2, <1>3 DEF Decided

\* The task is created, and the handler is through with the request id.
LEMMA OnceAccepted ==
    ASSUME OnceInv, NEW c \in Callers, Accepted(c)
    PROVE  OnceInv'
<1>0. call[c] = "auditing" /\ local[c].id \in Ids
  BY DEF Accepted, OnceInv, OnceTypes
<1> PICK i \in Ids : i = local[c].id
  BY <1>0
<1>1. /\ Auditing(c, i) /\ Answered(c)
      /\ task' = [task EXCEPT ![i] = "ready"]
      /\ created' = [created EXCEPT ![i] = created[i] + 1]
      /\ UNCHANGED <<job, orphaned>>
  BY <1>0 DEF Accepted, Auditing
<1>2. OnceTypes'
  BY <1>1 DEF OnceInv, OnceTypes, Answered, NoCall, Request, RuntimeConfig
<1>3. \A d \in Callers, k \in Ids : Auditing(d, k)' <=> (d # c /\ Auditing(d, k))
  BY <1>1 DEF OnceInv, OnceTypes, Answered, Auditing
<1>4. created[i] = 0 /\ job[i] # "none"
  BY <1>1 DEF OnceInv, Untouched
<1>5. \A d \in Callers : ~Auditing(d, i)'
  BY <1>1, <1>3 DEF OnceInv, OneCreator
<1>6. /\ created'[i] = 1 /\ task'[i] = "ready"
      /\ \A k \in Ids : k # i => created'[k] = created[k] /\ task'[k] = task[k]
  BY <1>1, <1>4 DEF OnceInv, OnceTypes
<1>7. OneCreator' /\ AcceptedOnce'
  BY <1>1, <1>3, <1>6 DEF OnceInv, OneCreator, AcceptedOnce
<1>8. Untouched'
  BY <1>1, <1>3, <1>4, <1>5, <1>6 DEF OnceInv, Untouched
<1>9. QueuedRowsAreOwned'
  <2> SUFFICES ASSUME NEW k \in Ids, job[k] = "queued", k # i
               PROVE  \/ \E d \in Callers : Auditing(d, k)'
                      \/ task'[k] \in {"ready", "died"}
                      \/ k \in orphaned'
    BY <1>1, <1>6 DEF QueuedRowsAreOwned, Auditing
  <2>1. PICK d \in Callers : \/ Auditing(d, k) \/ task[k] \in {"ready", "died"}
                             \/ k \in orphaned
    BY DEF OnceInv, QueuedRowsAreOwned, Auditing
  <2>2. Auditing(d, k) => d # c
    BY DEF Auditing
  <2> QED  BY <2>1, <2>2, <1>1, <1>3, <1>6
<1> QED  BY <1>2, <1>7, <1>8, <1>9 DEF OnceInv

\* The task's first step changes its own row at most.
LEMMA OnceTask ==
    ASSUME OnceInv, NEW i \in Ids, TaskStarts(i) \/ TaskDies(i)
    PROVE  OnceInv'
<1>1. CASE TaskStarts(i)
  BY <1>1 DEF TaskStarts, callVars, OnceInv, OnceTypes, OneCreator, Untouched, Auditing,
     AcceptedOnce, QueuedRowsAreOwned
<1>2. CASE TaskDies(i)
  BY <1>2 DEF TaskDies, callVars, OnceInv, OnceTypes, OneCreator, Untouched, Auditing,
     AcceptedOnce, QueuedRowsAreOwned
<1> QED  BY <1>1, <1>2

\* The call waits for the rate limit with what it has read.
LEMMA OnceLimited ==
    ASSUME OnceInv, RowsTyped, NEW c \in Callers, NEW i \in Ids, LimitedCall(c, i)
    PROVE  OnceInv'
<1>1. /\ call[c] = "idle" /\ call' = [call EXCEPT ![c] = "limiting"]
      /\ local' = [local EXCEPT ![c] = Read(i)] /\ UNCHANGED jobVars
  BY DEF LimitedCall, Admitted
<1>2. Read(i) \in Request /\ Read(i).id = i
  BY ReadTyped
<1>3. OnceTypes'
  BY <1>1, <1>2 DEF OnceInv, OnceTypes, jobVars
<1>4. \A d \in Callers, k \in Ids : Auditing(d, k)' <=> Auditing(d, k)
  BY <1>1 DEF OnceInv, OnceTypes, Auditing
<1> QED  BY <1>1, <1>3, <1>4 DEF OnceInv, OneCreator, Untouched, Auditing, AcceptedOnce,
            QueuedRowsAreOwned, jobVars

LEMMA OnceStep == RowsTyped /\ OnceInv /\ [AdmissionNext]_admissionVars => OnceInv'
<1> SUFFICES ASSUME RowsTyped, OnceInv, [AdmissionNext]_admissionVars PROVE OnceInv'
  OBVIOUS
<1>1. ASSUME NEW c \in Callers, NEW i \in Ids, LimitedCall(c, i) PROVE OnceInv'
  BY <1>1, OnceLimited
<1>2. ASSUME NEW c \in Callers, NEW i \in Ids, UnlimitedCall(c, i) PROVE OnceInv'
  <2>1. /\ Read(i) \in Request /\ Read(i).id \in Ids
        /\ call[c] # "auditing" /\ Decided(c, Read(i))
    BY <1>2, ReadTyped DEF UnlimitedCall, Admitted
  <2>2. PICK this \in Request : this = Read(i)
    BY <2>1
  <2> QED  BY <2>1, <2>2, OnceDecided
<1>3. ASSUME NEW c \in Callers, CallStep(c) PROVE OnceInv'
  <2>1. CASE Sleeps(c)
    BY <2>1, OnceStutter DEF Sleeps
  <2>2. CASE ComesThrough(c)
    <3>1. /\ call[c] = "limiting" /\ Decided(c, local[c])
          /\ local[c] \in Request /\ local[c].id \in Ids
      BY <2>2 DEF ComesThrough, OnceInv, OnceTypes
    <3>2. PICK this \in Request : this = local[c]
      BY <3>1
    <3> QED  BY <3>1, <3>2, OnceDecided
  <2>3. CASE Accepted(c)
    BY <2>3, OnceAccepted
  <2> QED  BY <1>3, <2>1, <2>2, <2>3 DEF CallStep
<1>4. ASSUME NEW i \in Ids, TaskStarts(i) \/ TaskDies(i) PROVE OnceInv'
  BY <1>4, OnceTask
<1>5. ASSUME NEW new \in Configs, Reload(new) PROVE OnceInv'
  BY <1>5 DEF Reload, jobVars, OnceInv, OnceTypes, OneCreator, Untouched, Auditing,
     AcceptedOnce, QueuedRowsAreOwned
<1>6. CASE RowCreated \/ RowSwitched \/ RowDeleted
  BY <1>6, OnceStutter DEF RowCreated, RowSwitched, RowDeleted
<1>7. CASE TimePasses
  BY <1>7, OnceStutter DEF TimePasses
<1>8. CASE UNCHANGED admissionVars
  BY <1>8, OnceStutter DEF admissionVars
<1> QED  BY <1>1, <1>2, <1>3, <1>4, <1>5, <1>6, <1>7, <1>8 DEF AdmissionNext

LEMMA OnceInvariant == AdmissionSpec => []OnceInv
BY RowsInvariant, OnceInit, OnceStep, PTL DEF AdmissionSpec

\* A request id gets one background task at most, for any number of calls that use it
\* and any configuration: the row's unique request_id is written before the only
\* suspension that is left.
THEOREM TasksAreCreatedOnce == AdmissionSpec => []AcceptedOnce
BY OnceInvariant, PTL DEF OnceInv

\* No queued row is left without a handler or a task, except where create_command_stream
\* failed.
THEOREM QueuedRowsOwned == AdmissionSpec => []QueuedRowsAreOwned
BY OnceInvariant, PTL DEF OnceInv
-----------------------------------------------------------------------------
\* What a sleeping call has read of the server is of the latest file, unless a file was
\* loaded since.
ReadingIsFresh == \A c \in Callers :
    call[c] = "limiting" /\ fresh[c] => local[c].cfg = ServerConfig(config)

FreshInv == /\ latest = config
            /\ ReadingIsFresh
            /\ call  \in [Callers -> {"idle", "limiting", "auditing"}]
            /\ local \in [Callers -> Request]
            /\ fresh \in [Callers -> BOOLEAN]

LEMMA FreshInit == AdmissionInit => FreshInv
<1> SUFFICES ASSUME AdmissionInit PROVE FreshInv
  OBVIOUS
<1>1. NoCall \in Request
  BY DEF NoCall, Request, RuntimeConfig
<1> QED  BY <1>1 DEF AdmissionInit, FreshInv, ReadingIsFresh

\* A call that ends no longer sleeps, and the others have read what they had.
LEMMA FreshAnswered ==
    ASSUME FreshInv, NEW c \in Callers, Answered(c), UNCHANGED confVars
    PROVE  FreshInv'
<1>1. NoCall \in Request
  BY DEF NoCall, Request, RuntimeConfig
<1>2. UNCHANGED <<config, latest>>
  BY DEF confVars
<1>3. /\ call'  \in [Callers -> {"idle", "limiting", "auditing"}]
      /\ local' \in [Callers -> Request]
      /\ fresh' \in [Callers -> BOOLEAN]
  BY <1>1 DEF FreshInv, Answered
<1>4. \A d \in Callers : call'[d] = "limiting" =>
          call[d] = "limiting" /\ local'[d] = local[d] /\ fresh'[d] = fresh[d]
  BY DEF FreshInv, Answered
<1>5. ServerConfig(config)' = ServerConfig(config)
  BY <1>2 DEF ServerConfig
<1>6. ReadingIsFresh'
  BY <1>4, <1>5 DEF FreshInv, ReadingIsFresh
<1> QED  BY <1>2, <1>3, <1>6 DEF FreshInv

\* So does the call whose row is written.
LEMMA FreshDecided ==
    ASSUME FreshInv, NEW c \in Callers, NEW this \in Request, this.id \in Ids,
           Decided(c, this), UNCHANGED confVars
    PROVE  FreshInv'
<1>1. CASE Denied(c, this) \/ JobFails(c, this) \/ StreamFails(c, this)
  BY <1>1, FreshAnswered DEF Denied, JobFails, StreamFails
<1>2. CASE Queued(c, this)
  <2>1. /\ call'  = [call EXCEPT ![c] = "auditing"]
        /\ local' = [local EXCEPT ![c] = [NoCall EXCEPT !.id = this.id]]
        /\ fresh' = [fresh EXCEPT ![c] = TRUE]
        /\ UNCHANGED <<config, latest>>
    BY <1>2 DEF Queued, confVars
  <2>2. [NoCall EXCEPT !.id = this.id] \in Request
    <3>1. [NoCall EXCEPT !.id = this.id] = [id |-> this.id, cfg |-> RuntimeConfig, row |-> 0]
      BY DEF NoCall
    <3>2. RuntimeConfig \in [grants : BOOLEAN, skips : BOOLEAN] /\ 0 \in Nat
      BY DEF RuntimeConfig
    <3>3. [id |-> this.id, cfg |-> RuntimeConfig, row |-> 0] \in Request
      BY ONLY <3>2, this.id \in Ids DEF Request
    <3> QED  BY <3>1, <3>3
  <2>3. /\ call'  \in [Callers -> {"idle", "limiting", "auditing"}]
        /\ local' \in [Callers -> Request]
        /\ fresh' \in [Callers -> BOOLEAN]
    BY <2>1, <2>2 DEF FreshInv
  <2>4. \A d \in Callers : call'[d] = "limiting" =>
            call[d] = "limiting" /\ local'[d] = local[d] /\ fresh'[d] = fresh[d]
    BY <2>1 DEF FreshInv
  <2>5. ServerConfig(config)' = ServerConfig(config)
    BY <2>1 DEF ServerConfig
  <2>6. ReadingIsFresh'
    BY <2>4, <2>5 DEF FreshInv, ReadingIsFresh
  <2> QED  BY <2>1, <2>3, <2>6 DEF FreshInv
<1> QED  BY <1>1, <1>2 DEF Decided

LEMMA FreshStep ==
    RowsTyped /\ OnceInv /\ FreshInv /\ [AdmissionNext]_admissionVars => FreshInv'
<1> SUFFICES ASSUME RowsTyped, OnceInv, FreshInv, [AdmissionNext]_admissionVars
             PROVE  FreshInv'
  OBVIOUS
<1>0. CASE UNCHANGED <<confVars, callVars>>
  BY <1>0 DEF confVars, callVars, FreshInv, ReadingIsFresh, ServerConfig
<1>1. ASSUME NEW c \in Callers, NEW i \in Ids, LimitedCall(c, i) PROVE FreshInv'
  <2>1. /\ call'  = [call EXCEPT ![c] = "limiting"]
        /\ local' = [local EXCEPT ![c] = Read(i)]
        /\ UNCHANGED <<config, latest, fresh>>
    BY <1>1 DEF LimitedCall, confVars
  <2>2. Read(i) \in Request /\ Read(i).cfg = ServerConfig(config)
    BY ReadTyped DEF Read
  <2>3. /\ call'  \in [Callers -> {"idle", "limiting", "auditing"}]
        /\ local' \in [Callers -> Request]
    BY <2>1, <2>2 DEF FreshInv
  <2>4. /\ local'[c].cfg = ServerConfig(config)
        /\ \A d \in Callers : d # c => call'[d] = call[d] /\ local'[d] = local[d]
    BY <2>1, <2>2 DEF FreshInv
  <2>5. ServerConfig(config)' = ServerConfig(config)
    BY <2>1 DEF ServerConfig
  <2>6. ReadingIsFresh'
    BY <2>1, <2>4, <2>5 DEF FreshInv, ReadingIsFresh
  <2> QED  BY <2>1, <2>3, <2>6 DEF FreshInv
<1>2. ASSUME NEW c \in Callers, NEW i \in Ids, UnlimitedCall(c, i) PROVE FreshInv'
  <2>1. Read(i) \in Request /\ Read(i).id \in Ids
    BY ReadTyped
  <2>2. PICK this \in Request : this = Read(i)
    BY <2>1
  <2> QED  BY <1>2, <2>1, <2>2, FreshDecided DEF UnlimitedCall
<1>3. ASSUME NEW c \in Callers, CallStep(c) PROVE FreshInv'
  <2>1. CASE Sleeps(c)
    BY <2>1, <1>0 DEF Sleeps
  <2>2. CASE ComesThrough(c)
    <3>1. local[c] \in Request /\ local[c].id \in Ids
      BY <2>2 DEF ComesThrough, OnceInv, OnceTypes
    <3>2. PICK this \in Request : this = local[c]
      BY <3>1
    <3> QED  BY <2>2, <3>1, <3>2, FreshDecided DEF ComesThrough
  <2>3. CASE Accepted(c)
    BY <2>3, FreshAnswered DEF Accepted
  <2> QED  BY <1>3, <2>1, <2>2, <2>3 DEF CallStep
<1>4. ASSUME NEW i \in Ids, TaskStarts(i) \/ TaskDies(i) PROVE FreshInv'
  BY <1>4, <1>0 DEF TaskStarts, TaskDies
<1>5. ASSUME NEW new \in Configs, Reload(new) PROVE FreshInv'
  BY <1>5 DEF Reload, FreshInv, ReadingIsFresh
<1>6. CASE RowCreated \/ RowSwitched \/ RowDeleted
  BY <1>6, <1>0 DEF RowCreated, RowSwitched, RowDeleted
<1>7. CASE TimePasses
  BY <1>7, <1>0 DEF TimePasses
<1>8. CASE UNCHANGED admissionVars
  BY <1>8, <1>0 DEF admissionVars
<1> QED  BY <1>1, <1>2, <1>3, <1>4, <1>5, <1>6, <1>7, <1>8 DEF AdmissionNext

LEMMA FreshInvariant == AdmissionSpec => []FreshInv
BY RowsInvariant, OnceInvariant, FreshInit, FreshStep, PTL DEF AdmissionSpec

\* A row is queued by a handler that decides, and only if what it goes by allows it.
LEMMA QueuedByDecision ==
    ASSUME RowsTyped, OnceInv, [AdmissionNext]_admissionVars,
           NEW i \in Ids, job[i] = "none", job'[i] = "queued"
    PROVE  \/ Allowed(ServerConfig(config), config)
           \/ \E c \in Callers : /\ call[c] = "limiting" /\ local[c].id = i
                                 /\ Allowed(local[c].cfg, config)
<1>1. ASSUME NEW c \in Callers, NEW this \in Request, Decided(c, this)
      PROVE  this.id = i /\ Allowed(this.cfg, config)
  <2>1. JobCreated(this)
    BY <1>1 DEF Decided, Denied, JobFails, StreamFails, Queued, jobVars
  <2> QED  BY <2>1 DEF JobCreated, OnceInv, OnceTypes
<1>2. job' # job
  OBVIOUS
<1>3. ASSUME NEW c \in Callers, NEW k \in Ids, UnlimitedCall(c, k)
      PROVE  Allowed(ServerConfig(config), config)
  <2>1. PICK this \in Request : this = Read(k)
    BY ReadTyped
  <2>2. this.cfg = ServerConfig(config)
    BY <2>1 DEF Read
  <2> QED  BY <1>1, <1>3, <2>1, <2>2 DEF UnlimitedCall
<1>4. ASSUME NEW c \in Callers, ComesThrough(c)
      PROVE  /\ call[c] = "limiting" /\ local[c].id = i
             /\ Allowed(local[c].cfg, config)
  <2>1. PICK this \in Request : this = local[c]
    BY DEF OnceInv, OnceTypes
  <2> QED  BY <1>1, <1>4, <2>1 DEF ComesThrough
<1>5. ASSUME NEW k \in Ids, TaskStarts(k) \/ TaskDies(k) PROVE FALSE
  BY <1>5 DEF TaskStarts, TaskDies, OnceInv, OnceTypes
<1>6. \/ \E c \in Callers, k \in Ids : UnlimitedCall(c, k)
      \/ \E c \in Callers : ComesThrough(c)
  BY <1>2, <1>5 DEF AdmissionNext, CallStep, LimitedCall, Sleeps, Accepted, Reload, RowCreated,
     RowSwitched, RowDeleted, TimePasses, admissionVars, jobVars
<1> QED  BY <1>3, <1>4, <1>6

\* A reload takes effect for any calls and files: what the handler decides by is the
\* latest file, or what it read before a file that was loaded while it slept.
THEOREM GrantsFollowTheFile == AdmissionSpec => GrantsAreFresh
<1>1. ASSUME RowsTyped, OnceInv, FreshInv, [AdmissionNext]_admissionVars,
             NEW i \in Ids, job[i] = "none", job'[i] = "queued"
      PROVE  \/ Allowed(ServerConfig(latest), latest)
             \/ \E c \in Callers :
                   /\ call[c] = "limiting" /\ local[c].id = i /\ ~fresh[c]
                   /\ local[c].cfg.grants \/ latest.global
  <2>1. latest = config
    BY <1>1 DEF FreshInv
  <2>2. CASE Allowed(ServerConfig(config), config)
    BY <2>1, <2>2
  <2>3. ASSUME NEW c \in Callers, call[c] = "limiting", local[c].id = i,
               Allowed(local[c].cfg, config)
        PROVE  \/ Allowed(ServerConfig(latest), latest)
               \/ ~fresh[c] /\ (local[c].cfg.grants \/ latest.global)
    <3>1. CASE fresh[c]
      BY <1>1, <2>1, <2>3, <3>1 DEF FreshInv, ReadingIsFresh
    <3>2. CASE ~fresh[c]
      BY <2>1, <2>3, <3>2 DEF Allowed
    <3> QED  BY <3>1, <3>2
  <2>4. \/ Allowed(ServerConfig(config), config)
        \/ \E c \in Callers : /\ call[c] = "limiting" /\ local[c].id = i
                              /\ Allowed(local[c].cfg, config)
    BY <1>1, QueuedByDecision
  <2> QED  BY <2>2, <2>3, <2>4
<1>2. RowsTyped /\ OnceInv /\ FreshInv /\ [AdmissionNext]_admissionVars =>
        [\A i \in Ids : job[i] = "none" /\ job'[i] = "queued" =>
          \/ Allowed(ServerConfig(latest), latest)
          \/ \E c \in Callers :
                /\ call[c] = "limiting" /\ local[c].id = i /\ ~fresh[c]
                /\ local[c].cfg.grants \/ latest.global]_admissionVars
  BY <1>1
<1> QED  BY <1>2, RowsInvariant, OnceInvariant, FreshInvariant, PTL
            DEF AdmissionSpec, GrantsAreFresh

\* The rest of the handler's types.
RestTyped == /\ enabled \in BOOLEAN /\ cited \in SUBSET Nat

LEMMA DecidedTyped ==
    ASSUME RowsTyped, RestTyped, NEW c \in Callers, NEW this \in Request, Decided(c, this),
           UNCHANGED rowVars
    PROVE  RestTyped'
<1>1. this.row \in Nat /\ row \in Nat
  BY DEF Request, RowsTyped
<1>2. cited' \in {cited, cited \cup {row}, cited \cup {this.row}}
  BY DEF Decided, Denied, JobFails, StreamFails, Queued, JobCreated
<1> QED  BY <1>1, <1>2 DEF RestTyped, rowVars

LEMMA RestStep == RowsTyped /\ OnceInv /\ RestTyped /\ [AdmissionNext]_admissionVars => RestTyped'
<1> SUFFICES ASSUME RowsTyped, OnceInv, RestTyped, [AdmissionNext]_admissionVars PROVE RestTyped'
  OBVIOUS
<1>1. ASSUME NEW c \in Callers, NEW i \in Ids, LimitedCall(c, i) \/ UnlimitedCall(c, i)
      PROVE  RestTyped'
  <2>1. CASE LimitedCall(c, i)
    BY <2>1 DEF LimitedCall, rowVars, RestTyped
  <2>2. CASE UnlimitedCall(c, i)
    <3>1. PICK this \in Request : this = Read(i)
      BY ReadTyped
    <3> QED  BY <2>2, <3>1, DecidedTyped DEF UnlimitedCall
  <2> QED  BY <1>1, <2>1, <2>2
<1>2. ASSUME NEW c \in Callers, CallStep(c) PROVE RestTyped'
  <2>1. CASE ComesThrough(c)
    <3>1. PICK this \in Request : this = local[c]
      BY DEF OnceInv, OnceTypes
    <3> QED  BY <2>1, <3>1, DecidedTyped DEF ComesThrough
  <2>2. CASE Sleeps(c) \/ Accepted(c)
    BY <2>2 DEF Sleeps, Accepted, rowVars, RestTyped
  <2> QED  BY <1>2, <2>1, <2>2 DEF CallStep
<1>3. ASSUME NEW i \in Ids, TaskStarts(i) \/ TaskDies(i) PROVE RestTyped'
  BY <1>3 DEF TaskStarts, TaskDies, rowVars, RestTyped
<1>4. ASSUME NEW new \in Configs, Reload(new) PROVE RestTyped'
  BY <1>4 DEF Reload, rowVars, RestTyped
<1>5. CASE RowCreated \/ RowSwitched \/ RowDeleted
  BY <1>5 DEF RowCreated, RowSwitched, RowDeleted, RestTyped
<1>6. CASE TimePasses
  BY <1>6 DEF TimePasses, rowVars, RestTyped
<1>7. CASE UNCHANGED admissionVars
  BY <1>7 DEF admissionVars, rowVars, RestTyped
<1> QED  BY <1>1, <1>2, <1>3, <1>4, <1>5, <1>6, <1>7 DEF AdmissionNext

\* The variables of the rate limit and of the handler keep their types for any calls,
\* request ids and configurations: above all, a handler that is under way has a request
\* id, and a lock's queue holds callers only.
THEOREM AdmissionTypesCorrect == AdmissionSpec => []AdmissionTypeOK
<1>1. AdmissionInit => RestTyped
  BY DEF AdmissionInit, RestTyped
<1>2. AdmissionSpec => []RestTyped
  BY <1>1, RestStep, RowsInvariant, OnceInvariant, PTL DEF AdmissionSpec
<1>3. AdmissionSpec => []FreshInv
  BY FreshInit, FreshStep, RowsInvariant, OnceInvariant, PTL DEF AdmissionSpec
<1>4. AdmissionSpec => []SpacingInv
  BY RateInit, RateStep, SpacingInvariant, PTL DEF AdmissionSpec, Spec
<1>5. RowsTyped /\ RestTyped /\ OnceInv /\ FreshInv /\ SpacingInv => AdmissionTypeOK
  BY DEF RowsTyped, RestTyped, OnceInv, OnceTypes, FreshInv, SpacingInv, AdmissionTypeOK
<1> QED  BY <1>2, <1>3, <1>4, <1>5, RowsInvariant, OnceInvariant, PTL
=============================================================================
