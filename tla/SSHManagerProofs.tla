-------------------------- MODULE SSHManagerProofs --------------------------
(***************************************************************************)
(* Theorems about SSHManager, for every number of commands, cancel         *)
(* handlers and idle-close tasks.                                          *)
(***************************************************************************)
EXTENDS SSHManager, SequenceTheorems, FiniteSetTheorems, TLAPS

\* Whoever opens or closes the connection does it with the lock.
InSection(a) == \/ a \in Commands /\ cmd[a] \in {"connecting", "closing"}
                \/ a \in Cancellers /\ canceller[a] = "closing"
                \/ a \in IdleIds /\ idler[a] = "closing"

PlacesTyped == /\ cmd \in [Commands -> CmdPlace] /\ canceller \in [Cancellers -> ResetPlace]
               /\ idler \in [IdleIds -> IdlerPlace] /\ queue \in Seq(Actors)

SectionIsLocked == \A a \in Actors : InSection(a) => Holds(a)

LockInv == PlacesTyped /\ SectionIsLocked

\* While a connection is opened there is none, and while it is closed it is down.
ConnInv == /\ conn \in Nat /\ opened \in Nat
           /\ NoLeakedConnection /\ 0 \notin open
           /\ \A a \in Actors : InSection(a) =>
                 conn \notin open /\ (a \in Commands /\ cmd[a] = "connecting" => conn = 0)

\* Who is in the count is between the connection and its end, and from the connection
\* to the end of its process a call is in it.
InCount(c) == cmd[c] \in {"creating", "running", "resetting", "closing"}

CountInv == /\ active \in Nat /\ early \in Nat /\ counted \subseteq Commands
            /\ \A c \in Commands : /\ c \in counted => InCount(c)
                                   /\ cmd[c] \in {"creating", "running"} => c \in counted
            /\ CountIsNearlyRight

\* When an idle-close task that is closing ends, it leaves no orphan, since nobody is
\* there to schedule another; or it may leave one, since its close was spoiled.
CloserPays == \A i \in IdleIds : idler[i] = "closing" =>
    \/ counted = {} /\ \A j \in IdleIds : Waits(j) => j # current
    \/ Cardinality(Orphans) < spoiled

\* Each idle-close task was scheduled by a call that has returned, each call's own.
Busy == {i \in IdleIds : idler[i] # "none"}
Done == {c \in Commands : cmd[c] = "done"}
IdlersAreOwned == Cardinality(Busy) <= Cardinality(Done)

IdlerInv == /\ current \in IdleIds \cup {0} /\ spoiled \in Nat
            /\ FewOrphanIdlers /\ CloserPays /\ IdlersAreOwned
-----------------------------------------------------------------------------
(* The lock's queue.                                                       *)

\* Taking an actor out of the queue leaves the holder, unless it is that actor.
LEMMA WithoutKeepsHead ==
    ASSUME NEW S, NEW q \in Seq(S), NEW a
    PROVE  /\ Without(q, a) \in Seq(S)
           /\ q # <<>> /\ Head(q) # a => Without(q, a) # <<>> /\ Head(Without(q, a)) = Head(q)
<1>1. CASE \E n \in DOMAIN q : q[n] = a
    <2> DEFINE p == CHOOSE n \in DOMAIN q : q[n] = a
    <2>1. p \in DOMAIN q /\ q[p] = a
        BY <1>1
    <2>2. p \in 1..Len(q) /\ Len(q) \in Nat
        BY <2>1, LenProperties
    <2> DEFINE before == SubSeq(q, 1, p - 1)
               after  == SubSeq(q, p + 1, Len(q))
    <2>3. Without(q, a) = before \o after
        BY <1>1 DEF Without
    <2> HIDE DEF p
    <2>4. before \in Seq(S) /\ Len(before) = p - 1 /\ \A i \in 1..(p - 1) : before[i] = q[i]
        <3>1. 1 \in 1..(Len(q) + 1) /\ p - 1 \in 0..Len(q)
            BY <2>2
        <3>2. \A i \in 1..(p - 1) : i \in 1..Len(q)
            BY <2>2
        <3> QED BY <2>2, <3>1, <3>2, SubSeqProperties, ElementOfSeq
    <2>5. after \in Seq(S)
        BY <2>2, SubSeqProperties
    <2>6. before \o after \in Seq(S)
        BY <2>4, <2>5, ConcatProperties
    <2>7. ASSUME q # <<>>, Head(q) # a PROVE before \o after # <<>> /\ Head(before \o after) = Head(q)
        <3>1. p # 1
            BY <2>1, <2>7, HeadTailProperties
        <3>2. 1 \in 1..(p - 1) /\ 1 \in 1..Len(before)
            BY <2>2, <2>4, <3>1
        <3>3. Len(before \o after) = Len(before) + Len(after) /\ Len(after) \in Nat
            BY <2>4, <2>5, ConcatProperties, LenProperties
        <3>4. (before \o after)[1] = before[1]
            BY <2>4, <2>5, <3>2, <3>3, ConcatProperties
        <3>5. before \o after # <<>>
            BY <2>2, <2>4, <2>6, <3>1, <3>3, EmptySeq
        <3> QED BY <2>4, <2>6, <2>7, <3>2, <3>4, <3>5, HeadTailProperties
    <2> HIDE DEF before, after
    <2> QED BY <2>3, <2>6, <2>7
<1>2. CASE ~\E n \in DOMAIN q : q[n] = a
    BY <1>2 DEF Without
<1> QED BY <1>1, <1>2
\* The idle-close task that a cancellation takes out of the queue sleeps or waits:
\* it is not the one with the lock that closes the connection.
LEMMA CancellingKeepsSection ==
    ASSUME PlacesTyped, NEW q \in Seq(Actors)
    PROVE  /\ QueueWithoutIdler(q) \in Seq(Actors)
           /\ \A a \in Actors : InSection(a) /\ q # <<>> /\ Head(q) = a =>
                 QueueWithoutIdler(q) # <<>> /\ Head(QueueWithoutIdler(q)) = a
<1>1. QueueWithoutIdler(q) \in Seq(Actors)
    BY WithoutKeepsHead DEF QueueWithoutIdler
<1>2. ASSUME NEW a \in Actors, InSection(a), q # <<>>, Head(q) = a
      PROVE  QueueWithoutIdler(q) # <<>> /\ Head(QueueWithoutIdler(q)) = a
    <2>1. CASE current \in IdleIds /\ Cancellable(current)
        <3>1. current \notin Commands /\ current \notin Cancellers
            BY <2>1, ManagerAssumption
        <3>2. a # current
            BY <1>2, <2>1, <3>1 DEF InSection, Cancellable
        <3> QED BY <1>2, <2>1, <3>2, WithoutKeepsHead DEF QueueWithoutIdler
    <2>2. CASE ~(current \in IdleIds /\ Cancellable(current))
        BY <1>2, <2>2 DEF QueueWithoutIdler
    <2> QED BY <2>1, <2>2
<1> QED BY <1>1, <1>2

\* A new waiter leaves the holder.
LEMMA WaitingKeepsHead ==
    ASSUME NEW S, NEW q \in Seq(S), NEW a \in S
    PROVE  /\ Append(q, a) \in Seq(S)
           /\ q # <<>> => Append(q, a) # <<>> /\ Head(Append(q, a)) = Head(q)
<1>1. Append(q, a) \in Seq(S) /\ Append(q, a) # <<>> /\ Append(q, a)[1] = IF Len(q) = 0 THEN a ELSE q[1]
    BY AppendProperties, LenProperties
<1> QED BY <1>1, LenProperties

\* Cancelling and scheduling idle-close tasks starts no closing.
LEMMA IdlersStayTyped ==
    ASSUME PlacesTyped
    PROVE  /\ IdlersCancelled \in [IdleIds -> IdlerPlace]
           /\ [IdlersCancelled EXCEPT ![FreeIdler] = "sleeping"] \in [IdleIds -> IdlerPlace]
           /\ \A i \in IdleIds : IdlersCancelled[i] = "closing" => idler[i] = "closing"
           /\ \A i \in IdleIds : [IdlersCancelled EXCEPT ![FreeIdler] = "sleeping"][i] = "closing"
                => idler[i] = "closing"
<1>1. IdlersCancelled \in [IdleIds -> IdlerPlace]
    BY DEF IdlersCancelled, PlacesTyped, IdlerPlace
<1>2. \A i \in IdleIds : IdlersCancelled[i] = "closing" => idler[i] = "closing"
    BY DEF IdlersCancelled
<1> DEFINE free == FreeIdler
<1>3. [IdlersCancelled EXCEPT ![free] = "sleeping"] \in [IdleIds -> IdlerPlace]
    BY <1>1 DEF IdlerPlace
<1>4. \A i \in IdleIds : [IdlersCancelled EXCEPT ![free] = "sleeping"][i] \in {"sleeping", IdlersCancelled[i]}
    BY <1>1
<1> HIDE DEF free
<1> QED BY <1>1, <1>2, <1>3, <1>4 DEF free

\* Only the holder can be at work on the connection.
LEMMA SectionIsExclusive ==
    ASSUME SectionIsLocked, NEW a, Holds(a)
    PROVE  \A b \in Actors : InSection(b) => b = a
BY DEF SectionIsLocked, Holds

\* A step in which nobody enters, and the lock keeps its holder.
LEMMA HolderStays ==
    ASSUME LockInv, PlacesTyped',
           \A a \in Actors : InSection(a)' => InSection(a),
           \A a \in Actors : InSection(a) /\ Holds(a) => Holds(a)'
    PROVE  LockInv'
BY DEF LockInv, SectionIsLocked, Actors

\* A step after which nobody is at work on the connection.
LEMMA NobodyEnters ==
    ASSUME PlacesTyped', \A a \in Actors : ~InSection(a)'
    PROVE  LockInv'
BY DEF LockInv, SectionIsLocked, Actors

\* A step in which the holder, and only it, may enter or stay.
LEMMA HolderEnters ==
    ASSUME PlacesTyped', NEW h, Holds(h)', \A a \in Actors : InSection(a)' => a = h
    PROVE  LockInv'
BY DEF LockInv, SectionIsLocked, Actors
\* Each step of run keeps the lock's discipline.
LEMMA RunKeepsLock ==
    ASSUME LockInv, NEW c \in Commands, RunStarts(c) \/ RunStep(c)
    PROVE  LockInv'
<1> USE DEF CmdPlace, IdlerPlace
<1>1. PlacesTyped /\ SectionIsLocked /\ queue \in Seq(Actors) /\ c \in Actors
    BY DEF LockInv, PlacesTyped, Actors
<1>2. c \notin Cancellers /\ c \notin IdleIds
    BY ManagerAssumption
<1>3. ASSUME NEW q \in Seq(Actors) PROVE Append(q, c) \in Seq(Actors)
    BY <1>1, <1>3, WaitingKeepsHead
<1>4. Holds(c) \/ cmd[c] \in {"connecting", "closing"} =>
        /\ queue # <<>> /\ Tail(queue) \in Seq(Actors)
        /\ \A a \in Actors : InSection(a) => a = c
    <2>1. InSection(c) => Holds(c)
        BY <1>1 DEF SectionIsLocked
    <2>2. cmd[c] \in {"connecting", "closing"} => InSection(c)
        BY DEF InSection
    <2> QED BY <1>1, <2>1, <2>2, SectionIsExclusive, HeadTailProperties DEF Holds
<1>5. \A a \in Actors : InSection(a) /\ Holds(a) =>
        /\ Append(queue, c) # <<>> /\ Head(Append(queue, c)) = a
        /\ QueueWithoutIdler(queue) # <<>> /\ Head(QueueWithoutIdler(queue)) = a
    BY <1>1, WaitingKeepsHead, CancellingKeepsSection DEF Holds
<1>6. CASE RunStarts(c)
    <2>1. PlacesTyped'
        BY <1>1, <1>3, <1>6 DEF RunStarts, PlacesTyped, Enqueue, CmdGoto, cmdVars, idleVars
    <2>2. \A a \in Actors : InSection(a)' => InSection(a)
        BY <1>1, <1>6 DEF RunStarts, InSection, PlacesTyped, CmdGoto, cmdVars, idleVars
    <2>3. \A a \in Actors : InSection(a) /\ Holds(a) => Holds(a)'
        BY <1>5, <1>6 DEF RunStarts, Enqueue, Holds
    <2> QED BY <2>1, <2>2, <2>3, HolderStays
<1>7. CASE ConnectReuses(c)
    <2>1. PlacesTyped'
        BY <1>1, <1>4, <1>7, CancellingKeepsSection, IdlersStayTyped
        DEF ConnectReuses, PlacesTyped, CancelIdleClose, CmdGoto
    <2>2. \A a \in Actors : ~InSection(a)'
        BY <1>1, <1>2, <1>4, <1>7, IdlersStayTyped
        DEF ConnectReuses, PlacesTyped, CancelIdleClose, CmdGoto, InSection
    <2> QED BY <2>1, <2>2, NobodyEnters
<1>8. CASE ConnectReusesTooLate(c)
    <2>1. queue' = QueueWithoutIdler(Tail(queue)) /\ cmd' = [cmd EXCEPT ![c] = "done"]
            /\ canceller' = canceller
            /\ (idler' = IdlersCancelled \/ idler' = [IdlersCancelled EXCEPT ![FreeIdler] = "sleeping"])
        BY <1>8 DEF ConnectReusesTooLate, ScheduleIdleClose, CancelIdleClose, CmdGoto
    <2>2. PlacesTyped'
        BY <1>1, <1>4, <1>8, <2>1, CancellingKeepsSection, IdlersStayTyped
        DEF ConnectReusesTooLate, PlacesTyped
    <2>3. \A a \in Actors : ~InSection(a)'
        BY <1>1, <1>2, <1>4, <1>8, <2>1, IdlersStayTyped
        DEF ConnectReusesTooLate, PlacesTyped, InSection
    <2> QED BY <2>2, <2>3, NobodyEnters
<1>9. CASE ConnectOpens(c)
    <2>1. PlacesTyped'
        BY <1>1, <1>9, CancellingKeepsSection, IdlersStayTyped
        DEF ConnectOpens, PlacesTyped, CancelIdleClose, CmdGoto
    <2>2. \A a \in Actors : InSection(a)' => a = c
        BY <1>1, <1>4, <1>9, IdlersStayTyped
        DEF ConnectOpens, PlacesTyped, CancelIdleClose, CmdGoto, InSection
    <2>3. Holds(c)'
        <3>1. ~(current \in IdleIds /\ current = c)
            BY <1>2
        <3>2. QueueWithoutIdler(queue) # <<>> /\ Head(QueueWithoutIdler(queue)) = c
            BY <1>1, <1>9, <3>1, WithoutKeepsHead DEF ConnectOpens, QueueWithoutIdler, Holds
        <3> QED BY <1>9, <3>2 DEF ConnectOpens, Holds
    <2> QED BY <2>1, <2>2, <2>3, HolderEnters
<1>10. CASE ConnectReturns(c)
    <2>1. PlacesTyped'
        BY <1>1, <1>4, <1>10 DEF ConnectReturns, PlacesTyped, CmdGoto, idleVars
    <2>2. \A a \in Actors : ~InSection(a)'
        BY <1>1, <1>2, <1>4, <1>10 DEF ConnectReturns, PlacesTyped, CmdGoto, idleVars, InSection
    <2> QED BY <2>1, <2>2, NobodyEnters
<1>11. CASE ConnectReturnsTooLate(c)
    <2>1. /\ queue' = QueueWithoutIdler(Tail(queue)) \/ queue' = Tail(queue)
          /\ cmd' = [cmd EXCEPT ![c] = "done"] /\ canceller' = canceller
          /\ (idler' = idler \/ idler' = [IdlersCancelled EXCEPT ![FreeIdler] = "sleeping"])
        BY <1>11 DEF ConnectReturnsTooLate, ScheduleIdleClose, CmdGoto, idleVars
    <2>2. PlacesTyped'
        BY <1>1, <1>4, <1>11, <2>1, CancellingKeepsSection, IdlersStayTyped
        DEF ConnectReturnsTooLate, PlacesTyped
    <2>3. \A a \in Actors : ~InSection(a)'
        BY <1>1, <1>2, <1>4, <1>11, <2>1, IdlersStayTyped
        DEF ConnectReturnsTooLate, PlacesTyped, InSection
    <2> QED BY <2>2, <2>3, NobodyEnters
<1>12. CASE ConnectFails(c)
    <2>1. PlacesTyped'
        BY <1>1, <1>3, <1>4, <1>12 DEF ConnectFails, PlacesTyped, CmdGoto, idleVars
    <2>2. \A a \in Actors : ~InSection(a)'
        BY <1>1, <1>2, <1>4, <1>12 DEF ConnectFails, PlacesTyped, CmdGoto, idleVars, InSection
    <2> QED BY <2>1, <2>2, NobodyEnters
<1>13. CASE Created(c)
    <2>1. PlacesTyped'
        BY <1>1, <1>13 DEF Created, PlacesTyped, CmdGoto, idleVars
    <2>2. \A a \in Actors : InSection(a)' => InSection(a)
        BY <1>1, <1>13 DEF Created, InSection, PlacesTyped, CmdGoto, idleVars
    <2>3. \A a \in Actors : InSection(a) /\ Holds(a) => Holds(a)'
        BY <1>13 DEF Created, Holds
    <2> QED BY <2>1, <2>2, <2>3, HolderStays
<1>14. CASE CreateFails(c)
    <2>1. PlacesTyped'
        BY <1>1, <1>3, <1>14 DEF CreateFails, PlacesTyped, Enqueue, CmdGoto, idleVars
    <2>2. \A a \in Actors : InSection(a)' => InSection(a)
        BY <1>1, <1>14 DEF CreateFails, InSection, PlacesTyped, CmdGoto, idleVars
    <2>3. \A a \in Actors : InSection(a) /\ Holds(a) => Holds(a)'
        BY <1>5, <1>14 DEF CreateFails, Enqueue, Holds
    <2> QED BY <2>1, <2>2, <2>3, HolderStays
<1>15. CASE RunReturns(c)
    <2>1. /\ queue' = QueueWithoutIdler(queue) \/ queue' = queue
          /\ cmd[c] = "running" /\ cmd' = [cmd EXCEPT ![c] = "done"] /\ canceller' = canceller
          /\ (idler' = idler \/ idler' = [IdlersCancelled EXCEPT ![FreeIdler] = "sleeping"])
        BY <1>15 DEF RunReturns, LeaveRun, ScheduleIdleClose, CmdGoto, idleVars
    <2>2. PlacesTyped'
        BY <1>1, <2>1, CancellingKeepsSection, IdlersStayTyped DEF PlacesTyped
    <2>3. \A a \in Actors : InSection(a)' => InSection(a)
        BY <1>1, <2>1, IdlersStayTyped DEF PlacesTyped, InSection
    <2>4. \A a \in Actors : InSection(a) /\ Holds(a) => Holds(a)'
        BY <1>5, <2>1 DEF Holds
    <2> QED BY <2>2, <2>3, <2>4, HolderStays
<1>16. CASE ResetCloses(c)
    <2>1. PlacesTyped'
        BY <1>1, <1>16, CancellingKeepsSection, IdlersStayTyped
        DEF ResetCloses, Close, PlacesTyped, CancelIdleClose, CmdGoto
    <2>2. \A a \in Actors : InSection(a)' => a = c
        BY <1>1, <1>4, <1>16, IdlersStayTyped
        DEF ResetCloses, Close, PlacesTyped, CancelIdleClose, CmdGoto, InSection
    <2>3. Holds(c)'
        <3>1. ~(current \in IdleIds /\ current = c)
            BY <1>2
        <3>2. QueueWithoutIdler(queue) # <<>> /\ Head(QueueWithoutIdler(queue)) = c
            BY <1>1, <1>16, <3>1, WithoutKeepsHead DEF ResetCloses, QueueWithoutIdler, Holds
        <3> QED BY <1>16, <3>2 DEF ResetCloses, Holds
    <2> QED BY <2>1, <2>2, <2>3, HolderEnters
<1>17. CASE ResetFindsNone(c)
    <2>1. /\ \/ cmd' = [cmd EXCEPT ![c] = "locking"] /\ queue' = Append(QueueWithoutIdler(Tail(queue)), c)
             \/ cmd' = [cmd EXCEPT ![c] = "failed"] /\ queue' = QueueWithoutIdler(Tail(queue))
          /\ idler' = IdlersCancelled /\ canceller' = canceller /\ Holds(c)
        BY <1>17 DEF ResetFindsNone, AfterReset, CmdGoto, CancelIdleClose
    <2>2. QueueWithoutIdler(Tail(queue)) \in Seq(Actors)
        BY <1>1, <1>4, <2>1, CancellingKeepsSection
    <2>3. PlacesTyped'
        BY <1>1, <1>3, <2>1, <2>2, IdlersStayTyped DEF PlacesTyped
    <2>4. \A a \in Actors : ~InSection(a)'
        BY <1>1, <1>2, <1>4, <2>1, IdlersStayTyped DEF PlacesTyped, InSection
    <2> QED BY <2>3, <2>4, NobodyEnters
<1>18. CASE ResetReturns(c)
    <2>1. /\ \/ cmd' = [cmd EXCEPT ![c] = "locking"] /\ queue' = Append(Tail(queue), c)
             \/ cmd' = [cmd EXCEPT ![c] = "failed"] /\ queue' = Tail(queue)
          /\ idler' = idler /\ canceller' = canceller /\ cmd[c] = "closing"
        BY <1>18 DEF ResetReturns, AfterReset, CmdGoto, idleVars
    <2>2. PlacesTyped'
        BY <1>1, <1>3, <1>4, <2>1 DEF PlacesTyped
    <2>3. \A a \in Actors : ~InSection(a)'
        BY <1>1, <1>2, <1>4, <2>1 DEF PlacesTyped, InSection
    <2> QED BY <2>2, <2>3, NobodyEnters
<1> QED BY <1>6, <1>7, <1>8, <1>9, <1>10, <1>11, <1>12, <1>13, <1>14, <1>15, <1>16, <1>17, <1>18
        DEF RunStep
\* Each step of a cancel handler's reset keeps the lock's discipline.
LEMMA ResetKeepsLock ==
    ASSUME LockInv, NEW k \in Cancellers, CancelResets(k) \/ ResetStep(k)
    PROVE  LockInv'
<1> USE DEF ResetPlace, IdlerPlace
<1>1. PlacesTyped /\ SectionIsLocked /\ queue \in Seq(Actors) /\ k \in Actors
    BY DEF LockInv, PlacesTyped, Actors
<1>2. k \notin Commands /\ k \notin IdleIds
    BY ManagerAssumption
<1>3. Holds(k) \/ canceller[k] = "closing" =>
        /\ queue # <<>> /\ Tail(queue) \in Seq(Actors)
        /\ \A a \in Actors : InSection(a) => a = k
    <2>1. InSection(k) => Holds(k)
        BY <1>1 DEF SectionIsLocked
    <2>2. canceller[k] = "closing" => InSection(k)
        BY DEF InSection
    <2> QED BY <1>1, <2>1, <2>2, SectionIsExclusive, HeadTailProperties DEF Holds
<1>4. CASE CancelResets(k)
    <2>1. PlacesTyped'
        BY <1>1, <1>4, WaitingKeepsHead
        DEF CancelResets, PlacesTyped, Enqueue, ResetGoto, cmdVars, idleVars
    <2>2. \A a \in Actors : InSection(a)' => InSection(a)
        BY <1>1, <1>4 DEF CancelResets, InSection, PlacesTyped, ResetGoto, cmdVars, idleVars
    <2>3. \A a \in Actors : InSection(a) /\ Holds(a) => Holds(a)'
        BY <1>1, <1>4, WaitingKeepsHead DEF CancelResets, Enqueue, Holds
    <2> QED BY <2>1, <2>2, <2>3, HolderStays
<1>5. CASE CancelCloses(k)
    <2>1. PlacesTyped'
        BY <1>1, <1>5, CancellingKeepsSection, IdlersStayTyped
        DEF CancelCloses, Close, PlacesTyped, CancelIdleClose, ResetGoto, cmdVars
    <2>2. \A a \in Actors : InSection(a)' => a = k
        BY <1>1, <1>3, <1>5, IdlersStayTyped
        DEF CancelCloses, Close, PlacesTyped, CancelIdleClose, ResetGoto, cmdVars, InSection
    <2>3. Holds(k)'
        <3>1. ~(current \in IdleIds /\ current = k)
            BY <1>2
        <3>2. QueueWithoutIdler(queue) # <<>> /\ Head(QueueWithoutIdler(queue)) = k
            BY <1>1, <1>5, <3>1, WithoutKeepsHead DEF CancelCloses, QueueWithoutIdler, Holds
        <3> QED BY <1>5, <3>2 DEF CancelCloses, Holds
    <2> QED BY <2>1, <2>2, <2>3, HolderEnters
<1>6. CASE CancelFindsNone(k)
    <2>1. PlacesTyped'
        BY <1>1, <1>3, <1>6, CancellingKeepsSection, IdlersStayTyped
        DEF CancelFindsNone, PlacesTyped, CancelIdleClose, ResetGoto, cmdVars
    <2>2. \A a \in Actors : ~InSection(a)'
        BY <1>1, <1>2, <1>3, <1>6, IdlersStayTyped
        DEF CancelFindsNone, PlacesTyped, CancelIdleClose, ResetGoto, cmdVars, InSection
    <2> QED BY <2>1, <2>2, NobodyEnters
<1>7. CASE CancelClosed(k)
    <2>1. PlacesTyped'
        BY <1>1, <1>3, <1>7 DEF CancelClosed, PlacesTyped, ResetGoto, cmdVars, idleVars
    <2>2. \A a \in Actors : ~InSection(a)'
        BY <1>1, <1>2, <1>3, <1>7 DEF CancelClosed, PlacesTyped, ResetGoto, cmdVars, idleVars, InSection
    <2> QED BY <2>1, <2>2, NobodyEnters
<1> QED BY <1>4, <1>5, <1>6, <1>7 DEF ResetStep

\* Each step of an idle-close task keeps the lock's discipline.
LEMMA IdleCloseKeepsLock ==
    ASSUME LockInv, NEW i \in IdleIds, IdleStep(i)
    PROVE  LockInv'
<1> USE DEF IdlerPlace
<1>1. PlacesTyped /\ SectionIsLocked /\ queue \in Seq(Actors) /\ i \in Actors
    BY DEF LockInv, PlacesTyped, Actors
<1>2. i \notin Commands /\ i \notin Cancellers
    BY ManagerAssumption
<1>3. Holds(i) \/ idler[i] = "closing" =>
        /\ queue # <<>> /\ Tail(queue) \in Seq(Actors)
        /\ \A a \in Actors : InSection(a) => a = i
    <2>1. InSection(i) => Holds(i)
        BY <1>1 DEF SectionIsLocked
    <2>2. idler[i] = "closing" => InSection(i)
        BY DEF InSection
    <2> QED BY <1>1, <2>1, <2>2, SectionIsExclusive, HeadTailProperties DEF Holds
<1>4. CASE IdlerWakes(i)
    <2>1. PlacesTyped'
        BY <1>1, <1>4, WaitingKeepsHead DEF IdlerWakes, PlacesTyped, Enqueue, IdlerGoto, cmdVars
    <2>2. \A a \in Actors : InSection(a)' => InSection(a)
        BY <1>1, <1>4 DEF IdlerWakes, InSection, PlacesTyped, IdlerGoto, cmdVars
    <2>3. \A a \in Actors : InSection(a) /\ Holds(a) => Holds(a)'
        BY <1>1, <1>4, WaitingKeepsHead DEF IdlerWakes, Enqueue, Holds
    <2> QED BY <2>1, <2>2, <2>3, HolderStays
<1>5. CASE IdlerReturns(i)
    <2>1. PlacesTyped'
        BY <1>1, <1>3, <1>5 DEF IdlerReturns, PlacesTyped, IdlerGoto, cmdVars
    <2>2. \A a \in Actors : ~InSection(a)'
        BY <1>1, <1>2, <1>3, <1>5 DEF IdlerReturns, PlacesTyped, IdlerGoto, cmdVars, InSection
    <2> QED BY <2>1, <2>2, NobodyEnters
<1>6. CASE IdlerCloses(i)
    <2>1. PlacesTyped'
        BY <1>1, <1>6 DEF IdlerCloses, PlacesTyped, IdlerGoto, cmdVars
    <2>2. \A a \in Actors : InSection(a)' => a = i
        BY <1>1, <1>2, <1>3, <1>6 DEF IdlerCloses, PlacesTyped, IdlerGoto, cmdVars, InSection
    <2>3. Holds(i)'
        BY <1>6 DEF IdlerCloses, Holds
    <2> QED BY <2>1, <2>2, <2>3, HolderEnters
<1>7. CASE IdlerClosed(i)
    <2>1. PlacesTyped'
        BY <1>1, <1>3, <1>7 DEF IdlerClosed, PlacesTyped, IdlerGoto, cmdVars
    <2>2. \A a \in Actors : ~InSection(a)'
        BY <1>1, <1>2, <1>3, <1>7 DEF IdlerClosed, PlacesTyped, IdlerGoto, cmdVars, InSection
    <2> QED BY <2>1, <2>2, NobodyEnters
<1> QED BY <1>4, <1>5, <1>6, <1>7 DEF IdleStep

\* LockInv is inductive.
LEMMA LockInvStep == LockInv /\ [Next]_vars => LockInv'
<1> SUFFICES ASSUME LockInv, [Next]_vars PROVE LockInv'
    OBVIOUS
<1>1. CASE ConnectionDrops \/ AtRest \/ UNCHANGED vars
    <2>1. UNCHANGED <<cmd, canceller, idler, queue>>
        BY <1>1 DEF ConnectionDrops, AtRest, vars, idleVars, cmdVars
    <2> QED BY <2>1 DEF LockInv, PlacesTyped, SectionIsLocked, InSection, Holds
<1>2. CASE \E c \in Commands : RunStarts(c) \/ RunStep(c)
    BY <1>2, RunKeepsLock
<1>3. CASE \E k \in Cancellers : CancelResets(k) \/ ResetStep(k)
    BY <1>3, ResetKeepsLock
<1>4. CASE \E i \in IdleIds : IdleStep(i)
    BY <1>4, IdleCloseKeepsLock
<1> QED BY <1>1, <1>2, <1>3, <1>4 DEF Next

LEMMA LockInvInit == Init => LockInv
<1> SUFFICES ASSUME Init PROVE LockInv
    OBVIOUS
<1>1. PlacesTyped
    BY EmptySeq DEF Init, PlacesTyped, CmdPlace, ResetPlace, IdlerPlace
<1>2. \A a \in Actors : ~InSection(a)
    BY DEF Init, InSection
<1> QED BY <1>1, <1>2 DEF LockInv, SectionIsLocked

\* The lock is exclusive: of the calls of run, the resets and the idle-close tasks, at
\* most one opens or closes the connection, the one that asyncio.Lock let in.
THEOREM LockIsExclusive == Spec => []SectionIsLocked
<1>1. LockInv => SectionIsLocked
    BY DEF LockInv
<1> QED BY <1>1, LockInvInit, LockInvStep, PTL DEF Spec
-----------------------------------------------------------------------------
(* The connection.                                                         *)

\* A step that leaves _conn alone and opens nothing: those at work on the connection
\* were so before, or work on one that is down.
LEMMA ConnectionStays ==
    ASSUME ConnInv, conn' = conn, opened' = opened, open' \subseteq open,
           \A a \in Actors : InSection(a)' =>
              \/ InSection(a) /\ (a \in Commands /\ cmd'[a] = "connecting" => cmd[a] = "connecting")
              \/ conn \notin open' /\ (a \in Commands /\ cmd'[a] = "connecting" => conn = 0)
    PROVE  ConnInv'
BY DEF ConnInv, NoLeakedConnection, Actors

\* A step that sets _conn to None while the connection is down.
LEMMA ConnectionForgotten ==
    ASSUME ConnInv, conn \notin open, conn' = 0, opened' = opened, open' = open
    PROVE  ConnInv'
BY DEF ConnInv, NoLeakedConnection, Actors

\* A step that opens a connection when there is none, after which nobody is at work.
LEMMA ConnectionOpened ==
    ASSUME ConnInv, conn = 0, Opened, \A a \in Actors : ~InSection(a)'
    PROVE  ConnInv'
<1>1. open = {}
    BY DEF ConnInv, NoLeakedConnection
<1> QED BY <1>1 DEF ConnInv, NoLeakedConnection, Opened, Actors

\* Each step of run keeps the connection accounted for.
LEMMA RunKeepsConnection ==
    ASSUME LockInv, ConnInv, NEW c \in Commands, RunStarts(c) \/ RunStep(c)
    PROVE  ConnInv'
<1> USE DEF CmdPlace, IdlerPlace
<1>1. PlacesTyped /\ SectionIsLocked /\ c \in Actors
    BY DEF LockInv, Actors
<1>2. c \notin Cancellers /\ c \notin IdleIds
    BY ManagerAssumption
<1>3. cmd[c] \in {"connecting", "closing"} =>
        /\ \A a \in Actors : InSection(a) => a = c
        /\ conn \notin open /\ (cmd[c] = "connecting" => conn = 0)
    <2>1. cmd[c] \in {"connecting", "closing"} => InSection(c)
        BY DEF InSection
    <2>2. InSection(c) => Holds(c)
        BY <1>1 DEF SectionIsLocked
    <2> QED BY <1>1, <2>1, <2>2, SectionIsExclusive DEF ConnInv
<1>4. Holds(c) => \A a \in Actors : InSection(a) => a = c
    BY <1>1, SectionIsExclusive
<1>5. CASE RunStarts(c) \/ Created(c) \/ CreateFails(c)
    <2>1. UNCHANGED <<connVars, canceller, idler>> /\
            \E place \in {"locking", "running", "resetting"} : cmd' = [cmd EXCEPT ![c] = place]
        BY <1>5 DEF RunStarts, Created, CreateFails, CmdGoto, idleVars
    <2> QED BY <1>1, <2>1, ConnectionStays DEF InSection, PlacesTyped, connVars
<1>6. CASE ConnectReuses(c) \/ ConnectReusesTooLate(c) \/ RunReturns(c)
    <2>1. /\ UNCHANGED <<connVars, canceller>>
          /\ \E place \in {"creating", "done"} : cmd' = [cmd EXCEPT ![c] = place]
          /\ \/ idler' = idler \/ idler' = IdlersCancelled
             \/ idler' = [IdlersCancelled EXCEPT ![FreeIdler] = "sleeping"]
        BY <1>6 DEF ConnectReuses, ConnectReusesTooLate, RunReturns, LeaveRun, ScheduleIdleClose,
                    CancelIdleClose, CmdGoto, idleVars
    <2>2. \A a \in Actors : InSection(a)' =>
            InSection(a) /\ (a \in Commands /\ cmd'[a] = "connecting" => cmd[a] = "connecting")
        BY <1>1, <2>1, IdlersStayTyped DEF InSection, PlacesTyped
    <2> QED BY <2>1, <2>2, ConnectionStays DEF connVars
<1>7. CASE ConnectOpens(c)
    <2>1. UNCHANGED connVars /\ conn = 0
        BY <1>7 DEF ConnectOpens
    <2> QED BY <2>1, ConnectionStays DEF connVars, ConnInv
<1>8. CASE ConnectReturns(c) \/ ConnectReturnsTooLate(c)
    <2>1. /\ Opened /\ cmd[c] = "connecting" /\ canceller' = canceller
          /\ \E place \in {"creating", "done"} : cmd' = [cmd EXCEPT ![c] = place]
          /\ idler' = idler \/ idler' = [IdlersCancelled EXCEPT ![FreeIdler] = "sleeping"]
        BY <1>8 DEF ConnectReturns, ConnectReturnsTooLate, ScheduleIdleClose, CmdGoto, idleVars
    <2>2. \A a \in Actors : ~InSection(a)'
        BY <1>1, <1>2, <1>3, <2>1, IdlersStayTyped DEF InSection, PlacesTyped
    <2> QED BY <1>3, <2>1, <2>2, ConnectionOpened
<1>9. CASE ConnectFails(c)
    <2>1. UNCHANGED <<connVars, canceller, idler>> /\ cmd' = [cmd EXCEPT ![c] = "resetting"]
        BY <1>9 DEF ConnectFails, CmdGoto, idleVars
    <2> QED BY <1>1, <2>1, ConnectionStays DEF InSection, PlacesTyped, connVars
<1>10. CASE ResetCloses(c)
    <2>1. /\ conn' = conn /\ opened' = opened /\ open' = open \ {conn} /\ Holds(c)
          /\ canceller' = canceller /\ cmd' = [cmd EXCEPT ![c] = "closing"]
          /\ idler' = IdlersCancelled
        BY <1>10 DEF ResetCloses, Close, CancelIdleClose, CmdGoto
    <2>2. \A a \in Actors : InSection(a)' => ~(a \in Commands /\ cmd'[a] = "connecting")
        BY <1>1, <1>4, <2>1 DEF InSection, PlacesTyped
    <2> QED BY <2>1, <2>2, ConnectionStays
<1>11. CASE ResetFindsNone(c) \/ ResetReturns(c)
    <2>1. conn' = 0 /\ opened' = opened /\ open' = open
        BY <1>11 DEF ResetFindsNone, ResetReturns, AfterReset
    <2>2. conn \notin open
        BY <1>3, <1>11 DEF ResetFindsNone, ResetReturns, ConnInv
    <2> QED BY <2>1, <2>2, ConnectionForgotten
<1> QED BY <1>5, <1>6, <1>7, <1>8, <1>9, <1>10, <1>11 DEF RunStep

\* So does each step of a cancel handler's reset.
LEMMA ResetKeepsConnection ==
    ASSUME LockInv, ConnInv, NEW k \in Cancellers, CancelResets(k) \/ ResetStep(k)
    PROVE  ConnInv'
<1> USE DEF ResetPlace, IdlerPlace
<1>1. PlacesTyped /\ SectionIsLocked /\ k \in Actors /\ k \notin Commands /\ k \notin IdleIds
    BY ManagerAssumption DEF LockInv, Actors
<1>2. Holds(k) => \A a \in Actors : InSection(a) => a = k
    BY <1>1, SectionIsExclusive
<1>3. CASE CancelResets(k)
    <2>1. UNCHANGED <<connVars, cmd, idler>> /\ canceller' = [canceller EXCEPT ![k] = "locking"]
        BY <1>3 DEF CancelResets, ResetGoto, idleVars, cmdVars
    <2> QED BY <1>1, <2>1, ConnectionStays DEF InSection, PlacesTyped, connVars
<1>4. CASE CancelCloses(k)
    <2>1. /\ conn' = conn /\ opened' = opened /\ open' = open \ {conn} /\ Holds(k)
          /\ cmd' = cmd /\ canceller' = [canceller EXCEPT ![k] = "closing"]
          /\ idler' = IdlersCancelled
        BY <1>4 DEF CancelCloses, Close, CancelIdleClose, ResetGoto, cmdVars
    <2>2. \A a \in Actors : InSection(a)' => ~(a \in Commands /\ cmd'[a] = "connecting")
        BY <1>1, <1>2, <2>1 DEF InSection, PlacesTyped
    <2> QED BY <2>1, <2>2, ConnectionStays
<1>5. CASE CancelFindsNone(k)
    <2>1. /\ UNCHANGED <<connVars, cmd>> /\ canceller' = [canceller EXCEPT ![k] = "done"]
          /\ idler' = IdlersCancelled
        BY <1>5 DEF CancelFindsNone, CancelIdleClose, ResetGoto, cmdVars
    <2> QED BY <1>1, <2>1, IdlersStayTyped, ConnectionStays DEF InSection, PlacesTyped, connVars
<1>6. CASE CancelClosed(k)
    <2>1. conn' = 0 /\ opened' = opened /\ open' = open /\ canceller[k] = "closing"
        BY <1>6 DEF CancelClosed
    <2>2. conn \notin open
        BY <1>1, <2>1 DEF ConnInv, InSection
    <2> QED BY <2>1, <2>2, ConnectionForgotten
<1> QED BY <1>3, <1>4, <1>5, <1>6 DEF ResetStep

\* So does each step of an idle-close task.
LEMMA IdleCloseKeepsConnection ==
    ASSUME LockInv, ConnInv, NEW i \in IdleIds, IdleStep(i)
    PROVE  ConnInv'
<1> USE DEF IdlerPlace
<1>1. PlacesTyped /\ SectionIsLocked /\ i \in Actors /\ i \notin Commands /\ i \notin Cancellers
    BY ManagerAssumption DEF LockInv, Actors
<1>2. Holds(i) => \A a \in Actors : InSection(a) => a = i
    BY <1>1, SectionIsExclusive
<1>3. CASE IdlerWakes(i) \/ IdlerReturns(i)
    <2>1. /\ UNCHANGED <<connVars, cmd, canceller>>
          /\ \E place \in {"locking", "none"} : idler' = [idler EXCEPT ![i] = place]
        BY <1>3 DEF IdlerWakes, IdlerReturns, IdlerGoto, cmdVars
    <2> QED BY <1>1, <2>1, ConnectionStays DEF InSection, PlacesTyped, connVars
<1>4. CASE IdlerCloses(i)
    <2>1. /\ conn' = conn /\ opened' = opened /\ open' = open \ {conn} /\ Holds(i)
          /\ UNCHANGED <<cmd, canceller>> /\ idler' = [idler EXCEPT ![i] = "closing"]
        BY <1>4 DEF IdlerCloses, IdlerGoto, cmdVars
    <2>2. \A a \in Actors : InSection(a)' => ~(a \in Commands /\ cmd'[a] = "connecting")
        BY <1>1, <1>2, <2>1 DEF InSection, PlacesTyped
    <2> QED BY <2>1, <2>2, ConnectionStays
<1>5. CASE IdlerClosed(i)
    <2>1. conn' = 0 /\ opened' = opened /\ open' = open /\ idler[i] = "closing"
        BY <1>5 DEF IdlerClosed
    <2>2. conn \notin open
        BY <1>1, <2>1 DEF ConnInv, InSection
    <2> QED BY <2>1, <2>2, ConnectionForgotten
<1> QED BY <1>3, <1>4, <1>5 DEF IdleStep

\* ConnInv is inductive, given the lock's discipline.
LEMMA ConnInvStep == LockInv /\ ConnInv /\ [Next]_vars => ConnInv'
<1> SUFFICES ASSUME LockInv, ConnInv, [Next]_vars PROVE ConnInv'
    OBVIOUS
<1>1. CASE ConnectionDrops
    <2>1. conn' = conn /\ opened' = opened /\ open' \subseteq open
            /\ UNCHANGED <<cmd, canceller, idler>>
        BY <1>1 DEF ConnectionDrops, idleVars, cmdVars
    <2> QED BY <2>1, ConnectionStays DEF InSection
<1>2. CASE AtRest \/ UNCHANGED vars
    <2>1. UNCHANGED <<connVars, cmd, canceller, idler>>
        BY <1>2 DEF AtRest, vars, idleVars, cmdVars
    <2> QED BY <2>1, ConnectionStays DEF InSection, connVars
<1>3. CASE \E c \in Commands : RunStarts(c) \/ RunStep(c)
    BY <1>3, RunKeepsConnection
<1>4. CASE \E k \in Cancellers : CancelResets(k) \/ ResetStep(k)
    BY <1>4, ResetKeepsConnection
<1>5. CASE \E i \in IdleIds : IdleStep(i)
    BY <1>5, IdleCloseKeepsConnection
<1> QED BY <1>1, <1>2, <1>3, <1>4, <1>5 DEF Next

\* No connection is left open that _conn does not refer to: whatever fails, drops or is
\* cancelled, nothing replaces or forgets a connection that is still up.
THEOREM ConnectionNeverLeaks == Spec => []NoLeakedConnection
<1>1. Init => ConnInv
    BY DEF Init, ConnInv, NoLeakedConnection, InSection
<1>2. ConnInv => NoLeakedConnection
    BY DEF ConnInv
<1> QED BY <1>1, <1>2, LockInvInit, LockInvStep, ConnInvStep, PTL DEF Spec
-----------------------------------------------------------------------------
(* The count of active commands.                                           *)

\* Sets of commands and of idle-close tasks are finite.
LEMMA SmallSets ==
    /\ \A S \in SUBSET Commands : IsFiniteSet(S) /\ Cardinality(S) \in Nat
    /\ \A S \in SUBSET IdleIds : IsFiniteSet(S) /\ Cardinality(S) \in Nat
BY FS_Subset, FS_CardinalityType, ManagerAssumption

\* A call that comes in, one that leaves, and a step that does neither.
LEMMA CountGoesUp ==
    ASSUME CountInv, PlacesTyped, NEW c \in Commands, ~InCount(c),
           cmd' = [cmd EXCEPT ![c] = "creating"], EnterCount(c)
    PROVE  CountInv'
<1>1. c \notin counted /\ IsFiniteSet(counted) /\ Cardinality(counted) \in Nat
    BY SmallSets DEF CountInv
<1>2. Cardinality(counted \cup {c}) = Cardinality(counted) + 1
    BY <1>1, FS_AddElement
<1>3. \A x \in Commands : /\ x \in counted' => InCount(x)'
                          /\ cmd'[x] \in {"creating", "running"} => x \in counted'
    BY DEF CountInv, InCount, PlacesTyped, EnterCount
<1> QED BY <1>1, <1>2, <1>3 DEF CountInv, CountIsNearlyRight, EnterCount

LEMMA CountGoesDown ==
    ASSUME CountInv, PlacesTyped, NEW c \in Commands,
           NEW place \in {"done", "locking", "failed"},
           cmd' = [cmd EXCEPT ![c] = place], LeaveCount(c)
    PROVE  CountInv'
<1>1. IsFiniteSet(counted) /\ Cardinality(counted) \in Nat /\ Cardinality(counted \ {c}) \in Nat
    BY SmallSets DEF CountInv
<1>2. Cardinality(counted \ {c}) = IF c \in counted THEN Cardinality(counted) - 1
                                   ELSE Cardinality(counted)
    BY <1>1, FS_RemoveElement
<1>3. \A x \in Commands : /\ x \in counted' => InCount(x)'
                          /\ cmd'[x] \in {"creating", "running"} => x \in counted'
    BY DEF CountInv, InCount, PlacesTyped, LeaveCount
<1>4. CASE counted \subseteq {c}
    <2>1. counted \ {c} = {} /\ Cardinality(counted \ {c}) = 0
        BY <1>4, FS_EmptySet
    <2> QED BY <1>1, <1>2, <1>3, <1>4, <2>1 DEF CountInv, CountIsNearlyRight, LeaveCount, Decremented
<1>5. CASE ~(counted \subseteq {c}) /\ c \in counted
    BY <1>1, <1>2, <1>3, <1>5 DEF CountInv, CountIsNearlyRight, LeaveCount, Decremented
<1>6. CASE ~(counted \subseteq {c}) /\ c \notin counted
    BY <1>1, <1>2, <1>3, <1>6 DEF CountInv, CountIsNearlyRight, LeaveCount, Decremented
<1> QED BY <1>4, <1>5, <1>6

LEMMA CountStays ==
    ASSUME CountInv, UNCHANGED countVars,
           \A c \in Commands : cmd'[c] = cmd[c] \/ (InCount(c)' /\ cmd'[c] \notin {"creating", "running"})
                               \/ (InCount(c)' /\ c \in counted) \/ (~InCount(c) /\ ~InCount(c)')
    PROVE  CountInv'
BY DEF CountInv, CountIsNearlyRight, InCount, countVars

\* CountInv is inductive.
LEMMA CountInvStep == PlacesTyped /\ CountInv /\ [Next]_vars => CountInv'
<1> SUFFICES ASSUME PlacesTyped, CountInv, [Next]_vars PROVE CountInv'
    OBVIOUS
<1> USE DEF CmdPlace
<1>1. ASSUME NEW c \in Commands, RunStarts(c) \/ RunStep(c) PROVE CountInv'
    <2>1. CASE RunStarts(c) \/ ConnectOpens(c)
        BY <2>1, CountStays DEF RunStarts, ConnectOpens, CmdGoto, InCount, PlacesTyped
    <2>2. CASE ConnectReuses(c) \/ ConnectReturns(c)
        BY <2>2, CountGoesUp DEF ConnectReuses, ConnectReturns, CmdGoto, InCount
    <2>3. CASE ConnectReusesTooLate(c) \/ ConnectReturnsTooLate(c)
        BY <2>3, CountGoesDown DEF ConnectReusesTooLate, ConnectReturnsTooLate, CmdGoto
    <2>4. CASE ConnectFails(c)
        BY <2>4, CountStays DEF ConnectFails, CmdGoto, InCount, PlacesTyped
    <2>5. CASE Created(c)
        <3>1. c \in counted
            BY <2>5 DEF Created, CountInv
        <3> QED BY <2>5, <3>1, CountStays DEF Created, CmdGoto, InCount, PlacesTyped
    <2>6. CASE CreateFails(c)
        BY <2>6, CountStays DEF CreateFails, CmdGoto, InCount, PlacesTyped
    <2>7. CASE RunReturns(c)
        BY <2>7, CountGoesDown DEF RunReturns, LeaveRun, CmdGoto
    <2>8. CASE ResetCloses(c)
        BY <2>8, CountStays DEF ResetCloses, CmdGoto, InCount, PlacesTyped
    <2>9. CASE ResetFindsNone(c) \/ ResetReturns(c)
        BY <2>9, CountGoesDown DEF ResetFindsNone, ResetReturns, AfterReset, CmdGoto
    <2> QED BY <1>1, <2>1, <2>2, <2>3, <2>4, <2>5, <2>6, <2>7, <2>8, <2>9 DEF RunStep
<1>2. ASSUME NEW k \in Cancellers, CancelResets(k) \/ ResetStep(k) PROVE CountInv'
    BY <1>2, CountStays
    DEF ResetStep, CancelResets, CancelCloses, CancelFindsNone, CancelClosed, cmdVars
<1>3. ASSUME NEW i \in IdleIds, IdleStep(i) PROVE CountInv'
    BY <1>3, CountStays
    DEF IdleStep, IdlerWakes, IdlerReturns, IdlerCloses, IdlerClosed, cmdVars
<1>4. CASE ConnectionDrops \/ AtRest \/ UNCHANGED vars
    BY <1>4, CountStays DEF ConnectionDrops, AtRest, vars, cmdVars
<1> QED BY <1>1, <1>2, <1>3, <1>4 DEF Next

LEMMA CountInvInit == Init => CountInv
BY FS_EmptySet DEF Init, CountInv, CountIsNearlyRight, InCount

LEMMA LockIsTyped == LockInv => PlacesTyped
BY DEF LockInv

\* _active_commands never exceeds the number of calls that work on the connection, and
\* falls short of it by the calls that have left run early at most.
THEOREM CountIsRight == Spec => []CountIsNearlyRight
<1>1. CountInv => CountIsNearlyRight
    BY DEF CountInv
<1> QED BY <1>1, LockInvInit, LockInvStep, LockIsTyped, CountInvInit, CountInvStep, PTL DEF Spec

\* When the count is zero, each command at work on the connection is one that a call
\* which left early has taken out of the count.
LEMMA UncountedWorkers ==
    ASSUME CountInv, active = 0
    PROVE  Cardinality({c \in Commands : UsesConnection(c)}) <= early
<1> DEFINE workers == {c \in Commands : UsesConnection(c)}
<1>1. workers \subseteq counted
    BY DEF CountInv, UsesConnection
<1>2. /\ workers \in SUBSET Commands /\ IsFiniteSet(counted)
      /\ Cardinality(counted) \in Nat /\ Cardinality(workers) \in Nat
    BY SmallSets DEF CountInv
<1>3. Cardinality(workers) <= Cardinality(counted)
    BY <1>1, <1>2, FS_Subset
<1>4. Cardinality(counted) <= early /\ early \in Nat
    BY DEF CountInv, CountIsNearlyRight
<1> QED BY <1>2, <1>3, <1>4

\* An idle-close task that gets the lock takes the connection from no more commands than
\* calls have left run early: from none, if none has.
THEOREM IdleCloseWaits == Spec => IdleCloseSparesCommands
<1> DEFINE Spares == \A i \in IdleIds : idler[i] = "locking" /\ idler'[i] = "closing" =>
                        Cardinality({c \in Commands : UsesConnection(c)}) <= early
<1>1. PlacesTyped /\ CountInv /\ [Next]_vars => [Spares]_vars
    <2> SUFFICES ASSUME PlacesTyped, CountInv, Next, NEW i \in IdleIds,
                        idler[i] = "locking", idler'[i] = "closing"
                 PROVE  Cardinality({c \in Commands : UsesConnection(c)}) <= early
        OBVIOUS
    <2> USE DEF IdlerPlace
    <2>1. idler' # idler /\ idler' # IdlersCancelled
            /\ idler' # [IdlersCancelled EXCEPT ![FreeIdler] = "sleeping"]
        BY IdlersStayTyped
    <2>2. ~\E c \in Commands : RunStarts(c) \/ RunStep(c)
        BY <2>1 DEF RunStarts, RunStep, ConnectReuses, ConnectReusesTooLate, ConnectOpens,
            ConnectReturns, ConnectReturnsTooLate, ConnectFails, Created, CreateFails, RunReturns,
            ResetCloses, Close, ResetFindsNone, ResetReturns, LeaveRun, ScheduleIdleClose,
            CancelIdleClose, idleVars
    <2>3. ~\E k \in Cancellers : CancelResets(k) \/ ResetStep(k)
        BY <2>1 DEF CancelResets, ResetStep, CancelCloses, Close, CancelFindsNone, CancelClosed,
            CancelIdleClose, idleVars
    <2>4. ~(ConnectionDrops \/ AtRest)
        BY <2>1 DEF ConnectionDrops, AtRest, vars, idleVars
    <2>5. PICK j \in IdleIds : IdleStep(j)
        BY <2>2, <2>3, <2>4 DEF Next
    <2>6. ~(IdlerWakes(j) \/ IdlerReturns(j) \/ IdlerClosed(j))
        BY DEF IdlerWakes, IdlerReturns, IdlerClosed, IdlerGoto, PlacesTyped
    <2>7. IdlerCloses(j)
        BY <2>5, <2>6 DEF IdleStep
    <2>8. active = 0
        BY <2>7 DEF IdlerCloses, MustStayOpen, CountInv
    <2> QED BY <2>8, UncountedWorkers
<1> QED BY <1>1, LockInvInit, LockInvStep, LockIsTyped, CountInvInit, CountInvStep, PTL
        DEF Spec, IdleCloseSparesCommands
-----------------------------------------------------------------------------
(* The idle-close tasks.                                                   *)

\* A step that leaves the idle-close tasks alone, and counts nobody in while one of
\* them closes the connection.
LEMMA IdlersStay ==
    ASSUME IdlerInv, UNCHANGED <<idleVars, spoiled>>, Done \subseteq Done', Done' \subseteq Commands,
           \A i \in IdleIds : idler[i] = "closing" => counted' \subseteq counted
    PROVE  IdlerInv'
<1>1. Orphans' = Orphans /\ Busy' = Busy
    BY DEF Orphans, Busy, Waits, idleVars
<1>2. Cardinality(Done) <= Cardinality(Done') /\ \A S \in {Done, Done', Busy} : Cardinality(S) \in Nat
    BY SmallSets, FS_Subset DEF Done, Busy
<1>3. IdlersAreOwned'
    BY <1>1, <1>2 DEF IdlerInv, IdlersAreOwned
<1>4. CloserPays'
    BY <1>1 DEF IdlerInv, CloserPays, Waits, idleVars
<1> QED BY <1>1, <1>3, <1>4 DEF IdlerInv, FewOrphanIdlers, idleVars

\* So does cancelling the current idle-close task.
LEMMA CancellingKeepsIdlers ==
    ASSUME PlacesTyped, IdlerInv, CancelIdleClose, UNCHANGED spoiled,
           Done \subseteq Done', Done' \subseteq Commands,
           \A i \in IdleIds : idler[i] = "closing" => counted' \subseteq counted
    PROVE  IdlerInv'
<1>1. 0 \notin IdleIds /\ current' = 0 /\ idler' = IdlersCancelled
    BY ManagerAssumption DEF CancelIdleClose
<1>2. \A i \in IdleIds : /\ idler'[i] = IF Waits(i) /\ i = current THEN "none" ELSE idler[i]
                         /\ idler'[i] = "closing" => idler[i] = "closing"
    BY <1>1 DEF IdlersCancelled, Cancellable, Waits
<1>3. Orphans' = Orphans
    BY <1>1, <1>2 DEF Orphans, Waits
<1>4. Busy' \subseteq Busy /\ Busy \subseteq IdleIds
    BY <1>2 DEF Busy
<1>5. /\ Cardinality(Done) <= Cardinality(Done') /\ Cardinality(Busy') <= Cardinality(Busy)
      /\ \A S \in {Done, Done', Busy, Busy'} : Cardinality(S) \in Nat
    BY <1>4, SmallSets, FS_Subset DEF Done
<1>6. IdlersAreOwned'
    BY <1>5 DEF IdlerInv, IdlersAreOwned
<1>7. CloserPays'
    BY <1>1, <1>2, <1>3 DEF IdlerInv, CloserPays
<1> QED BY <1>1, <1>3, <1>6, <1>7 DEF IdlerInv, FewOrphanIdlers

\* A call that is not over finds an identity for the idle-close task it schedules.
LEMMA IdlerIsFree ==
    ASSUME IdlerInv, NEW c \in Commands, cmd[c] # "done"
    PROVE  FreeIdler \in IdleIds /\ IdlersCancelled[FreeIdler] = "none"
<1>1. Done \subseteq Commands \ {c} /\ Busy \subseteq IdleIds
    BY DEF Done, Busy
<1>2. /\ Cardinality(Commands \ {c}) = Cardinality(Commands) - 1
      /\ Cardinality(Done) <= Cardinality(Commands \ {c})
      /\ \A S \in {Done, Commands, IdleIds, Busy} : Cardinality(S) \in Nat
    BY <1>1, SmallSets, FS_RemoveElement, FS_Subset, ManagerAssumption
<1>3. Cardinality(Busy) # Cardinality(IdleIds)
    BY <1>2, ManagerAssumption DEF IdlerInv, IdlersAreOwned
<1>4. PICK i \in IdleIds : idler[i] = "none"
    BY <1>1, <1>3 DEF Busy
<1>5. IdlersCancelled[i] = "none"
    BY <1>4 DEF IdlersCancelled
<1> QED BY <1>4, <1>5 DEF FreeIdler

\* Scheduling one, while those that close the connection do so with calls in the count.
LEMMA SchedulingKeepsIdlers ==
    ASSUME PlacesTyped, IdlerInv, NEW q, ScheduleIdleClose(q), UNCHANGED spoiled,
           NEW c \in Commands, cmd[c] # "done", cmd' = [cmd EXCEPT ![c] = "done"],
           \A i \in IdleIds : idler[i] = "closing" => counted # {}
    PROVE  IdlerInv'
<1> DEFINE free == FreeIdler
<1>1. free \in IdleIds /\ IdlersCancelled[free] = "none"
    BY IdlerIsFree
<1>2. current' = free /\ idler' = [IdlersCancelled EXCEPT ![free] = "sleeping"]
    BY DEF ScheduleIdleClose
<1>3. IdlersCancelled \in [IdleIds -> IdlerPlace]
    BY IdlersStayTyped
<1> HIDE DEF free
<1>4. \A i \in IdleIds : idler'[i] = IF i = free THEN "sleeping" ELSE IdlersCancelled[i]
    BY <1>1, <1>2, <1>3
<1>5. \A i \in IdleIds : IdlersCancelled[i] = IF Waits(i) /\ i = current THEN "none" ELSE idler[i]
    BY DEF IdlersCancelled, Cancellable, Waits
<1>6. Orphans' = Orphans
    BY <1>1, <1>2, <1>4, <1>5 DEF Orphans, Waits
<1>7. IdlersAreOwned'
    <2>1. Busy' \subseteq Busy \cup {free} /\ Busy \subseteq IdleIds
        BY <1>4, <1>5 DEF Busy
    <2>2. Done' = Done \cup {c} /\ c \notin Done /\ Done \cup {c} \subseteq Commands
        BY DEF Done, PlacesTyped
    <2>3. /\ Cardinality(Done') = Cardinality(Done) + 1
          /\ Cardinality(Done) \in Nat
        BY <2>2, SmallSets, FS_AddElement
    <2>4. Cardinality(Busy \cup {free}) <= Cardinality(Busy) + 1
        BY <2>1, SmallSets, FS_AddElement
    <2>5. /\ Cardinality(Busy') <= Cardinality(Busy \cup {free})
          /\ \A S \in {Busy, Busy \cup {free}, Busy'} : Cardinality(S) \in Nat
        BY <1>1, <2>1, SmallSets, FS_Subset
    <2> QED BY <2>3, <2>4, <2>5 DEF IdlerInv, IdlersAreOwned
<1>8. ASSUME NEW i \in IdleIds, idler'[i] = "closing" PROVE Cardinality(Orphans) < spoiled
    <2>1. idler[i] = "closing"
        BY <1>4, <1>5, <1>8
    <2> QED BY <2>1 DEF IdlerInv, CloserPays
<1>9. CloserPays'
    BY <1>6, <1>8 DEF CloserPays
<1> QED BY <1>1, <1>2, <1>6, <1>7, <1>9 DEF IdlerInv, FewOrphanIdlers

\* Whoever else has the lock, or works with it, no idle-close task closes.
LEMMA HolderKeepsClosersOut ==
    ASSUME LockInv, NEW a \in Commands \cup Cancellers, Holds(a) \/ InSection(a)
    PROVE  \A i \in IdleIds : idler[i] # "closing"
<1>1. a \in Actors /\ a \notin IdleIds
    BY ManagerAssumption DEF Actors
<1>2. Holds(a)
    BY <1>1 DEF LockInv, SectionIsLocked
<1>3. \A i \in IdleIds : i \in Actors /\ (idler[i] = "closing" => InSection(i))
    BY DEF Actors, InSection
<1> QED BY <1>1, <1>2, <1>3, SectionIsExclusive DEF LockInv

\* Each step of run keeps IdlerInv.
LEMMA RunKeepsIdlers ==
    ASSUME LockInv, CountInv, IdlerInv, NEW c \in Commands, RunStarts(c) \/ RunStep(c)
    PROVE  IdlerInv'
<1>0. PlacesTyped
    BY DEF LockInv
<1>1. ASSUME NEW place, cmd' = [cmd EXCEPT ![c] = place], cmd[c] # "done"
      PROVE  Done \subseteq Done' /\ Done' \subseteq Commands
    BY <1>0, <1>1 DEF Done, PlacesTyped
<1>2. CASE RunStarts(c) \/ Created(c) \/ CreateFails(c) \/ ConnectFails(c)
    BY <1>1, <1>2, IdlersStay
    DEF RunStarts, Created, CreateFails, ConnectFails, CmdGoto, countVars
<1>3. CASE ConnectReuses(c)
    <2>1. \A i \in IdleIds : idler[i] # "closing"
        BY <1>3, HolderKeepsClosersOut DEF ConnectReuses
    <2> QED BY <1>0, <1>1, <1>3, <2>1, CancellingKeepsIdlers DEF ConnectReuses, CmdGoto
<1>4. CASE ConnectReusesTooLate(c)
    <2>1. \A i \in IdleIds : idler[i] # "closing"
        BY <1>4, HolderKeepsClosersOut DEF ConnectReusesTooLate
    <2>2. ScheduleIdleClose(Tail(queue)) \/ CancelIdleClose
        BY <1>4 DEF ConnectReusesTooLate
    <2>3. cmd[c] = "locking" /\ cmd' = [cmd EXCEPT ![c] = "done"] /\ UNCHANGED spoiled
        BY <1>4 DEF ConnectReusesTooLate, CmdGoto
    <2> QED BY <1>0, <1>1, <2>1, <2>2, <2>3, CancellingKeepsIdlers, SchedulingKeepsIdlers
<1>5. CASE ConnectOpens(c)
    BY <1>0, <1>1, <1>5, CancellingKeepsIdlers DEF ConnectOpens, CmdGoto, countVars
<1>6. CASE ConnectReturns(c)
    <2>1. \A i \in IdleIds : idler[i] # "closing"
        BY <1>6, HolderKeepsClosersOut DEF ConnectReturns, InSection
    <2> QED BY <1>1, <1>6, <2>1, IdlersStay DEF ConnectReturns, CmdGoto
<1>7. CASE ConnectReturnsTooLate(c)
    <2>1. \A i \in IdleIds : idler[i] # "closing"
        BY <1>7, HolderKeepsClosersOut DEF ConnectReturnsTooLate, InSection
    <2>2. ScheduleIdleClose(Tail(queue)) \/ UNCHANGED idleVars
        BY <1>7 DEF ConnectReturnsTooLate
    <2>3. cmd[c] = "connecting" /\ cmd' = [cmd EXCEPT ![c] = "done"] /\ UNCHANGED spoiled
        BY <1>7 DEF ConnectReturnsTooLate, CmdGoto
    <2> QED BY <1>0, <1>1, <2>1, <2>2, <2>3, IdlersStay, SchedulingKeepsIdlers
<1>8. CASE RunReturns(c)
    <2>1. /\ cmd[c] = "running" /\ cmd' = [cmd EXCEPT ![c] = "done"] /\ UNCHANGED spoiled
          /\ counted' \subseteq counted
        BY <1>8 DEF RunReturns, LeaveRun, LeaveCount, CmdGoto
    <2>2. counted # {}
        BY <2>1 DEF CountInv
    <2>3. ScheduleIdleClose(queue) \/ UNCHANGED idleVars
        BY <1>8 DEF RunReturns, LeaveRun
    <2> QED BY <1>0, <1>1, <2>1, <2>2, <2>3, IdlersStay, SchedulingKeepsIdlers
<1>9. CASE ResetCloses(c)
    BY <1>0, <1>1, <1>9, CancellingKeepsIdlers DEF ResetCloses, Close, CmdGoto, countVars
<1>10. CASE ResetFindsNone(c) \/ ResetReturns(c)
    <2>1. /\ cmd[c] # "done" /\ UNCHANGED spoiled /\ counted' \subseteq counted
          /\ \E place : cmd' = [cmd EXCEPT ![c] = place]
          /\ CancelIdleClose \/ UNCHANGED idleVars
        BY <1>10 DEF ResetFindsNone, ResetReturns, AfterReset, LeaveCount, CmdGoto
    <2> QED BY <1>0, <1>1, <2>1, IdlersStay, CancellingKeepsIdlers
<1> QED BY <1>2, <1>3, <1>4, <1>5, <1>6, <1>7, <1>8, <1>9, <1>10 DEF RunStep

\* Each step of a cancel handler's reset keeps IdlerInv.
LEMMA ResetKeepsIdlers ==
    ASSUME PlacesTyped, IdlerInv, NEW k \in Cancellers, CancelResets(k) \/ ResetStep(k)
    PROVE  IdlerInv'
<1>1. Done' = Done /\ Done \subseteq Commands /\ counted' = counted
    BY DEF Done, CancelResets, ResetStep, CancelCloses, CancelFindsNone, CancelClosed, cmdVars, countVars
<1>2. CASE CancelResets(k) \/ CancelClosed(k)
    BY <1>1, <1>2, IdlersStay DEF CancelResets, CancelClosed
<1>3. CASE CancelCloses(k) \/ CancelFindsNone(k)
    BY <1>1, <1>3, CancellingKeepsIdlers DEF CancelCloses, Close, CancelFindsNone
<1> QED BY <1>2, <1>3 DEF ResetStep

\* Each step of an idle-close task keeps IdlerInv.
LEMMA IdleCloseKeepsIdlers ==
    ASSUME LockInv, IdlerInv, NEW i \in IdleIds, IdleStep(i)
    PROVE  IdlerInv'
<1> USE DEF IdlerPlace
<1>1. /\ PlacesTyped /\ Done' = Done /\ counted' = counted
      /\ \A S \in SUBSET IdleIds : IsFiniteSet(S) /\ Cardinality(S) \in Nat
      /\ Orphans \subseteq IdleIds /\ Orphans' \subseteq IdleIds
      /\ Busy \subseteq IdleIds /\ Busy' \subseteq IdleIds
      /\ Cardinality(Done) \in Nat /\ spoiled \in Nat
    BY SmallSets DEF LockInv, Done, Orphans, Busy, IdleStep, IdlerWakes, IdlerReturns, IdlerCloses,
       IdlerClosed, cmdVars, countVars, IdlerInv
<1>2. ASSUME Busy' \subseteq Busy PROVE IdlersAreOwned'
    <2>1. Cardinality(Busy') <= Cardinality(Busy)
        BY <1>1, <1>2, FS_Subset
    <2> QED BY <1>1, <2>1 DEF IdlerInv, IdlersAreOwned
<1>3. ASSUME Holds(i) \/ idler[i] = "closing"
      PROVE  \A j \in IdleIds : j # i => idler[j] # "closing"
    <2>1. \A j \in IdleIds : j \in Actors /\ (idler[j] = "closing" => InSection(j))
        BY DEF Actors, InSection
    <2>2. Holds(i)
        BY <1>3, <2>1 DEF LockInv, SectionIsLocked
    <2> QED BY <2>1, <2>2, SectionIsExclusive DEF LockInv
<1>4. CASE IdlerWakes(i) \/ IdlerReturns(i)
    <2>1. /\ UNCHANGED <<current, spoiled>>
          /\ \/ idler[i] = "sleeping" /\ idler' = [idler EXCEPT ![i] = "locking"]
             \/ idler[i] = "locking" /\ idler' = [idler EXCEPT ![i] = "none"]
        BY <1>4 DEF IdlerWakes, IdlerReturns, IdlerGoto
    <2>2. Orphans' \subseteq Orphans /\ Busy' \subseteq Busy
        BY <1>1, <2>1 DEF Orphans, Busy, Waits, PlacesTyped
    <2>3. Cardinality(Orphans') <= Cardinality(Orphans)
        BY <1>1, <2>2, FS_Subset
    <2>4. \A j \in IdleIds : /\ idler'[j] = "closing" => idler[j] = "closing"
                             /\ Waits(j)' => Waits(j)
        BY <1>1, <2>1 DEF Waits, PlacesTyped
    <2>5. CloserPays'
        BY <1>1, <2>1, <2>3, <2>4 DEF IdlerInv, CloserPays
    <2>6. FewOrphanIdlers'
        BY <1>1, <2>1, <2>3 DEF IdlerInv, FewOrphanIdlers
    <2> QED BY <1>2, <2>1, <2>2, <2>5, <2>6 DEF IdlerInv
<1>5. CASE IdlerCloses(i)
    <2>1. /\ current' = current /\ idler[i] = "locking" /\ Holds(i)
          /\ idler' = [idler EXCEPT ![i] = "closing"]
          /\ spoiled' = IF counted = {} THEN spoiled ELSE spoiled + 1
        BY <1>5 DEF IdlerCloses, IdlerGoto
    <2>2. Orphans' = Orphans \ {i} /\ Busy' = Busy
        BY <1>1, <2>1 DEF Orphans, Busy, Waits, PlacesTyped
    <2>3. /\ Cardinality(Orphans') <= Cardinality(Orphans)
          /\ i \in Orphans => Cardinality(Orphans') = Cardinality(Orphans) - 1
        BY <1>1, <2>2, FS_RemoveElement
    <2>4. FewOrphanIdlers'
        BY <1>1, <2>1, <2>3 DEF IdlerInv, FewOrphanIdlers
    <2>5. CASE counted # {}
        <3>1. Cardinality(Orphans') < spoiled'
            BY <1>1, <2>1, <2>3, <2>5 DEF IdlerInv, FewOrphanIdlers
        <3> QED BY <1>2, <2>1, <2>2, <2>4, <3>1 DEF IdlerInv, CloserPays
    <2>6. CASE counted = {} /\ i = current
        <3>1. \A j \in IdleIds : Waits(j)' => j # current'
            BY <1>1, <2>1, <2>6 DEF Waits, PlacesTyped
        <3> QED BY <1>1, <1>2, <2>1, <2>2, <2>4, <2>6, <3>1 DEF IdlerInv, CloserPays
    <2>7. CASE counted = {} /\ i # current
        <3>1. i \in Orphans
            BY <2>1, <2>7 DEF Orphans, Waits
        <3>2. Cardinality(Orphans') < spoiled'
            BY <1>1, <2>1, <2>3, <2>7, <3>1 DEF IdlerInv, FewOrphanIdlers
        <3> QED BY <1>2, <2>1, <2>2, <2>4, <3>2 DEF IdlerInv, CloserPays
    <2> QED BY <2>5, <2>6, <2>7
<1>6. CASE IdlerClosed(i)
    <2>1. /\ current' = 0 /\ spoiled' = spoiled /\ idler[i] = "closing" /\ 0 \notin IdleIds
          /\ idler' = [idler EXCEPT ![i] = "none"]
        BY <1>6, ManagerAssumption DEF IdlerClosed, IdlerGoto
    <2>2. /\ Orphans' = {j \in IdleIds : Waits(j)} /\ Busy' \subseteq Busy
          /\ \A j \in IdleIds : idler'[j] # "closing"
        BY <1>1, <1>3, <2>1 DEF Orphans, Busy, Waits, PlacesTyped
    <2>3. CASE counted = {} /\ \A j \in IdleIds : Waits(j) => j # current
        <3>1. Orphans' = Orphans
            BY <2>2, <2>3 DEF Orphans
        <3> QED BY <1>2, <2>1, <2>2, <3>1 DEF IdlerInv, FewOrphanIdlers, CloserPays
    <2>4. CASE Cardinality(Orphans) < spoiled
        <3>1. Orphans' \subseteq Orphans \cup {current}
            BY <2>2 DEF Orphans
        <3>2. IsFiniteSet(Orphans \cup {current}) /\ Cardinality(Orphans \cup {current}) <= Cardinality(Orphans) + 1
            BY <1>1, FS_AddElement
        <3>3. Cardinality(Orphans') <= Cardinality(Orphans \cup {current}) /\ Cardinality(Orphans \cup {current}) \in Nat
            BY <3>1, <3>2, FS_Subset, FS_CardinalityType
        <3>4. FewOrphanIdlers'
            BY <1>1, <2>1, <2>4, <3>2, <3>3 DEF FewOrphanIdlers
        <3> QED BY <1>2, <2>1, <2>2, <3>4 DEF IdlerInv, CloserPays
    <2> QED BY <2>1, <2>3, <2>4 DEF IdlerInv, CloserPays
<1> QED BY <1>4, <1>5, <1>6 DEF IdleStep

\* IdlerInv is inductive, given the lock's discipline and the count.
LEMMA IdlerInvStep ==
    LockInv /\ CountInv /\ IdlerInv /\ [Next]_vars => IdlerInv'
<1> SUFFICES ASSUME LockInv, CountInv, IdlerInv, [Next]_vars PROVE IdlerInv'
    OBVIOUS
<1>1. CASE ConnectionDrops \/ AtRest \/ UNCHANGED vars
    <2>1. UNCHANGED <<idleVars, spoiled, cmd, counted>>
        BY <1>1 DEF ConnectionDrops, AtRest, vars, cmdVars, countVars
    <2> QED BY <2>1, IdlersStay DEF Done
<1>2. CASE \E c \in Commands : RunStarts(c) \/ RunStep(c)
    BY <1>2, RunKeepsIdlers
<1>3. CASE \E k \in Cancellers : CancelResets(k) \/ ResetStep(k)
    BY <1>3, ResetKeepsIdlers DEF LockInv
<1>4. CASE \E i \in IdleIds : IdleStep(i)
    BY <1>4, IdleCloseKeepsIdlers
<1> QED BY <1>1, <1>2, <1>3, <1>4 DEF Next

LEMMA IdlerInvInit == Init => IdlerInv
<1> SUFFICES ASSUME Init PROVE IdlerInv
    OBVIOUS
<1>1. Orphans = {} /\ Busy = {} /\ \A i \in IdleIds : idler[i] # "closing"
    BY DEF Init, Orphans, Busy, Waits
<1>2. Cardinality(Done) \in Nat
    BY SmallSets DEF Done
<1> QED BY <1>1, <1>2, FS_EmptySet DEF Init, IdlerInv, FewOrphanIdlers, CloserPays, IdlersAreOwned

\* Every idle-close task that sleeps or waits for the lock is _idle_close_task, which
\* the next connect or reset cancels, except one at most for each idle close that was
\* started with calls in the count: although every close forgets whatever is current.
THEOREM IdlersCanBeCancelled == Spec => []FewOrphanIdlers
<1>1. IdlerInv => FewOrphanIdlers
    BY DEF IdlerInv
<1> QED BY <1>1, IdlerInvInit, IdlerInvStep, LockInvInit, LockInvStep, LockIsTyped, CountInvInit,
           CountInvStep, PTL DEF Spec

\* The rest of the manager's types.
RestTyped == attempt \in [Commands -> 1..2] /\ on \in [Commands -> Nat] /\ drops \in Nat

LEMMA RestStep == ConnInv /\ RestTyped /\ [Next]_vars => RestTyped'
<1> SUFFICES ASSUME ConnInv, RestTyped, [Next]_vars PROVE RestTyped'
    OBVIOUS
<1>0. conn \in Nat /\ opened \in Nat
    BY DEF ConnInv
<1> USE <1>0 DEF RestTyped
<1>1. ASSUME NEW c \in Commands, RunStarts(c) \/ RunStep(c) PROVE RestTyped'
    <2>1. CASE ConnectReuses(c) \/ ConnectReturns(c)
        <3>1. \E n \in Nat : on' = [on EXCEPT ![c] = n]
            BY <2>1 DEF ConnectReuses, ConnectReturns
        <3> QED BY <2>1, <3>1 DEF ConnectReuses, ConnectReturns
    <2>2. CASE ResetFindsNone(c) \/ ResetReturns(c)
        BY <2>2 DEF ResetFindsNone, ResetReturns, AfterReset
    <2>3. CASE \/ ConnectReusesTooLate(c) \/ ConnectReturnsTooLate(c) \/ RunReturns(c) \/ ResetCloses(c)
               \/ RunStarts(c) \/ ConnectOpens(c) \/ ConnectFails(c) \/ Created(c) \/ CreateFails(c)
        BY <2>3 DEF ConnectReusesTooLate, ConnectReturnsTooLate, RunReturns, ResetCloses,
           RunStarts, ConnectOpens, ConnectFails, Created, CreateFails
    <2> QED BY <1>1, <2>1, <2>2, <2>3 DEF RunStep
<1>2. ASSUME NEW k \in Cancellers, CancelResets(k) \/ ResetStep(k) PROVE RestTyped'
    BY <1>2 DEF ResetStep, CancelResets, CancelCloses, CancelFindsNone, CancelClosed, cmdVars
<1>3. ASSUME NEW i \in IdleIds, IdleStep(i) PROVE RestTyped'
    BY <1>3 DEF IdleStep, IdlerWakes, IdlerReturns, IdlerCloses, IdlerClosed, cmdVars
<1>4. CASE ConnectionDrops \/ AtRest \/ UNCHANGED vars
    BY <1>4 DEF ConnectionDrops, AtRest, vars, cmdVars
<1> QED BY <1>1, <1>2, <1>3, <1>4 DEF Next

\* The variables of the manager keep their types, whatever fails; the point is
\* _idle_close_task, since a task that is scheduled needs an identity that no other
\* idle-close task has any more.
THEOREM ManagerTypesCorrect == Spec => []TypeOK
<1>1. Init => RestTyped /\ ConnInv
    BY DEF Init, RestTyped, ConnInv, NoLeakedConnection, InSection, Actors
<1>2. LockInv /\ ConnInv /\ CountInv /\ IdlerInv /\ RestTyped => TypeOK
    BY DEF LockInv, PlacesTyped, ConnInv, NoLeakedConnection, CountInv, IdlerInv, RestTyped, TypeOK
<1> QED BY <1>1, <1>2, LockInvInit, LockInvStep, LockIsTyped, ConnInvStep, CountInvInit, CountInvStep,
           IdlerInvInit, IdlerInvStep, RestStep, PTL DEF Spec
=============================================================================
