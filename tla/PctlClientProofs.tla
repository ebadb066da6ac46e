-------------------------- MODULE PctlClientProofs --------------------------
(***************************************************************************)
(* Theorems about CommandStream and PctlClient, for every number of        *)
(* readers, every history limit and every length of the command's output.  *)
(***************************************************************************)
EXTENDS PctlClient, SequenceTheorems, TLAPS

\* A run of consecutive positions, and one that ends with the n-th event.
Consecutive(q) == \A i \in 1..(Len(q) - 1) : q[i + 1] = q[i] + 1

UpTo(q, n) == Consecutive(q) /\ IF n = 0 THEN q = <<>> ELSE q # <<>> /\ q[Len(q)] = n

PublishedPositions == 1..Len(log)

StreamTyped ==
    /\ log \in Seq(EventType) /\ history \in Seq(PublishedPositions)
    /\ subscribers \subseteq Readers
    /\ reader \in [Readers -> ReadPlace] /\ want \in [Readers -> Nat]
    /\ queue \in [Readers -> Seq(PublishedPositions)]
    /\ sent \in [Readers -> Seq(PublishedPositions)]

\* What reader s was given runs on without a gap, and as long as it subscribes, to the
\* last event.
FeedInv(s) ==
    /\ Consecutive(Feed(s))
    /\ s \in subscribers => UpTo(Feed(s), Len(log))
    /\ s \in subscribers <=> reader[s] \in {"reading", "sending"}
    /\ reader[s] \in {"new", "refused", "accepting"} => sent[s] = <<>> /\ queue[s] = <<>>

StreamInv == StreamTyped /\ UpTo(history, Len(log)) /\ \A s \in Readers : FeedInv(s)

\* Nothing follows a terminal event while nobody cancels, and a reader that takes an
\* event or was let go has one to its name.
EndInv ==
    /\ cancels \in Nat
    /\ cancels = 0 => \A i \in PublishedPositions :
          log[i] \in Terminal => i = Len(log) /\ task \in {"ended", "over"}
    /\ \A s \in Readers :
          /\ reader[s] = "sending" => sent[s] # <<>>
          /\ reader[s] = "finished" => sent[s] # <<>> /\ LastSent(s) \in Terminal

\* Only the task's end makes a result, and with it the event that tells the result.
ResultInv ==
    /\ task \in {"ready", "running", "died"} => result = "none"
    /\ \A i \in PublishedPositions :
          /\ log[i] = "finished" => result \in ExitCode
          /\ log[i] = "error" => result \in {"timeout", "failed"}

\* A cancelled event is a cancel handler's, or the task's with the result.
CancelInv ==
    /\ cancels \in Nat
    /\ \A i \in PublishedPositions :
          log[i] = "cancelled" => cancels > 0 \/ result = "cancelled"

\* The status that pctl left with is that of the event it received last.
GoneInv ==
    client = "gone" =>
        /\ status = "zero" /\ link = "up" =>
              /\ got \in 1..Len(sent[Pctl]) /\ log[sent[Pctl][got]] = "finished"
              /\ result \in {"zero", "lost"}
        /\ status \in {"nonzero", "timeout"} => result = status
        /\ status = "failed" => result = "failed" \/ reader[Pctl] = "refused" \/ link = "down"
        /\ status = "cancelled" => interrupted \/ cancels > 0 \/ result = "cancelled"
        /\ status = "unavailable" => got = 0 /\ ~interrupted

\* Nothing has come and nobody has interrupted pctl while it posts; it sends a cancel
\* call because somebody has.
InterruptInv == /\ client = "posting" => got = 0 /\ ~interrupted
                /\ client = "cancelling" => interrupted

ClientInv == got \in Nat /\ ResultInv /\ CancelInv /\ GoneInv /\ InterruptInv
-----------------------------------------------------------------------------
(* Sequences of positions.                                                 *)

\* The next event extends a run up to its predecessor.
LEMMA NextExtends ==
    ASSUME NEW n \in Nat, NEW q \in Seq(Nat), UpTo(q, n)
    PROVE  Append(q, n + 1) \in Seq(Nat) /\ UpTo(Append(q, n + 1), n + 1)
<1> DEFINE r == Append(q, n + 1)
<1>1. /\ r \in Seq(Nat) /\ r # <<>> /\ Len(r) = Len(q) + 1 /\ r[Len(q) + 1] = n + 1
      /\ \A i \in 1..Len(q) : r[i] = q[i]
    BY AppendProperties
<1>2. Len(q) \in Nat /\ (q # <<>> => q[Len(q)] = n /\ Len(q) \in 1..Len(q))
    BY EmptySeq, LenProperties DEF UpTo
<1>3. ASSUME NEW i \in 1..(Len(r) - 1) PROVE r[i + 1] = r[i] + 1
    <2>1. i \in 1..Len(q) /\ q # <<>>
        BY <1>1, <1>2, <1>3, EmptySeq
    <2>2. CASE i = Len(q)
        BY <1>1, <1>2, <2>1, <2>2
    <2>3. CASE i # Len(q)
        <3>1. i \in 1..(Len(q) - 1) /\ i + 1 \in 1..Len(q)
            BY <1>2, <2>1, <2>3
        <3> QED BY <1>1, <2>1, <3>1 DEF UpTo, Consecutive
    <2> QED BY <2>2, <2>3
<1> HIDE DEF r
<1>4. Consecutive(r) /\ r # <<>> /\ r[Len(r)] = n + 1
    BY <1>1, <1>3 DEF Consecutive
<1> QED BY <1>1, <1>4 DEF UpTo, r

\* The tail slice of a sequence, and of a run.
LEMMA LastOfIsTail ==
    ASSUME NEW S, NEW q \in Seq(S), NEW k \in Nat
    PROVE  /\ LastOf(q, k) \in Seq(S)
           /\ q # <<>> => LastOf(q, k) # <<>>
           /\ Len(LastOf(q, k)) \in 0..Len(q)
           /\ \A i \in 1..Len(LastOf(q, k)) : LastOf(q, k)[i] = q[i + (Len(q) - Len(LastOf(q, k)))]
<1>1. Len(q) \in Nat /\ \A i \in 1..Len(q) : q[i] \in S
    BY LenProperties, ElementOfSeq
<1>2. CASE k = 0 \/ k >= Len(q)
    <2>1. LastOf(q, k) = q
        BY <1>2 DEF LastOf
    <2> QED BY <1>1, <2>1
<1>3. CASE ~(k = 0 \/ k >= Len(q))
    <2> DEFINE m == Len(q) - k + 1
               t == SubSeq(q, m, Len(q))
    <2>1. m \in 1..Len(q) /\ Len(q) - m + 1 = k /\ k \in 1..Len(q) /\ m - 1 = Len(q) - k
        BY <1>1, <1>3
    <2>2. LastOf(q, k) = t
        BY <1>3 DEF LastOf
    <2> HIDE DEF m
    <2>3. \A i \in m..Len(q) : q[i] \in S
        BY <1>1, <2>1
    <2>4. t \in Seq(S) /\ Len(t) = k /\ \A i \in 1..k : t[i] = q[m + i - 1]
        BY <1>1, <2>1, <2>3, SubSeqProperties
    <2>5. \A i \in 1..k : m + i - 1 = i + (Len(q) - k)
        BY <1>1, <2>1
    <2> HIDE DEF t
    <2>6. t # <<>>
        BY <1>1, <2>1, <2>4, EmptySeq
    <2> QED BY <2>1, <2>2, <2>4, <2>5, <2>6
<1> QED BY <1>2, <1>3

LEMMA TailOfRun ==
    ASSUME NEW n \in Nat, NEW q \in Seq(Nat), UpTo(q, n), NEW k \in Nat
    PROVE  UpTo(LastOf(q, k), n)
<1> DEFINE t == LastOf(q, k)
           d == Len(q) - Len(t)
<1>1. /\ t \in Seq(Nat) /\ (q # <<>> => t # <<>>) /\ Len(t) \in 0..Len(q) /\ Len(q) \in Nat
      /\ \A i \in 1..Len(t) : t[i] = q[i + d]
    BY LastOfIsTail, LenProperties
<1>2. d \in Nat /\ Len(t) + d = Len(q) /\ Len(t) \in Nat
    BY <1>1
<1> HIDE DEF t, d
<1>3. Consecutive(t)
    <2> SUFFICES ASSUME NEW i \in 1..(Len(t) - 1) PROVE t[i + 1] = t[i] + 1
        BY DEF Consecutive
    <2>1. i + d \in 1..(Len(q) - 1) /\ i \in 1..Len(t) /\ i + 1 \in 1..Len(t) /\ (i + 1) + d = (i + d) + 1
        BY <1>2
    <2>2. q[(i + d) + 1] = q[i + d] + 1
        BY <2>1 DEF UpTo, Consecutive
    <2> QED BY <1>1, <2>1, <2>2
<1>4. CASE n = 0
    <2>1. q = <<>> /\ Len(t) = 0
        BY <1>1, <1>4, EmptySeq DEF UpTo
    <2> QED BY <1>1, <1>3, <1>4, <2>1, EmptySeq DEF UpTo, t
<1>5. CASE n # 0
    <2>1. q # <<>> /\ q[Len(q)] = n /\ t # <<>>
        BY <1>1, <1>5 DEF UpTo
    <2>2. Len(t) \in 1..Len(t) /\ Len(t) + d = Len(q)
        BY <1>1, <1>2, <2>1, EmptySeq
    <2>3. t[Len(t)] = n
        BY <1>1, <2>1, <2>2
    <2> QED BY <1>3, <1>5, <2>1, <2>3 DEF UpTo, t
<1> QED BY <1>4, <1>5

\* An event added to a queue is added to the feed; one that is taken stays in it.
LEMMA QueuedIsFed ==
    ASSUME NEW S, NEW s \in Seq(S), NEW q \in Seq(S), NEW e \in S
    PROVE  s \o Append(q, e) = Append(s \o q, e)
<1>1. /\ s \o Append(q, e) \in Seq(S) /\ Append(s \o q, e) \in Seq(S)
      /\ Len(s \o Append(q, e)) = Len(Append(s \o q, e))
      /\ Len(Append(s \o q, e)) = Len(s) + Len(q) + 1
    BY ConcatProperties, AppendProperties, LenProperties
<1>2. ASSUME NEW i \in 1..(Len(s) + Len(q) + 1) PROVE (s \o Append(q, e))[i] = Append(s \o q, e)[i]
    <2>1. /\ s \o q \in Seq(S) /\ Len(s \o q) = Len(s) + Len(q)
          /\ Append(q, e) \in Seq(S) /\ Len(Append(q, e)) = Len(q) + 1
          /\ Len(s) \in Nat /\ Len(q) \in Nat
        BY ConcatProperties, AppendProperties, LenProperties
    <2>2. (s \o Append(q, e))[i] = IF i <= Len(s) THEN s[i] ELSE Append(q, e)[i - Len(s)]
        <3> DEFINE r == Append(q, e)
        <3>1. r \in Seq(S) /\ i \in 1..(Len(s) + Len(r))
            BY <2>1
        <3> HIDE DEF r
        <3>2. (s \o r)[i] = IF i <= Len(s) THEN s[i] ELSE r[i - Len(s)]
            BY <3>1, ConcatProperties
        <3> QED BY <3>2 DEF r
    <2>3. CASE i = Len(s) + Len(q) + 1
        <3>1. Append(s \o q, e)[i] = e /\ Append(q, e)[Len(q) + 1] = e
            BY <2>1, <2>3, AppendProperties
        <3> QED BY <2>1, <2>2, <2>3, <3>1
    <2>4. CASE i # Len(s) + Len(q) + 1
        <3>1. i \in 1..(Len(s) + Len(q))
            BY <2>1, <2>4
        <3>2. Append(s \o q, e)[i] = (s \o q)[i]
            BY <2>1, <3>1, AppendProperties
        <3>3. (s \o q)[i] = IF i <= Len(s) THEN s[i] ELSE q[i - Len(s)]
            BY <3>1, ConcatProperties
        <3>4. ~(i <= Len(s)) => i - Len(s) \in 1..Len(q)
            BY <2>1, <3>1
        <3>5. ~(i <= Len(s)) => Append(q, e)[i - Len(s)] = q[i - Len(s)]
            BY <3>4, AppendProperties
        <3> QED BY <2>2, <3>2, <3>3, <3>5
    <2> QED BY <2>3, <2>4
<1> QED BY <1>1, <1>2, SeqEqual

LEMMA MovedBoundary ==
    ASSUME NEW S, NEW s \in Seq(S), NEW q \in Seq(S), NEW a \in Seq(S), NEW t \in Seq(S),
           Len(q) # 0, Len(a) = Len(s) + 1, Len(t) = Len(q) - 1, a[Len(s) + 1] = q[1],
           \A i \in 1..Len(s) : a[i] = s[i], \A i \in 1..Len(t) : t[i] = q[i + 1]
    PROVE  a \o t = s \o q
<1>1. Len(q) \in Nat /\ Len(s) \in Nat
    BY LenProperties
<1>2. /\ a \o t \in Seq(S) /\ s \o q \in Seq(S)
      /\ Len(a \o t) = Len(s) + Len(q) /\ Len(s \o q) = Len(s) + Len(q)
    <2>1. /\ a \o t \in Seq(S) /\ Len(a \o t) = Len(a) + Len(t)
          /\ s \o q \in Seq(S) /\ Len(s \o q) = Len(s) + Len(q)
        BY ConcatProperties
    <2>2. Len(a) + Len(t) = Len(s) + Len(q)
        BY <1>1
    <2> QED BY <2>1, <2>2
<1>3. ASSUME NEW i \in 1..(Len(s) + Len(q)) PROVE (a \o t)[i] = (s \o q)[i]
    <2>1. (a \o t)[i] = IF i <= Len(s) + 1 THEN a[i] ELSE t[i - (Len(s) + 1)]
        BY <1>1, ConcatProperties
    <2>2. (s \o q)[i] = IF i <= Len(s) THEN s[i] ELSE q[i - Len(s)]
        BY ConcatProperties
    <2>3. CASE i <= Len(s)
        BY <1>1, <2>1, <2>2, <2>3
    <2>4. CASE i = Len(s) + 1
        BY <1>1, <2>1, <2>2, <2>4
    <2>5. CASE i > Len(s) + 1
        <3>1. /\ i - (Len(s) + 1) \in 1..Len(t) /\ (i - (Len(s) + 1)) + 1 = i - Len(s)
              /\ ~(i <= Len(s)) /\ ~(i <= Len(s) + 1)
            BY <1>1, <2>5
        <3>2. t[i - (Len(s) + 1)] = q[(i - (Len(s) + 1)) + 1]
            BY <3>1
        <3> QED BY <2>1, <2>2, <3>1, <3>2
    <2> QED BY <1>1, <2>3, <2>4, <2>5
<1> QED BY <1>2, <1>3, SeqEqual

LEMMA TakenIsFed ==
    ASSUME NEW S, NEW s \in Seq(S), NEW q \in Seq(S), q # <<>>
    PROVE  Append(s, Head(q)) \o Tail(q) = s \o q
<1>1. /\ Head(q) \in S /\ Tail(q) \in Seq(S) /\ Len(Tail(q)) = Len(q) - 1 /\ Head(q) = q[1]
      /\ \A i \in 1..Len(Tail(q)) : Tail(q)[i] = q[i + 1]
    BY HeadTailProperties
<1> DEFINE a == Append(s, Head(q))
<1>2. /\ a \in Seq(S) /\ Len(a) = Len(s) + 1 /\ a[Len(s) + 1] = q[1]
      /\ \A i \in 1..Len(s) : a[i] = s[i]
    BY <1>1, AppendProperties
<1>3. Len(q) # 0
    BY EmptySeq
<1> DEFINE t == Tail(q)
<1> HIDE DEF a, t
<1>4. a \o t = s \o q
    <2>1. t \in Seq(S) /\ Len(t) = Len(q) - 1 /\ \A i \in 1..Len(t) : t[i] = q[i + 1]
        BY <1>1 DEF t
    <2> QED BY <1>2, <1>3, <2>1, MovedBoundary
<1> QED BY <1>4 DEF a, t
-----------------------------------------------------------------------------
(* The stream: what each reader was given.                                 *)

\* The log grows at its end.
LEMMA LogGrows ==
    ASSUME log \in Seq(EventType), NEW type \in EventType, Publish(type)
    PROVE  /\ Len(log) \in Nat /\ Len(log') = Len(log) + 1
           /\ log' \in Seq(EventType) /\ log'[Len(log) + 1] = type
           /\ \A i \in 1..Len(log) : log'[i] = log[i]
BY AppendProperties, LenProperties DEF Publish

LEMMA PositionsAreNaturals ==
    ASSUME NEW n \in Nat, NEW q \in Seq(1..n)
    PROVE  q \in Seq(Nat) /\ q \in Seq(1..(n + 1))
<1>1. 1..n \subseteq Nat /\ 1..n \subseteq 1..(n + 1)
    OBVIOUS
<1> QED BY <1>1, SeqMonotonic

\* Publishing gives the event to the history and to every subscriber.
LEMMA PublishKeepsStream ==
    ASSUME StreamInv, NEW type \in EventType, Publish(type), UNCHANGED readerVars
    PROVE  StreamInv'
<1> DEFINE n == Len(log)
<1>1. /\ n \in Nat /\ Len(log') = n + 1 /\ log' \in Seq(EventType)
      /\ PublishedPositions' = 1..(n + 1) /\ n + 1 \in PublishedPositions' /\ n + 1 # 0
    BY LogGrows DEF StreamInv, StreamTyped, PublishedPositions
<1>2. /\ subscribers' = subscribers /\ reader' = reader /\ want' = want /\ sent' = sent
      /\ history' = LastOf(Append(history, n + 1), HistoryLimit)
      /\ queue' = [s \in Readers |-> IF s \in subscribers THEN Append(queue[s], n + 1)
                                     ELSE queue[s]]
    BY DEF Publish, readerVars
<1>3. history \in Seq(1..n) /\ \A s \in Readers : queue[s] \in Seq(1..n) /\ sent[s] \in Seq(1..n)
    BY DEF StreamInv, StreamTyped, PublishedPositions
<1>4. /\ history \in Seq(Nat) /\ history \in Seq(1..(n + 1))
      /\ \A s \in Readers : /\ queue[s] \in Seq(Nat) /\ queue[s] \in Seq(1..(n + 1))
                            /\ sent[s] \in Seq(Nat) /\ sent[s] \in Seq(1..(n + 1))
    BY <1>1, <1>3, PositionsAreNaturals
<1> HIDE DEF n
<1>5. StreamTyped'
    <2>1. Append(history, n + 1) \in Seq(1..(n + 1)) /\ HistoryLimit \in Nat
        BY <1>1, <1>4, AppendProperties, StreamAssumption
    <2>2. history' \in Seq(1..(n + 1))
        BY <1>2, <2>1, LastOfIsTail
    <2>3. queue' \in [Readers -> Seq(1..(n + 1))]
        BY <1>1, <1>2, <1>4, AppendProperties
    <2>4. sent' \in [Readers -> Seq(1..(n + 1))]
        BY <1>2, <1>4 DEF StreamInv, StreamTyped
    <2> QED BY <1>1, <1>2, <2>2, <2>3, <2>4 DEF StreamInv, StreamTyped
<1>6. UpTo(history', n + 1)
    <2>1. UpTo(history, n)
        BY DEF StreamInv, n
    <2>2. Append(history, n + 1) \in Seq(Nat) /\ UpTo(Append(history, n + 1), n + 1)
        BY <1>1, <1>4, <2>1, NextExtends
    <2> DEFINE q == Append(history, n + 1)
    <2> HIDE DEF q
    <2>3. \A m \in Nat : \A r \in Seq(Nat) : \A k \in Nat : UpTo(r, m) => UpTo(LastOf(r, k), m)
        BY TailOfRun
    <2>4. n + 1 \in Nat /\ HistoryLimit \in Nat
        BY <1>1, StreamAssumption
    <2>5. UpTo(LastOf(q, HistoryLimit), n + 1)
        BY <2>2, <2>3, <2>4, Zenon DEF q
    <2> QED BY <1>2, <2>5 DEF q
<1>7. ASSUME NEW s \in Readers PROVE FeedInv(s)'
    <2>1. FeedInv(s)
        BY DEF StreamInv
    <2>2. CASE s \in subscribers
        <3>1. queue'[s] = Append(queue[s], n + 1) /\ sent'[s] = sent[s]
            BY <1>2, <2>2
        <3>2. Feed(s)' = Append(Feed(s), n + 1)
            <4>1. Feed(s)' = sent[s] \o Append(queue[s], n + 1)
                BY <3>1 DEF Feed
            <4>2. sent[s] \o Append(queue[s], n + 1) = Append(sent[s] \o queue[s], n + 1)
                <5>1. sent[s] \in Seq(Nat) /\ queue[s] \in Seq(Nat) /\ n + 1 \in Nat
                    BY <1>1, <1>4
                <5>2. \A a, b \in Seq(Nat) : \A e \in Nat : a \o Append(b, e) = Append(a \o b, e)
                    BY QueuedIsFed
                <5> QED BY <5>1, <5>2, Zenon
            <4> QED BY <4>1, <4>2 DEF Feed
        <3>3. UpTo(Feed(s), n) /\ Feed(s) \in Seq(Nat)
            BY <1>4, <2>1, <2>2, ConcatProperties DEF FeedInv, n, Feed
        <3>4. UpTo(Feed(s)', n + 1)
            BY <1>1, <3>2, <3>3, NextExtends
        <3> QED BY <1>1, <1>2, <2>1, <2>2, <3>4 DEF FeedInv, UpTo
    <2>3. CASE s \notin subscribers
        <3>1. queue'[s] = queue[s] /\ sent'[s] = sent[s] /\ Feed(s)' = Feed(s)
            BY <1>2, <2>3 DEF Feed
        <3> QED BY <1>2, <2>1, <2>3, <3>1 DEF FeedInv
    <2> QED BY <2>2, <2>3
<1> QED BY <1>1, <1>5, <1>6, <1>7 DEF StreamInv

\* A reader's handler moves on, and leaves the stream, the queues and the others alone.
LEMMA ReaderMovesOn ==
    ASSUME StreamInv, NEW s \in Readers, NEW place \in ReadPlace, ReaderGoto(s, place),
           UNCHANGED <<log, history, want, queue, sent>>,
           \/ /\ UNCHANGED subscribers
              /\ \/ reader[s] = "new" /\ place \in {"refused", "accepting"}
                 \/ reader[s] = "sending" /\ place = "reading"
           \/ Unsubscribe(s) /\ place \in {"finished", "left"}
    PROVE  StreamInv'
<1>1. StreamTyped' /\ UpTo(history', Len(log'))
    BY DEF StreamInv, StreamTyped, PublishedPositions, ReaderGoto, Unsubscribe
<1>2. ASSUME NEW r \in Readers PROVE FeedInv(r)'
    <2>1. FeedInv(r) /\ reader' = [reader EXCEPT ![s] = place] /\ reader \in [Readers -> ReadPlace]
        BY DEF StreamInv, StreamTyped, ReaderGoto
    <2>2. Feed(r)' = Feed(r)
        BY DEF Feed
    <2> QED BY <2>1, <2>2 DEF FeedInv, Unsubscribe
<1> QED BY <1>1, <1>2 DEF StreamInv

\* A new subscriber's queue is the tail of the history: it runs up to the last event.
LEMMA SubscribingKeepsStream ==
    ASSUME StreamInv, NEW s \in Readers, ReaderSubscribes(s)
    PROVE  StreamInv'
<1> USE DEF ReadPlace
<1>1. /\ reader[s] = "accepting" /\ reader' = [reader EXCEPT ![s] = "reading"]
      /\ subscribers' = subscribers \cup {s}
      /\ queue' = [queue EXCEPT ![s] = LastOf(history, want[s])]
      /\ UNCHANGED <<log, history, want, sent>>
    BY DEF ReaderSubscribes, Subscribe, ReaderGoto
<1>2. StreamTyped /\ want[s] \in Nat /\ history \in Seq(PublishedPositions) /\ Len(log) \in Nat
    BY LenProperties DEF StreamInv, StreamTyped
<1>3. LastOf(history, want[s]) \in Seq(PublishedPositions)
    BY <1>2, LastOfIsTail
<1>4. StreamTyped'
    BY <1>1, <1>2, <1>3 DEF StreamTyped, PublishedPositions
<1>5. UpTo(LastOf(history, want[s]), Len(log)) /\ LastOf(history, want[s]) \in Seq(Nat)
    BY <1>2, <1>3, PositionsAreNaturals, TailOfRun DEF StreamInv, PublishedPositions
<1>6. ASSUME NEW r \in Readers PROVE FeedInv(r)'
    <2>1. FeedInv(r)
        BY DEF StreamInv
    <2>2. CASE r = s
        <3>1. sent[s] = <<>> /\ queue'[s] = LastOf(history, want[s]) /\ reader'[s] = "reading"
            BY <1>1, <1>2, <2>1, <2>2 DEF FeedInv, StreamTyped
        <3>2. Feed(s)' = LastOf(history, want[s])
            BY <1>1, <1>5, <3>1, ConcatEmptySeq DEF Feed
        <3> QED BY <1>1, <1>5, <2>2, <3>1, <3>2 DEF FeedInv, UpTo
    <2>3. CASE r # s
        <3>1. queue'[r] = queue[r] /\ sent'[r] = sent[r] /\ reader'[r] = reader[r] /\ Feed(r)' = Feed(r)
            BY <1>1, <1>2, <2>3 DEF StreamTyped, Feed
        <3> QED BY <1>1, <2>1, <2>3, <3>1 DEF FeedInv
    <2> QED BY <2>2, <2>3
<1> QED BY <1>1, <1>4, <1>6 DEF StreamInv

\* An event that is taken from the queue is the next one sent.
LEMMA TakingKeepsStream ==
    ASSUME StreamInv, NEW s \in Readers, ReaderTakes(s)
    PROVE  StreamInv'
<1> USE DEF ReadPlace
<1>1. /\ reader[s] = "reading" /\ reader' = [reader EXCEPT ![s] = "sending"] /\ queue[s] # <<>>
      /\ queue' = [queue EXCEPT ![s] = Tail(queue[s])]
      /\ sent' = [sent EXCEPT ![s] = Append(sent[s], Head(queue[s]))]
      /\ UNCHANGED <<log, history, want, subscribers>>
    BY DEF ReaderTakes, ReaderGoto, streamVars
<1>2. StreamTyped /\ queue[s] \in Seq(PublishedPositions) /\ sent[s] \in Seq(PublishedPositions)
    BY DEF StreamInv, StreamTyped
<1>3. /\ Tail(queue[s]) \in Seq(PublishedPositions)
      /\ Append(sent[s], Head(queue[s])) \in Seq(PublishedPositions)
    BY <1>1, <1>2, HeadTailProperties, AppendProperties
<1>4. StreamTyped'
    BY <1>1, <1>2, <1>3 DEF StreamTyped, PublishedPositions
<1>5. ASSUME NEW r \in Readers PROVE FeedInv(r)'
    <2>1. FeedInv(r)
        BY DEF StreamInv
    <2>2. CASE r = s
        <3>1. queue'[s] = Tail(queue[s]) /\ sent'[s] = Append(sent[s], Head(queue[s]))
                /\ reader'[s] = "sending"
            BY <1>1, <1>2 DEF StreamTyped
        <3>2. Feed(s)' = Feed(s)
            BY <1>1, <1>2, <3>1, TakenIsFed DEF Feed
        <3> QED BY <1>1, <2>1, <2>2, <3>1, <3>2 DEF FeedInv
    <2>3. CASE r # s
        <3>1. queue'[r] = queue[r] /\ sent'[r] = sent[r] /\ reader'[r] = reader[r] /\ Feed(r)' = Feed(r)
            BY <1>1, <1>2, <2>3 DEF StreamTyped, Feed
        <3> QED BY <1>1, <2>1, <2>3, <3>1 DEF FeedInv
    <2> QED BY <2>2, <2>3
<1> QED BY <1>1, <1>4, <1>5 DEF StreamInv

LEMMA StreamUntouched ==
    ASSUME StreamInv, UNCHANGED <<log, history, subscribers, reader, want, queue, sent>>
    PROVE  StreamInv'
BY DEF StreamInv, StreamTyped, FeedInv, Feed, PublishedPositions

\* StreamInv is inductive.
LEMMA StreamInvStep == StreamInv /\ [Next]_vars => StreamInv'
<1> SUFFICES ASSUME StreamInv, [Next]_vars PROVE StreamInv'
    OBVIOUS
<1> USE DEF EventType, Terminal
<1>1. CASE TaskStarts \/ PumpLine \/ CancelPublishes \/ TaskFails
    BY <1>1, PublishKeepsStream DEF TaskStarts, PumpLine, CancelPublishes, TaskFails
<1>2. CASE TaskEnds("finished") \/ TaskEnds("error") \/ TaskEnds("cancelled")
    BY <1>2, PublishKeepsStream, StreamUntouched DEF TaskEnds, streamVars, readerVars
<1>3. CASE TaskDies \/ TaskCloses \/ AtRest \/ UNCHANGED vars
    BY <1>3, StreamUntouched DEF TaskDies, TaskCloses, AtRest, vars, streamVars, readerVars
<1>4. ASSUME NEW s \in Readers, ReaderRefused(s) \/ ReaderAdmitted(s) \/ ReaderStep(s) \/ ReaderDisconnects(s)
      PROVE  StreamInv'
    <2>1. CASE ReaderRefused(s) \/ ReaderAdmitted(s) \/ ReaderContinues(s)
        <3>1. CASE ReaderRefused(s)
            <4>1. /\ reader[s] = "new" /\ ReaderGoto(s, "refused") /\ "refused" \in ReadPlace
                  /\ UNCHANGED <<log, history, want, queue, sent>> /\ UNCHANGED subscribers
                BY <3>1 DEF ReaderRefused, streamVars, ReadPlace
            <4> QED BY <4>1, ReaderMovesOn
        <3>2. CASE ReaderAdmitted(s)
            <4>1. /\ reader[s] = "new" /\ ReaderGoto(s, "accepting") /\ "accepting" \in ReadPlace
                  /\ UNCHANGED <<log, history, want, queue, sent>> /\ UNCHANGED subscribers
                BY <3>2 DEF ReaderAdmitted, streamVars, ReadPlace
            <4> QED BY <4>1, ReaderMovesOn
        <3>3. CASE ReaderContinues(s)
            BY <3>3, ReaderMovesOn DEF ReaderContinues, streamVars, ReadPlace
        <3> QED BY <2>1, <3>1, <3>2, <3>3
    <2>2. CASE ReaderFinishes(s) \/ ReaderDisconnects(s)
        BY <2>2, ReaderMovesOn DEF ReaderFinishes, ReaderDisconnects, ReadPlace
    <2> QED BY <1>4, <2>1, <2>2, SubscribingKeepsStream, TakingKeepsStream DEF ReaderStep
<1> QED BY <1>1, <1>2, <1>3, <1>4 DEF Next, TaskStep
-----------------------------------------------------------------------------
(* The end of the stream.                                                  *)

\* What a reader was sent last exists, and publishing does not change it.
LEMMA LastSentIsPublished ==
    ASSUME StreamTyped, NEW s \in Readers, sent[s] # <<>>
    PROVE  sent[s][Len(sent[s])] \in 1..Len(log)
<1>1. sent[s] \in Seq(1..Len(log)) /\ Len(sent[s]) \in 1..Len(sent[s])
    BY EmptySeq, LenProperties DEF StreamTyped, PublishedPositions
<1> QED BY <1>1, ElementOfSeq

\* A step that publishes: the new event is terminal only if it is the task's last one,
\* or a cancel's.
LEMMA PublishKeepsEnd ==
    ASSUME StreamTyped, EndInv, NEW type \in EventType, Publish(type), UNCHANGED readerVars,
           cancels' \in Nat, cancels' = 0 => cancels = 0 /\ task \in {"ready", "running"},
           cancels' = 0 => type \notin Terminal \/ task' = "ended"
    PROVE  EndInv'
<1>1. /\ Len(log) \in Nat /\ PublishedPositions' = 1..(Len(log) + 1) /\ Len(log') = Len(log) + 1
      /\ log'[Len(log) + 1] = type /\ \A i \in 1..Len(log) : log'[i] = log[i]
    BY LogGrows DEF StreamTyped, PublishedPositions
<1>2. ASSUME cancels' = 0, NEW i \in 1..(Len(log) + 1), log'[i] \in Terminal
      PROVE  i = Len(log) + 1 /\ task' \in {"ended", "over"}
    <2>1. CASE i = Len(log) + 1
        BY <1>1, <1>2, <2>1
    <2>2. CASE i # Len(log) + 1
        <3>1. i \in 1..Len(log) /\ log[i] \in Terminal
            BY <1>1, <1>2, <2>2
        <3> QED BY <1>2, <3>1 DEF EndInv, PublishedPositions
    <2> QED BY <2>1, <2>2
<1>3. ASSUME NEW s \in Readers
      PROVE  /\ reader'[s] = "sending" => sent'[s] # <<>>
             /\ reader'[s] = "finished" => sent'[s] # <<>> /\ LastSent(s)' \in Terminal
    <2>1. reader' = reader /\ sent' = sent
        BY DEF readerVars
    <2>2. sent[s] # <<>> => LastSent(s)' = LastSent(s)
        BY <1>1, <2>1, LastSentIsPublished DEF LastSent
    <2> QED BY <2>1, <2>2 DEF EndInv
<1> QED BY <1>1, <1>2, <1>3 DEF EndInv

\* A step that publishes nothing; a task that comes to its end stays there.
LEMMA QuietStepKeepsEnd ==
    ASSUME EndInv, UNCHANGED <<log, cancels>>,
           task \in {"ended", "over"} => task' \in {"ended", "over"},
           \A s \in Readers :
              /\ reader'[s] = "sending" => sent'[s] # <<>>
              /\ reader'[s] = "finished" => sent'[s] # <<>> /\ LastSent(s)' \in Terminal
    PROVE  EndInv'
BY DEF EndInv, PublishedPositions

\* EndInv is inductive.
LEMMA EndInvStep == StreamInv /\ EndInv /\ [Next]_vars => EndInv'
<1> SUFFICES ASSUME StreamTyped, EndInv, [Next]_vars PROVE EndInv'
    BY DEF StreamInv
<1> USE DEF EventType, Terminal
<1>1. CASE TaskStarts \/ PumpLine \/ TaskFails
    BY <1>1, PublishKeepsEnd DEF TaskStarts, PumpLine, TaskFails, EndInv
<1>2. CASE CancelPublishes
    BY <1>2, PublishKeepsEnd DEF CancelPublishes, EndInv
<1>3. ASSUME NEW type \in Terminal, TaskEnds(type) PROVE EndInv'
    <2>1. CASE closed
        <3>1. UNCHANGED <<log, cancels, reader, sent>> /\ task' = "ended"
            BY <1>3, <2>1 DEF TaskEnds, streamVars, readerVars
        <3> QED BY <3>1, QuietStepKeepsEnd DEF EndInv, LastSent
    <2>2. CASE ~closed
        BY <1>3, <2>2, PublishKeepsEnd DEF TaskEnds, EndInv
    <2> QED BY <2>1, <2>2
<1>4. CASE TaskDies \/ TaskCloses \/ AtRest \/ UNCHANGED vars
    <2>1. /\ UNCHANGED <<log, cancels, reader, sent>>
          /\ task \in {"ended", "over"} => task' \in {"ended", "over"}
        BY <1>4 DEF TaskDies, TaskCloses, AtRest, vars, streamVars, readerVars
    <2> QED BY <2>1, QuietStepKeepsEnd DEF EndInv, LastSent
<1>5. ASSUME NEW s \in Readers, ReaderRefused(s) \/ ReaderAdmitted(s) \/ ReaderStep(s) \/ ReaderDisconnects(s)
      PROVE  EndInv'
    <2>1. UNCHANGED <<log, cancels, task>> /\ reader \in [Readers -> ReadPlace]
            /\ sent \in [Readers -> Seq(PublishedPositions)]
            /\ queue \in [Readers -> Seq(PublishedPositions)]
        BY <1>5 DEF ReaderRefused, ReaderAdmitted, ReaderStep, ReaderSubscribes, ReaderTakes,
                    ReaderContinues, ReaderFinishes, ReaderDisconnects, streamVars, StreamTyped
    <2>2. CASE ReaderTakes(s)
        <3>1. /\ reader' = [reader EXCEPT ![s] = "sending"]
              /\ sent' = [sent EXCEPT ![s] = Append(sent[s], Head(queue[s]))] /\ queue[s] # <<>>
            BY <2>2 DEF ReaderTakes, ReaderGoto
        <3>2. Append(sent[s], Head(queue[s])) # <<>>
            BY <2>1, <3>1, HeadTailProperties, AppendProperties
        <3>3. \A r \in Readers : r # s => sent'[r] = sent[r] /\ reader'[r] = reader[r]
            BY <2>1, <3>1
        <3>4. sent'[s] # <<>> /\ reader'[s] = "sending"
            BY <2>1, <3>1, <3>2
        <3>5. \A r \in Readers :
                /\ reader'[r] = "sending" => sent'[r] # <<>>
                /\ reader'[r] = "finished" => sent'[r] # <<>> /\ LastSent(r)' \in Terminal
            BY <2>1, <3>3, <3>4 DEF EndInv, LastSent
        <3> QED BY <2>1, <3>5, QuietStepKeepsEnd
    <2>3. CASE ~ReaderTakes(s)
        <3>1. sent' = sent /\ \E place \in ReadPlace \ {"sending"} :
                reader' = [reader EXCEPT ![s] = place]
                /\ (place = "finished" => reader[s] = "sending" /\ LastSent(s) \in Terminal)
            BY <1>5, <2>3 DEF ReaderRefused, ReaderAdmitted, ReaderStep, ReaderSubscribes, ReaderGoto,
                    ReaderContinues, ReaderFinishes, IsEnd, ReaderDisconnects, streamVars, ReadPlace
        <3>2. \A r \in Readers :
                /\ reader'[r] = "sending" => sent'[r] # <<>>
                /\ reader'[r] = "finished" => sent'[r] # <<>> /\ LastSent(r)' \in Terminal
            BY <2>1, <3>1 DEF EndInv, LastSent
        <3> QED BY <2>1, <3>2, QuietStepKeepsEnd
    <2> QED BY <2>2, <2>3
<1> QED BY <1>1, <1>2, <1>3, <1>4, <1>5 DEF Next, TaskStep

LEMMA StreamInvInit == Init => StreamInv /\ EndInv
<1> SUFFICES ASSUME Init PROVE StreamInv /\ EndInv
    OBVIOUS
<1>1. Len(log) = 0 /\ log \in Seq(EventType) /\ PublishedPositions = {}
    BY EmptySeq DEF Init, PublishedPositions
<1>2. StreamTyped
    BY <1>1, EmptySeq, StreamAssumption DEF Init, StreamTyped, ReadPlace
<1>3. \A s \in Readers : Feed(s) = <<>>
    BY ConcatEmptySeq, EmptySeq DEF Init, Feed
<1>4. UpTo(<<>>, 0)
    BY EmptySeq DEF UpTo, Consecutive
<1>5. \A s \in Readers : FeedInv(s)
    BY <1>1, <1>3, <1>4 DEF FeedInv, Init, UpTo
<1> QED BY <1>1, <1>2, <1>4, <1>5 DEF Init, StreamInv, EndInv

\* What the invariants say in the terms of CommandStream.
LEMMA StreamInvImplies == StreamInv => NoGapNoRepeat
<1> SUFFICES ASSUME StreamInv, NEW s \in Readers
             PROVE  /\ \A i \in 1..(Len(Feed(s)) - 1) : Feed(s)[i + 1] = Feed(s)[i] + 1
                    /\ s \in subscribers /\ log # <<>> =>
                          Feed(s) # <<>> /\ Feed(s)[Len(Feed(s))] = Len(log)
    BY DEF NoGapNoRepeat
<1>1. log # <<>> => Len(log) # 0
    BY EmptySeq DEF StreamInv, StreamTyped
<1> QED BY <1>1 DEF StreamInv, FeedInv, UpTo, Consecutive

LEMMA EndInvImplies == StreamInv /\ EndInv => FinishedReaderHasAll
<1> SUFFICES ASSUME StreamTyped, EndInv, NEW s \in Readers, reader[s] = "finished", cancels = 0
             PROVE  sent[s][Len(sent[s])] = Len(log)
    BY DEF StreamInv, FinishedReaderHasAll
<1>1. sent[s] # <<>> /\ LastSent(s) \in Terminal
    BY DEF EndInv
<1>2. sent[s][Len(sent[s])] \in PublishedPositions
    BY <1>1, LastSentIsPublished DEF PublishedPositions
<1> QED BY <1>1, <1>2 DEF EndInv, LastSent

\* The pctl process beside the stream: every step of it is one of the stream or leaves
\* the stream alone.
THEOREM PctlUsesStream == PctlSpec => Spec
<1>1. PctlInit => Init
    BY DEF PctlInit
<1>2. [PctlNext]_pctlVars => [Next]_vars
    <2> SUFFICES ASSUME PctlNext PROVE Next \/ UNCHANGED vars
        BY DEF pctlVars
    <2>1. CASE ServerStep
        <3>1. ASSUME TaskGoesOn PROVE Next
            BY <3>1 DEF TaskGoesOn, TaskEndsWith, Outcome, Next, TaskStep
        <3>2. ASSUME NEW s \in Readers, WebSocket(s) PROVE Next
            BY <3>2 DEF WebSocket, Next
        <3> QED BY <2>1, <3>1, <3>2 DEF ServerStep, TaskFailure, Cancel, Next
    <2>2. CASE ~ServerStep
        BY <2>2 DEF PctlNext, LinkBreaks, ClientReads, PostAnswered, HandshakeRefused, ReceivesLine,
            ReceivesEnd, LinkEnds, CancelSent, PostFails, PostInterrupted, Interrupted, PctlAtRest,
            pctlVars
    <2> QED BY <2>1, <2>2
<1> QED BY <1>1, <1>2, PTL DEF PctlSpec, Spec

\* Every reader of a stream gets its events once and in order, without a gap between
\* the history it joins with and the live events.
THEOREM ReadersGetARun == Spec => []NoGapNoRepeat
<1>1. Init => StreamInv
    BY StreamInvInit
<1> QED BY <1>1, StreamInvStep, StreamInvImplies, PTL DEF Spec

\* A reader that is let go at the end of a command nobody cancelled was sent the last
\* event of the stream: the pumps have ended before the task publishes the terminal one.
THEOREM FinishedReadersHaveAll == Spec => []FinishedReaderHasAll
<1>1. Init => StreamInv /\ EndInv
    BY StreamInvInit
<1> QED BY <1>1, StreamInvStep, EndInvStep, EndInvImplies, PTL DEF Spec
-----------------------------------------------------------------------------
(* pctl's exit status.                                                     *)

\* A publishing step keeps ResultInv if the event it adds tells the result.
LEMMA PublishKeepsResult ==
    ASSUME StreamTyped, ResultInv, NEW type \in EventType, Publish(type),
           task' \in {"ready", "running", "died"} => result' = "none",
           type = "finished" => result' \in ExitCode,
           type = "error" => result' \in {"timeout", "failed"},
           result' = result \/ \A i \in 1..Len(log) : log[i] \notin {"finished", "error"}
    PROVE  ResultInv'
<1>1. /\ Len(log) \in Nat /\ PublishedPositions' = 1..(Len(log) + 1)
      /\ log'[Len(log) + 1] = type /\ \A i \in 1..Len(log) : log'[i] = log[i]
    BY LogGrows DEF StreamTyped, PublishedPositions
<1>2. ASSUME NEW i \in 1..(Len(log) + 1)
      PROVE  /\ log'[i] = "finished" => result' \in ExitCode
             /\ log'[i] = "error" => result' \in {"timeout", "failed"}
    <2>1. CASE i = Len(log) + 1
        BY <1>1, <2>1
    <2>2. CASE i # Len(log) + 1
        <3>1. i \in 1..Len(log)
            BY <1>1, <2>2
        <3> QED BY <1>1, <3>1 DEF ResultInv, PublishedPositions
    <2> QED BY <2>1, <2>2
<1> QED BY <1>1, <1>2 DEF ResultInv

\* Before the task's end no event tells a result.
LEMMA NoResultYet ==
    ASSUME ResultInv, task \in {"ready", "running", "died"}
    PROVE  result = "none" /\ \A i \in 1..Len(log) : log[i] \notin {"finished", "error"}
BY DEF ResultInv, PublishedPositions, ExitCode

LEMMA QuietStepKeepsResult ==
    ASSUME ResultInv, UNCHANGED log, task' \in {"ready", "running", "died"} => result' = "none",
           result' = result \/ \A i \in 1..Len(log) : log[i] \notin {"finished", "error"}
    PROVE  ResultInv'
BY DEF ResultInv, PublishedPositions

\* ResultInv is inductive.
LEMMA ResultInvStep == StreamTyped /\ ResultInv /\ [PctlNext]_pctlVars => ResultInv'
<1> SUFFICES ASSUME StreamTyped, ResultInv, [PctlNext]_pctlVars PROVE ResultInv'
    OBVIOUS
<1> USE DEF EventType, Terminal
<1>1. ASSUME TaskGoesOn PROVE ResultInv'
    <2>1. CASE TaskStarts /\ UNCHANGED result
        <3>1. Publish("started") /\ task = "ready"
            BY <2>1 DEF TaskStarts
        <3> QED BY <2>1, <3>1, NoResultYet, PublishKeepsResult
    <2>2. CASE TaskCloses /\ UNCHANGED result
        BY <2>2, QuietStepKeepsResult DEF TaskCloses, streamVars
    <2>3. ASSUME NEW type \in DOMAIN Outcome, NEW r \in Outcome[type], TaskEndsWith(type, r)
          PROVE  ResultInv'
        <3>1. /\ task = "running" /\ task' = "ended" /\ result' = r
              /\ IF closed THEN UNCHANGED <<streamVars, queue>> ELSE Publish(type)
            BY <2>3 DEF TaskEndsWith, TaskEnds
        <3>2. type \in EventType /\ (type = "finished" => r \in ExitCode)
                /\ (type = "error" => r \in {"timeout", "failed"})
            BY <2>3 DEF Outcome
        <3>3. CASE closed
            BY <3>1, <3>3, NoResultYet, QuietStepKeepsResult DEF streamVars
        <3>4. CASE ~closed
            BY <3>1, <3>2, <3>4, NoResultYet, PublishKeepsResult
        <3> QED BY <3>3, <3>4
    <2> QED BY <1>1, <2>1, <2>2, <2>3 DEF TaskGoesOn
<1>2. ASSUME TaskFailure PROVE ResultInv'
    <2>1. task = "running" /\ task' = "ended" /\ Publish("error") /\ result' = "failed"
        BY <1>2 DEF TaskFailure, TaskFails
    <2> QED BY <2>1, NoResultYet, PublishKeepsResult
<1>3. ASSUME Cancel PROVE ResultInv'
    <2>1. Publish("cancelled") /\ task' = task /\ result' = result
        BY <1>3 DEF Cancel, CancelPublishes
    <2> QED BY <2>1, NoResultYet, PublishKeepsResult
<1>4. ASSUME PumpLine, UNCHANGED result PROVE ResultInv'
    <2>1. Publish("line") /\ task' = task
        BY <1>4 DEF PumpLine
    <2> QED BY <1>4, <2>1, NoResultYet, PublishKeepsResult
<1>5. ASSUME TaskDies, UNCHANGED result PROVE ResultInv'
    BY <1>5, NoResultYet, QuietStepKeepsResult DEF TaskDies, streamVars
<1>6. ASSUME NEW s \in Readers, WebSocket(s) PROVE ResultInv'
    <2>1. UNCHANGED <<log, task, result>>
        BY <1>6 DEF WebSocket, ReaderRefused, ReaderAdmitted, ReaderStep, ReaderSubscribes, ReaderTakes,
                    ReaderContinues, ReaderFinishes, ReaderDisconnects, streamVars
    <2> QED BY <2>1, QuietStepKeepsResult DEF ResultInv
<1>7. CASE ~ServerStep
    <2>1. UNCHANGED <<log, task, result>>
        BY <1>7 DEF PctlNext, LinkBreaks, ClientReads, PostAnswered, HandshakeRefused, ReceivesLine,
            ReceivesEnd, LinkEnds, CancelSent, PostFails, PostInterrupted, Interrupted, PctlAtRest,
            pctlVars, vars, streamVars
    <2> QED BY <2>1, QuietStepKeepsResult DEF ResultInv
<1> QED BY <1>1, <1>2, <1>3, <1>4, <1>5, <1>6, <1>7 DEF ServerStep

\* The server writes the log at its end, adds to what it has sent, lets nobody in that
\* it has refused, and tells another result only while there is none.
LEMMA ServerKeepsPast ==
    ASSUME StreamTyped, ResultInv, ServerStep
    PROVE  /\ \A i \in 1..Len(log) : i \in 1..Len(log') /\ log'[i] = log[i]
           /\ \A i \in 1..Len(sent[Pctl]) : i \in 1..Len(sent'[Pctl]) /\ sent'[Pctl][i] = sent[Pctl][i]
           /\ reader[Pctl] = "refused" => reader'[Pctl] = "refused"
           /\ result # "none" => result' = result
<1> USE DEF EventType, Terminal
<1>1. Len(log) \in Nat /\ sent[Pctl] \in Seq(PublishedPositions) /\ reader \in [Readers -> ReadPlace]
    BY LenProperties, PctlAssumption DEF StreamTyped
<1>2. ASSUME NEW type \in EventType, Publish(type), UNCHANGED readerVars,
             result # "none" => result' = result
      PROVE  /\ \A i \in 1..Len(log) : i \in 1..Len(log') /\ log'[i] = log[i]
             /\ sent' = sent /\ reader' = reader
    BY <1>1, <1>2, LogGrows DEF StreamTyped, readerVars
<1>3. ASSUME TaskGoesOn \/ TaskFailure \/ Cancel \/ ((TaskDies \/ PumpLine) /\ UNCHANGED result)
      PROVE  /\ UNCHANGED readerVars
             /\ result # "none" => result' = result
             /\ (UNCHANGED log \/ \E type \in EventType : Publish(type))
    BY <1>3, NoResultYet
    DEF TaskGoesOn, TaskStarts, TaskCloses, TaskEndsWith, TaskEnds, Outcome, TaskFailure, TaskFails,
        Cancel, CancelPublishes, TaskDies, PumpLine, streamVars, readerVars
<1>4. ASSUME NEW s \in Readers, WebSocket(s)
      PROVE  /\ UNCHANGED <<log, result>>
             /\ \A i \in 1..Len(sent[Pctl]) : i \in 1..Len(sent'[Pctl]) /\ sent'[Pctl][i] = sent[Pctl][i]
             /\ reader[Pctl] = "refused" => reader'[Pctl] = "refused"
    <2>1. CASE ReaderTakes(s)
        <3>1. /\ sent' = [sent EXCEPT ![s] = Append(sent[s], Head(queue[s]))] /\ UNCHANGED log
              /\ reader[s] = "reading" /\ reader' = [reader EXCEPT ![s] = "sending"]
              /\ queue[s] # <<>> /\ result' = result
            BY <1>4, <2>1 DEF ReaderTakes, ReaderGoto, streamVars, WebSocket
        <3>2. CASE s = Pctl
            <4>1. Head(queue[s]) \in PublishedPositions
                BY <3>1, HeadTailProperties DEF StreamTyped
            <4>2. sent'[Pctl] = Append(sent[Pctl], Head(queue[s]))
                BY <3>1, <3>2, PctlAssumption DEF StreamTyped
            <4>3. /\ Len(sent'[Pctl]) = Len(sent[Pctl]) + 1 /\ Len(sent[Pctl]) \in Nat
                  /\ \A i \in 1..Len(sent[Pctl]) : sent'[Pctl][i] = sent[Pctl][i]
                BY <1>1, <4>1, <4>2, AppendProperties, LenProperties
            <4> QED BY <3>1, <3>2, <4>3
        <3>3. CASE s # Pctl
            BY <1>1, <3>1, <3>3, PctlAssumption DEF StreamTyped
        <3> QED BY <3>2, <3>3
    <2>2. CASE ~ReaderTakes(s)
        <3>1. /\ UNCHANGED <<sent, log, result>> /\ reader[s] # "refused"
              /\ \E place \in ReadPlace : reader' = [reader EXCEPT ![s] = place]
            BY <1>4, <2>2 DEF WebSocket, ReaderRefused, ReaderAdmitted, ReaderStep, ReaderSubscribes,
                ReaderGoto, ReaderContinues, ReaderFinishes, ReaderDisconnects, streamVars, ReadPlace
        <3> QED BY <1>1, <3>1, PctlAssumption
    <2> QED BY <2>1, <2>2
<1>5. CASE \E s \in Readers : WebSocket(s)
    BY <1>4, <1>5
<1>6. CASE TaskGoesOn \/ TaskFailure \/ Cancel \/ ((TaskDies \/ PumpLine) /\ UNCHANGED result)
    <2>1. sent' = sent /\ reader' = reader /\ (result # "none" => result' = result)
        BY <1>3, <1>6 DEF readerVars
    <2>2. \A i \in 1..Len(log) : i \in 1..Len(log') /\ log'[i] = log[i]
        BY <1>2, <1>3, <1>6
    <2> QED BY <2>1, <2>2
<1> QED BY <1>5, <1>6 DEF ServerStep

\* Cancels are counted, and a result stays.
LEMMA PastStays ==
    ASSUME ResultInv, CancelInv, [PctlNext]_pctlVars
    PROVE  /\ cancels' \in {cancels, cancels + 1}
           /\ result # "none" => result' = result
<1>1. ASSUME NEW s \in Readers, WebSocket(s) PROVE UNCHANGED <<cancels, result>>
    BY <1>1 DEF WebSocket, ReaderRefused, ReaderAdmitted, ReaderStep, ReaderSubscribes, ReaderTakes,
                ReaderContinues, ReaderFinishes, ReaderDisconnects, streamVars
<1>2. CASE TaskGoesOn \/ TaskFailure \/ Cancel \/ ((TaskDies \/ PumpLine) /\ UNCHANGED result)
    BY <1>2, NoResultYet
    DEF TaskGoesOn, TaskStarts, TaskCloses, TaskEndsWith, TaskEnds, Outcome, TaskFailure, TaskFails,
        Cancel, CancelPublishes, TaskDies, PumpLine
<1>3. CASE ~ServerStep
    BY <1>3 DEF PctlNext, LinkBreaks, ClientReads, PostAnswered, HandshakeRefused, ReceivesLine,
        ReceivesEnd, LinkEnds, CancelSent, PostFails, PostInterrupted, Interrupted, PctlAtRest,
        pctlVars, vars
<1> QED BY <1>1, <1>2, <1>3 DEF ServerStep

\* CancelInv is inductive.
LEMMA CancelInvStep == StreamTyped /\ ResultInv /\ CancelInv /\ [PctlNext]_pctlVars => CancelInv'
<1> SUFFICES ASSUME StreamTyped, ResultInv, CancelInv, [PctlNext]_pctlVars PROVE CancelInv'
    OBVIOUS
<1>1. /\ cancels' \in Nat /\ (cancels > 0 => cancels' > 0)
      /\ result = "cancelled" => result' = "cancelled"
    BY PastStays DEF CancelInv
<1>2. CASE UNCHANGED log
    BY <1>1, <1>2 DEF CancelInv, PublishedPositions
<1>3. ASSUME NEW type \in EventType, Publish(type),
             type = "cancelled" => cancels' > 0 \/ result' = "cancelled"
      PROVE  CancelInv'
    <2>1. /\ Len(log) \in Nat /\ PublishedPositions' = 1..(Len(log) + 1)
          /\ log'[Len(log) + 1] = type /\ \A i \in 1..Len(log) : log'[i] = log[i]
        BY <1>3, LogGrows DEF StreamTyped, PublishedPositions
    <2>2. ASSUME NEW i \in 1..(Len(log) + 1), log'[i] = "cancelled"
          PROVE  cancels' > 0 \/ result' = "cancelled"
        <3>1. CASE i = Len(log) + 1
            BY <1>3, <2>1, <2>2, <3>1
        <3>2. CASE i # Len(log) + 1
            <4>1. i \in PublishedPositions /\ log[i] = "cancelled"
                BY <2>1, <2>2, <3>2 DEF PublishedPositions
            <4> QED BY <1>1, <4>1 DEF CancelInv
        <3> QED BY <3>1, <3>2
    <2> QED BY <1>1, <2>1, <2>2 DEF CancelInv
<1>4. CASE TaskGoesOn \/ TaskFailure \/ Cancel \/ PumpLine
    <2>1. \/ UNCHANGED log
          \/ \E type \in EventType : /\ Publish(type)
                                     /\ type = "cancelled" => cancels' > 0 \/ result' = "cancelled"
        BY <1>4
        DEF TaskGoesOn, TaskStarts, TaskCloses, TaskEndsWith, TaskEnds, Outcome, TaskFailure, TaskFails,
            Cancel, CancelPublishes, PumpLine, streamVars, EventType, Terminal, CancelInv
    <2> QED BY <1>2, <1>3, <2>1
<1>5. CASE TaskDies
    BY <1>2, <1>5 DEF TaskDies, streamVars
<1>6. ASSUME NEW s \in Readers, WebSocket(s) PROVE UNCHANGED log
    BY <1>6 DEF WebSocket, ReaderRefused, ReaderAdmitted, ReaderStep, ReaderSubscribes, ReaderTakes,
                ReaderContinues, ReaderFinishes, ReaderDisconnects, streamVars
<1>7. CASE ~ServerStep
    <2>1. UNCHANGED log
        BY <1>7 DEF PctlNext, LinkBreaks, ClientReads, PostAnswered, HandshakeRefused, ReceivesLine,
            ReceivesEnd, LinkEnds, CancelSent, PostFails, PostInterrupted, Interrupted, PctlAtRest,
            pctlVars, vars, streamVars
    <2> QED BY <1>2, <2>1
<1> QED BY <1>2, <1>4, <1>5, <1>6, <1>7 DEF ServerStep

\* The event that pctl receives is one of the log.
LEMMA NextEventIsPublished ==
    ASSUME StreamTyped, got \in Nat, HasNext
    PROVE  /\ got + 1 \in 1..Len(sent[Pctl]) /\ sent[Pctl][got + 1] \in 1..Len(log)
           /\ NextEvent \in EventType
<1>1. sent[Pctl] \in Seq(1..Len(log)) /\ Len(sent[Pctl]) \in Nat
    BY LenProperties, PctlAssumption DEF StreamTyped, PublishedPositions
<1>2. got + 1 \in 1..Len(sent[Pctl])
    BY <1>1 DEF HasNext
<1>3. sent[Pctl][got + 1] \in 1..Len(log)
    BY <1>1, <1>2, ElementOfSeq
<1> QED BY <1>2, <1>3, ElementOfSeq DEF NextEvent, StreamTyped

\* ClientInv is inductive.
LEMMA ClientInvStep == StreamTyped /\ ClientInv /\ [PctlNext]_pctlVars => ClientInv'
<1> SUFFICES ASSUME StreamTyped, ClientInv, [PctlNext]_pctlVars PROVE ClientInv'
    OBVIOUS
<1>1. ResultInv' /\ CancelInv'
    BY ResultInvStep, CancelInvStep DEF ClientInv
<1>7. /\ cancels > 0 => cancels' > 0
      /\ result = "cancelled" => result' = "cancelled"
    BY PastStays DEF ClientInv, CancelInv
<1>2. CASE ServerStep
    <2>1. UNCHANGED clientVars
        BY <1>2 DEF ServerStep
    <2>2. ASSUME client = "gone", status = "zero", link = "up"
          PROVE  got \in 1..Len(sent'[Pctl]) /\ log'[sent'[Pctl][got]] = "finished"
        <3>1. got \in 1..Len(sent[Pctl]) /\ log[sent[Pctl][got]] = "finished"
            BY <2>2 DEF ClientInv, GoneInv
        <3>2. sent[Pctl][got] \in 1..Len(log)
            <4>1. sent[Pctl] \in Seq(1..Len(log))
                BY PctlAssumption DEF StreamTyped, PublishedPositions
            <4> QED BY <3>1, <4>1, ElementOfSeq
        <3> QED BY <1>2, <3>1, <3>2, ServerKeepsPast DEF ClientInv
    <2>3. result # "none" => result' = result
        BY <1>2, ServerKeepsPast DEF ClientInv
    <2>4. reader[Pctl] = "refused" => reader'[Pctl] = "refused"
        BY <1>2, ServerKeepsPast DEF ClientInv
    <2>5. GoneInv'
        BY <1>7, <2>1, <2>2, <2>3, <2>4 DEF ClientInv, GoneInv, clientVars
    <2> QED BY <1>1, <2>1, <2>5 DEF ClientInv, InterruptInv, clientVars
<1>3. CASE ReceivesEnd
    <2>1. /\ HasNext /\ NextEvent \in Terminal /\ got' = got + 1 /\ client' = "gone"
          /\ status' = StatusFor(NextEvent) /\ UNCHANGED <<log, sent, link, result, cancels, interrupted>>
        BY <1>3 DEF ReceivesEnd, Exits, vars, streamVars, readerVars
    <2>2. got + 1 \in 1..Len(sent[Pctl]) /\ sent[Pctl][got + 1] \in 1..Len(log) /\ got \in Nat
        BY <2>1, NextEventIsPublished DEF ClientInv
    <2>3. /\ NextEvent = "finished" => result \in ExitCode
          /\ NextEvent = "error" => result \in {"timeout", "failed"}
          /\ NextEvent = "cancelled" => cancels > 0 \/ result = "cancelled"
        BY <2>2 DEF NextEvent, ClientInv, ResultInv, CancelInv, PublishedPositions
    <2>4. /\ status' = "zero" => NextEvent = "finished" /\ result \in {"zero", "lost"}
          /\ status' \in {"nonzero", "timeout"} => result = status'
          /\ status' = "failed" => result = "failed"
          /\ status' = "cancelled" => cancels > 0 \/ result = "cancelled"
          /\ status' # "unavailable"
        BY <2>1, <2>3 DEF StatusFor, ExitCode, Terminal
    <2>5. GoneInv'
        BY <2>1, <2>2, <2>4 DEF GoneInv, NextEvent
    <2> QED BY <1>1, <2>1, <2>2, <2>5 DEF ClientInv, InterruptInv
<1>4. CASE ReceivesLine \/ LinkBreaks \/ PostAnswered \/ Interrupted
    <2>1. /\ client' \in {"streaming", "cancelling"} /\ got' \in Nat
          /\ client' = "cancelling" => interrupted'
        BY <1>4 DEF ReceivesLine, LinkBreaks, PostAnswered, Interrupted, HasNext, ClientInv
    <2> QED BY <1>1, <2>1 DEF ClientInv, GoneInv, InterruptInv
<1>5. CASE \/ HandshakeRefused \/ PostFails \/ PostInterrupted
           \/ \E m \in {"zero", "failed"} : LinkEnds(m)
           \/ CancelSent
    <2>1. /\ client' = "gone" /\ got' = got /\ UNCHANGED <<link, reader>>
          /\ \/ status' = "unavailable" /\ got = 0 /\ ~interrupted'
             \/ status' = "cancelled" /\ interrupted'
             \/ status' = "failed" /\ reader[Pctl] = "refused"
             \/ status' \in {"zero", "failed"} /\ link = "down"
        BY <1>5 DEF HandshakeRefused, PostFails, PostInterrupted, LinkEnds, CancelSent, Exits,
                    vars, readerVars, ClientInv, InterruptInv
    <2> QED BY <1>1, <2>1 DEF ClientInv, GoneInv, InterruptInv
<1>6. CASE PctlAtRest \/ UNCHANGED pctlVars
    <2>1. UNCHANGED <<log, sent, reader, cancels, clientVars, result>>
        BY <1>6 DEF PctlAtRest, pctlVars, vars, streamVars, readerVars
    <2> QED BY <1>1, <2>1 DEF ClientInv, GoneInv, InterruptInv, clientVars
<1> QED BY <1>2, <1>3, <1>4, <1>5, <1>6 DEF PctlNext, ClientReads

\* The invariants give the property.
LEMMA ClientInvImplies == StreamTyped /\ EndInv /\ ClientInv => ExitStatusIsTrue
<1> SUFFICES ASSUME StreamTyped, EndInv, ClientInv, client = "gone" PROVE ExitStatusIsTrue
    BY DEF ExitStatusIsTrue
<1>1. ASSUME status = "zero", link = "up", cancels = 0 PROVE sent[Pctl][got] = Len(log)
    <2>1. got \in 1..Len(sent[Pctl]) /\ log[sent[Pctl][got]] = "finished"
        BY <1>1 DEF ClientInv, GoneInv
    <2>2. sent[Pctl] \in Seq(PublishedPositions)
        BY PctlAssumption DEF StreamTyped
    <2>3. sent[Pctl][got] \in PublishedPositions
        BY <2>1, <2>2, ElementOfSeq
    <2> QED BY <1>1, <2>1, <2>3 DEF EndInv, Terminal
<1> QED BY <1>1 DEF ExitStatusIsTrue, ClientInv, GoneInv

\* Exit status 0 of pctl over a websocket that held means that the command ended of
\* itself and that its output was printed to the end; another status of the command is
\* the one that the task recorded.
THEOREM ExitStatusIsRight == PctlSpec => []ExitStatusIsTrue
<1>1. PctlInit => ClientInv
    <2>1. Init => PublishedPositions = {}
        BY EmptySeq DEF Init, PublishedPositions
    <2> QED BY <2>1 DEF PctlInit, Init, ClientInv, ResultInv, CancelInv, GoneInv, InterruptInv
<1>2. Init => StreamInv /\ EndInv
    BY StreamInvInit
<1>3. StreamInv => StreamTyped
    BY DEF StreamInv
<1>4. Spec => [](StreamTyped /\ EndInv)
    BY <1>2, <1>3, StreamInvStep, EndInvStep, PTL DEF Spec
<1>5. PctlSpec => [](StreamTyped /\ EndInv)
    BY <1>4, PctlUsesStream, PTL
<1> QED BY <1>1, <1>5, ClientInvStep, ClientInvImplies, PTL DEF PctlSpec

\* The rest of the stream's types.
RestTyped == closed \in BOOLEAN /\ task \in TaskPlace /\ lines \in Nat /\ cancels \in Nat

LEMMA RestStep == RestTyped /\ [Next]_vars => RestTyped'
<1> SUFFICES ASSUME RestTyped, [Next]_vars PROVE RestTyped'
    OBVIOUS
<1> USE DEF RestTyped, TaskPlace
<1>1. CASE TaskStep \/ TaskDies \/ PumpLine \/ CancelPublishes \/ TaskFails
    <2>1. closed' \in {closed, TRUE}
        BY <1>1, Zenon DEF TaskStep, TaskStarts, TaskEnds, TaskCloses, TaskDies, PumpLine,
           CancelPublishes, TaskFails
    <2>2. task' \in TaskPlace
        BY <1>1 DEF TaskStep, TaskStarts, TaskEnds, TaskCloses, TaskDies, PumpLine,
           CancelPublishes, TaskFails
    <2>3. lines' \in Nat /\ cancels' \in Nat
        BY <1>1 DEF TaskStep, TaskStarts, TaskEnds, TaskCloses, TaskDies, PumpLine,
           CancelPublishes, TaskFails
    <2>4. closed' \in BOOLEAN
        BY <2>1, Zenon
    <2> QED BY <2>2, <2>3, <2>4
<1>2. ASSUME NEW s \in Readers,
             ReaderRefused(s) \/ ReaderAdmitted(s) \/ ReaderStep(s) \/ ReaderDisconnects(s)
      PROVE  UNCHANGED <<closed, task, lines, cancels>>
    BY <1>2 DEF ReaderRefused, ReaderAdmitted, ReaderStep, ReaderSubscribes, ReaderTakes,
       ReaderContinues, ReaderFinishes, ReaderDisconnects
<1>3. CASE AtRest \/ UNCHANGED vars
    BY <1>3 DEF AtRest, vars
<1> QED BY <1>1, <1>2, <1>3 DEF Next

\* The variables of the stream keep their types: above all, histories and queues hold
\* positions of events.
THEOREM StreamTypesCorrect == Spec => []TypeOK
<1>1. Init => StreamInv
    BY StreamInvInit
<1>2. Init => RestTyped
    <2> SUFFICES ASSUME Init PROVE RestTyped
        OBVIOUS
    <2>1. closed \in BOOLEAN
        BY Zenon DEF Init
    <2>2. task \in TaskPlace /\ lines \in Nat /\ cancels \in Nat
        BY DEF Init, TaskPlace
    <2> QED BY <2>1, <2>2 DEF RestTyped
<1>3. StreamInv /\ RestTyped => TypeOK
    <2> SUFFICES ASSUME StreamTyped, RestTyped PROVE TypeOK
        BY DEF StreamInv
    <2>1. PublishedPositions \subseteq Positions
        BY LenProperties DEF PublishedPositions, Positions, StreamTyped
    <2>2. \A q : q \in Seq(PublishedPositions) => q \in Seq(Positions)
        BY <2>1
    <2> QED BY <2>2 DEF StreamTyped, RestTyped, TypeOK
<1> QED BY <1>1, <1>2, <1>3, StreamInvStep, RestStep, PTL DEF Spec
=============================================================================
