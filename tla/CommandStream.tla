---------------------------- MODULE CommandStream ----------------------------
(***************************************************************************)
(* One CommandStream of app/ssh/state.py with its publishers (the pumps of *)
(* SSHManager.run, the task _execute_job, cancel handlers) and its readers *)
(* (the handlers of the websocket /ws).                                    *)
(*                                                                         *)
(* publish, subscribe, unsubscribe and close never suspend, so each is part *)
(* of one step.  A reader suspends in accept, in queue.get while its queue  *)
(* is empty and in send_json.                                              *)
(***************************************************************************)
EXTENDS Naturals, Sequences

CONSTANTS
    Readers,        \* websocket handlers
    HistoryLimit,   \* maxlen of the history deque
    HistoryLines,   \* the values of the query parameter history_lines
    MaxLines,       \* bound: lines the remote command prints
    MaxCancels      \* bound: cancel handlers that acknowledge

ASSUME StreamAssumption == /\ HistoryLimit \in Nat \ {0}
                           /\ HistoryLines \subseteq Nat
                           /\ MaxLines \in Nat /\ MaxCancels \in Nat

VARIABLES
    log,          \* history variable: the types of all published events, in order
    history,      \* the deque: positions in log of the events it holds
    closed,
    subscribers,
    task,         \* what the background task still does with the stream
    lines,        \* stdout_lines + stderr_lines: lines written to the log files
    cancels,      \* acknowledged cancels so far
    reader,       \* reader[s]: where websocket handler s is
    want,         \* want[s]: its history_lines
    queue,        \* queue[s]: positions of the events in its queue
    sent          \* sent[s]: positions of the events given to send_json

streamVars == <<log, history, subscribers>>
readerVars == <<reader, want, sent>>
vars == <<streamVars, closed, task, lines, cancels, readerVars, queue>>

Terminal   == {"finished", "cancelled", "error"}
EventType  == {"started", "line"} \cup Terminal
TaskPlace  == {"ready", "running", "ended", "over", "died"}
ReadPlace  == {"new", "refused", "accepting", "reading", "sending", "finished", "left"}

Init == /\ log = <<>> /\ history = <<>> /\ closed = FALSE
        /\ subscribers = {}
        /\ task = "ready" /\ lines = 0 /\ cancels = 0
        /\ reader = [s \in Readers |-> "new"]
        /\ want \in [Readers -> HistoryLines]
        /\ queue = [s \in Readers |-> <<>>]
        /\ sent  = [s \in Readers |-> <<>>]
-----------------------------------------------------------------------------
\* A Python list's tail slice seq[-n:]; seq[-0:] is the whole list.
LastOf(seq, n) == IF n = 0 \/ n >= Len(seq) THEN seq
                  ELSE SubSeq(seq, Len(seq) - n + 1, Len(seq))

\* Mutated: a subscriber that is busy sending is skipped.
Publish_SkipsBusy(type) ==
    LET pos == Len(log) + 1 IN
    /\ log'     = Append(log, type)
    /\ history' = LastOf(Append(history, pos), HistoryLimit)
    /\ queue'   = [s \in Readers |-> IF s \in subscribers /\ reader[s] = "reading"
                                     THEN Append(queue[s], pos) ELSE queue[s]]
    /\ UNCHANGED subscribers

\* publish: the history drops its oldest event at the limit, and every subscriber's
\* queue gets the event.
Publish(type) ==
    LET pos == Len(log) + 1 IN
    /\ log'     = Append(log, type)
    /\ history' = LastOf(Append(history, pos), HistoryLimit)
    /\ queue'   = [s \in Readers |-> IF s \in subscribers THEN Append(queue[s], pos)
                                     ELSE queue[s]]
    /\ UNCHANGED subscribers

\* _execute_job publishes started and enters run; or the server's configuration is
\* gone, and nothing is ever published or closed.
TaskStarts ==
    /\ task = "ready"
    /\ task' = "running"
    /\ Publish("started")
    /\ UNCHANGED <<closed, lines, cancels, readerVars>>

TaskDies ==
    /\ task = "ready"
    /\ task' = "died"
    /\ UNCHANGED <<streamVars, closed, lines, cancels, readerVars, queue>>

\* Mutated: the task does not wait for the pumps.
PumpLine_NotAwaited ==
    /\ task \in {"running", "ended"}
    /\ lines < MaxLines
    /\ lines' = lines + 1
    /\ Publish("line")
    /\ UNCHANGED <<closed, task, cancels, readerVars>>

\* _pump_reader: the pumps end before the task goes on.
PumpLine ==
    /\ task = "running"
    /\ lines < MaxLines
    /\ lines' = lines + 1
    /\ Publish("line")
    /\ UNCHANGED <<closed, task, cancels, readerVars>>

\* A cancel handler publishes and closes; the pumps may go on, and the task may have
\* ended in the meantime.
CancelPublishes ==
    /\ task \in {"running", "ended", "over"}
    /\ cancels < MaxCancels
    /\ cancels' = cancels + 1
    /\ Publish("cancelled")
    /\ closed' = TRUE
    /\ UNCHANGED <<task, lines, readerVars>>

\* Mutated: the test of closed is inverted.
TaskEnds_IfClosed(type) ==
    /\ task = "running"
    /\ task' = "ended"
    /\ IF closed THEN Publish(type) ELSE UNCHANGED <<streamVars, queue>>
    /\ UNCHANGED <<closed, lines, cancels, readerVars>>

\* run returned a result: its event is published unless the stream is closed.
TaskEnds(type) ==
    /\ task = "running"
    /\ task' = "ended"
    /\ IF closed THEN UNCHANGED <<streamVars, queue>> ELSE Publish(type)
    /\ UNCHANGED <<closed, lines, cancels, readerVars>>

\* run raised: the error event is published even on a closed stream.
TaskFails ==
    /\ task = "running"
    /\ task' = "ended"
    /\ Publish("error")
    /\ UNCHANGED <<closed, lines, cancels, readerVars>>

\* The audit event is written: the stream is closed.
TaskCloses ==
    /\ task = "ended"
    /\ task' = "over"
    /\ closed' = TRUE
    /\ UNCHANGED <<streamVars, lines, cancels, readerVars, queue>>
-----------------------------------------------------------------------------
ReaderGoto(s, place) == reader' = [reader EXCEPT ![s] = place]

\* No access to the stream, or no such stream.
ReaderRefused(s) ==
    /\ reader[s] = "new"
    /\ ReaderGoto(s, "refused")
    /\ UNCHANGED <<streamVars, closed, task, lines, cancels, want, queue, sent>>

ReaderAdmitted(s) ==
    /\ reader[s] = "new"
    /\ ReaderGoto(s, "accepting")
    /\ UNCHANGED <<streamVars, closed, task, lines, cancels, want, queue, sent>>

\* subscribe: the tail of the history goes to the new queue.
Subscribe(s) ==
    /\ subscribers' = subscribers \cup {s}
    /\ queue' = [queue EXCEPT ![s] = LastOf(history, want[s])]

ReaderSubscribes(s) ==
    /\ reader[s] = "accepting"
    /\ ReaderGoto(s, "reading")
    /\ Subscribe(s)
    /\ UNCHANGED <<log, history, closed, task, lines, cancels, want, sent>>

ReaderTakes(s) ==
    /\ reader[s] = "reading"
    /\ queue[s] # <<>>
    /\ ReaderGoto(s, "sending")
    /\ queue' = [queue EXCEPT ![s] = Tail(@)]
    /\ sent'  = [sent EXCEPT ![s] = Append(@, Head(queue[s]))]
    /\ UNCHANGED <<streamVars, closed, task, lines, cancels, want>>

\* The event that send_json is at work on, or was last.
LastSent(s) == log[sent[s][Len(sent[s])]]

\* Mutated: the other terminal events are forgotten.
IsEnd_FinishedOnly(s) == LastSent(s) = "finished" /\ closed

\* send_json returned: closed is read now, not when the event was taken.
IsEnd(s) == LastSent(s) \in Terminal /\ closed

ReaderContinues(s) ==
    /\ reader[s] = "sending"
    /\ ~IsEnd(s)
    /\ ReaderGoto(s, "reading")
    /\ UNCHANGED <<streamVars, closed, task, lines, cancels, want, queue, sent>>

\* The finally clause of the handler.
Unsubscribe(s) == subscribers' = subscribers \ {s}

ReaderFinishes(s) ==
    /\ reader[s] = "sending"
    /\ IsEnd(s)
    /\ ReaderGoto(s, "finished")
    /\ Unsubscribe(s)
    /\ UNCHANGED <<log, history, closed, task, lines, cancels, want, queue, sent>>

\* The client is gone: only send_json notices it.
ReaderDisconnects(s) ==
    /\ reader[s] = "sending"
    /\ ReaderGoto(s, "left")
    /\ Unsubscribe(s)
    /\ UNCHANGED <<log, history, closed, task, lines, cancels, want, queue, sent>>
-----------------------------------------------------------------------------
\* A reader that has stopped or waits for an event.
Rests(s) == \/ reader[s] \in {"refused", "finished", "left"}
            \/ reader[s] = "reading" /\ queue[s] = <<>>

AtRest == /\ task \in {"over", "died"}
          /\ \A s \in Readers : Rests(s)
          /\ UNCHANGED vars

TaskStep == \/ TaskStarts \/ TaskEnds("finished") \/ TaskEnds("error")
            \/ TaskEnds("cancelled") \/ TaskCloses

ReaderStep(s) == \/ ReaderSubscribes(s) \/ ReaderTakes(s)
                 \/ ReaderContinues(s) \/ ReaderFinishes(s)

Next == \/ TaskStep \/ TaskDies \/ PumpLine \/ CancelPublishes \/ TaskFails
        \/ \E s \in Readers : \/ ReaderRefused(s) \/ ReaderAdmitted(s)
                              \/ ReaderStep(s) \/ ReaderDisconnects(s)
        \/ AtRest

Spec == Init /\ [][Next]_vars
-----------------------------------------------------------------------------
Positions == Nat \ {0}

TypeOK == /\ log \in Seq(EventType) /\ history \in Seq(Positions)
          /\ closed \in BOOLEAN /\ subscribers \in SUBSET Readers
          /\ task \in TaskPlace /\ lines \in Nat /\ cancels \in Nat
          /\ reader \in [Readers -> ReadPlace] /\ want \in [Readers -> Nat]
          /\ queue \in [Readers -> Seq(Positions)]
          /\ sent \in [Readers -> Seq(Positions)]

\* All that a reader got or still has in its queue.
Feed(s) == sent[s] \o queue[s]

\* From the event it starts with, a reader gets every event once and in order, and
\* nothing between its history and the live events is missing or sent twice.
NoGapNoRepeat == \A s \in Readers :
    /\ \A i \in 1..(Len(Feed(s)) - 1) : Feed(s)[i + 1] = Feed(s)[i] + 1
    /\ s \in subscribers /\ log # <<>> =>
          Feed(s) # <<>> /\ Feed(s)[Len(Feed(s))] = Len(log)

\* A reader that the server let go at the end of a command nobody cancelled has
\* got the whole rest of the stream: no line follows the terminal event.
FinishedReaderHasAll == \A s \in Readers :
    reader[s] = "finished" /\ cancels = 0 => sent[s][Len(sent[s])] = Len(log)

SawEnd(s) == \E i \in DOMAIN sent[s] : log[sent[s][i]] \in Terminal

\* The stream went on after a cancel, and its history dropped the terminal event
\* before the reader joined.
MissedEnd(s) == Feed(s) # <<>> /\ \E i \in 1..(Feed(s)[1] - 1) : log[i] \in Terminal

\* Every reader that stays is told the end of the command, unless the task lost its
\* configuration before it started, or the reader joined after the end was dropped.
ReadersSeeTheEnd == \A s \in Readers :
    reader[s] = "accepting" ~> SawEnd(s) \/ reader[s] = "left" \/ task = "died" \/ MissedEnd(s)

\* A reader with a terminal event in its queue when the stream is closed is let go.
ClosedStreamReleases == \A s \in Readers :
    (/\ reader[s] = "reading"
     /\ closed
     /\ \E i \in DOMAIN queue[s] : log[queue[s][i]] \in Terminal)
        ~> reader[s] \in {"finished", "left"}
=============================================================================
