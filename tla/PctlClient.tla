------------------------------ MODULE PctlClient ------------------------------
(***************************************************************************)
(* "pctl exec" of wrapper/pctl.py as one of the readers of a CommandStream: *)
(* cmd_exec posts the command, consume_stream receives its events over a    *)
(* websocket, and the process's exit status says how the command ended.     *)
(*                                                                         *)
(* The stream exists from the start: the handler of POST /api/v1/exec has   *)
(* accepted the command, and its answer is on the way to the client.        *)
(***************************************************************************)
EXTENDS CommandStream

CONSTANT Pctl   \* the reader that is pctl's websocket

ASSUME PctlAssumption == Pctl \in Readers

VARIABLES
    client,  \* where cmd_exec is
    link,    \* pctl's websocket: a broken one loses what is under way
    got,     \* how many of the events in sent[Pctl] it has received
    status,  \* its exit status, by meaning
    result,  \* how run ended: the exit code or the status in the task's event
    interrupted  \* history: a signal interrupted it

clientVars == <<client, link, got, status, interrupted>>
pctlVars == <<vars, clientVars, result>>

\* The exit codes of a remote command; "lost" if the channel closed without one.
ExitCode == {"zero", "nonzero", "lost"}

\* What an exit status of pctl means: 0, the command's own, 1, 124, 130 and 111.
Meaning == {"zero", "nonzero", "failed", "timeout", "cancelled", "unavailable"}

\* pctl asks for the default of history_lines, which may be below the limit.
PctlInit == /\ Init
            /\ client = "posting" /\ link = "up" /\ got = 0 /\ status = "none"
            /\ interrupted = FALSE /\ result = "none"

\* Lines are printed as they are received, so the exit status is all that is left.
Exits(meaning) == client' = "gone" /\ status' = meaning
-----------------------------------------------------------------------------
(* The server.                                                             *)

\* The outcome of run, and the type of the event that the task publishes for it.
Outcome == [finished |-> ExitCode, error |-> {"timeout"}, cancelled |-> {"cancelled"}]

TaskEndsWith(type, r) == TaskEnds(type) /\ result' = r

TaskGoesOn == \/ (TaskStarts \/ TaskCloses) /\ UNCHANGED result
              \/ \E type \in DOMAIN Outcome : \E r \in Outcome[type] : TaskEndsWith(type, r)

TaskFailure == TaskFails /\ result' = "failed"

\* Another client's cancel call, or pctl's own.
Cancel == CancelPublishes /\ UNCHANGED result

\* The handler of a websocket.  Pctl has to open its own, and a client that is gone
\* or lost is noticed by send_json only.
WebSocket(s) ==
    /\ \/ /\ s = Pctl => client = "streaming"
          /\ ReaderRefused(s) \/ ReaderAdmitted(s)
       \/ ReaderStep(s)
       \/ /\ s = Pctl => link = "down" \/ client # "streaming"
          /\ ReaderDisconnects(s)
    /\ UNCHANGED result

ServerStep == /\ \/ TaskGoesOn \/ TaskFailure \/ Cancel
                 \/ (TaskDies \/ PumpLine) /\ UNCHANGED result
                 \/ \E s \in Readers : WebSocket(s)
              /\ UNCHANGED clientVars

LinkBreaks == /\ client = "streaming"
              /\ link = "up"
              /\ link' = "down"
              /\ UNCHANGED <<vars, client, got, status, interrupted, result>>
-----------------------------------------------------------------------------
(* The client.                                                             *)

PostAnswered == /\ client = "posting"
                /\ client' = "streaming"
                /\ UNCHANGED <<vars, link, got, status, interrupted, result>>

\* The answer comes too late or never: exit_code_for_proxy_error(0), and the command
\* goes on without pctl.
PostFails == /\ client = "posting"
             /\ Exits("unavailable")
             /\ UNCHANGED <<vars, link, got, interrupted, result>>

\* An interrupt before the answer has no handler but main's: nothing is cancelled.
PostInterrupted == /\ client = "posting"
                   /\ Exits("cancelled") /\ interrupted' = TRUE
                   /\ UNCHANGED <<vars, link, got, result>>

\* connect: the handshake is refused, and RuntimeError ends pctl.
HandshakeRefused == /\ client = "streaming"
                    /\ reader[Pctl] = "refused"
                    /\ Exits("failed")
                    /\ UNCHANGED <<vars, link, got, interrupted, result>>

NextEvent == log[sent[Pctl][got + 1]]

HasNext == client = "streaming" /\ got < Len(sent[Pctl])

\* A line is printed, started is noted.
ReceivesLine == /\ HasNext
                /\ NextEvent \notin Terminal
                /\ got' = got + 1
                /\ UNCHANGED <<vars, client, link, status, interrupted, result>>

\* Mutated: an error event does not clear result["ok"].
StatusFor_OkError(type) ==
    CASE type = "cancelled"                             -> "cancelled"
      [] type = "finished" /\ result # "lost"           -> result
      [] type = "error" /\ result = "timeout"           -> "timeout"
      [] OTHER                                          -> "zero"

\* The end of consume_stream.  An error event bears a status if run timed out; a
\* finished event whose exit code is lost counts as success.
StatusFor(type) ==
    CASE type = "cancelled"                             -> "cancelled"
      [] type = "finished"                              -> IF result = "lost" THEN "zero" ELSE result
      [] type = "error" /\ result = "timeout"           -> "timeout"
      [] OTHER                                          -> "failed"

\* Mutated: only finished ends the loop.
ReceivesEnd_FinishedOnly ==
    /\ HasNext
    /\ NextEvent \in Terminal
    /\ got' = got + 1
    /\ IF NextEvent = "finished" THEN Exits(StatusFor(NextEvent))
       ELSE UNCHANGED <<client, status>>
    /\ UNCHANGED <<vars, link, interrupted, result>>

\* The first terminal event ends the loop; the client closes the websocket.
ReceivesEnd == /\ HasNext
               /\ NextEvent \in Terminal
               /\ got' = got + 1
               /\ Exits(StatusFor(NextEvent))
               /\ UNCHANGED <<vars, link, interrupted, result>>

\* The stream of bytes ends without a terminal event: recv_text returns None, and
\* nothing says that the command failed; or the read raises, and pctl ends with it.
LinkEnds(meaning) == /\ client = "streaming"
                     /\ link = "down"
                     /\ Exits(meaning)
                     /\ UNCHANGED <<vars, link, got, interrupted, result>>

\* KeyboardInterrupt: the websocket is closed first, then send_cancel posts.
Interrupted == /\ client = "streaming"
               /\ client' = "cancelling" /\ interrupted' = TRUE
               /\ UNCHANGED <<vars, link, got, status, result>>

\* Whatever the answer is, or whether there is one, the exit status is 130.  What the
\* server makes of the call is Cancel.
CancelSent == /\ client = "cancelling"
              /\ Exits("cancelled")
              /\ UNCHANGED <<vars, link, got, interrupted, result>>

ClientReads == \/ PostAnswered \/ HandshakeRefused \/ ReceivesLine \/ ReceivesEnd
               \/ CancelSent
               \/ \E m \in {"zero", "failed"} : LinkEnds(m)

\* AtRest with the client, which is gone or waits for an event too.
PctlAtRest == /\ task \in {"over", "died"}
              /\ \A s \in Readers : Rests(s) \/ (s = Pctl /\ reader[s] = "new")
              /\ \/ client = "gone"
                 \/ client = "streaming" /\ reader[Pctl] = "reading" /\ got = Len(sent[Pctl])
              /\ UNCHANGED pctlVars

PctlNext == \/ ServerStep \/ LinkBreaks \/ ClientReads
            \/ PostFails \/ PostInterrupted \/ Interrupted
            \/ PctlAtRest

PctlSpec == PctlInit /\ [][PctlNext]_pctlVars

\* A handshake is answered.
Handshake == /\ client = "streaming"
             /\ ReaderRefused(Pctl) \/ ReaderAdmitted(Pctl)

\* The event loop runs every handler that can go on, and the client's process reads
\* what has arrived; a command may print for ever, and no link has to break.
FairPctlSpec ==
    /\ PctlSpec
    /\ WF_pctlVars(TaskGoesOn /\ UNCHANGED clientVars)
    /\ \A s \in Readers : WF_pctlVars(ReaderStep(s) /\ UNCHANGED <<clientVars, result>>)
    /\ WF_pctlVars(Handshake /\ UNCHANGED <<clientVars, result>>)
    /\ WF_pctlVars(ClientReads)
-----------------------------------------------------------------------------
\* The exit status 0 over a websocket that held means that the command ended of
\* itself, and that pctl has printed all of its output from the first event it got; a
\* code or 124 is the command's own; 1 without a code means that the command failed, or
\* that pctl was refused or lost the websocket; 130 that the command was cancelled,
\* unless pctl was interrupted; and after 111 pctl has shown nothing of the command.
ExitStatusIsTrue ==
    client = "gone" =>
        /\ (status = "zero" /\ link = "up") =>
              /\ result \in {"zero", "lost"}
              /\ cancels = 0 => sent[Pctl][got] = Len(log)
        /\ status \in {"nonzero", "timeout"} => result = status
        /\ status = "failed" => result = "failed" \/ reader[Pctl] = "refused" \/ link = "down"
        /\ status = "cancelled" => interrupted \/ cancels > 0 \/ result = "cancelled"
        /\ status = "unavailable" => got = 0 /\ ~interrupted

\* A stream that pctl has opened lets it go: unless the end was dropped from the
\* history before pctl joined, or the task was lost.
ClientReturns ==
    client = "streaming" ~> client = "gone" \/ task = "died" \/ MissedEnd(Pctl)
=============================================================================
