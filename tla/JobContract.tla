----------------------------- MODULE JobContract -----------------------------
(***************************************************************************)
(* What POST /api/v1/exec and POST /api/v1/cancel promise about one job    *)
(* row, without streams, processes or handlers: a job is accepted, starts, *)
(* ends; a cancel that was accepted while the job was unfinished is never  *)
(* answered by a job that ends "completed".  ExecLifecycle implements it.  *)
(***************************************************************************)

CONSTANT Requests       \* request ids

VARIABLES status,       \* status[r]: the jobs row of r, "none" before it exists
          promised      \* promised[r]: a cancel of the unfinished job was accepted

contractVars == <<status, promised>>

Stopped  == {"timeout", "cancelled"}
Finished == {"completed", "failed"} \cup Stopped

Init == /\ status   = [r \in Requests |-> "none"]
        /\ promised = [r \in Requests |-> FALSE]

Move(r, from, to) == /\ status[r] \in from
                     /\ status' = [status EXCEPT ![r] = to]

Accept(r) == Move(r, {"none"}, "queued")    /\ UNCHANGED promised
Start(r)  == Move(r, {"queued"}, "running") /\ UNCHANGED promised
Fail(r)   == Move(r, {"running"}, "failed") /\ UNCHANGED promised

Complete(r) == /\ ~promised[r]
               /\ Move(r, {"running"}, "completed")
               /\ UNCHANGED promised

\* The command task stopped the command, or a cancel handler did.  The two race,
\* so one kind of stop may replace the other; no other final status is replaced.
Stop(r) == \E s \in Stopped : /\ Move(r, {"running"} \cup Stopped, s)
                              /\ promised' \in {promised, [promised EXCEPT ![r] = TRUE]}

\* A cancel is accepted for a job that has not reached its process yet.
Promise(r) == /\ status[r] \in {"queued", "running"}
              /\ promised' = [promised EXCEPT ![r] = TRUE]
              /\ UNCHANGED status

Next == \E r \in Requests : \/ Accept(r) \/ Start(r) \/ Complete(r)
                            \/ Fail(r) \/ Stop(r) \/ Promise(r)

Spec == Init /\ [][Next]_contractVars
=============================================================================
