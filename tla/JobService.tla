----------------------------- MODULE JobService -----------------------------
(***************************************************************************)
(* What the scheduler relies on when it hands work to its threads: a       *)
(* request makes the thread work once, and one report comes back for it.   *)
(* SignaledWorkerThread and BlockingQueue together promise this.           *)
(***************************************************************************)
EXTENDS Sequences

CONSTANT Threads

VARIABLES
  job,      \* Threads -> "idle", "asked", "done" (done: not reported yet), "retired"
  reports   \* the reports nobody has taken, oldest first

vars == <<job, reports>>

Init == job = [t \in Threads |-> "idle"] /\ reports = << >>

Ask(t) == /\ job[t] = "idle"
          /\ job' = [job EXCEPT ![t] = "asked"]
          /\ UNCHANGED reports

Work(t) == /\ job[t] = "asked"
           /\ job' = [job EXCEPT ![t] = "done"]
           /\ UNCHANGED reports

Report(t) == /\ job[t] = "done"
             /\ job' = [job EXCEPT ![t] = "idle"]
             /\ reports' = Append(reports, t)

Take == /\ reports # << >>
        /\ reports' = Tail(reports)
        /\ UNCHANGED job

\* A thread that is told to finish never takes another request; a report it
\* still owes is delivered.
Retire(t) == /\ job' = [job EXCEPT ![t] = "retired"]
             /\ reports' \in {reports, Append(reports, t)}

Next == \/ \E t \in Threads : Ask(t) \/ Work(t) \/ Report(t) \/ Retire(t)
        \/ Take

Spec == Init /\ [][Next]_vars
=============================================================================
