---------------------------- MODULE WorkerThread ----------------------------
(***************************************************************************)
(* SignaledWorkerThread (threading/signaled_worker_thread.cc) and the      *)
(* BlockingQueue it reports to (threading/blocking_queue.h), driven by the *)
(* scheduler thread.                                                       *)
(*                                                                         *)
(* A step is what runs under one mutex.  pthread_cond_wait is two steps:   *)
(* it blocks, and a signal or a spurious wakeup sends the thread back to   *)
(* the test of its condition.                                              *)
(***************************************************************************)
EXTENDS Integers, Sequences, FiniteSets

CONSTANTS
  Threads,      \* the worker threads
  Unchecked,    \* threads the scheduler resumes without looking for their report
  MaxRequests   \* bound: resume_thread calls per thread


VARIABLES
  is_suspended_flag_,
  finished_flag_,
  queue_,          \* the event queue
  pc,              \* where each worker thread is
  client,          \* where the scheduler thread is: <<"free">>, <<"pull">>, ...
  report_handled,  \* the scheduler's x_report_handled_ flags
  requests,        \* resume_thread calls (history)
  runs             \* times worker_ was called (history)

threadvars == <<is_suspended_flag_, finished_flag_, queue_, pc, client,
                report_handled, requests, runs>>

Places == {"check", "blocked", "test", "worker", "suspend", "push", "exited"}

ThreadInit ==
  /\ is_suspended_flag_ = [t \in Threads |-> TRUE]
  /\ finished_flag_ = [t \in Threads |-> FALSE]
  /\ queue_ = << >>
  /\ pc = [t \in Threads |-> "check"]
  /\ client = <<"free">>
  /\ report_handled = [t \in Threads |-> TRUE]
  /\ requests = [t \in Threads |-> 0]
  /\ runs = [t \in Threads |-> 0]

-----------------------------------------------------------------------------
(* The worker thread's loop *)

Goto(t, place) == pc' = [pc EXCEPT ![t] = place]

\* Faulty variant: the flags change, nobody is woken.
NotSignalled(t) == pc

\* pthread_cond_signal(&cond_) on the condition of thread t.
Signalled(t) == IF pc[t] = "blocked" THEN [pc EXCEPT ![t] = "check"] ELSE pc

wait_for_resume(t) ==
  /\ pc[t] = "check"
  /\ Goto(t, IF is_suspended_flag_[t] /\ ~finished_flag_[t] THEN "blocked" ELSE "test")
  /\ UNCHANGED <<is_suspended_flag_, finished_flag_, queue_, client,
                 report_handled, requests, runs>>

SpuriousWakeup(t) ==
  /\ pc[t] = "blocked"
  /\ Goto(t, "check")
  /\ UNCHANGED <<is_suspended_flag_, finished_flag_, queue_, client,
                 report_handled, requests, runs>>

\* while (!finished_flag_): the flag is read without the mutex.
LoopTest(t) ==
  /\ pc[t] = "test"
  /\ Goto(t, IF finished_flag_[t] THEN "exited" ELSE "worker")
  /\ UNCHANGED <<is_suspended_flag_, finished_flag_, queue_, client,
                 report_handled, requests, runs>>

Worker(t) ==
  /\ pc[t] = "worker"
  /\ Goto(t, "suspend")
  /\ runs' = [runs EXCEPT ![t] = @ + 1]
  /\ UNCHANGED <<is_suspended_flag_, finished_flag_, queue_, client,
                 report_handled, requests>>

suspend_thread(t) ==
  /\ pc[t] = "suspend"
  /\ Goto(t, "push")
  /\ is_suspended_flag_' = [is_suspended_flag_ EXCEPT ![t] = TRUE]
  /\ UNCHANGED <<finished_flag_, queue_, client, report_handled, requests, runs>>

\* signal_queue_->push(id_), which signals the scheduler thread.
push(t) ==
  /\ pc[t] = "push"
  /\ Goto(t, "check")
  /\ queue_' = Append(queue_, t)
  /\ client' = IF client = <<"pull_blocked">> THEN <<"pull">> ELSE client
  /\ UNCHANGED <<is_suspended_flag_, finished_flag_, report_handled, requests, runs>>

\* Faulty variant: the thread reports first and suspends afterwards.
PushBeforeSuspend(t) ==
  \/ wait_for_resume(t) \/ LoopTest(t) \/ Worker(t)
  \/ /\ pc[t] = "suspend"
     /\ Goto(t, "push")
     /\ queue_' = Append(queue_, t)
     /\ client' = IF client = <<"pull_blocked">> THEN <<"pull">> ELSE client
     /\ UNCHANGED <<is_suspended_flag_, finished_flag_, report_handled, requests, runs>>
  \/ /\ pc[t] = "push"
     /\ Goto(t, "check")
     /\ is_suspended_flag_' = [is_suspended_flag_ EXCEPT ![t] = TRUE]
     /\ UNCHANGED <<finished_flag_, queue_, client, report_handled, requests, runs>>

Thread(t) == \/ wait_for_resume(t) \/ LoopTest(t) \/ Worker(t)
             \/ suspend_thread(t) \/ push(t)

-----------------------------------------------------------------------------
(* The scheduler thread *)

resume_thread(t) ==
  /\ client = <<"free">>
  /\ t \in Unchecked \/ report_handled[t]
  /\ ~finished_flag_[t]
  /\ requests[t] < MaxRequests
  /\ is_suspended_flag_' = [is_suspended_flag_ EXCEPT ![t] = FALSE]
  /\ pc' = Signalled(t)
  /\ report_handled' = [report_handled EXCEPT ![t] = FALSE]
  /\ requests' = [requests EXCEPT ![t] = @ + 1]
  /\ UNCHANGED <<finished_flag_, queue_, client, runs>>

CallPull ==
  /\ client = <<"free">>
  /\ client' = <<"pull">>
  /\ UNCHANGED <<is_suspended_flag_, finished_flag_, queue_, pc,
                 report_handled, requests, runs>>

pull ==
  /\ client = <<"pull">>
  /\ IF queue_ = << >>
     THEN client' = <<"pull_blocked">> /\ UNCHANGED <<queue_, report_handled>>
     ELSE /\ client' = <<"free">>
          /\ queue_' = Tail(queue_)
          /\ report_handled' = [report_handled EXCEPT ![Head(queue_)] = TRUE]
  /\ UNCHANGED <<is_suspended_flag_, finished_flag_, pc, requests, runs>>

finish(t) ==
  /\ client = <<"free">>
  /\ ~finished_flag_[t]
  /\ is_suspended_flag_' = [is_suspended_flag_ EXCEPT ![t] = FALSE]
  /\ finished_flag_' = [finished_flag_ EXCEPT ![t] = TRUE]
  /\ pc' = Signalled(t)
  /\ client' = <<"join", t>>
  /\ UNCHANGED <<queue_, report_handled, requests, runs>>

\* pthread_join(thread_, NULL) returns.
Join ==
  /\ client[1] = "join"
  /\ pc[client[2]] = "exited"
  /\ client' = <<"free">>
  /\ UNCHANGED <<is_suspended_flag_, finished_flag_, queue_, pc,
                 report_handled, requests, runs>>

Scheduler == CallPull \/ pull \/ Join \/ \E t \in Threads : resume_thread(t) \/ finish(t)

ThreadNext == Scheduler \/ \E t \in Threads : Thread(t) \/ SpuriousWakeup(t)

ThreadSpec == ThreadInit /\ [][ThreadNext]_threadvars

\* The threads run, and the scheduler finishes the calls it has begun.
FairSpec == /\ ThreadSpec
            /\ WF_threadvars(pull) /\ WF_threadvars(Join)
            /\ \A t \in Threads : WF_threadvars(Thread(t))

-----------------------------------------------------------------------------
(* Properties *)

Reports(t) == Cardinality({i \in DOMAIN queue_ : queue_[i] = t})

\* A thread at rest has run its worker once for every resume_thread call it was
\* sent (signaled_worker_thread.h:82-86); nothing is left asleep with work to do.
NoRequestLost ==
  \A t \in Threads :
    /\ pc[t] = "blocked" => runs[t] = requests[t] /\ is_suspended_flag_[t]
    /\ runs[t] <= requests[t]

\* As long as the scheduler waits for the report before it resumes a thread
\* again, each request is either on its way through the thread or answered by
\* exactly one report in the queue, and a reported thread is already suspended.
OneReportPerRequest ==
  \A t \in Threads \ Unchecked :
    ~finished_flag_[t] =>
      /\ Reports(t) <= 1
      /\ Reports(t) = 1 => /\ ~report_handled[t]
                           /\ is_suspended_flag_[t]
                           /\ pc[t] \in {"check", "blocked"}
      /\ report_handled[t] => pc[t] \in {"check", "blocked"}

\* A request is answered: the thread reports, or is told to finish.
RequestAnswered ==
  \A t \in Threads : ~report_handled[t] ~> (Reports(t) > 0 \/ finished_flag_[t]
                                            \/ report_handled[t])

\* finish() returns, whatever the thread was doing when it was called, as long
\* as the worker function does return (signaled_worker_thread.cc:121-135).
FinishReturns == \A t \in Threads : client = <<"join", t>> ~> client = <<"free">>

\* No wakeup is missed: the scheduler is never asleep in pull() on a queue that
\* holds a report.
NoSleepOnReports == client = <<"pull_blocked">> => queue_ = << >>

\* Each request is run once and reported once, and no report is slept on.
RequestsKept == NoRequestLost /\ OneReportPerRequest /\ NoSleepOnReports

\* Requests and finish() are answered.
ThreadsAnswer == RequestAnswered /\ FinishReturns

\* Refinement of the service the scheduler's design assumes.
Job(t) == IF finished_flag_[t] THEN "retired"
          ELSE IF pc[t] = "push" THEN "done"
          ELSE IF pc[t] \in {"worker", "suspend"} \/ ~is_suspended_flag_[t] THEN "asked"
          ELSE "idle"
Service == INSTANCE JobService WITH job <- [t \in Threads |-> Job(t)],
                                    reports <- queue_
ImplementsJobService == Service!Spec
=============================================================================
