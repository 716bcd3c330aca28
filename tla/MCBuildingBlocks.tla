--------------------------- MODULE MCBuildingBlocks ---------------------------
(* What the receiver's parts are built from: the ring buffer and the worker    *)
(* threads.  A behaviour is about one of them; a buffer has one client, which  *)
(* uses the bulk operations, the element operations, or resamples.             *)
EXTENDS FileSource, WorkerThread

CONSTANTS
  Users,                              \* what behaviours are about
  demodulator, datadecoder

VARIABLE user

NoThreads ==
  /\ is_suspended_flag_ = [t \in Threads |-> TRUE]
  /\ finished_flag_ = [t \in Threads |-> FALSE]
  /\ queue_ = << >>
  /\ pc = [t \in Threads |-> "blocked"]
  /\ client = <<"free">>
  /\ report_handled = [t \in Threads |-> TRUE]
  /\ requests = [t \in Threads |-> 0]
  /\ runs = [t \in Threads |-> 0]

MCInit ==
  /\ user \in Users
  /\ FileInit
  /\ IF user = "scheduler" THEN ThreadInit ELSE NoThreads
MCNext ==
  /\ UNCHANGED user
  /\ \/ user = "bulk" /\ Next /\ UNCHANGED <<filevars, threadvars>>
     \/ user = "element" /\ ElementNext /\ UNCHANGED <<filevars, threadvars>>
     \/ user = "file" /\ FileNext /\ UNCHANGED threadvars
     \/ user = "scheduler" /\ ThreadNext /\ UNCHANGED <<vars, filevars>>
MCSpec ==
  /\ MCInit /\ [][MCNext]_<<user, vars, filevars, threadvars>>
  /\ WF_threadvars(pull) /\ WF_threadvars(Join)
  /\ \A t \in Threads : WF_threadvars(Thread(t))
==============================================================================
