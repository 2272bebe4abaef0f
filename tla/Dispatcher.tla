------------------------------ MODULE Dispatcher ------------------------------
(***************************************************************************)
(* The polling loop of pzsvc-exec's Dispatcher (src/dispatcher/poll).      *)
(*                                                                         *)
(* Every dispatcher process repeats runIteration: get a Cloud Foundry (CF) *)
(* session, count the RUNNING tasks of the app, stop if there are too      *)
(* many, otherwise take one job from Piazza's queue and create one CF task *)
(* that runs the Worker for it.  Each call to another service is a step of *)
(* its own, so the steps of several dispatchers, of Piazza and of CF       *)
(* interleave.  A reply may be lost, a session may expire, CF may refuse a *)
(* task, and the process may crash at any point and be started again; the  *)
(* adverse events together are bounded by MaxFaults.                       *)
(***************************************************************************)
EXTENDS Naturals, FiniteSets

CONSTANTS
    Dispatchers,  \* the processes: instances of the app share one vcapID
    Jobs,         \* the service jobs users may submit to Piazza
    NoJob,        \* what a dispatcher holds between two jobs
    Bodies,       \* the kinds of job body users submit, a set of BodyKinds
    TaskLimit,    \* Loop.taskLimit (a negative one acts as 0)
    PageSize,     \* the tasks CF lists in the only page the client reads
    MaxPending,   \* bound: tasks CF has accepted and not started yet
    MaxFaults     \* bound: adverse events in one behaviour

\* What runIteration distinguishes in the content of a job.
BodyKinds == {"wellFormed", "empty", "notJson", "unpaired"}

ASSUME DispatchersAssumption == IsFiniteSet(Dispatchers)
ASSUME JobsAssumption == IsFiniteSet(Jobs) /\ NoJob \notin Jobs
ASSUME BodiesAssumption == Bodies \subseteq BodyKinds
ASSUME LimitAssumption == TaskLimit \in Nat
ASSUME PageAssumption == PageSize \in Nat
ASSUME BoundAssumption == MaxPending \in Nat \ {0} /\ MaxFaults \in Nat

VARIABLES
    queue,    \* Piazza: the jobs waiting for this service
    taken,    \* Piazza: the jobs it has handed out, which it never re-queues
    body,     \* the kind of content each job carries
    reports,  \* Piazza: the statuses it received, <<job, sender, status>>
    task,     \* CF: the state of the task created for each job
    pc,       \* where each dispatcher is in its iteration
    held,     \* the job each dispatcher has taken and not settled
    session,  \* DefaultFactory.cachedSession of each dispatcher
    errlog,   \* the error an iteration returned about a job, sent to main
    faults    \* adverse events so far

vars == <<queue, taken, body, reports, task, pc, held, session, errlog, faults>>

\* PENDING is a request in the hands of CF: a task it accepted, or one it has yet
\* to act on.  No dispatcher can tell them apart, as none counts either.
TaskStates == {"none", "PENDING", "RUNNING", "ended"}
Points == {"idle", "count", "poll", "create", "fail"}
Sessions == {"none", "live", "expired"}
Errors == {"none", "badBody", "countMismatch", "memoryLimit", "createFailed"}
Senders == {"dispatcher", "worker"}
Statuses == {"Success", "Error", "Fail"}

TypeOK ==
    /\ queue \subseteq Jobs
    /\ taken \subseteq Jobs
    /\ body \in [Jobs -> Bodies]
    /\ reports \subseteq Jobs \X Senders \X Statuses
    /\ task \in [Jobs -> TaskStates]
    /\ pc \in [Dispatchers -> Points]
    /\ held \in [Dispatchers -> Jobs \cup {NoJob}]
    /\ session \in [Dispatchers -> Sessions]
    /\ errlog \in [Jobs -> Errors]
    /\ faults \in 0..MaxFaults

Pending == {j \in Jobs : task[j] = "PENDING"}
Running == {j \in Jobs : task[j] = "RUNNING"}
Active  == Pending \cup Running

Init ==
    /\ queue = {}
    /\ taken = {}
    /\ body \in [Jobs -> Bodies]
    /\ reports = {}
    /\ task = [j \in Jobs |-> "none"]
    /\ pc = [d \in Dispatchers |-> "idle"]
    /\ held = [d \in Dispatchers |-> NoJob]
    /\ session = [d \in Dispatchers |-> "none"]
    /\ errlog = [j \in Jobs |-> "none"]
    /\ faults = 0

Fault == faults < MaxFaults /\ faults' = faults + 1
Goto(d, point) == pc' = [pc EXCEPT ![d] = point]
Release_Missing(d) == UNCHANGED held
Release(d) == held' = [held EXCEPT ![d] = NoJob]
Log(j, error) == errlog' = [errlog EXCEPT ![j] = error]

-----------------------------------------------------------------------------
(* The environment: users, Cloud Foundry and the crash of a process. *)

Submit(j) ==
    /\ j \notin queue \cup taken
    /\ queue' = queue \cup {j}
    /\ UNCHANGED <<taken, body, reports, task, pc, held, session, errlog, faults>>

StartTask(j) ==
    /\ task[j] = "PENDING"
    /\ task' = [task EXCEPT ![j] = "RUNNING"]
    /\ UNCHANGED <<queue, taken, body, reports, pc, held, session, errlog, faults>>

\* A task ends when its Worker exits, or before CF could place it; a request that
\* CF refuses when nobody awaits its reply any more ends here too.
EndTask(j) ==
    /\ j \in Active
    /\ task' = [task EXCEPT ![j] = "ended"]
    /\ UNCHANGED <<queue, taken, body, reports, pc, held, session, errlog, faults>>

\* The refresh token of a cached client expires between two calls.
ExpireSession(d) ==
    /\ session[d] = "live"
    /\ Fault
    /\ session' = [session EXCEPT ![d] = "expired"]
    /\ UNCHANGED <<queue, taken, body, reports, task, pc, held, errlog>>

\* The process dies and CF starts it again: nothing is kept.
Crash(d) ==
    /\ Fault
    /\ Goto(d, "idle")
    /\ Release(d)
    /\ session' = [session EXCEPT ![d] = "none"]
    /\ UNCHANGED <<queue, taken, body, reports, task, errlog>>

-----------------------------------------------------------------------------
(* One iteration of a dispatcher. *)

\* GetSession: a cached session that IsValid is used again; a missing or a
\* rejected one is replaced by RefreshCachedClient.
GetSession(d) ==
    /\ pc[d] = "idle"
    /\ session' = [session EXCEPT ![d] = "live"]
    /\ Goto(d, "count")
    /\ UNCHANGED <<queue, taken, body, reports, task, held, errlog, faults>>

\* The validation request or the new client fails: the iteration returns the
\* error and the cached session stays what it was.
GetSessionFails(d) ==
    /\ pc[d] = "idle"
    /\ Fault
    /\ UNCHANGED <<queue, taken, body, reports, task, pc, held, session, errlog>>

\* CountTasksForApp: CF lists the RUNNING tasks, one page of them.
NumTasks_WrongState == Cardinality(Pending)
NumTasks_AnyState == Cardinality({j \in Jobs : task[j] # "none"})
NumTasks == LET running == Cardinality(Running)
            IN  IF running <= PageSize THEN running ELSE PageSize

CountTasks_OffByOne(d) ==
    /\ pc[d] = "count" /\ session[d] = "live"
    /\ Goto(d, IF NumTasks > TaskLimit THEN "idle" ELSE "poll")
    /\ UNCHANGED <<queue, taken, body, reports, task, held, session, errlog, faults>>

CountTasks(d) ==
    /\ pc[d] = "count"
    /\ session[d] = "live"
    /\ Goto(d, IF NumTasks >= TaskLimit THEN "idle" ELSE "poll")
    /\ UNCHANGED <<queue, taken, body, reports, task, held, session, errlog, faults>>

CountTasksFails(d) ==
    /\ pc[d] = "count"
    /\ \/ session[d] = "expired" /\ UNCHANGED faults
       \/ Fault
    /\ Goto(d, "idle")
    /\ UNCHANGED <<queue, taken, body, reports, task, held, session, errlog>>

PollNoJob(d) ==
    /\ pc[d] = "poll"
    /\ queue = {}
    /\ Goto(d, "idle")
    /\ UNCHANGED <<queue, taken, body, reports, task, held, session, errlog, faults>>

\* Piazza hands out a job, which passes parseJobInput and buildWorkerCommand.
TakeJob(d, j) ==
    /\ pc[d] = "poll"
    /\ j \in queue
    /\ body[j] = "wellFormed"
    /\ queue' = queue \ {j}
    /\ taken' = taken \cup {j}
    /\ held' = [held EXCEPT ![d] = j]
    /\ Goto(d, "create")
    /\ UNCHANGED <<body, reports, task, session, errlog, faults>>

\* The error the iteration returns for a body it cannot use.  An empty body
\* reads as "no jobs available" and is no error.
BodyError(b) == CASE b = "empty"    -> "none"
                  [] b = "notJson"  -> "badBody"
                  [] b = "unpaired" -> "countMismatch"

\* Piazza hands out a job whose body the dispatcher rejects; no status is sent.
DropJob(d, j) ==
    /\ pc[d] = "poll"
    /\ j \in queue
    /\ body[j] # "wellFormed"
    /\ queue' = queue \ {j}
    /\ taken' = taken \cup {j}
    /\ Log(j, BodyError(body[j]))
    /\ Goto(d, "idle")
    /\ UNCHANGED <<body, reports, task, held, session, faults>>

\* The request for a job fails: before Piazza acted on it, or after Piazza
\* handed out a job that the dispatcher will never hear of.
PollFails(d) ==
    /\ pc[d] = "poll"
    /\ Fault
    /\ \/ UNCHANGED <<queue, taken>>
       \/ \E j \in queue : queue' = queue \ {j} /\ taken' = taken \cup {j}
    /\ Goto(d, "idle")
    /\ UNCHANGED <<body, reports, task, held, session, errlog>>

CreateTask_CheckInverted(d) ==
    /\ pc[d] = "create" /\ session[d] = "live"
    /\ Cardinality(Pending) < MaxPending
    /\ task' = [task EXCEPT ![held[d]] = "PENDING"]
    /\ Goto(d, "fail")
    /\ UNCHANGED <<queue, taken, body, reports, held, session, errlog, faults>>

CreateTask(d) ==
    /\ pc[d] = "create"
    /\ session[d] = "live"
    /\ Cardinality(Pending) < MaxPending
    /\ task' = [task EXCEPT ![held[d]] = "PENDING"]
    /\ Goto(d, "idle")
    /\ Release(d)
    /\ UNCHANGED <<queue, taken, body, reports, session, errlog, faults>>

CreateTaskMemoryLimit_Requeues(d) ==
    /\ pc[d] = "create" /\ session[d] = "live" /\ Fault
    /\ queue' = queue \cup {held[d]} /\ taken' = taken \ {held[d]}
    /\ Log(held[d], "memoryLimit") /\ Goto(d, "idle") /\ Release(d)
    /\ UNCHANGED <<body, reports, task, session>>

\* IsMemoryLimitError: the job is neither failed nor given back.
CreateTaskMemoryLimit(d) ==
    /\ pc[d] = "create"
    /\ session[d] = "live"
    /\ Fault
    /\ Log(held[d], "memoryLimit")
    /\ Goto(d, "idle")
    /\ Release(d)
    /\ UNCHANGED <<queue, taken, body, reports, task, session>>

CreateTaskFails_ForgetsJob(d) ==
    /\ pc[d] = "create" /\ Fault
    /\ Goto(d, "fail") /\ Release(d)
    /\ UNCHANGED <<queue, taken, body, reports, task, session, errlog>>

\* Any other error of CreateTask, CF having created no task.
CreateTaskFails(d) ==
    /\ pc[d] = "create"
    /\ \/ session[d] = "expired" /\ UNCHANGED faults
       \/ Fault
    /\ Goto(d, "fail")
    /\ UNCHANGED <<queue, taken, body, reports, task, held, session, errlog>>

CreateTaskReplyLost_Retries(d) ==
    /\ pc[d] = "create" /\ session[d] = "live"
    /\ Cardinality(Pending) < MaxPending
    /\ Fault
    /\ task' = [task EXCEPT ![held[d]] = "PENDING"]
    /\ UNCHANGED <<queue, taken, body, reports, pc, held, session, errlog>>

\* The request reaches CF, but its reply is late, lost or unreadable.  CF may act
\* on it long after the client has given up and SendFail has run.
CreateTaskReplyLost(d) ==
    /\ pc[d] = "create"
    /\ session[d] = "live"
    /\ Cardinality(Pending) < MaxPending
    /\ Fault
    /\ task' = [task EXCEPT ![held[d]] = "PENDING"]
    /\ Goto(d, "fail")
    /\ UNCHANGED <<queue, taken, body, reports, held, session, errlog>>

\* SendExecResultNoData, whose own error runIteration ignores.
SendFail(d) ==
    /\ pc[d] = "fail"
    /\ \/ /\ reports' = reports \cup {<<held[d], "dispatcher", "Fail">>}
          /\ UNCHANGED faults
       \/ Fault /\ UNCHANGED reports
    /\ Log(held[d], "createFailed")
    /\ Goto(d, "idle")
    /\ Release(d)
    /\ UNCHANGED <<queue, taken, body, task, session>>

Iteration(d) ==
    \/ GetSession(d) \/ GetSessionFails(d)
    \/ CountTasks(d) \/ CountTasksFails(d)
    \/ PollNoJob(d) \/ PollFails(d)
    \/ \E j \in Jobs : TakeJob(d, j) \/ DropJob(d, j)
    \/ CreateTask(d) \/ CreateTaskMemoryLimit(d)
    \/ CreateTaskFails(d) \/ CreateTaskReplyLost(d)
    \/ SendFail(d)

Environment ==
    \/ \E j \in Jobs : Submit(j) \/ StartTask(j) \/ EndTask(j)
    \/ \E d \in Dispatchers : ExpireSession(d) \/ Crash(d)

Next == Environment \/ \E d \in Dispatchers : Iteration(d)

Spec == Init /\ [][Next]_vars

\* The ticker fires for ever and main always reads the errors, so an iteration
\* goes on; CF starts the tasks it accepted and a Worker ends.
Fairness ==
    /\ \A d \in Dispatchers : WF_vars(Iteration(d))
    /\ \A j \in Jobs : WF_vars(StartTask(j)) /\ WF_vars(EndTask(j))

FairSpec == Spec /\ Fairness

-----------------------------------------------------------------------------
(* Safety. *)

Failed(j) == <<j, "dispatcher", "Fail">> \in reports
Holds(j) == {d \in Dispatchers : held[d] = j}

\* A claim is sound: the queue and the jobs handed out do not overlap, a job is
\* in the hands of at most one dispatcher and only between the poll and the
\* answer of CreateTask, nothing runs and nothing was reported for a job whose
\* task is still to be created, and only a job handed out has a task
\* (loop.go:127-175, for any interleaving of the dispatchers).
ClaimsSound ==
    /\ queue \cap taken = {}
    /\ \A d \in Dispatchers :
        /\ pc[d] \in {"create", "fail"} <=> held[d] # NoJob
        /\ held[d] # NoJob => held[d] \in taken /\ body[held[d]] = "wellFormed"
        /\ pc[d] = "create" => task[held[d]] = "none"
        /\ held[d] # NoJob => ~Failed(held[d])
        /\ \A e \in Dispatchers : held[d] = held[e] /\ held[d] # NoJob => d = e
    /\ \A j \in Jobs : task[j] # "none" \/ Failed(j) => j \in taken

\* The dispatchers that passed the check of the limit and may still create a
\* task, whatever the others have created since.
Cleared == {d \in Dispatchers : pc[d] \in {"poll", "create"}}

Capacity == TaskLimit + MaxPending + Cardinality(Dispatchers) - 1

\* Cloud Foundry never holds more tasks of the app than the limit, plus the
\* tasks accepted and not RUNNING yet, which CountTasksForApp does not see
\* (session.go:56), plus one for every further dispatcher between its check
\* and its CreateTask (loop.go:122-163), as long as one page can show
\* TaskLimit tasks.
TaskBound == PageSize >= TaskLimit => Cardinality(Active) <= Capacity

\* Why TaskBound holds: a dispatcher that passed the check has reserved the
\* place of the task it may create (loop.go:122), so what is running, pending
\* and reserved together stays within the capacity.
Reservations ==
    /\ Cardinality(Pending) <= MaxPending
    /\ PageSize >= TaskLimit =>
           Cardinality(Active) + Cardinality(Cleared) <= Capacity

\* Jobs nobody will ever report on: handed out by Piazza, usable, and neither
\* in the hands of a dispatcher, nor given a task, nor failed.
Stranded == {j \in taken : /\ body[j] = "wellFormed"
                           /\ Holds(j) = {}
                           /\ task[j] = "none"
                           /\ ~Failed(j)}

\* Jobs that have a task and were, or are about to be, reported as failed.
Contradicted == {j \in taken : task[j] # "none" /\ (Failed(j) \/ Holds(j) # {})}

\* One adverse event (a lost reply, a crash, an expired session, a refused
\* task) costs at most one job: the dispatcher takes one job at a time and
\* never mixes up two of them (loop.go:127-174).
FaultBound == Cardinality(Stranded \cup Contradicted) <= faults

\* CF is asked for a task at most once for a job, by the dispatcher that holds it,
\* and never for a job already reported as failed (loop.go:163-174).
LaunchOnce ==
    [][\A j \in Jobs : task'[j] = "PENDING" /\ task[j] # "PENDING"
                         => task[j] = "none" /\ ~Failed(j) /\ Holds(j) # {}]_vars

\* The README (line 103) calls TASK_LIMIT "the number of simultaneous Cloud
\* Foundry Tasks that the Dispatcher will be allowed to create".
TaskLimitHolds == Cardinality(Active) <= TaskLimit

-----------------------------------------------------------------------------
(* Liveness. *)

\* The error of an iteration that hits the memory limit says "will retry job
\* later" (loop.go:166).  So such a job gets its task in the end.
MemoryLimitRetried ==
    \A j \in Jobs : errlog[j] = "memoryLimit" ~> task[j] # "none"

-----------------------------------------------------------------------------
(* The dispatchers implement the life of a job as JobLifecycle promises it. *)

JobState(j) ==
    IF j \in queue THEN "waiting"
    ELSE IF j \in Active THEN "launched"
    ELSE IF task[j] = "ended" THEN "finished"
    ELSE IF j \notin taken THEN "absent"
    ELSE IF Holds(j) # {} THEN "claimed" ELSE "dropped"

Lifecycle == INSTANCE JobLifecycle WITH
                 Capacity <- Capacity,
                 state <- [j \in Jobs |-> JobState(j)]

\* Every behaviour of the dispatchers is one that JobLifecycle allows: a job
\* only moves forward, is launched at most once, never comes back after it was
\* dropped, and the tasks stay within the capacity.
ImplementsLifecycle == Lifecycle!Spec

=============================================================================
