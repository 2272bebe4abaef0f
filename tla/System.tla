-------------------------------- MODULE System --------------------------------
(***************************************************************************)
(* Dispatchers and workers together: Cloud Foundry starts a Worker for the *)
(* task a dispatcher created, and both report to the same Piazza.  The     *)
(* steps of a dispatcher are those of Dispatcher, whose variables these    *)
(* are; the workers have their own beside them.                            *)
(***************************************************************************)
EXTENDS Dispatcher

VARIABLES
    stage, done, erred, status, exit,   \* as in Worker
    posted    \* Piazza: the statuses it received from workers

workerVars == <<stage, done, erred, status, exit, posted>>
systemVars == <<vars, workerVars>>

W == INSTANCE Worker WITH reports <- posted

SystemTypeOK == TypeOK /\ W!TypeOK

SystemInit == Init /\ W!Init

\* A dispatcher sees nothing of the workers but the tasks.
Iterate(d) == Iteration(d) /\ UNCHANGED workerVars

Disturb(d) == (ExpireSession(d) \/ Crash(d)) /\ UNCHANGED workerVars

SubmitJob(j) == Submit(j) /\ UNCHANGED workerVars

StartWorker_Restarts(j) ==
    /\ task[j] \in {"PENDING", "ended"} /\ stage[j] \in {"off", "over"}
    /\ task' = [task EXCEPT ![j] = "RUNNING"]
    /\ stage' = [stage EXCEPT ![j] = "validate"]
    /\ UNCHANGED <<queue, taken, body, reports, pc, held, session, errlog, faults,
                   done, erred, status, exit, posted>>

\* Cloud Foundry places the task and starts the process in it.
StartWorker(j) == StartTask(j) /\ W!Start(j)

\* Cloud Foundry notices that the process of a task has exited, or cannot
\* place a task and gives it up.
EndWorker(j) ==
    /\ task[j] = "RUNNING" => exit[j] # "none"
    /\ EndTask(j)
    /\ UNCHANGED workerVars

Work(j) == W!Step(j) /\ UNCHANGED vars

Kill(j) == W!Kill(j) /\ UNCHANGED vars

SystemNext ==
    \/ \E d \in Dispatchers : Iterate(d) \/ Disturb(d)
    \/ \E j \in Jobs : \/ SubmitJob(j) \/ StartWorker(j) \/ EndWorker(j)
                       \/ Work(j) \/ Kill(j)

SystemSpec == SystemInit /\ [][SystemNext]_systemVars

\* As in Dispatcher; besides, a started worker goes on: its downloads and
\* ingests time out, and its commands are assumed to end.
SystemFairness ==
    /\ \A d \in Dispatchers : WF_systemVars(Iterate(d))
    /\ \A j \in Jobs : /\ WF_systemVars(StartWorker(j))
                       /\ WF_systemVars(EndWorker(j))
                       /\ WF_systemVars(Work(j))

FairSystemSpec == SystemSpec /\ SystemFairness

-----------------------------------------------------------------------------

\* The statuses Piazza has of a job, whoever sent them.
ReportsOf(j) == {r \in reports \cup posted : r[1] = j}

\* The worker of a job never ran, was stopped, or failed to report.
WorkerLost(j) == \/ task[j] = "ended" /\ exit[j] \in {"none", "killed"}
                 \/ exit[j] = "1"

\* Usable jobs that are over, that Piazza has no status of, and whose worker is
\* not to blame.
Forgotten == {j \in taken : /\ body[j] = "wellFormed"
                            /\ Holds(j) = {} /\ j \notin Active
                            /\ ReportsOf(j) = {}
                            /\ ~WorkerLost(j)}

\* Jobs with two statuses.
Disputed == {j \in Jobs : Cardinality(ReportsOf(j)) > 1}

\* Piazza gets one status for a usable job, unless an adverse event of the
\* dispatchers met it: no more jobs are forgotten, or have two statuses, than
\* there were such events, and no job has three (loop.go:163-171,
\* execresult.go:40 and 62).  The status of a worker is of a job that Piazza
\* handed out, and comes when its stages are over.
ReportsConsistent ==
    /\ Cardinality(Forgotten \cup Disputed) <= faults
    /\ \A j \in Jobs : Cardinality(ReportsOf(j)) <= 2
    /\ \A j \in Jobs : W!Reported(j) # {} => j \in taken /\ stage[j] = "over"

\* The worker processes that Cloud Foundry runs at a time.
Working == {j \in Jobs : stage[j] \notin {"off", "over"}}

\* The bound on tasks is a bound on processes: no more workers run at a time
\* than TaskBound allows, whatever the dispatchers saw of them when they counted
\* (loop.go:117-163, session.go:54-63).
WorkersBounded == PageSize >= TaskLimit => Cardinality(Working) <= Capacity

\* Put together with the workers, the dispatchers still do only what
\* Dispatcher allows, so what is proved of Dispatcher holds here.
ImplementsDispatcher == Spec

\* Why a job may end with no status: its body was of no use, an adverse event
\* stranded it, or its worker was lost.
Excused(j) == \/ j \in taken /\ body[j] # "wellFormed"
              \/ j \in Stranded
              \/ WorkerLost(j)

\* Every job submitted to the queue is reported on in the end, or is excused:
\* polling, counting, launching and working never wait for each other in a
\* circle (loop.go:108-175, worker.go:46-105).
JobReported == \A j \in Jobs : j \in queue ~> ReportsOf(j) # {} \/ Excused(j)

=============================================================================
