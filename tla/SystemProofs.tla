----------------------------- MODULE SystemProofs -----------------------------
(***************************************************************************)
(* Dispatchers and workers together, for any number of both.  Each step is *)
(* one of the dispatchers or invisible to them, and one of the workers or  *)
(* invisible to them; so the invariants of DispatcherProofs carry over,    *)
(* and what remains to be shown is how a worker and its task go together.  *)
(***************************************************************************)
EXTENDS System, DispatcherProofs

-----------------------------------------------------------------------------
(* The system implements both of its parts. *)

\* Every step is one of the dispatchers or of their environment, or none they
\* can see.
LEMMA StepOfDispatcher == [SystemNext]_systemVars => [Next]_vars
<1> SUFFICES ASSUME [SystemNext]_systemVars PROVE [Next]_vars
  OBVIOUS
<1>1. ASSUME NEW d \in Dispatchers, Iterate(d) \/ Disturb(d) PROVE Next
  BY <1>1 DEF Iterate, Disturb, Next, Environment
<1>2. ASSUME NEW j \in Jobs, SubmitJob(j) \/ StartWorker(j) \/ EndWorker(j) PROVE Next
  BY <1>2 DEF SubmitJob, StartWorker, EndWorker, Next, Environment
<1>3. ASSUME NEW j \in Jobs, Work(j) \/ Kill(j) PROVE UNCHANGED vars
  BY <1>3 DEF Work, Kill
<1>4. CASE UNCHANGED systemVars
  BY <1>4 DEF systemVars
<1> QED
  BY <1>1, <1>2, <1>3, <1>4 DEF SystemNext

\* Every step is one of a worker or of Cloud Foundry with it, or none of the
\* workers.
LEMMA StepOfWorker == [SystemNext]_systemVars => [W!Next]_(W!vars)
<1> SUFFICES ASSUME [SystemNext]_systemVars PROVE [W!Next]_(W!vars)
  OBVIOUS
<1>1. ASSUME UNCHANGED workerVars PROVE UNCHANGED W!vars
  BY <1>1 DEF workerVars, W!vars
<1>2. ASSUME NEW d \in Dispatchers, Iterate(d) \/ Disturb(d) PROVE UNCHANGED workerVars
  BY <1>2 DEF Iterate, Disturb
<1>3. ASSUME NEW j \in Jobs, SubmitJob(j) \/ EndWorker(j) PROVE UNCHANGED workerVars
  BY <1>3 DEF SubmitJob, EndWorker
<1>4. ASSUME NEW j \in Jobs, StartWorker(j) \/ Work(j) \/ Kill(j) PROVE W!Next
  BY <1>4 DEF StartWorker, Work, Kill, W!Next
<1>5. CASE UNCHANGED systemVars
  BY <1>1, <1>5 DEF systemVars
<1> QED
  BY <1>1, <1>2, <1>3, <1>4, <1>5 DEF SystemNext

\* Dispatchers and workers together do only what Dispatcher allows
\* (loop.go:108-175): whatever holds of Dispatcher holds of the system.
THEOREM SystemImplementsDispatcher == SystemSpec => ImplementsDispatcher
<1>1. SystemInit => Init
  BY DEF SystemInit
<1> QED
  BY <1>1, StepOfDispatcher, PTL DEF SystemSpec, ImplementsDispatcher, Spec

\* The workers of the system do only what Worker allows (worker.go:46-105): a
\* dispatcher or Cloud Foundry never meddles with one that runs.
THEOREM SystemImplementsWorker == SystemSpec => W!Spec
<1>1. SystemInit => W!Init
  BY DEF SystemInit
<1> QED
  BY <1>1, StepOfWorker, PTL DEF SystemSpec, W!Spec

\* So a job of the system lives as JobLifecycle promises (loop.go:108-175).
THEOREM SystemImplementsLifecycle ==
  ASSUME PageSize >= TaskLimit
  PROVE  SystemSpec => ImplementsLifecycle
  BY SystemImplementsDispatcher, DispatcherImplementsLifecycle, PTL
     DEF ImplementsDispatcher

-----------------------------------------------------------------------------
(* A worker and its task. *)

\* A worker runs in a task and has told Piazza at most its one status, when it
\* was over.
Paired(j) ==
    /\ stage[j] = "off" => task[j] # "RUNNING" /\ exit[j] = "none"
    /\ stage[j] # "off" => task[j] \in {"RUNNING", "ended"}
    /\ stage[j] \notin {"off", "over"} => task[j] = "RUNNING" /\ exit[j] = "none"
    /\ stage[j] = "over" => exit[j] # "none"
    /\ stage[j] = "post" => status[j] \in {"Success", "Error", "Fail"}
    /\ exit[j] = "0" => <<j, "worker", status[j]>> \in posted
    /\ \A r \in posted : r[1] = j => r = <<j, "worker", status[j]>> /\ stage[j] = "over"

\* All a dispatcher ever says of a job is that it failed.
OnlyFails == \A r \in reports : r = <<r[1], "dispatcher", "Fail">>

Together == /\ Claims /\ Reservations /\ FaultBound /\ OnlyFails
            /\ W!TypeOK
            /\ \A j \in Jobs : Paired(j)

LEMMA InitTogether == SystemInit => Together
<1> SUFFICES ASSUME SystemInit PROVE Together
  OBVIOUS
<1>1. Init /\ W!Init
  BY DEF SystemInit
<1>2. Claims /\ Reservations
  BY <1>1, InitClaims, InitReservations
<1>3. FaultBound
  <2>1. Stranded \cup Contradicted = {} /\ faults = 0
    BY <1>1 DEF Init, Stranded, Contradicted
  <2> QED
    BY <2>1, FS_EmptySet DEF FaultBound
<1>4. OnlyFails
  BY <1>1 DEF Init, OnlyFails
<1>5. W!TypeOK
  <2>1. [w \in Jobs |-> FALSE] \in [Jobs -> BOOLEAN]
    BY Zenon
  <2>2. erred \in [Jobs -> BOOLEAN]
    BY <1>1, <2>1 DEF W!Init
  <2> QED
    BY <1>1, <2>2 DEF W!Init, W!TypeOK, W!Stages, W!Work
<1>6. ASSUME NEW j \in Jobs PROVE Paired(j)
  BY <1>1, <1>6 DEF Init, W!Init, Paired
<1> QED
  BY <1>2, <1>3, <1>4, <1>5, <1>6 DEF Together

\* No step of a dispatcher reports anything but a failure.
LEMMA StepOnlyFails == OnlyFails /\ [Next]_vars => OnlyFails'
<1> SUFFICES ASSUME OnlyFails, [Next]_vars PROVE OnlyFails'
  OBVIOUS
<1>1. ASSUME NEW d \in Dispatchers, SendFail(d) PROVE OnlyFails'
  BY <1>1 DEF SendFail, OnlyFails
<1>2. CASE reports' = reports
  BY <1>2 DEF OnlyFails
<1>3. ASSUME NEW d \in Dispatchers, Iteration(d), ~SendFail(d) PROVE reports' = reports
  BY <1>3 DEF Iteration, GetSession, GetSessionFails, CountTasks, CountTasksFails,
     PollNoJob, PollFails, TakeJob, DropJob, CreateTask, CreateTaskMemoryLimit,
     CreateTaskFails, CreateTaskReplyLost
<1>4. CASE Environment
  BY <1>2, <1>4 DEF Environment, Submit, StartTask, EndTask, ExpireSession, Crash
<1>5. CASE UNCHANGED vars
  BY <1>2, <1>5 DEF vars
<1> QED
  BY <1>1, <1>2, <1>3, <1>4, <1>5 DEF Next

-----------------------------------------------------------------------------
(* The steps of one worker. *)

\* Doing the work of a stage, or adding an error, keeps the types.
LEMMA WorkTyped ==
  ASSUME NEW j \in Jobs, W!TypeOK, NEW work \in SUBSET W!Work, W!Did(j, work)
  PROVE  done' \in [Jobs -> SUBSET W!Work]
  BY DEF W!Did, W!TypeOK

LEMMA ErrorTyped ==
  ASSUME NEW j \in Jobs, W!TypeOK, W!AddErrors(j)
  PROVE  erred' \in [Jobs -> BOOLEAN]
<1>1. ASSUME NEW v \in Jobs PROVE [erred EXCEPT ![j] = TRUE][v] \in BOOLEAN
  BY Zenon DEF W!TypeOK
<1> QED
  BY <1>1, Zenon DEF W!AddErrors, W!TypeOK

\* The step of a worker keeps its types; what it posts is a status.
LEMMA StepTyped ==
  ASSUME NEW j \in Jobs, W!TypeOK, Paired(j), W!Start(j) \/ W!Step(j) \/ W!Kill(j)
  PROVE  W!TypeOK'
<1> USE DEF W!Enter, W!Quit
<1>1. /\ stage' \in [Jobs -> W!Stages]
      /\ exit' \in [Jobs -> {"none", "0", "1", "killed"}]
  BY DEF W!TypeOK, W!Stages, W!Start, W!Step, W!Kill, W!Validate, W!FetchInputs, W!RunVersion,
     W!RunAlgorithm, W!Ingest, W!Stage, W!UploadOutput, W!PostStatus
<1>2. status' \in [Jobs -> {"none", "Success", "Error", "Fail"}]
  BY DEF W!TypeOK, W!Start, W!Step, W!Kill, W!Validate, W!FetchInputs, W!RunVersion,
     W!RunAlgorithm, W!Ingest, W!Stage, W!UploadOutput, W!JobStatus, W!PostStatus
<1>3. erred' \in [Jobs -> BOOLEAN]
  <2>1. UNCHANGED erred \/ W!AddErrors(j)
    BY DEF W!Start, W!Step, W!Kill, W!Validate, W!FetchInputs, W!RunVersion,
       W!RunAlgorithm, W!Ingest, W!Stage, W!UploadOutput, W!PostStatus
  <2> QED
    BY <2>1, ErrorTyped DEF W!TypeOK
<1>4. done' \in [Jobs -> SUBSET W!Work]
  <2>1. UNCHANGED done \/ \E work \in SUBSET W!Work : W!Did(j, work)
    BY DEF W!Work, W!Start, W!Step, W!Kill, W!Validate, W!FetchInputs, W!RunVersion,
       W!RunAlgorithm, W!Ingest, W!Stage, W!UploadOutput, W!PostStatus
  <2> QED
    BY <2>1, WorkTyped DEF W!TypeOK
<1>5. posted' \subseteq Jobs \X {"dispatcher", "worker"} \X {"Success", "Error", "Fail"}
  <2>1. \/ posted' = posted
        \/ stage[j] = "post" /\ posted' = posted \cup {<<j, "worker", status[j]>>}
    BY DEF W!Start, W!Step, W!Kill, W!Validate, W!FetchInputs, W!RunVersion,
       W!RunAlgorithm, W!Ingest, W!Stage, W!UploadOutput, W!PostStatus
  <2> QED
    BY <2>1 DEF W!TypeOK, Paired
<1> QED
  BY <1>1, <1>2, <1>3, <1>4, <1>5 DEF W!TypeOK

\* The step of a worker concerns its own job alone.
LEMMA OthersStay ==
  ASSUME NEW j \in Jobs, W!TypeOK, W!Start(j) \/ W!Step(j) \/ W!Kill(j)
  PROVE  /\ \A k \in Jobs : k # j => /\ stage'[k] = stage[k] /\ exit'[k] = exit[k]
                                     /\ status'[k] = status[k]
         /\ posted \subseteq posted'
         /\ \A r \in posted' : r \in posted \/ r[1] = j
  BY DEF W!TypeOK, W!Enter, W!Quit, W!Start, W!Step, W!Kill, W!Validate, W!FetchInputs,
     W!RunVersion, W!RunAlgorithm, W!Ingest, W!Stage, W!UploadOutput, W!PostStatus

\* It starts in a task that runs, and goes on in it until it is over.
LEMMA StepPaired ==
  ASSUME NEW j \in Jobs, Together,
         \/ StartTask(j) /\ W!Start(j)
         \/ (W!Step(j) \/ W!Kill(j)) /\ UNCHANGED vars,
         NEW k \in Jobs
  PROVE  Paired(k)'
<1> USE DEF Together, Claims, TypeOK, W!TypeOK, W!Enter, W!Quit
<1>1. CASE k # j
  <2>1. task'[k] = task[k]
    BY <1>1 DEF StartTask, vars
  <2> QED
    BY <1>1, <2>1, OthersStay DEF Paired
<1>2. CASE k = j
  <2>1. CASE StartTask(j) /\ W!Start(j)
    BY <1>2, <2>1 DEF StartTask, W!Start, Paired
  <2>2. CASE (W!Step(j) \/ W!Kill(j)) /\ UNCHANGED vars
    <3>1. task' = task
      BY <2>2 DEF vars
    <3>2. CASE W!PostStatus(j)
      BY <1>2, <3>1, <3>2 DEF W!PostStatus, Paired
    <3>3. CASE W!UploadOutput(j)
      <4>1. PICK s \in {"Success", "Error", "Fail"} : status' = [status EXCEPT ![j] = s]
        BY <3>3 DEF W!UploadOutput, W!JobStatus
      <4>2. stage[j] = "upload" /\ stage' = [stage EXCEPT ![j] = "post"]
            /\ exit' = exit /\ posted' = posted
        BY <3>3 DEF W!UploadOutput
      <4>3. /\ task[j] = "RUNNING" /\ exit[j] = "none"
            /\ \A r \in posted : r[1] # j
        BY <4>2 DEF Paired
      <4>4. stage'[j] = "post" /\ status'[j] = s
        BY <4>1, <4>2
      <4> QED
        BY <1>2, <3>1, <4>2, <4>3, <4>4 DEF Paired
    <3>4. CASE W!Validate(j) \/ W!Kill(j)
      BY <1>2, <3>1, <3>4 DEF W!Validate, W!Kill, Paired
    <3>5. CASE W!FetchInputs(j) \/ W!RunVersion(j) \/ W!Ingest(j) \/ W!RunAlgorithm(j)
      BY <1>2, <3>1, <3>5 DEF W!FetchInputs, W!RunVersion, W!Ingest, W!Stage,
         W!RunAlgorithm, Paired
    <3> QED
      BY <2>2, <3>2, <3>3, <3>4, <3>5 DEF W!Step
  <2> QED
    BY <2>1, <2>2
<1> QED
  BY <1>1, <1>2

\* A dispatcher creates a task for a job that has none and changes no other;
\* Cloud Foundry ends a task whose worker is over or was never started.
LEMMA TaskPaired ==
  ASSUME NEW j \in Jobs, Paired(j), UNCHANGED workerVars,
         \/ task'[j] = task[j]
         \/ task[j] = "none" /\ task'[j] = "PENDING"
         \/ task'[j] = "ended" /\ (task[j] = "RUNNING" => exit[j] # "none")
  PROVE  Paired(j)'
  BY DEF Paired, workerVars

\* Every step of the system keeps all of it.
LEMMA StepTogether == Together /\ [SystemNext]_systemVars => Together'
<1> SUFFICES ASSUME Together, [SystemNext]_systemVars PROVE Together'
  OBVIOUS
<1>1. Claims' /\ Reservations' /\ FaultBound' /\ OnlyFails'
  BY StepOfDispatcher, StepClaims, StepReservations, StepFaultBound, StepOnlyFails
     DEF Together
<1>2. ASSUME UNCHANGED workerVars PROVE W!TypeOK'
  BY <1>2 DEF workerVars, W!TypeOK, Together
<1>3. ASSUME NEW j \in Jobs, StartWorker(j) \/ Work(j) \/ Kill(j) PROVE Together'
  <2>1. W!TypeOK'
    BY <1>3, StepTyped DEF StartWorker, Work, Kill, Together
  <2>2. ASSUME NEW k \in Jobs PROVE Paired(k)'
    BY <1>3, StepPaired DEF StartWorker, Work, Kill
  <2> QED
    BY <1>1, <2>1, <2>2 DEF Together
<1>4. ASSUME UNCHANGED workerVars,
             \A j \in Jobs :
                \/ task'[j] = task[j]
                \/ task[j] = "none" /\ task'[j] = "PENDING"
                \/ task'[j] = "ended" /\ (task[j] = "RUNNING" => exit[j] # "none")
      PROVE  Together'
  BY <1>1, <1>2, <1>4, TaskPaired DEF Together
<1> USE DEF Together, Claims, TypeOK
<1>5. ASSUME NEW d \in Dispatchers, Iterate(d) PROVE Together'
  <2>1. CASE task' = task
    BY <1>4, <1>5, <2>1 DEF Iterate
  <2>2. CASE CreateTask(d) \/ CreateTaskReplyLost(d)
    <3>1. task[held[d]] = "none" /\ task' = [task EXCEPT ![held[d]] = "PENDING"]
      BY <2>2 DEF CreateTask, CreateTaskReplyLost, ClaimsSound
    <3> QED
      BY <1>4, <1>5, <3>1 DEF Iterate
  <2> QED
    BY <1>5, <2>1, <2>2 DEF Iterate, Iteration, GetSession, GetSessionFails, CountTasks,
       CountTasksFails, PollNoJob, PollFails, TakeJob, DropJob, CreateTaskMemoryLimit,
       CreateTaskFails, SendFail
<1>6. ASSUME NEW d \in Dispatchers, Disturb(d) PROVE Together'
  BY <1>4, <1>6 DEF Disturb, ExpireSession, Crash
<1>7. ASSUME NEW j \in Jobs, SubmitJob(j) PROVE Together'
  BY <1>4, <1>7 DEF SubmitJob, Submit
<1>8. ASSUME NEW j \in Jobs, EndWorker(j) PROVE Together'
  BY <1>4, <1>8 DEF EndWorker, EndTask
<1>9. CASE UNCHANGED systemVars
  BY <1>4, <1>9 DEF systemVars, vars
<1> QED
  BY <1>3, <1>5, <1>6, <1>7, <1>8, <1>9 DEF SystemNext

LEMMA AlwaysTogether == SystemSpec => []Together
  BY InitTogether, StepTogether, PTL DEF SystemSpec

-----------------------------------------------------------------------------
(* The theorems. *)

\* Every variable of dispatchers and workers keeps its type.
THEOREM TypesCorrect == SystemSpec => []SystemTypeOK
<1>1. Together => SystemTypeOK
  BY DEF Together, Claims, SystemTypeOK
<1> QED
  BY AlwaysTogether, <1>1, PTL

\* The statuses of a job are at most the failure a dispatcher reported and the
\* one status of its worker.
LEMMA TwoReports ==
  ASSUME Together, NEW j \in Jobs
  PROVE  /\ ReportsOf(j) \subseteq {<<j, "dispatcher", "Fail">>, <<j, "worker", status[j]>>}
         /\ IsFiniteSet(ReportsOf(j))
         /\ Cardinality(ReportsOf(j)) <= 2
         /\ Cardinality(ReportsOf(j)) > 1
               => Failed(j) /\ <<j, "worker", status[j]>> \in posted
<1> DEFINE fail == <<j, "dispatcher", "Fail">>
           last == <<j, "worker", status[j]>>
<1>1. \A r \in reports : r[1] = j => r = fail
  BY DEF Together, OnlyFails
<1>2. \A r \in posted : r[1] = j => r = last
  <2>1. Paired(j)
    BY DEF Together
  <2> QED
    BY <2>1 DEF Paired
<1>3. ReportsOf(j) \subseteq {fail, last}
  BY <1>1, <1>2 DEF ReportsOf
<1>4. /\ IsFiniteSet({fail}) /\ Cardinality({fail}) = 1
      /\ IsFiniteSet({last}) /\ Cardinality({last}) = 1
  BY FS_Singleton
<1>5. IsFiniteSet({fail, last}) /\ Cardinality({fail, last}) \in Nat /\ Cardinality({fail, last}) <= 2
  <2>1. {fail, last} = {fail} \cup {last}
    OBVIOUS
  <2>2. IsFiniteSet({fail, last}) /\ Cardinality({fail, last}) <= Cardinality({fail}) + 1
    BY <1>4, <2>1, AddOne
  <2> QED
    BY <1>4, <2>2, FS_CardinalityType
<1>6. /\ IsFiniteSet(ReportsOf(j)) /\ Cardinality(ReportsOf(j)) \in Nat
      /\ Cardinality(ReportsOf(j)) <= 2
  <2>1. /\ IsFiniteSet(ReportsOf(j))
        /\ Cardinality(ReportsOf(j)) <= Cardinality({fail, last})
    BY <1>3, <1>5, FS_Subset
  <2> QED
    BY <1>5, <2>1, FS_CardinalityType
<1>7. Cardinality(ReportsOf(j)) > 1 => fail \in reports /\ last \in posted
  <2> SUFFICES ASSUME ~(fail \in reports /\ last \in posted)
               PROVE  Cardinality(ReportsOf(j)) <= 1
    BY <1>6
  <2>1. ReportsOf(j) \subseteq {fail} \/ ReportsOf(j) \subseteq {last}
    BY <1>1, <1>2 DEF ReportsOf
  <2> QED
    BY <1>4, <2>1, FS_Subset
<1> QED
  BY <1>3, <1>6, <1>7 DEF Failed

\* A forgotten job was stranded by the dispatchers, a disputed one failed by
\* them although it has a task.
LEMMA HarmedByDispatchers ==
  ASSUME Together
  PROVE  Forgotten \subseteq Stranded /\ Disputed \subseteq Contradicted
<1>1. ASSUME NEW j \in Forgotten PROVE j \in Stranded
  <2>1. /\ j \in Jobs /\ j \in taken /\ body[j] = "wellFormed" /\ Holds(j) = {}
        /\ task[j] \in {"none", "ended"} /\ ReportsOf(j) = {} /\ ~WorkerLost(j)
    BY <1>1 DEF Forgotten, Together, Claims, TypeOK, TaskStates, Active, Pending, Running
  <2>2. ~Failed(j)
    <3>1. <<j, "dispatcher", "Fail">>[1] = j
      OBVIOUS
    <3> QED
      BY <2>1, <3>1 DEF ReportsOf, Failed
  <2>3. task[j] # "ended"
    <3>1. <<j, "worker", status[j]>> \notin posted
      BY <2>1 DEF ReportsOf
    <3>2. exit[j] # "0" /\ exit[j] \in {"none", "0", "1", "killed"}
      BY <2>1, <3>1 DEF Together, Paired, W!TypeOK
    <3> QED
      BY <2>1, <3>2 DEF WorkerLost
  <2> QED
    BY <2>1, <2>2, <2>3 DEF Stranded
<1>2. ASSUME NEW j \in Disputed PROVE j \in Contradicted
  <2>1. j \in Jobs /\ Failed(j) /\ <<j, "worker", status[j]>> \in posted
    BY <1>2, TwoReports DEF Disputed
  <2>2. stage[j] = "over" /\ task[j] # "none"
    BY <2>1 DEF Together, Paired
  <2>3. j \in taken
    BY <2>1 DEF Together, Claims, ClaimsSound
  <2> QED
    BY <2>1, <2>2, <2>3 DEF Contradicted
<1> QED
  BY <1>1, <1>2

\* However many dispatchers, jobs and adverse events there are: one adverse
\* event costs at most one job its status or gives it two
\* (loop.go:163-171, execresult.go:40 and 62).
THEOREM ReportsAreConsistent == SystemSpec => []ReportsConsistent
<1>1. ASSUME Together PROVE ReportsConsistent
  <2>1. Cardinality(Forgotten \cup Disputed) <= faults
    <3>1. Forgotten \cup Disputed \subseteq Stranded \cup Contradicted
      BY <1>1, HarmedByDispatchers
    <3>2. Stranded \cup Contradicted \subseteq Jobs /\ faults \in Nat
      BY <1>1, BoundAssumption DEF Together, Claims, TypeOK, Stranded, Contradicted
    <3>3. IsFiniteSet(Stranded \cup Contradicted)
      BY <3>2, JobsAssumption, FS_Subset
    <3>4. /\ Cardinality(Forgotten \cup Disputed) <= Cardinality(Stranded \cup Contradicted)
          /\ Cardinality(Forgotten \cup Disputed) \in Nat
          /\ Cardinality(Stranded \cup Contradicted) \in Nat
      BY <3>1, <3>3, FS_Subset, FS_CardinalityType
    <3> QED
      BY <1>1, <3>2, <3>4 DEF Together, FaultBound
  <2>2. ASSUME NEW j \in Jobs PROVE Cardinality(ReportsOf(j)) <= 2
    BY <1>1, TwoReports
  <2>3. ASSUME NEW j \in Jobs, W!Reported(j) # {} PROVE j \in taken /\ stage[j] = "over"
    <3>1. stage[j] = "over"
      BY <1>1, <2>3 DEF W!Reported, Together, Paired
    <3>2. task[j] # "none"
      BY <1>1, <3>1 DEF Together, Paired
    <3> QED
      BY <1>1, <3>1, <3>2 DEF Together, Claims, ClaimsSound
  <2> QED
    BY <2>1, <2>2, <2>3 DEF ReportsConsistent
<1> QED
  BY AlwaysTogether, <1>1, PTL

\* A worker runs in a task, so the bound on tasks is one on processes
\* (loop.go:117-163, session.go:54-63).
THEOREM WorkersAreBounded == SystemSpec => []WorkersBounded
<1>1. ASSUME Together PROVE WorkersBounded
  <2>1. Working \subseteq Active
    BY <1>1 DEF Together, Paired, Working, Active, Running
  <2>2. Cardinality(Working) \in Nat /\ Cardinality(Working) <= Cardinality(Active)
    BY <2>1, SizesOfTasks, FS_Subset, FS_CardinalityType
  <2> QED
    BY <1>1, <2>2, SizesOfTasks, LimitAssumption, BoundAssumption
       DEF Together, Reservations, Capacity, WorkersBounded
<1> QED
  BY AlwaysTogether, <1>1, PTL

=============================================================================
