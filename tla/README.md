# Formal models of pzsvc-exec

pzsvc-exec serves command-line algorithms to Piazza. A **Dispatcher** polls
Piazza for jobs of one service and creates a Cloud Foundry (CF) task for each; in
the task a **Worker** downloads the inputs, runs the algorithm, ingests the
outputs and reports a status. This directory holds TLA+ models of both, the TLC
runs that check them on small instances and proofs checked by TLAPS. Paths below
are relative to the repository.

## 1. The system

| component | code | state it keeps | operations |
|---|---|---|---|
| polling loop | `dispatcher/poll/loop.go` | nothing between iterations; one job in local variables | `runIteration` every 5 s |
| start and stop of the loop | `loop.go:79-106`, `dispatcher/main.go:117` | a stop channel, an error channel | `Start`, `Stop`, the `range` of `main` |
| CF session factory | `dispatcher/cfwrapper` | one cached session | `GetSession`, `IsValid`, `CountTasksForApp`, `CreateTask` |
| start-up, discovery | `dispatcher/main.go`, `pzsvc_discover.go`, `pzsvc/service.go`, `pzsvc/config.go` | the service ID | the checks of `main`, `checkConfig`, `discoverSvcID`, `ParseConfigAndRegister`, `ManageRegistration`, `NewLoop` |
| task request | `loop.go:189-262`, `http.go:292-313`, `worker/config` | defaults from the environment | `parseJobInput`, `buildWorkerCommand`, `calculateDiskAndMemoryLimits`, read back by `runCmd`, `ParseInputSource` |
| worker | `worker/cmd.go`, `worker/workerexec`, `pzsvc/execresult.go` | the output data of one job | `runCmd`, `Exec`, `OutputToPiazza`, `SendExecResultData` |
| input download | `worker/input` | files, one goroutine and channel per input | `FetchInputs`, `DownloadInputAsync`, `CheckAndOpen` |
| output ingest | `worker/ingest`, `pzsvc/file.go`, `pzsvc/http.go` | two goroutines and channels per output | `OutputFilesToPiazza`, `ingestFileAsync`, `IngestFile`, `GetJobResponse` |
| HTTP helpers, logging | `pzsvc/http.go`, `pzsvc/utils.go`, `worker/log` | a shared client | requests, log lines |

Dispatchers and workers share no memory. They meet in two outside services:
Piazza (the job queue of the service, the statuses, the ingested files, the list
of services) and CF (the tasks of the app). All instances of the dispatcher use
one application ID and one service ID, so they compete for the same queue and
the same limit.

What is hard here:

* **check, then act, across processes.** An iteration counts the tasks, polls,
  and creates a task with three separate requests (`loop.go:117-163`); discovery
  searches and then registers (`service.go:63-75`); a download stats a file and
  then opens it (`file_checker.go:16-23`).
* **one copy of a job.** Between the poll and `CreateTask` the job exists in the
  local variables of one dispatcher; a crash, a lost reply, a lost status or the
  memory limit meets it there.
* **two reporters.** Dispatcher and worker both send statuses for a job.
* **unbuffered channels** between goroutines that may stop listening: `Stop`
  against the error channel, an ingest that outlives its timeout.
* **a chain of fallible stages** that must end in one true status.
* **two readers of one configuration.** Dispatcher and worker look for the same
  settings by different rules, and what one writes into a command the other
  cuts up again.
* **two clocks**: the timer of an ingest and the polls of its job.

`PROJECT.json` lists each hazard at its line with the properties about it.

## 2. The modules

| module | models | composed of |
|---|---|---|
| `Dispatcher` | N dispatchers, Piazza's queue, CF's tasks, the cached sessions | |
| `JobLifecycle` | what is promised of a job, with no dispatcher in sight | |
| `PollLoop` | `Start`, `Stop`, the ticker, the reader of the errors | |
| `Registration` | discovery and registration of dispatchers that start together | extends `Settings` |
| `Worker` | the stages of workers, one per job | |
| `Settings` | configuration and environment, and what each program makes of them | |
| `TaskRequest` | from the text of a job to the inputs of its worker and the limits of its task | extends `Settings` |
| `Gather` | what a concurrent stage promises, with no word about goroutines | |
| `Downloads` | `FetchInputs` and its goroutines | extends `Settings`, implements `Gather` |
| `JobPolling` | what `GetJobResponse` makes of one answer | |
| `Ingest` | `OutputFilesToPiazza`, its nested goroutines and their polls | extends `JobPolling`, implements `Gather` |
| `System` | dispatchers and workers together | extends `Dispatcher`, `INSTANCE Worker` |
| `DispatcherProofs`, `PollLoopProofs`, `RegistrationProofs`, `WorkerProofs`, `SystemProofs`, `TaskRequestProofs`, `DownloadsProofs`, `IngestProofs` | theorems | |
| `MC*` | the values of constants, and symmetry, for TLC | |

### Dispatcher

One action per outcome of each request of `runIteration`, so anything may
happen between two of them. `pc` is the request a dispatcher is at:

| `pc` | code | actions |
|---|---|---|
| `idle` | `loop.go:111`, `factory.go:36-67` | `GetSession`, `GetSessionFails` |
| `count` | `loop.go:117-125`, `session.go:54-63` | `CountTasks`, `CountTasksFails` |
| `poll` | `loop.go:127-149` | `TakeJob`, `DropJob`, `PollNoJob`, `PollFails` |
| `create` | `loop.go:163-175` | `CreateTask`, `CreateTaskMemoryLimit`, `CreateTaskFails`, `CreateTaskReplyLost` |
| `fail` | `loop.go:168-172`, `execresult.go:33-42` | `SendFail` |

`session` is `cachedSession`: a live one may expire at any time; `GetSession`
ends with a live session or an error. A job body is one of four kinds, those
`runIteration` tells apart (usable, empty, no JSON, names and URLs that do not
pair). `queue` and `taken` are Piazza's: a job is handed out once. `README.md:95`
of the repository says that Piazza gives a job up after `MaxRunTime`; no code
here depends on what it then does, and the models leave it out. `errlog` is the
error an iteration sends to `main`. Each adverse event (an expired session, a
failed or lost request, a crash, CF refusing a task) counts in `faults`; what
follows from one (a request with an expired session) does not count again.

The count is of RUNNING tasks, and of one page of them (`PageSize`), as the
client reads it. A task is `PENDING` from the request that asked for it until CF
starts it. That includes a request CF acts on only after the client has given up:
CF counts neither, so no dispatcher can tell the two apart. `EndTask` covers the
end of the worker, a task CF could not place, and a request it refused too late
for anyone to hear.

### The other components

* **PollLoop**: the send and the receive on an unbuffered channel are one step.
  A tick that finds one waiting is dropped. `select` is a free choice of the
  ready cases.
* **Registration**: it starts from every configuration that `main` lets pass
  (`Starts`) and computes from it whether a registration is allowed
  (`CanRegister`, from `checkConfig` and the environment). The service may be known
  to Piazza already. `find`, `manage`, `post` or `put`, `again` are the requests
  of `discoverSvcID` and `ManageRegistration` in their order. Piazza lists a
  service some time after it was registered; being slower than the second the
  code waits (`pzsvc_discover.go:33`) is an adverse event. A request that fails
  with no response ends the process if audit logging is on, because
  `LogAuditResponse` reads the response (`utils.go:131-139`).
* **Worker**: a stage does its work or adds an error and goes to the report.
  `done` remembers what really took place. The status is formed in two steps,
  the ingest of the output data (`execresult.go:51-59`), which may turn it into
  `Fail`, and one POST that may be lost on either way.
* **Settings**: a configuration is a record of which fields are given; a
  variable it names may be unset. A number in the environment is unset, junk, or
  a number: where the error of `Atoi` is ignored junk counts as 0.
* **TaskRequest**: one job on its way, the HEAD requests for its sizes one step
  each, any of which may fail. A text is the sequence of the pieces between its
  colons, so the `%s:%s` of `buildWorkerCommand` is a concatenation and
  `SplitN(":", 2)` is its head and its tail. `space` is what the files take up,
  rounded up; the code has no such variable, the property about the disk needs
  it. Lengths are numbers: a `Content-Length` that is no number is a failed
  request.
* **Downloads**: the settings are any texts; without a request the response is
  nil and the goroutine panics. That is two steps, for its deferred calls close the
  channel before the process ends, and in between `FetchInputs` may take the input
  for fetched. `CheckAndOpen` is two steps. A file holds the set of inputs that
  were written to it. `err` is the one variable of the retry loop, which has no
  exit on success.
* **Ingest**: an inner goroutine submits and polls, an outer one selects between
  its result and the timer, the caller collects in order. Each poll gets one of
  the `Answers` of Piazza and goes by its `Outcome`: again, the data ID, an
  error, or a nil pointer that ends the worker. The clock counts minutes and does
  not pass a timer that is due. The 300 polls with a second between them last at
  least `PollMinutes`; their exact number is left out.
* **Gather**: the parts of a stage are settled once each, in any order; the
  caller hears of settled parts, of each once, its errors are exactly those that
  failed, and it returns only when it has heard of all. For `Downloads` and `Ingest` a part is settled when its (outer)
  goroutine has a final answer; the caller has heard of those it has taken, and
  of the outputs that never got a call.
* **System**: the variables of `Dispatcher` and, beside them, those of the
  workers. `StartWorker` is `StartTask` of CF and `Start` of the worker in one
  step. `EndWorker` waits for the process of a running task; the statuses
  Piazza received are kept apart by their sender, `reports` from dispatchers and
  `posted` from workers, and `ReportsOf` puts them together again.

## 3. The runs

Bounds are constants of the modules: `MaxPending` (tasks accepted, not started),
`MaxFaults` (adverse events), `MaxErrors`, `MaxMinutes`. Run `x` is module `MCX`
under `X.cfg`.

| run | instance | shows |
|---|---|---|
| `dispatcher` | 2 dispatchers, 4 jobs, limit 1, 2 faults | a job has one holder (`ClaimsSound`); a fault costs at most one job (`FaultBound`); the true bound on tasks (`TaskBound`) and its reason (`Reservations`); a task is created once (`LaunchOnce`); refinement of `JobLifecycle` |
| `pollloop` | 4 errors | no iteration after `Stop`, no error lost; `Stop` ends everything; without it polling goes on |
| `registration` | 2 dispatchers, 5 ids, 2 faults | only listed services are polled, duplicates are bounded; all dispatchers poll in the end if the application is named and the service is known or may be registered, and none ever does otherwise (`AllPoll`) |
| `worker` | 2 workers | the status is true and is sent once |
| `system` | 1 dispatcher, 2 jobs of any kind, 1 fault | no more jobs are forgotten or get two statuses than there were faults (`ReportsConsistent`); every job is reported or has a named excuse; refinement of `Dispatcher` |
| `ingest` | 3 outputs, 2 names, any answers, a timer shorter than the polls | what is returned is what Piazza holds; a goroutine left behind and a job that never completed have one cause, the timer; the caller returns although Piazza may hang; refinement of `Gather` |
| `downloads` | 3 inputs, 2 names, retries and timeout unset, junk, -1 or 1 | files hold their inputs or namesakes of them (`InputsWhole`), existing files are kept, errors are attributed; all goroutines end, but for a panic with a negative number of retries and for hung downloads without a timeout (`AllEnd`); refinement of `Gather` |
| `taskrequest` | up to 2 inputs, names with and without a colon, all configurations that start a dispatcher | what the worker reads is what the job named (`InputsIntact`); its disk has room (`RoomForInputs`); the reasons why a job gets no worker are these and no others (`ExitsExplained`, `JobGetsWorker`), and with a limit that is no positive number the job stays in the queue |

Why the instances are large enough:

* `dispatcher`: the capacity is 1 + 1 + 2 - 1 = 3 tasks and there are four jobs, so
  the bound is met by the model and not by the instance; two dispatchers
  interleave between every two requests; two adverse events can meet one job or
  two. Of the bodies that are no use it has one kind: they differ only in the
  error that is logged. `system` has all four.
* `registration`: dispatchers and faults can use up four ids, and there are five.
* `downloads`, `ingest`: three indices with two names have a pair that shares one
  and a third beside it. Only the order of the two clocks of an ingest matters, so
  the timer is at one minute and the end of the polls at two; the theorem on
  `LateOnlyAfterTimeout` has them at any minutes in this order.
* `taskrequest`: two inputs are what a sum needs, one told and one not; the
  lengths are one byte below a megabyte, one megabyte, and almost the largest 32
  bits hold. The theorem on `RoomForInputs` has any number of inputs, among them
  the many small ones whose sum is 0.
* `pollloop`: an error may be awaited while a `Stop` is called, twice over.

`CHECK_DEADLOCK FALSE` stands where a component ends: a worker exits, a fetch or
an ingest returns, a discovery finds its service. In the other runs TLC also
checks that there is always a next step.

### Disagreements found

Four runs check one sentence of the repository each, and TLC refutes it:

* `dispatcher_limit`: `TASK_LIMIT` is "the number of simultaneous Cloud Foundry
  Tasks" (`README.md:103`); tasks that are not RUNNING are not counted
  (`session.go:56`), and a second one is created while the first is still pending.
  `TaskBound` is the bound that does hold.
* `dispatcher_retry`: "CF memory limit hit, will retry job later" (`loop.go:166`);
  the job is neither kept nor given back.
* `downloads_race`: "checks that a file of the given name does not already
  exist, then opens it" (`file_checker.go:14`); not when two inputs share a name.
* `taskrequest_address`: "Either one of the `PzAddr` parameters is required"
  (`README.md:79`, likewise `pzsvc/config.go:27`); a worker looks at `PzAddrEnVar`
  alone (`cmd.go:77-82`), so with `PzAddr` alone the dispatcher works and every
  worker it starts exits at once.

Other statements are contradicted by the code as it reads, or by a property
above, so no run is spent on them. `Fail` is "failure prior to running the job" (`model.go:364`): the
dispatcher also reports it when the reply of `CreateTask` is lost
(`CreateTaskReplyLost`, then `SendFail`), the worker when its output data could
not be ingested (`UploadOutput`). And `ingest_async.go:22` allows an ingest one
minute, where the timer is of three (`:65`, `TimeoutMinutes`). The default of
`TASK_LIMIT` is 5 in `README.md:103` and 3 in `loop.go:60`. `ManageRegistration`
registers a service "if it has not" been (`service.go:54-56`): two dispatchers
that start together both do, and `DuplicatesBounded` says how often that can
happen. A worker whose job names no GeoJSON output exits before it could report
(`cmd.go:93-95`, `ExitsExplained`), where `README.md:21` has it send "any results
or status updates back"; inputs in Piazza and outputs that are no GeoJSON, which
`InpStruct` has fields for, are dropped without a word (`loop.go:218-225`).

## 4. Fairness

* An iteration goes on: the ticker fires for ever and `main` reads every error
  (`PollLoop` checks that this never stops). This assumes that each request ends.
  For CF the client has a timeout (`main.go:105-106`); for Piazza it has none
  (`http.go:32-41`), so a hung request is outside what the liveness of
  `Dispatcher`, `Registration` and `System` covers.
* CF starts the tasks it accepted and notices their end; it restarts dispatchers.
* `PollLoop` has strong fairness on the two cases of `select`, which Go chooses
  at random among the ready ones.
* `Downloads`: a request or a copy of a body ends if the client has a timeout
  (`download_async.go:14-32`); with an `HTTP_TIMEOUT` that is not a positive
  number it has none, and nothing is assumed of a goroutine that waits for a server
  (`Waits`). All other steps of a goroutine, a panic among them, are taken.
* `TaskRequest` assumes that the HEAD requests end, like those of `Dispatcher`.
* `Ingest` assumes nothing of the goroutines that talk to Piazza.
* `System` assumes that the algorithm ends.

## 5. The proofs

All theorems are for any sets of dispatchers and jobs and any bounds, under the
named assumptions of the modules (finite sets, natural limits).

**Dispatcher.** `TypeOK` and `ClaimsSound` are inductive together (`Claims`): that
`SendFail` reports a job, and not nothing, is a claim. `LaunchesOnce` is then a
fact about one step. `TaskBound` is not inductive: it says nothing of the
dispatchers that have passed the check and will create a task. `Reservations`
counts a dispatcher between its check and its `CreateTask` (`Cleared`) as if its
task were there: what is active plus what is cleared stays within the capacity. A
check that succeeds saw fewer than `TaskLimit` RUNNING tasks, at most
`MaxPending` are pending and at most N - 1 others are cleared, so there is room
for one more; a creation turns a reservation into a task. It needs
`PageSize >= TaskLimit`: a smaller page makes the count useless. `FaultBound`
follows from a case split of the actions into harmless ones and those that
strand or contradict one job and count a fault. `DispatcherImplementsLifecycle`
maps each step to a step of one job or to a stutter, using `Claims` (no other
dispatcher holds the job) and `Reservations` (`Launch` has room), also under
`PageSize >= TaskLimit`.

**PollLoop.** The count of errors is what bounds `received`, so it is preserved
with the types (`Counted`); `QuietAfterStop` is inductive by itself.

**Worker.** `VerdictTrue` looks only at what was reported. `Sound` adds, for every
stage, what was done (`DoneBy`) and which verdict is on its way (`Verdict`).

**Registration.** `PollsListed` follows from `Located`, which speaks of the point
between finding a service and polling too. `DuplicatesBounded` is not inductive:
`FewApply` also counts the applicants, the dispatchers that may still register
without a further adverse event. A registration ends an application; one whose
answer is lost, a crash and a failed search start one anew and each is an adverse
event; and an exit without an adverse event happens only while nothing is
registered, or after Piazza listed a service, when no start is an application. A
service known from the start is registered and listed, so nobody applies at all;
there is a dispatcher, which makes room for it in the bound.

**System.** A step of a dispatcher or of CF is one of `Dispatcher`, any other
changes nothing a dispatcher knows of; likewise for `Worker`. So
`SystemSpec => ImplementsDispatcher`, `SystemSpec => W!Spec`, and through the
first `ImplementsLifecycle`. The invariants of `DispatcherProofs` are kept by a
step of `Dispatcher`, so they are kept by one of the system (`StepTogether`); what
has to be added is `Paired`, how a worker and its task go together: a worker that
is not over is in a RUNNING task and has reported nothing, one that is over has an
exit code, and code 0 means that Piazza has its status. Then a forgotten job is
one of the `Stranded` and a disputed one is one of the `Contradicted`
(`HarmedByDispatchers`: had a worker run to its end and not been lost, Piazza
would have its status), so `FaultBound` gives `ReportsAreConsistent`. That a job
has two statuses at most needs `OnlyFails` too. `WorkersAreBounded` is
`Reservations` and the fact that a worker in a stage is in a RUNNING task; it is a
theorem only, because an instance in which it could fail has more jobs than the
capacity, too many for the liveness checked in run `system`.

**Ingest.** `Chain` is about the two goroutines of a file: one result, one answer,
taken once. That a result `never` is not heard is part of it, because a timer
that is due has fired before the clock goes on. `Counted` says that the errors
are the cardinality of the files that are bad so far, `Ids` what has been
collected. `Bad` changes by one file where the caller takes an answer
(`HandleAnswerCounts`) and not at all elsewhere (`CountsKept`). At the end the
bad files and the ingested ones make up all files (`AtTheEnd`). For `IngestImplementsGather`,
the files that are bad so far are those the caller has heard of whose fate is bad
(`ToldSettled`), and a goroutine, a late result or a timer settles only a file
that was open (`OthersSettle`).

**Downloads.** `Course` says of each place in a goroutine what its error is and
whether it is known. `InputsWhole` says nothing of a file while others that share
it are at work, so `Written` does: the file of an input that is done has something
in it, or one that shares it has emptied it and not written to it since (`Opened`).
Such a one ends with a write, an error or a panic; without an error, and with
retries that are not negative, none is left at the end. `OwnInputs` says who may
write to a file at all. For
`DownloadsImplementGather`, a goroutine settles its own input and that once
(`GoroutineSettles`), and `Course` says that the input whose channel is read is
settled and not yet among the errors.

**TaskRequest.** `Limits` carries the sum through the HEAD requests: what is lost
by rounding down is at most a megabyte for each file so far (`Rounding`), and the
disk has twice the sum, so it lacks two megabytes an input at most.
`FirstColon` is the lemma on texts: the head and the tail of a concatenation are
its two parts exactly if the first part is a single piece.

Model-checked only: the liveness properties (`StopHalts`, `KeepsPolling`,
`AllPoll`, `JobReported`, `AlwaysReturns`, `AllEnd`, `JobGetsWorker`), which are out of the
prover's reach. Every safety property of a passing run is also a theorem, and so is
the type invariant of `System`, which no run needs to check on top of
`ImplementsDispatcher`.
This version of the prover does not use a theorem of an instantiated module as a
fact. That is why `System` extends `Dispatcher`, whose theorems it needs, and why
`VerdictTrue` and `OneStatus` are not restated for it: they are theorems of
`Worker`, and `SystemImplementsWorker` says that its workers are such workers.

## 6. Not modelled

* The text of log lines, the layout of requests, the multipart bodies, the port
  and the version that are computed along with a registration: they decide
  nothing.
* What the shell of a container makes of the text of a command. Names and URLs
  are taken to have no blank; one with a blank would be two arguments
  (`loop.go:227`).
* The output data of a worker beyond its errors (`worker.go`, `model.go`), and
  what the commands print.
* The creation of the shared HTTP client on first use without a lock
  (`http.go:32-39`): each caller gets a usable client, whatever the order, and no
  module could tell the outcomes apart.
* Types of `pzsvc/model.go` and helpers of `pzsvc/utils.go` and `pzsvc/http.go`
  that neither program uses, or that only tests use.
* Vendored code, except as CF behaves for the dispatcher.

## 7. What is left

1. `System` with `Downloads` and `Ingest` in the place of the worker's stages.
   They have no state in common with the other stages; what the worker relies on
   is that a stage returns the errors of its parts, all of them, and that is what
   `Gather` says and both are shown to implement.
2. The second ingest of a worker, of its output data (`execresult.go:51`), is
   `UploadOutput`, one step; it polls like the others but has no timer.
