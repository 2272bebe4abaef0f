-------------------------------- MODULE Ingest --------------------------------
(***************************************************************************)
(* How a Worker ingests its output files into Piazza (src/worker/ingest).  *)
(*                                                                         *)
(* OutputFilesToPiazza starts two goroutines per file: the inner one calls *)
(* pzsvc.IngestFile (submit the file, then poll the ingest job), the outer *)
(* one waits for its result or for the timeout and hands one answer to the *)
(* caller, which collects the answers in the order of the files.  All      *)
(* channels are unbuffered: a send and its receive are one step.           *)
(* Two clocks race: the timer of a file, and the 300 polls of its job with *)
(* a second of sleep after each.                                           *)
(***************************************************************************)
EXTENDS Naturals, FiniteSets, JobPolling

CONSTANTS
    N,              \* the number of output files, cfg.Outputs
    Paths,          \* the names they have; a name may be given twice
    TimeoutMinutes, \* defaultPzSvcIngestor.Timeout
    PollMinutes,    \* how long the polls last, at least
    MaxMinutes      \* bound: the minutes a behaviour lasts

Files == 1..N

ASSUME NAssumption == N \in Nat
ASSUME TimeAssumption == /\ TimeoutMinutes \in Nat /\ PollMinutes \in Nat /\ MaxMinutes \in Nat
                         /\ TimeoutMinutes < PollMinutes

VARIABLES
    path,     \* cfg.Outputs
    present,  \* the paths that exist when the algorithm has ended
    caller,   \* where OutputFilesToPiazza is
    next,     \* the file whose answer it awaits
    inner,    \* the goroutine that calls IngestFile, per file
    outer,    \* the goroutine that waits for it
    result,   \* what IngestFile returned
    answer,   \* what the outer goroutine has to tell
    piazza,   \* what Piazza did with each file
    errors,   \* len(multiOutput.Errors)
    dataIDs,  \* multiOutput.DataIDs, from a path to the file it stands for
    clock     \* minutes since the goroutines were started

vars == <<path, present, caller, next, inner, outer, result, answer, piazza,
          errors, dataIDs, clock>>

NoFile == 0

TypeOK ==
    /\ path \in [Files -> Paths]
    /\ present \subseteq Paths
    /\ caller \in {"assemble", "handle", "done", "exited"}
    /\ next \in 1..(N + 1)
    /\ inner \in [Files -> {"off", "submit", "poll", "send", "ended"}]
    /\ outer \in [Files -> {"off", "select", "send", "ended"}]
    /\ result \in [Files -> {"none", "id", "error", "never"}]
    /\ answer \in [Files -> {"none", "id", "error", "never", "timeout"}]
    /\ piazza \in [Files -> {"unknown", "accepted", "stored"}]
    /\ errors \in 0..N
    /\ dataIDs \in [Paths -> {NoFile} \cup Files]
    /\ clock \in 0..MaxMinutes

Init ==
    /\ path \in [Files -> Paths]
    /\ present \in SUBSET Paths
    /\ caller = "assemble"
    /\ next = 1
    /\ inner = [f \in Files |-> "off"]
    /\ outer = [f \in Files |-> "off"]
    /\ result = [f \in Files |-> "none"]
    /\ answer = [f \in Files |-> "none"]
    /\ piazza = [f \in Files |-> "unknown"]
    /\ errors = 0
    /\ dataIDs = [p \in Paths |-> NoFile]
    /\ clock = 0

\* The files assembleIngestorCalls keeps; each of the others is an error.
Called == {f \in Files : path[f] \in present}

-----------------------------------------------------------------------------
(* The caller. *)

AssembleAndCall_ErrorsLost ==
    /\ caller = "assemble"
    /\ errors' = 0
    /\ inner' = [f \in Files |-> IF f \in Called THEN "submit" ELSE "off"]
    /\ outer' = [f \in Files |-> IF f \in Called THEN "select" ELSE "off"]
    /\ caller' = "handle"
    /\ UNCHANGED <<path, present, next, result, answer, piazza, dataIDs, clock>>

AssembleAndCall ==
    /\ caller = "assemble"
    /\ errors' = Cardinality(Files \ Called)
    /\ inner' = [f \in Files |-> IF f \in Called THEN "submit" ELSE "off"]
    /\ outer' = [f \in Files |-> IF f \in Called THEN "select" ELSE "off"]
    /\ caller' = "handle"
    /\ UNCHANGED <<path, present, next, result, answer, piazza, dataIDs, clock>>

HandleAnswer_WrongIndex ==
    /\ caller = "handle" /\ next \in Called /\ outer[next] = "send"
    /\ outer' = [outer EXCEPT ![next] = "ended"]
    /\ IF answer[next] = "id"
       THEN dataIDs' = [dataIDs EXCEPT ![path[next]] = next + 1] /\ UNCHANGED errors
       ELSE errors' = errors + 1 /\ UNCHANGED dataIDs
    /\ next' = next + 1
    /\ UNCHANGED <<path, present, caller, inner, result, answer, piazza, clock>>

HandleAnswer_KeepsFirst ==
    /\ caller = "handle" /\ next \in Called /\ outer[next] = "send"
    /\ outer' = [outer EXCEPT ![next] = "ended"]
    /\ IF answer[next] = "id"
       THEN /\ dataIDs' = [dataIDs EXCEPT ![path[next]] = IF @ = NoFile THEN next ELSE @]
            /\ UNCHANGED errors
       ELSE errors' = errors + 1 /\ UNCHANGED dataIDs
    /\ next' = next + 1
    /\ UNCHANGED <<path, present, caller, inner, result, answer, piazza, clock>>

\* handleIngestResults ranges over the channel of the next file, which yields
\* one answer and is closed.
HandleAnswer ==
    /\ caller = "handle"
    /\ next \in Called
    /\ outer[next] = "send"
    /\ outer' = [outer EXCEPT ![next] = "ended"]
    /\ IF answer[next] = "id"
       THEN dataIDs' = [dataIDs EXCEPT ![path[next]] = next] /\ UNCHANGED errors
       ELSE errors' = errors + 1 /\ UNCHANGED dataIDs
    /\ next' = next + 1
    /\ UNCHANGED <<path, present, caller, inner, result, answer, piazza, clock>>

\* A file with no call has no channel in the list.
SkipFile ==
    /\ caller = "handle"
    /\ next \in Files \ Called
    /\ next' = next + 1
    /\ UNCHANGED <<path, present, caller, inner, outer, result, answer, piazza,
                   errors, dataIDs, clock>>

Return ==
    /\ caller = "handle"
    /\ next = N + 1
    /\ caller' = "done"
    /\ UNCHANGED <<path, present, next, inner, outer, result, answer, piazza,
                   errors, dataIDs, clock>>

\* The Worker goes on to report and exits; its goroutines end with it.
ExitProcess ==
    /\ caller = "done"
    /\ caller' = "exited"
    /\ UNCHANGED <<path, present, next, inner, outer, result, answer, piazza,
                   errors, dataIDs, clock>>

-----------------------------------------------------------------------------
(* The inner goroutine of file f: IngestFile, then the send of its result. *)

Alive == caller # "exited"

Returns(f, r) ==
    /\ result' = [result EXCEPT ![f] = r]
    /\ inner' = [inner EXCEPT ![f] = "send"]

\* The file is read and submitted; Piazza answers with the ID of an ingest job.
Submit(f) ==
    /\ Alive /\ inner[f] = "submit"
    /\ piazza' = [piazza EXCEPT ![f] = "accepted"]
    /\ inner' = [inner EXCEPT ![f] = "poll"]
    /\ UNCHANGED <<path, present, caller, next, outer, result, answer, errors, dataIDs, clock>>

\* The file is empty or unreadable, the request fails, or its answer is lost.
SubmitFails(f) ==
    /\ Alive /\ inner[f] = "submit"
    /\ \E p \in {"unknown", "accepted"} : piazza' = [piazza EXCEPT ![f] = p]
    /\ Returns(f, "error")
    /\ UNCHANGED <<path, present, caller, next, outer, answer, errors, dataIDs, clock>>

\* One pass of the loop of GetJobResponse.  A panic of one goroutine ends the
\* Worker.
Poll(f) ==
    /\ Alive /\ inner[f] = "poll"
    /\ \E o \in {Outcome(r) : r \in Answers(piazza[f] = "stored")} :
          \/ o = "again" /\ UNCHANGED <<caller, inner, result>>
          \/ o \in {"id", "error"} /\ Returns(f, o) /\ UNCHANGED caller
          \/ o = "panic" /\ caller' = "exited" /\ UNCHANGED <<inner, result>>
    /\ UNCHANGED <<path, present, next, outer, answer, piazza, errors, dataIDs, clock>>

\* A request fails, or its answer is no JSON.
PollFails(f) ==
    /\ Alive /\ inner[f] = "poll"
    /\ Returns(f, "error")
    /\ UNCHANGED <<path, present, caller, next, outer, answer, piazza, errors, dataIDs, clock>>

\* The job never completed.
GiveUp(f) ==
    /\ Alive /\ inner[f] = "poll"
    /\ clock >= PollMinutes
    /\ Returns(f, "never")
    /\ UNCHANGED <<path, present, caller, next, outer, answer, piazza, errors, dataIDs, clock>>

-----------------------------------------------------------------------------
(* The outer goroutine of file f: its select, then the send of its answer. *)

Tells(f, a) ==
    /\ answer' = [answer EXCEPT ![f] = a]
    /\ outer' = [outer EXCEPT ![f] = "send"]

ReceiveResult(f) ==
    /\ Alive /\ outer[f] = "select"
    /\ inner[f] = "send"
    /\ inner' = [inner EXCEPT ![f] = "ended"]
    /\ Tells(f, result[f])
    /\ UNCHANGED <<path, present, caller, next, result, piazza, errors, dataIDs, clock>>

Timeout_Nanoseconds(f) ==
    /\ Alive /\ outer[f] = "select"
    /\ Tells(f, "timeout")
    /\ UNCHANGED <<path, present, caller, next, inner, result, piazza, errors, dataIDs, clock>>

Timeout_Never(f) == FALSE /\ UNCHANGED vars

Timeout(f) ==
    /\ Alive /\ outer[f] = "select"
    /\ clock >= TimeoutMinutes
    /\ Tells(f, "timeout")
    /\ UNCHANGED <<path, present, caller, next, inner, result, piazza, errors, dataIDs, clock>>

-----------------------------------------------------------------------------
(* The environment: Piazza's ingest and the time. *)

Store(f) ==
    /\ piazza[f] = "accepted"
    /\ piazza' = [piazza EXCEPT ![f] = "stored"]
    /\ UNCHANGED <<path, present, caller, next, inner, outer, result, answer,
                   errors, dataIDs, clock>>

\* The timers are set when the goroutines start, and fire when they are due.
Tick ==
    /\ caller # "assemble"
    /\ clock < MaxMinutes
    /\ clock >= TimeoutMinutes => \A f \in Files : outer[f] # "select"
    /\ clock' = clock + 1
    /\ UNCHANGED <<path, present, caller, next, inner, outer, result, answer,
                   piazza, errors, dataIDs>>

Caller == AssembleAndCall \/ HandleAnswer \/ SkipFile \/ Return
Inner(f) == Submit(f) \/ SubmitFails(f) \/ Poll(f) \/ PollFails(f) \/ GiveUp(f)
Outer(f) == ReceiveResult(f) \/ Timeout(f)

Next ==
    \/ Caller \/ ExitProcess \/ Tick
    \/ \E f \in Files : Inner(f) \/ Outer(f) \/ Store(f)

Spec == Init /\ [][Next]_vars

\* Time passes and the goroutines that do not wait for Piazza run.  Nothing is
\* assumed of the inner ones: their requests have no timeout and may hang.
FairSpec ==
    /\ Spec
    /\ WF_vars(Caller) /\ WF_vars(Tick)
    /\ \A f \in Files : WF_vars(Outer(f))

-----------------------------------------------------------------------------

Finished == caller \in {"done", "exited"} /\ next = N + 1

\* When no error is returned, every output file is in Piazza and has a data ID:
\* the Worker then reports Success (ingest.go:94-121, worker.go:90-101).
NoErrorMeansStored ==
    Finished /\ errors = 0 =>
        \A f \in Files : piazza[f] = "stored" /\ dataIDs[path[f]] # NoFile

\* A data ID that is returned is that of a file with this path in Piazza, and
\* the last one if several outputs have the same path, whatever the order in
\* which the ingests ended (ingest.go:98-106).
IdsAreStored ==
    \A p \in Paths : dataIDs[p] # NoFile =>
        /\ path[dataIDs[p]] = p
        /\ piazza[dataIDs[p]] = "stored"
        /\ \A f \in dataIDs[p] + 1 .. next - 1 : path[f] = p => answer[f] # "id"

\* A result that nobody takes, and the news that a job never completed, come
\* late: only after the timer of the file, which is the shorter of the two clocks
\* (ingest_async.go:28, 38 and 65, http.go:179 and 213).  The goroutine with the
\* result is then left behind, blocked for ever, and its file may be in Piazza all
\* the same although the job is told it is not.
Leaked(f) == inner[f] = "send" /\ outer[f] \in {"send", "ended"}

LateOnlyAfterTimeout ==
    \A f \in Files :
        /\ Leaked(f) => answer[f] = "timeout" /\ clock >= TimeoutMinutes
        /\ result[f] = "never" => answer[f] = "timeout"

\* What has become of a file, as its outer goroutine has it: a result that comes
\* after the timeout changes nothing.
FateOf(f) == IF caller = "assemble" \/ (f \in Called /\ answer[f] = "none") THEN "open"
             ELSE IF answer[f] = "id" THEN "good" ELSE "bad"

Ingesting == INSTANCE Gather WITH
                 Parts <- Files,
                 fate <- [f \in Files |-> FateOf(f)],
                 heard <- {f \in Files : caller # "assemble" /\ (f \notin Called \/ f < next)},
                 failures <- errors,
                 returned <- caller = "done"

\* OutputFilesToPiazza and its goroutines keep the promise of Gather, although
\* the timer and the result of a file race each other and files without a call
\* are counted before the others: no answer is lost, counted twice or taken for
\* that of another file (ingest.go:59-66 and 94-121, ingest_async.go:25-43).
ImplementsGather == Ingesting!Spec

\* OutputFilesToPiazza returns, even if Piazza never answers a request, unless
\* an answer makes the Worker panic (ingest_async.go:35-43).
AlwaysReturns == <>(Finished \/ ~Alive)

=============================================================================
