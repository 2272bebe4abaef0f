-------------------------------- MODULE Worker --------------------------------
(***************************************************************************)
(* The Worker of pzsvc-exec (src/worker), one process per Cloud Foundry    *)
(* task.  It checks its arguments, fetches the inputs, runs the version    *)
(* and the algorithm commands, ingests the output files and reports one    *)
(* status to Piazza; the first stage that fails leads straight to the      *)
(* report.  Downloads and Ingest model the two concurrent stages.          *)
(***************************************************************************)
EXTENDS Naturals, FiniteSets

CONSTANT Jobs   \* one worker per job; a worker is named by its job

VARIABLES
    stage,    \* where each worker is
    done,     \* the stages that really took place, so far
    erred,    \* outData.Errors is not empty
    status,   \* the status the worker is about to post
    exit,     \* its exit code, "none" while it runs
    reports   \* Piazza: the statuses it received, <<job, sender, status>>

vars == <<stage, done, erred, status, exit, reports>>

Stages == {"off", "validate", "fetch", "version", "run", "ingest", "upload",
           "post", "over"}
Work == {"fetched", "versioned", "started", "ran", "ingested"}

TypeOK ==
    /\ stage \in [Jobs -> Stages]
    /\ done \in [Jobs -> SUBSET Work]
    /\ erred \in [Jobs -> BOOLEAN]
    /\ status \in [Jobs -> {"none", "Success", "Error", "Fail"}]
    /\ exit \in [Jobs -> {"none", "0", "1", "killed"}]
    /\ reports \subseteq Jobs \X {"dispatcher", "worker"} \X {"Success", "Error", "Fail"}

Init ==
    /\ stage = [w \in Jobs |-> "off"]
    /\ done = [w \in Jobs |-> {}]
    /\ erred = [w \in Jobs |-> FALSE]
    /\ status = [w \in Jobs |-> "none"]
    /\ exit = [w \in Jobs |-> "none"]
    /\ reports = {}

Enter(w, s) == stage' = [stage EXCEPT ![w] = s]
Did(w, work) == done' = [done EXCEPT ![w] = @ \cup work]
Quit(w, code) == Enter(w, "over") /\ exit' = [exit EXCEPT ![w] = code]

AddErrors_Dropped(w) == UNCHANGED erred
\* A stage that fails adds its error and goes on to the report.
AddErrors(w) == erred' = [erred EXCEPT ![w] = TRUE]

-----------------------------------------------------------------------------

Start(w) ==
    /\ stage[w] = "off"
    /\ Enter(w, "validate")
    /\ UNCHANGED <<done, erred, status, exit, reports>>

\* runCmd: an argument that is missing, such as the -o of a job whose OutGeoJs
\* is empty, or a setting that only the environment can give, ends the process.
Validate(w) ==
    /\ stage[w] = "validate"
    /\ \E complete \in BOOLEAN :
          IF complete
          THEN Enter(w, "fetch") /\ UNCHANGED exit
          ELSE Quit(w, "1")
    /\ UNCHANGED <<done, erred, status, reports>>

\* A stage of Exec: it does its work and enters the next one, or fails.
Stage(w, here, work, next) ==
    /\ stage[w] = here
    /\ \/ Did(w, work) /\ Enter(w, next) /\ UNCHANGED erred
       \/ AddErrors(w) /\ Enter(w, "upload") /\ UNCHANGED done
    /\ UNCHANGED <<status, exit, reports>>

FetchInputs(w) == Stage(w, "fetch", {"fetched"}, "version")
RunVersion(w) == Stage(w, "version", {"versioned"}, "run")
Ingest(w) == Stage(w, "ingest", {"ingested"}, "upload")

\* The algorithm: a command that fails has started all the same.
RunAlgorithm(w) ==
    /\ stage[w] = "run"
    /\ \/ Did(w, {"started", "ran"}) /\ Enter(w, "ingest") /\ UNCHANGED erred
       \/ \* the command does not start, or it exits with an error
          /\ \E work \in {{}, {"started"}} : Did(w, work)
          /\ AddErrors(w) /\ Enter(w, "upload")
    /\ UNCHANGED <<status, exit, reports>>

JobStatus_Unset(w) == IF erred[w] THEN "Error" ELSE "none"

\* The status OutputToPiazza reports.
JobStatus(w) == IF erred[w] THEN "Error" ELSE "Success"

\* The first half of SendExecResultData: the output data is ingested as text;
\* if that fails, the status becomes Fail.
UploadOutput(w) ==
    /\ stage[w] = "upload"
    /\ \E s \in {JobStatus(w), "Fail"} : status' = [status EXCEPT ![w] = s]
    /\ Enter(w, "post")
    /\ UNCHANGED <<done, erred, exit, reports>>

PostStatus_ErrorIgnored(w) ==
    /\ stage[w] = "post"
    /\ \E received \in BOOLEAN :
          reports' = IF received
                     THEN reports \cup {<<w, "worker", status[w]>>}
                     ELSE reports
    /\ Quit(w, "0")
    /\ UNCHANGED <<done, erred, status>>

\* The second half: one POST of the status, never repeated.  It is received
\* and answered, received with its answer lost, or lost.
PostStatus(w) ==
    /\ stage[w] = "post"
    /\ \E received \in BOOLEAN, code \in {"0", "1"} :
          /\ code = "0" => received
          /\ reports' = IF received
                        THEN reports \cup {<<w, "worker", status[w]>>}
                        ELSE reports
          /\ Quit(w, code)
    /\ UNCHANGED <<done, erred, status>>

\* Cloud Foundry stops the container (memory, disk, a lost cell), or the process
\* panics on the answer of an ingest job (http.go:197).
Kill(w) ==
    /\ stage[w] \notin {"off", "over"}
    /\ Quit(w, "killed")
    /\ UNCHANGED <<done, erred, status, reports>>

Step(w) ==
    \/ Validate(w) \/ FetchInputs(w) \/ RunVersion(w) \/ RunAlgorithm(w)
    \/ Ingest(w) \/ UploadOutput(w) \/ PostStatus(w)

Next == \E w \in Jobs : Start(w) \/ Step(w) \/ Kill(w)

Spec == Init /\ [][Next]_vars

-----------------------------------------------------------------------------

Reported(w) == {r \in reports : r[1] = w /\ r[2] = "worker"}
Told(w, s) == <<w, "worker", s>> \in reports

\* The verdict a worker gives is true: Success only after every stage took
\* place, Error only after one failed, and no stage takes place before the
\* ones it needs (worker.go:46-105, piazza_output.go:25-29).
VerdictTrue ==
    \A w \in Jobs :
        /\ Told(w, "Success") => done[w] = Work
        /\ Told(w, "Error") => done[w] # Work
        /\ "started" \in done[w] => {"fetched", "versioned"} \subseteq done[w]
        /\ "ingested" \in done[w] => "ran" \in done[w]

\* A worker reports at most once, as its last act, and a worker that exits
\* with 0 did report, whatever the fate of the job (cmd.go:108-115,
\* worker.go:59-101, execresult.go:62).
OneStatus ==
    \A w \in Jobs :
        /\ Cardinality(Reported(w)) <= 1
        /\ Reported(w) # {} => stage[w] = "over"
        /\ exit[w] = "0" => Reported(w) # {}

=============================================================================
