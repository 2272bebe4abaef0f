------------------------------ MODULE TaskRequest ------------------------------
(***************************************************************************)
(* How the text of one job becomes the task that works on it: the          *)
(* dispatcher builds a command and asks for a disk and a memory            *)
(* (buildWorkerCommand and calculateDiskAndMemoryLimits, loop.go), and the *)
(* worker reads the command back and finds its settings (runCmd, cmd.go).  *)
(* What CF and Piazza may do in between is in Dispatcher and System.       *)
(*                                                                         *)
(* A text is the sequence of the pieces between its colons, so that joining *)
(* two texts with a colon is concatenation.                                *)
(***************************************************************************)
EXTENDS Settings, Sequences

CONSTANTS
    Names,      \* texts: what a job may call an input file
    URLs,       \* texts: where an input file may be
    OnS3,       \* those that contain "amazonaws"
    Lengths,    \* the bytes a file may have
    MaxInputs,  \* bound: the inputs of a job
    Files,      \* the configuration files it may have
    Numbers     \* the numbers the environment may hold

MB == 1000000

Pieces == UNION {{t[k] : k \in DOMAIN t} : t \in Names \cup URLs}

ASSUME TextAssumption == \A t \in Names \cup URLs : t \in Seq(Pieces) /\ t # <<>>
ASSUME S3Assumption == OnS3 \subseteq URLs
ASSUME NumberAssumption == Lengths \subseteq Nat /\ MaxInputs \in Nat /\ Numbers \subseteq Int
ASSUME FilesAssumption == Files \subseteq Configs

VARIABLES
    job,      \* jobInput: InExtNames, InExtFiles, and which outputs it names
    config,   \* the configuration file, of dispatcher and worker
    env,      \* TASK_LIMIT, TASK_DISK_MB and TASK_MEMORY_MB
    phase,    \* how far the job has got
    pairs,    \* the texts after each -i of the command
    i,        \* the input whose size is asked for
    total,    \* total of calculateAWSInputFileSizeMB
    space,    \* the megabytes the files known so far take up, rounded up
    disk,     \* diskMB
    memory,   \* memoryMB
    inputs    \* the worker's cfg.Inputs

vars == <<job, config, env, phase, pairs, i, total, space, disk, memory, inputs>>
settings == <<job, config, env>>

UpTo(S) == UNION {[1..n -> S] : n \in 0..MaxInputs}

Jobs == [names : UpTo(Names), urls : UpTo(URLs), geojson : BOOLEAN, other : BOOLEAN]
Phases == {"poll", "build", "size", "limits", "validate", "working", "exited", "dropped"}

DefaultDisk == PositiveOr(6142, env.disk)
DefaultMemory == PositiveOr(4096, env.memory)

TypeOK ==
    /\ job \in Jobs /\ config \in Files
    /\ env \in [limit : Texts(Numbers), disk : Texts(Numbers), memory : Texts(Numbers)]
    /\ phase \in Phases
    /\ pairs \in Seq(Seq(Pieces))
    /\ i \in 1 .. Len(job.urls) + 1
    /\ total \in Nat /\ space \in Nat /\ disk \in Nat /\ memory \in Nat
    /\ inputs \in Seq([FileName : Pieces, URL : Seq(Pieces)])

Init ==
    /\ job \in Jobs
    /\ config \in {c \in Files : Starts(c)}
    /\ env \in [limit : Texts(Numbers), disk : Texts(Numbers), memory : Texts(Numbers)]
    /\ phase = "poll"
    /\ pairs = <<>> /\ inputs = <<>>
    /\ i = 1
    /\ total = 0 /\ space = 0 /\ disk = 0 /\ memory = 0

-----------------------------------------------------------------------------
(* The dispatcher. *)

\* No task is running; the iteration goes on unless the limit is zero or less.
TakeJob ==
    /\ phase = "poll"
    /\ TaskLimitOf(env.limit) > 0
    /\ phase' = "build"
    /\ UNCHANGED <<settings, pairs, i, total, space, disk, memory, inputs>>

\* Names and URLs that do not pair end the iteration with an error.
BuildCommand ==
    /\ phase = "build"
    /\ IF Len(job.urls) # Len(job.names)
       THEN phase' = "dropped" /\ UNCHANGED pairs
       ELSE /\ pairs' = [k \in 1 .. Len(job.names) |-> job.names[k] \o job.urls[k]]
            /\ phase' = "size"
    /\ UNCHANGED <<settings, i, total, space, disk, memory, inputs>>

GiveUpSizes == phase' = "limits" /\ total' = 0

\* One pass of the loop over the URLs.  The HEAD request of a file on S3 tells
\* its length, or fails in one way or another.
AskSize ==
    /\ phase = "size"
    /\ i <= Len(job.urls)
    /\ \/ /\ job.urls[i] \in OnS3
          /\ \E length \in Lengths :
                /\ total' = total + length \div MB
                /\ space' = space + (length + MB - 1) \div MB
          /\ i' = i + 1
          /\ UNCHANGED phase
       \/ GiveUpSizes /\ UNCHANGED <<i, space>>
    /\ UNCHANGED <<settings, pairs, disk, memory, inputs>>

\* The loop was left, or ran over all URLs.
SizesEnded == \/ phase = "limits"
              \/ phase = "size" /\ i > Len(job.urls)

RequestTask_SumOnce ==
    /\ SizesEnded
    /\ disk' = IF total > 0 THEN 4096 + total ELSE DefaultDisk
    /\ memory' = IF total > 0 THEN DefaultMemory + total * 5 ELSE DefaultMemory
    /\ phase' = "validate"
    /\ UNCHANGED <<settings, pairs, i, total, space, inputs>>

\* calculateDiskAndMemoryLimits; then the task is created and its worker starts.
RequestTask ==
    /\ SizesEnded
    /\ disk' = IF total > 0 THEN 4096 + total * 2 ELSE DefaultDisk
    /\ memory' = IF total > 0 THEN DefaultMemory + total * 5 ELSE DefaultMemory
    /\ phase' = "validate"
    /\ UNCHANGED <<settings, pairs, i, total, space, inputs>>

-----------------------------------------------------------------------------
(* The worker. *)

ParseInputSource_NoLimit(t) == [FileName |-> Head(t), URL |-> <<t[2]>>]

\* SplitN(t, ":", 2); the dispatcher's texts always have a colon.
ParseInputSource(t) == [FileName |-> Head(t), URL |-> Tail(t)]

\* runCmd: without an address, a key or a -o the process exits with status 1.
\* Only the GeoJSON outputs of a job become a -o.
Validate ==
    /\ phase = "validate"
    /\ IF WorkerStarts(config) /\ job.geojson /\ \A k \in DOMAIN pairs : Len(pairs[k]) >= 2
       THEN /\ inputs' = [k \in DOMAIN pairs |-> ParseInputSource(pairs[k])]
            /\ phase' = "working"
       ELSE phase' = "exited" /\ UNCHANGED inputs
    /\ UNCHANGED <<settings, pairs, i, total, space, disk, memory>>

Next == TakeJob \/ BuildCommand \/ AskSize \/ RequestTask \/ Validate

Spec == Init /\ [][Next]_vars

\* The HEAD requests end.
FairSpec == Spec /\ WF_vars(Next)

-----------------------------------------------------------------------------

Requested == phase \in {"validate", "working", "exited"}

\* The worker fetches what the job named: an input comes through the command
\* line as it was if, and only if, there is no colon in its name, whatever
\* colons its URL has (loop.go:218-221, config.go:34-43).
InputsIntact ==
    phase = "working" =>
        /\ Len(inputs) = Len(job.names)
        /\ \A k \in 1 .. Len(inputs) :
              <<inputs[k].FileName>> = job.names[k] /\ inputs[k].URL = job.urls[k]
              <=> Len(job.names[k]) = 1

\* One input that is not on S3, or one size that is not told, and the task has
\* the default limits: no part of a sum is used.  When all sizes are told the
\* disk has room for the inputs twice over and the 4096 megabytes beside them, but
\* for two megabytes an input, as each size was rounded down.  If none reaches a
\* megabyte the sum is 0 and the disk is the default, however many they are
\* (loop.go:230-259, http.go:312).
RoomForInputs ==
    Requested =>
        /\ i <= Len(job.urls) => disk = DefaultDisk /\ memory = DefaultMemory
        /\ i > Len(job.urls) =>
              \/ disk + 2 * Len(job.urls) >= 4096 + 2 * space
              \/ disk = DefaultDisk /\ space <= Len(job.urls)

\* A worker that its dispatcher started exits without a word only if its job
\* names no GeoJSON output, or if the dispatcher has its address from PzAddr
\* alone: no other setting that lets a dispatcher start is one a worker lacks,
\* and no command it builds is one a worker cannot read
\* (main.go:62-88, cmd.go:66-103).
ExitsExplained ==
    phase = "exited" => ~job.geojson \/ (config.PzAddr /\ config.PzAddrEnVar # "set")

\* A job gets its worker, unless the limit is set to something that is not a
\* positive number, names and URLs do not pair, or the worker exits for one of
\* the two reasons above.  With such a limit the job is never taken from the queue,
\* so it is not lost either (loop.go:60-63 and 122-163).
JobGetsWorker ==
    /\ /\ env.limit.kind = "unset" \/ env.limit.n > 0
       /\ Len(job.names) = Len(job.urls)
       /\ job.geojson
       /\ config.PzAddrEnVar = "set"
       => <>(phase = "working")
    /\ env.limit.kind # "unset" /\ env.limit.n <= 0 => [](phase = "poll")

\* The README (line 79) says of PzAddr and PzAddrEnVar: "Either one of the
\* `PzAddr` parameters is required."  So a worker whose job names an output does
\* not exit when the file has either.
EitherAddress == phase = "exited" => ~job.geojson

=============================================================================
