----------------------------- MODULE WorkerProofs -----------------------------
(***************************************************************************)
(* The verdict of a worker, for any number of workers.  VerdictTrue and    *)
(* OneStatus look only at what was reported; the invariant below says, for *)
(* every stage, what was done and which status is on its way.              *)
(***************************************************************************)
EXTENDS Worker, FiniteSetTheorems, TLAPS

\* What a worker has done when it is about to enter each stage.
DoneBy(w) ==
    /\ stage[w] \in {"off", "validate", "fetch"} => done[w] = {}
    /\ stage[w] = "version" => done[w] = {"fetched"}
    /\ stage[w] = "run" => done[w] = {"fetched", "versioned"}
    /\ stage[w] = "ingest" => done[w] = Work \ {"ingested"}
    /\ "started" \in done[w] => {"fetched", "versioned"} \subseteq done[w]
    /\ "ingested" \in done[w] => "ran" \in done[w]

\* The verdict as it is formed: by erred, then by status, then by the report.
Verdict(w) ==
    /\ stage[w] \in {"off", "validate", "fetch", "version", "run", "ingest"}
          => ~erred[w]
    /\ stage[w] = "upload" => (erred[w] <=> done[w] # Work)
    /\ stage[w] = "post" => /\ status[w] \in {"Success", "Error", "Fail"}
                            /\ status[w] = "Success" => done[w] = Work
                            /\ status[w] = "Error" => done[w] # Work
    /\ \A s \in {"Success", "Error", "Fail"} : Told(w, s) =>
          /\ stage[w] = "over" /\ s = status[w]
          /\ s = "Success" => done[w] = Work
          /\ s = "Error" => done[w] # Work
    /\ exit[w] = "0" => Told(w, status[w]) /\ stage[w] = "over"

Sound == TypeOK /\ \A w \in Jobs : DoneBy(w) /\ Verdict(w)

\* In the beginning no worker has done or said anything.
LEMMA InitSound == Init => Sound
<1> SUFFICES ASSUME Init PROVE Sound
  OBVIOUS
<1>1. TypeOK
  <2>1. [w \in Jobs |-> FALSE] \in [Jobs -> BOOLEAN]
    BY Zenon
  <2>2. erred \in [Jobs -> BOOLEAN]
    BY <2>1 DEF Init
  <2> QED
    BY <2>2 DEF Init, TypeOK, Stages, Work
<1>2. ASSUME NEW w \in Jobs PROVE DoneBy(w) /\ Verdict(w)
  BY <1>2 DEF Init, DoneBy, Verdict, Told
<1> QED
  BY <1>1, <1>2 DEF Sound

\* A step of one worker changes nothing of the others.
OnlyOf(w) ==
    /\ \A v \in Jobs \ {w} : /\ stage'[v] = stage[v] /\ done'[v] = done[v]
                             /\ erred'[v] = erred[v] /\ status'[v] = status[v]
                             /\ exit'[v] = exit[v]
    /\ \A r \in reports' : r \in reports \/ r[1] = w
    /\ reports \subseteq reports'

\* So what holds of the others holds on.
LEMMA OthersKept ==
  ASSUME Sound, NEW w \in Jobs, OnlyOf(w), NEW v \in Jobs, v # w
  PROVE  DoneBy(v)' /\ Verdict(v)'
<1>1. \A s : Told(v, s)' <=> Told(v, s)
  BY DEF OnlyOf, Told
<1>2. DoneBy(v) /\ Verdict(v)
  BY DEF Sound
<1>3. /\ stage'[v] = stage[v] /\ done'[v] = done[v] /\ erred'[v] = erred[v]
      /\ status'[v] = status[v] /\ exit'[v] = exit[v]
  BY DEF OnlyOf
<1> QED
  BY <1>1, <1>2, <1>3, Zenon DEF DoneBy, Verdict

\* Adding an error keeps the type of erred, doing work that of done.
LEMMA ErrorsTyped ==
  ASSUME NEW w \in Jobs, erred \in [Jobs -> BOOLEAN], AddErrors(w)
  PROVE  erred' \in [Jobs -> BOOLEAN]
<1>1. TRUE \in BOOLEAN
  OBVIOUS
<1>2. ASSUME NEW v \in Jobs PROVE [erred EXCEPT ![w] = TRUE][v] \in BOOLEAN
  BY Zenon
<1> QED
  BY <1>1, <1>2, Zenon DEF AddErrors

\* Doing a stage's work keeps the type of done.
LEMMA WorkTyped ==
  ASSUME NEW w \in Jobs, done \in [Jobs -> SUBSET Work],
         NEW work \in SUBSET Work, Did(w, work)
  PROVE  done' \in [Jobs -> SUBSET Work]
  BY DEF Did

\* A stage that does its work or fails keeps every type.
LEMMA StageTyped ==
  ASSUME TypeOK, NEW w \in Jobs, NEW here, NEW work \in SUBSET Work,
         NEW next \in Stages, Stage(w, here, work, next)
  PROVE  TypeOK'
<1>1. done' \in [Jobs -> SUBSET Work]
  <2>1. CASE Did(w, work)
    BY <2>1, WorkTyped DEF TypeOK
  <2>2. CASE UNCHANGED done
    BY <2>2 DEF TypeOK
  <2> QED
    BY <2>1, <2>2 DEF Stage
<1>2. erred' \in [Jobs -> BOOLEAN]
  <2>1. CASE AddErrors(w)
    BY <2>1, ErrorsTyped DEF TypeOK
  <2>2. CASE UNCHANGED erred
    BY <2>2 DEF TypeOK
  <2> QED
    BY <2>1, <2>2 DEF Stage
<1>3. stage' \in [Jobs -> Stages]
  BY DEF TypeOK, Stage, Stages, Enter
<1> QED
  BY <1>1, <1>2, <1>3 DEF TypeOK, Stage

\* Every step of a worker, and its end from outside, keep all of it.
LEMMA StepSound == Sound /\ [Next]_vars => Sound'
<1> SUFFICES ASSUME Sound, [Next]_vars PROVE Sound'
  OBVIOUS
<1> USE DEF Enter, Did, Quit, AddErrors
<1>1. ASSUME NEW w \in Jobs, TypeOK', OnlyOf(w), DoneBy(w)', Verdict(w)'
      PROVE  Sound'
  BY <1>1, OthersKept DEF Sound
<1>2. ASSUME NEW w \in Jobs, Start(w) PROVE Sound'
  <2>1. TypeOK'
    BY <1>2 DEF Sound, TypeOK, Stages, Work, Start
  <2>2. OnlyOf(w)
    BY <1>2 DEF Sound, TypeOK, OnlyOf, Start
  <2>3. DoneBy(w)'
    BY <1>2 DEF Sound, TypeOK, DoneBy, Work, Start
  <2>4. Verdict(w)'
    BY <1>2 DEF Sound, TypeOK, DoneBy, Verdict, Told, Work, Start
  <2> QED
    BY <1>1, <2>1, <2>2, <2>3, <2>4
<1>3. ASSUME NEW w \in Jobs, Validate(w) PROVE Sound'
  <2>1. TypeOK'
    BY <1>3 DEF Sound, TypeOK, Stages, Work, Validate
  <2>2. OnlyOf(w)
    BY <1>3 DEF Sound, TypeOK, OnlyOf, Validate
  <2>3. DoneBy(w)'
    BY <1>3 DEF Sound, TypeOK, DoneBy, Work, Validate
  <2>4. Verdict(w)'
    BY <1>3 DEF Sound, TypeOK, DoneBy, Verdict, Told, Work, Validate
  <2> QED
    BY <1>1, <2>1, <2>2, <2>3, <2>4
<1>4. ASSUME NEW w \in Jobs, FetchInputs(w) PROVE Sound'
  <2>1. TypeOK'
    <3>1. {"fetched"} \in SUBSET Work /\ "version" \in Stages
      BY DEF Work, Stages
    <3> QED
      BY <1>4, <3>1, StageTyped DEF Sound, FetchInputs
  <2>2. OnlyOf(w)
    BY <1>4 DEF Sound, TypeOK, OnlyOf, FetchInputs, Stage
  <2>3. DoneBy(w)'
    BY <1>4 DEF Sound, TypeOK, DoneBy, Work, FetchInputs, Stage
  <2>4. Verdict(w)'
    BY <1>4 DEF Sound, TypeOK, DoneBy, Verdict, Told, Work, FetchInputs, Stage
  <2> QED
    BY <1>1, <2>1, <2>2, <2>3, <2>4
<1>5. ASSUME NEW w \in Jobs, RunVersion(w) PROVE Sound'
  <2>1. TypeOK'
    <3>1. {"versioned"} \in SUBSET Work /\ "run" \in Stages
      BY DEF Work, Stages
    <3> QED
      BY <1>5, <3>1, StageTyped DEF Sound, RunVersion
  <2>2. OnlyOf(w)
    BY <1>5 DEF Sound, TypeOK, OnlyOf, RunVersion, Stage
  <2>3. DoneBy(w)'
    BY <1>5 DEF Sound, TypeOK, DoneBy, Work, RunVersion, Stage
  <2>4. Verdict(w)'
    BY <1>5 DEF Sound, TypeOK, DoneBy, Verdict, Told, Work, RunVersion, Stage
  <2> QED
    BY <1>1, <2>1, <2>2, <2>3, <2>4
<1>6. ASSUME NEW w \in Jobs, RunAlgorithm(w) PROVE Sound'
  <2>1. TypeOK'
    <3>1. done' \in [Jobs -> SUBSET Work]
      <4>1. PICK work \in SUBSET Work : Did(w, work)
        BY <1>6 DEF RunAlgorithm, Work
      <4> QED
        BY <4>1, WorkTyped DEF Sound, TypeOK
    <3>2. erred' \in [Jobs -> BOOLEAN]
      <4>1. CASE AddErrors(w)
        BY <4>1, ErrorsTyped DEF Sound, TypeOK
      <4>2. CASE UNCHANGED erred
        BY <4>2 DEF Sound, TypeOK
      <4> QED
        BY <1>6, <4>1, <4>2 DEF RunAlgorithm
    <3>3. stage' \in [Jobs -> Stages]
      BY <1>6 DEF Sound, TypeOK, RunAlgorithm, Stages
    <3> QED
      BY <1>6, <3>1, <3>2, <3>3 DEF Sound, TypeOK, RunAlgorithm
  <2>2. OnlyOf(w)
    BY <1>6 DEF Sound, TypeOK, OnlyOf, RunAlgorithm
  <2>3. DoneBy(w)'
    BY <1>6 DEF Sound, TypeOK, DoneBy, Work, RunAlgorithm
  <2>4. Verdict(w)'
    <3>1. CASE Did(w, {"started", "ran"}) /\ Enter(w, "ingest") /\ UNCHANGED erred
      BY <1>6, <3>1 DEF Sound, TypeOK, Verdict, Told, RunAlgorithm
    <3>2. CASE /\ \E work \in {{}, {"started"}} : Did(w, work)
               /\ AddErrors(w) /\ Enter(w, "upload")
      <4>1. done'[w] # Work /\ stage[w] = "run" /\ stage'[w] = "upload"
        BY <1>6, <3>2 DEF Sound, TypeOK, DoneBy, Work, RunAlgorithm
      <4>2. erred'[w]
        BY <3>2, Zenon DEF Sound, TypeOK
      <4>3. \A s \in {"Success", "Error", "Fail"} : ~Told(w, s)'
        BY <1>6, <4>1 DEF Sound, Verdict, Told, RunAlgorithm
      <4>4. exit'[w] # "0"
        BY <1>6, <4>1 DEF Sound, Verdict, RunAlgorithm
      <4> QED
        BY <4>1, <4>2, <4>3, <4>4 DEF Verdict
    <3> QED
      BY <1>6, <3>1, <3>2 DEF RunAlgorithm
  <2> QED
    BY <1>1, <2>1, <2>2, <2>3, <2>4
<1>7. ASSUME NEW w \in Jobs, Ingest(w) PROVE Sound'
  <2>1. TypeOK'
    <3>1. {"ingested"} \in SUBSET Work /\ "upload" \in Stages
      BY DEF Work, Stages
    <3> QED
      BY <1>7, <3>1, StageTyped DEF Sound, Ingest
  <2>2. OnlyOf(w)
    BY <1>7 DEF Sound, TypeOK, OnlyOf, Ingest, Stage
  <2>3. DoneBy(w)'
    BY <1>7 DEF Sound, TypeOK, DoneBy, Work, Ingest, Stage
  <2>4. Verdict(w)'
    BY <1>7 DEF Sound, TypeOK, DoneBy, Verdict, Told, Work, Ingest, Stage
  <2> QED
    BY <1>1, <2>1, <2>2, <2>3, <2>4
<1>8. ASSUME NEW w \in Jobs, UploadOutput(w) PROVE Sound'
  <2>1. TypeOK'
    BY <1>8 DEF Sound, TypeOK, Stages, Work, UploadOutput, JobStatus
  <2>2. OnlyOf(w)
    BY <1>8 DEF Sound, TypeOK, OnlyOf, UploadOutput, JobStatus
  <2>3. DoneBy(w)'
    BY <1>8 DEF Sound, TypeOK, DoneBy, Work, UploadOutput, JobStatus
  <2>4. Verdict(w)'
    BY <1>8 DEF Sound, TypeOK, DoneBy, Verdict, Told, Work, UploadOutput, JobStatus
  <2> QED
    BY <1>1, <2>1, <2>2, <2>3, <2>4
<1>9. ASSUME NEW w \in Jobs, PostStatus(w) PROVE Sound'
  <2>1. TypeOK'
    <3>1. status[w] \in {"Success", "Error", "Fail"}
      BY <1>9 DEF Sound, Verdict, PostStatus
    <3>2. reports' \subseteq reports \cup {<<w, "worker", status[w]>>}
      BY <1>9 DEF PostStatus
    <3>3. reports' \subseteq Jobs \X {"dispatcher", "worker"} \X {"Success", "Error", "Fail"}
      BY <3>1, <3>2 DEF Sound, TypeOK
    <3>4. stage' \in [Jobs -> Stages]
      BY <1>9 DEF Sound, TypeOK, PostStatus, Stages
    <3>5. exit' \in [Jobs -> {"none", "0", "1", "killed"}]
      BY <1>9 DEF Sound, TypeOK, PostStatus
    <3> QED
      BY <1>9, <3>3, <3>4, <3>5 DEF Sound, TypeOK, PostStatus
  <2>2. OnlyOf(w)
    BY <1>9 DEF Sound, TypeOK, OnlyOf, PostStatus
  <2>3. DoneBy(w)'
    BY <1>9 DEF Sound, TypeOK, DoneBy, Work, PostStatus
  <2>4. Verdict(w)'
    BY <1>9 DEF Sound, TypeOK, DoneBy, Verdict, Told, Work, PostStatus
  <2> QED
    BY <1>1, <2>1, <2>2, <2>3, <2>4
<1>10. ASSUME NEW w \in Jobs, Kill(w) PROVE Sound'
  <2>1. TypeOK'
    BY <1>10 DEF Sound, TypeOK, Stages, Work, Kill
  <2>2. OnlyOf(w)
    BY <1>10 DEF Sound, TypeOK, OnlyOf, Kill
  <2>3. DoneBy(w)'
    BY <1>10 DEF Sound, TypeOK, DoneBy, Work, Kill
  <2>4. Verdict(w)'
    BY <1>10 DEF Sound, TypeOK, DoneBy, Verdict, Told, Work, Kill
  <2> QED
    BY <1>1, <2>1, <2>2, <2>3, <2>4
<1>11. CASE UNCHANGED vars
  BY <1>11 DEF vars, Sound, TypeOK, DoneBy, Verdict, Told
<1> QED
  BY <1>2, <1>3, <1>4, <1>5, <1>6, <1>7, <1>8, <1>9, <1>10, <1>11 DEF Next, Step

-----------------------------------------------------------------------------

\* Every variable of the workers keeps its type (cmd.go:51-116,
\* worker.go:46-105).
THEOREM TypeCorrect == Spec => []TypeOK
<1>1. Sound => TypeOK
  BY DEF Sound
<1> QED
  BY InitSound, StepSound, <1>1, PTL DEF Spec

\* Success is reported only of a worker all of whose stages took place, Error
\* only of one that failed (worker.go:46-105, piazza_output.go:25-29).
THEOREM VerdictsTrue == Spec => []VerdictTrue
<1>1. Sound => VerdictTrue
  BY DEF Sound, DoneBy, Verdict, VerdictTrue
<1> QED
  BY InitSound, StepSound, <1>1, PTL DEF Spec

\* The reports of one worker are the one status it posted.
LEMMA OneReport ==
  ASSUME Sound, NEW w \in Jobs
  PROVE  Reported(w) \subseteq {<<w, "worker", status[w]>>}
<1> SUFFICES ASSUME NEW r \in Reported(w)
             PROVE  r = <<w, "worker", status[w]>>
  OBVIOUS
<1>1. r \in reports /\ r[1] = w /\ r[2] = "worker"
  BY DEF Reported
<1>2. PICK s \in {"Success", "Error", "Fail"} : r = <<w, "worker", s>>
  BY <1>1 DEF Sound, TypeOK
<1>3. Told(w, s)
  BY <1>1, <1>2 DEF Told
<1> QED
  BY <1>2, <1>3 DEF Sound, Verdict

\* A worker reports at most once, when everything else is over, and one that
\* exits with 0 did report (cmd.go:108-115, execresult.go:61-63).
THEOREM OneStatusEach == Spec => []OneStatus
<1>1. ASSUME Sound, NEW w \in Jobs
      PROVE  /\ Cardinality(Reported(w)) <= 1
             /\ Reported(w) # {} => stage[w] = "over"
             /\ exit[w] = "0" => Reported(w) # {}
  <2> DEFINE report == <<w, "worker", status[w]>>
  <2>1. Reported(w) \subseteq {report}
    BY <1>1, OneReport
  <2>2. Cardinality(Reported(w)) <= 1
    <3>1. IsFiniteSet({report}) /\ Cardinality({report}) = 1
      BY FS_Singleton
    <3> QED
      BY <2>1, <3>1, FS_Subset
  <2>3. Reported(w) # {} => Told(w, status[w])
    BY <2>1 DEF Reported, Told
  <2>4. Told(w, status[w]) => /\ status[w] \in {"Success", "Error", "Fail"}
                              /\ stage[w] = "over"
    BY <1>1 DEF Sound, TypeOK, Verdict, Told
  <2>5. exit[w] = "0" => report \in Reported(w)
    BY <1>1 DEF Sound, Verdict, Told, Reported
  <2> QED
    BY <2>2, <2>3, <2>4, <2>5
<1>2. Sound => OneStatus
  BY <1>1 DEF OneStatus
<1> QED
  BY InitSound, StepSound, <1>2, PTL DEF Spec

=============================================================================
