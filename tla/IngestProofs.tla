----------------------------- MODULE IngestProofs -----------------------------
(***************************************************************************)
(* The ingest of any number of outputs.  What the caller is told follows   *)
(* from an invariant about the two goroutines of each file (Chain) and     *)
(* from what the caller has counted and collected so far (Counted, Ids).   *)
(***************************************************************************)
EXTENDS Ingest, FiniteSetTheorems, TLAPS

Heard == {"id", "error", "never"}

\* The goroutines of a file: off together, one answer for one result, and the
\* caller has taken the answers of the files before next, no other.
Chain(f) ==
    /\ f \notin Called \/ caller = "assemble"
          => inner[f] = "off" /\ outer[f] = "off" /\ result[f] = "none" /\ answer[f] = "none"
    /\ f \in Called /\ caller # "assemble" => inner[f] # "off" /\ outer[f] # "off"
    /\ inner[f] \in {"off", "submit", "poll"} <=> result[f] = "none"
    /\ outer[f] \in {"off", "select"} <=> answer[f] = "none"
    /\ inner[f] = "ended" <=> answer[f] \in Heard
    /\ answer[f] \in Heard => answer[f] = result[f]
    /\ result[f] = "id" => piazza[f] = "stored"
    /\ answer[f] = "timeout" => clock >= TimeoutMinutes
    /\ result[f] = "never" => answer[f] = "timeout"
    /\ clock > TimeoutMinutes => outer[f] # "select"
    /\ f < next /\ f \in Called => outer[f] = "ended"
    /\ f >= next => outer[f] # "ended"

\* The files that count as errors.
Bad == {f \in Files : f \notin Called \/ (f < next /\ answer[f] # "id")}

Counted == caller # "assemble" => errors = Cardinality(Bad)

\* What has been collected: the last data ID of each path.
Ids ==
    /\ \A p \in Paths : dataIDs[p] # NoFile =>
          /\ path[dataIDs[p]] = p
          /\ dataIDs[p] < next /\ answer[dataIDs[p]] = "id"
          /\ \A f \in dataIDs[p] + 1 .. next - 1 : path[f] = p => answer[f] # "id"
    /\ \A f \in Files : f < next /\ answer[f] = "id" => dataIDs[path[f]] # NoFile

Chains == /\ TypeOK
          /\ caller = "assemble" => next = 1 /\ clock = 0 /\ errors = 0
          /\ caller = "done" => next = N + 1
          /\ \A f \in Files : Chain(f)

IInv == Chains /\ Counted /\ Ids

-----------------------------------------------------------------------------
(* The goroutines. *)

LEMMA InitInv == Init => IInv
<1> SUFFICES ASSUME Init PROVE IInv
  OBVIOUS
<1> USE NAssumption, TimeAssumption
<1>1. TypeOK
  BY DEF Init, TypeOK, Files, NoFile
<1>2. ASSUME NEW f \in Files PROVE Chain(f)
  BY <1>2 DEF Init, Chain, Called, Files, Heard
<1>3. Counted /\ Ids
  BY DEF Init, Counted, Ids, NoFile, Files
<1> QED
  BY <1>1, <1>2, <1>3 DEF IInv, Chains, Init

\* The files that are there, and so those with a call, never change.
LEMMA CalledKept == [Next]_vars => Called' = Called /\ path' = path
<1> SUFFICES ASSUME [Next]_vars PROVE Called' = Called /\ path' = path
  OBVIOUS
<1>1. path' = path /\ present' = present
  BY DEF Next, vars, Caller, AssembleAndCall, HandleAnswer, SkipFile, Return, ExitProcess,
         Tick, Inner, Outer, Submit, SubmitFails, Poll, PollFails, GiveUp, ReceiveResult,
         Timeout, Store
<1> QED
  BY <1>1 DEF Called

\* No more files than N are counted, and one more counts one more.
LEMMA Counting ==
  ASSUME NEW S \in SUBSET Files, NEW f \in Files
  PROVE  /\ IsFiniteSet(S) /\ Cardinality(S) \in 0..N
         /\ f \notin S => Cardinality(S \cup {f}) = Cardinality(S) + 1
         /\ Cardinality(S) + Cardinality(Files \ S) = N
<1> USE NAssumption
<1>1. IsFiniteSet(Files) /\ Cardinality(Files) = N
  BY FS_Interval DEF Files
<1>2. IsFiniteSet(S) /\ Cardinality(S) \in Nat /\ Cardinality(S) <= N
  BY <1>1, FS_Subset, FS_CardinalityType
<1>3. f \notin S => Cardinality(S \cup {f}) = Cardinality(S) + 1
  BY <1>2, FS_AddElement
<1>4. Cardinality(Files \ S) = Cardinality(Files) - Cardinality(S)
  <2>1. Files \cap S = S
    OBVIOUS
  <2> QED
    BY <1>1, <2>1, FS_Difference
<1> QED
  BY <1>1, <1>2, <1>3, <1>4

\* Taking the answer of the next file adds it to the errors or to none.
LEMMA HandleAnswerCounts ==
  ASSUME IInv, HandleAnswer, Called' = Called
  PROVE  /\ Bad' = IF answer[next] = "id" THEN Bad ELSE Bad \cup {next}
         /\ errors' = Cardinality(Bad') /\ errors' \in 0..N
<1> USE NAssumption
<1>1. next \in Files /\ next \in Called /\ next \notin Bad
  BY DEF HandleAnswer, Called, Bad, IInv, Chains, TypeOK, Files
<1>2. /\ answer' = answer /\ next' = next + 1 /\ caller = "handle"
      /\ errors' = IF answer[next] = "id" THEN errors ELSE errors + 1
  BY DEF HandleAnswer
<1>3. \A f \in Files : f < next + 1 <=> f < next \/ f = next
  BY <1>1 DEF Files
<1>4. Bad' = {f \in Files : f \notin Called \/ (f < next + 1 /\ answer[f] # "id")}
  BY <1>2 DEF Bad
<1>5. Bad' = IF answer[next] = "id" THEN Bad ELSE Bad \cup {next}
  BY <1>1, <1>3, <1>4 DEF Bad
<1>6. errors = Cardinality(Bad)
  BY <1>2 DEF IInv, Counted
<1>7. Bad \subseteq Files /\ Bad' \subseteq Files
  BY <1>1, <1>5 DEF Bad
<1>8. errors' = Cardinality(Bad')
  BY <1>1, <1>2, <1>5, <1>6, <1>7, Counting
<1> QED
  BY <1>1, <1>5, <1>7, <1>8, Counting

\* Every step keeps the types and the chains.
LEMMA StepChains == IInv /\ [Next]_vars => Chains'
<1> SUFFICES ASSUME IInv, [Next]_vars PROVE Chains'
  OBVIOUS
<1>0. Called' = Called /\ path' = path
  BY CalledKept
<1> USE NAssumption, TimeAssumption, <1>0 DEF IInv, Chains, TypeOK, Chain, Heard
<1>1. CASE AssembleAndCall
  <2>1. Cardinality(Files \ Called) \in 0..N
    <3>1. CASE Files = {}
      BY <3>1, FS_EmptySet
    <3>2. CASE Files # {}
      BY <3>2, Counting
    <3> QED
      BY <3>1, <3>2
  <2>2. Called \subseteq Files /\ 1 \in 1..(N + 1)
    BY DEF Called
  <2> QED
    BY <1>1, <2>1, <2>2 DEF AssembleAndCall, Files
<1>2. CASE HandleAnswer
  <2>1. errors' \in 0..N
    BY <1>2, HandleAnswerCounts
  <2>2. next \in Files
    BY <1>2 DEF HandleAnswer, Called
  <2>3. dataIDs' \in [Paths -> {NoFile} \cup Files]
    BY <1>2, <2>2 DEF HandleAnswer
  <2>4. TypeOK'
    BY <1>2, <2>1, <2>2, <2>3 DEF HandleAnswer, Files
  <2>5. ASSUME NEW f \in Files PROVE Chain(f)'
    BY <1>2, <2>2, <2>5 DEF HandleAnswer, Files
  <2> QED
    BY <1>2, <2>4, <2>5 DEF HandleAnswer
<1>3. CASE SkipFile
  BY <1>3 DEF SkipFile, Files
<1>4. CASE Return \/ ExitProcess
  BY <1>4 DEF Return, ExitProcess, Files
<1>5. CASE Tick
  BY <1>5 DEF Tick, Files
<1>6. ASSUME NEW f \in Files, Submit(f) PROVE Chains'
  BY <1>6 DEF Submit, Alive, Files
<1>14. ASSUME NEW f \in Files, SubmitFails(f) PROVE Chains'
  <2>1. PICK p \in {"unknown", "accepted"} : piazza' = [piazza EXCEPT ![f] = p]
    BY <1>14 DEF SubmitFails
  <2> QED
    BY <1>14, <2>1 DEF SubmitFails, Returns, Alive, Files
<1>7. ASSUME NEW f \in Files, Poll(f) PROVE Chains'
  <2>1. PICK r \in Answers(piazza[f] = "stored") :
          \/ Outcome(r) = "again" /\ UNCHANGED <<caller, inner, result>>
          \/ Outcome(r) \in {"id", "error"} /\ Returns(f, Outcome(r)) /\ UNCHANGED caller
          \/ Outcome(r) = "panic" /\ caller' = "exited" /\ UNCHANGED <<inner, result>>
    BY <1>7 DEF Poll
  <2>2. Outcome(r) = "id" => piazza[f] = "stored"
    BY <2>1 DEF Outcome, Answers
  <2>3. caller # "assemble"
    BY <1>7 DEF Poll
  <2>4. CASE Outcome(r) = "again"
    BY <1>7, <2>1, <2>4 DEF Poll
  <2>5. CASE Outcome(r) \in {"id", "error"}
    <3>1. /\ inner[f] = "poll" /\ caller' = caller
          /\ UNCHANGED <<path, present, next, outer, answer, piazza, errors, dataIDs, clock>>
      BY <1>7, <2>1, <2>5 DEF Poll
    <3>2. PICK o \in {"id", "error"} :
             /\ o = "id" => piazza[f] = "stored"
             /\ result' = [result EXCEPT ![f] = o] /\ inner' = [inner EXCEPT ![f] = "send"]
      BY <2>1, <2>2, <2>5 DEF Returns
    <3> QED
      BY <3>1, <3>2 DEF Files
  <2>6. CASE Outcome(r) = "panic"
    BY <1>7, <2>1, <2>3, <2>6 DEF Poll, Files
  <2> QED
    BY <2>1, <2>4, <2>5, <2>6
<1>8. ASSUME NEW f \in Files, PollFails(f) PROVE Chains'
  BY <1>8 DEF PollFails, Returns, Alive, Files
<1>9. ASSUME NEW f \in Files, GiveUp(f) PROVE Chains'
  BY <1>9 DEF GiveUp, Returns, Alive, Files
<1>10. ASSUME NEW f \in Files, ReceiveResult(f) PROVE Chains'
  BY <1>10 DEF ReceiveResult, Tells, Alive, Files
<1>11. ASSUME NEW f \in Files, Timeout(f) PROVE Chains'
  BY <1>11 DEF Timeout, Tells, Alive, Files
<1>12. ASSUME NEW f \in Files, Store(f) PROVE Chains'
  BY <1>12 DEF Store, Files
<1>13. CASE UNCHANGED vars
  BY <1>13 DEF vars
<1> QED
  BY <1>1, <1>2, <1>3, <1>4, <1>5, <1>6, <1>7, <1>8, <1>9, <1>10, <1>11, <1>12, <1>13, <1>14
     DEF Next, Caller, Inner, Outer

\* Apart from the caller's, a step keeps what was answered and collected.
LEMMA CountsKept ==
  ASSUME IInv, Called' = Called, path' = path,
         UNCHANGED <<errors, dataIDs>>,
         caller' = "assemble" <=> caller = "assemble",
         next' = next \/ (next' = next + 1 /\ next \in Files \ Called),
         \A f \in Files : f < next => answer'[f] = answer[f],
         next \in Files \ Called => answer'[next] = answer[next]
  PROVE  Counted' /\ Ids'
<1> USE NAssumption
<1>1. next \in Nat /\ \A f \in Files : f \in Nat
  BY DEF IInv, Chains, TypeOK, Files
<1>2. \A f \in Files : f < next' /\ f \in Called => f < next
  BY <1>1 DEF Files
<1>3. \A f \in Files \ Called : answer[f] = "none"
  BY DEF IInv, Chains, Chain
<1>4. \A f \in Files : f < next' => answer'[f] = answer[f]
  BY <1>1
<1>5. Bad' = Bad
  BY <1>1, <1>2, <1>4 DEF Bad
<1>6. Counted'
  BY <1>5 DEF Counted, IInv
<1>7. ASSUME NEW p \in Paths, dataIDs'[p] # NoFile
      PROVE  /\ path'[dataIDs'[p]] = p
             /\ dataIDs'[p] < next' /\ answer'[dataIDs'[p]] = "id"
             /\ \A f \in dataIDs'[p] + 1 .. next' - 1 : path'[f] = p => answer'[f] # "id"
  <2> DEFINE d == dataIDs[p]
  <2>1. d \in Files /\ path[d] = p /\ d < next /\ answer[d] = "id"
    BY <1>7 DEF IInv, Ids, Chains, TypeOK
  <2>2. ASSUME NEW f \in d + 1 .. next' - 1, path[f] = p PROVE answer'[f] # "id"
    <3>1. f \in Files /\ f < next'
      BY <1>1, <2>1 DEF Files, IInv, Chains, TypeOK
    <3>2. CASE f < next
      BY <1>1, <1>4, <1>7, <2>1, <2>2, <3>1, <3>2 DEF IInv, Ids, Files
    <3>3. CASE f = next /\ next \in Files \ Called
      BY <1>3, <1>4, <3>1, <3>3
    <3> QED
      BY <1>1, <3>1, <3>2, <3>3 DEF Files
  <2> QED
    BY <1>1, <1>4, <2>1, <2>2 DEF Files
<1>8. ASSUME NEW f \in Files, f < next', answer'[f] = "id" PROVE dataIDs'[path'[f]] # NoFile
  BY <1>1, <1>3, <1>4, <1>8 DEF IInv, Ids, Files
<1> QED
  BY <1>6, <1>7, <1>8 DEF Ids

\* Taking an answer collects it under the path of its file.
LEMMA HandleAnswerIds ==
  ASSUME IInv, HandleAnswer, path' = path
  PROVE  Ids'
<1> USE NAssumption
<1>1. /\ next \in Files /\ next' = next + 1 /\ answer' = answer
      /\ dataIDs' = IF answer[next] = "id" THEN [dataIDs EXCEPT ![path[next]] = next] ELSE dataIDs
      /\ path[next] \in Paths
  BY DEF HandleAnswer, Called, IInv, Chains, TypeOK
<1>2. dataIDs \in [Paths -> {NoFile} \cup Files] /\ path \in [Files -> Paths]
  BY DEF IInv, Chains, TypeOK
<1>3. ASSUME NEW p \in Paths, dataIDs'[p] # NoFile
      PROVE  /\ path[dataIDs'[p]] = p
             /\ dataIDs'[p] < next' /\ answer[dataIDs'[p]] = "id"
             /\ \A f \in dataIDs'[p] + 1 .. next' - 1 : path[f] = p => answer[f] # "id"
  <2>1. CASE answer[next] = "id" /\ p = path[next]
    <3>1. dataIDs'[p] = next
      BY <1>1, <1>2, <2>1
    <3> QED
      BY <1>1, <2>1, <3>1 DEF Files
  <2>2. CASE ~(answer[next] = "id" /\ p = path[next])
    <3> DEFINE d == dataIDs[p]
    <3>1. dataIDs'[p] = d
      BY <1>1, <1>2, <2>2
    <3>2. d \in Files /\ path[d] = p /\ d < next /\ answer[d] = "id"
      BY <1>2, <1>3, <3>1 DEF IInv, Ids
    <3>3. \A f \in d + 1 .. next - 1 : path[f] = p => answer[f] # "id"
      BY <1>3, <3>1 DEF IInv, Ids
    <3>4. \A f \in d + 1 .. next : f \in d + 1 .. next - 1 \/ f = next
      BY <1>1, <3>2 DEF Files
    <3>5. path[next] = p => answer[next] # "id"
      BY <2>2
    <3>6. next' - 1 = next
      BY <1>1 DEF Files
    <3> HIDE DEF d
    <3>7. \A f \in d + 1 .. next : path[f] = p => answer[f] # "id"
      BY <3>3, <3>4, <3>5
    <3>8. d < next'
      BY <1>1, <3>2 DEF Files
    <3> QED
      BY <3>1, <3>2, <3>6, <3>7, <3>8
  <2> QED
    BY <2>1, <2>2
<1>4. ASSUME NEW f \in Files, f < next', answer[f] = "id" PROVE dataIDs'[path[f]] # NoFile
  <2>1. f < next \/ f = next
    BY <1>1, <1>4 DEF Files
  <2>2. next # NoFile
    BY <1>1 DEF Files, NoFile
  <2> QED
    BY <1>1, <1>2, <1>4, <2>1, <2>2 DEF IInv, Ids
<1> QED
  BY <1>1, <1>3, <1>4 DEF Ids

LEMMA StepInv == IInv /\ [Next]_vars => IInv'
<1> SUFFICES ASSUME IInv, [Next]_vars PROVE Counted' /\ Ids'
  BY StepChains DEF IInv
<1>0. Called' = Called /\ path' = path
  BY CalledKept
<1>1. CASE AssembleAndCall
  <2>1. next = 1 /\ next' = 1 /\ dataIDs' = dataIDs /\ answer' = answer
    BY <1>1 DEF AssembleAndCall, IInv, Chains
  <2>2. Bad' = Files \ Called
    BY <1>0, <2>1, NAssumption DEF Bad, Files
  <2>3. Counted'
    BY <1>1, <2>2 DEF Counted, AssembleAndCall
  <2> QED
    BY <1>0, <2>1, <2>3 DEF Ids, IInv
<1>2. CASE HandleAnswer
  BY <1>0, <1>2, HandleAnswerCounts, HandleAnswerIds DEF Counted
<1>3. CASE SkipFile
  BY <1>0, <1>3, CountsKept DEF SkipFile
<1>4. CASE Return \/ ExitProcess \/ Tick \/ UNCHANGED vars
  BY <1>0, <1>4, CountsKept DEF Return, ExitProcess, Tick, vars
<1>5. ASSUME NEW f \in Files, Inner(f) \/ Store(f) PROVE Counted' /\ Ids'
  <2>1. caller # "assemble" \/ inner[f] = "off"
    BY <1>5 DEF IInv, Chains, Chain
  <2>2. /\ UNCHANGED <<next, errors, dataIDs, answer>>
        /\ caller' = "assemble" <=> caller = "assemble"
    BY <1>5, <2>1 DEF Inner, Store, Submit, SubmitFails, Poll, PollFails, GiveUp
  <2> QED
    BY <1>0, <2>2, CountsKept
<1>6. ASSUME NEW f \in Files, Outer(f) PROVE Counted' /\ Ids'
  <2>1. outer[f] = "select" /\ UNCHANGED <<next, errors, dataIDs, caller>>
    BY <1>6 DEF Outer, ReceiveResult, Timeout
  <2>2. f \in Called /\ ~(f < next)
    BY <2>1 DEF IInv, Chains, Chain
  <2>3. \A g \in Files : g # f => answer'[g] = answer[g]
    BY <1>6 DEF Outer, ReceiveResult, Timeout, Tells, IInv, Chains, TypeOK
  <2> QED
    BY <1>0, <2>1, <2>2, <2>3, CountsKept
<1> QED
  BY <1>1, <1>2, <1>3, <1>4, <1>5, <1>6 DEF Next, Caller

\* When the caller has been through all files, each counts or is ingested.
LEMMA AtTheEnd ==
  ASSUME IInv, next = N + 1, caller # "assemble"
  PROVE  /\ errors = Cardinality(Bad) /\ IsFiniteSet(Bad) /\ Bad \subseteq Files
         /\ Files \ Bad = {f \in Files : answer[f] = "id"}
<1>1. \A f \in Files : f < next
  BY NAssumption DEF Files
<1>2. \A f \in Files : f \notin Called => answer[f] = "none"
  BY DEF IInv, Chains, Chain
<1>3. Bad \subseteq Files /\ Files \ Bad = {f \in Files : answer[f] = "id"}
  BY <1>1, <1>2 DEF Bad
<1>4. IsFiniteSet(Bad)
  <2>1. IsFiniteSet(Files)
    BY FS_Interval, NAssumption DEF Files
  <2> QED
    BY <1>3, <2>1, FS_Subset
<1> QED
  BY <1>3, <1>4 DEF IInv, Counted

-----------------------------------------------------------------------------
(* The theorems. *)

LEMMA Invariance == Spec => []IInv
  BY InitInv, StepInv, PTL DEF Spec

\* The state of OutputFilesToPiazza and of its goroutines has its types.
THEOREM TypeCorrect == Spec => []TypeOK
<1>1. IInv => TypeOK
  BY DEF IInv, Chains
<1> QED
  BY <1>1, Invariance, PTL

\* For any number of outputs: no error means that every one is in Piazza and
\* has a data ID.
THEOREM NoErrorIsSuccess == Spec => []NoErrorMeansStored
<1>1. ASSUME IInv PROVE NoErrorMeansStored
  <2> SUFFICES ASSUME Finished, errors = 0, NEW f \in Files
               PROVE  piazza[f] = "stored" /\ dataIDs[path[f]] # NoFile
    BY DEF NoErrorMeansStored
  <2>1. next = N + 1 /\ caller # "assemble"
    BY DEF Finished
  <2>2. Bad = {}
    BY <1>1, <2>1, AtTheEnd, FS_EmptySet
  <2>3. answer[f] = "id"
    BY <1>1, <2>1, <2>2, AtTheEnd
  <2>4. f < next
    BY <2>1, NAssumption DEF Files
  <2> QED
    BY <1>1, <2>3, <2>4 DEF IInv, Chains, Chain, Ids, Heard
<1> QED
  BY <1>1, Invariance, PTL

\* A data ID that is returned is that of the last ingested file of its path.
THEOREM DataIDsAreStored == Spec => []IdsAreStored
<1>1. ASSUME IInv PROVE IdsAreStored
  <2> SUFFICES ASSUME NEW p \in Paths, dataIDs[p] # NoFile
               PROVE  piazza[dataIDs[p]] = "stored"
    BY <1>1 DEF IdsAreStored, IInv, Ids
  <2>1. dataIDs[p] \in Files /\ answer[dataIDs[p]] = "id"
    BY <1>1 DEF IInv, Ids, Chains, TypeOK
  <2> QED
    BY <1>1, <2>1 DEF IInv, Chains, Chain, Heard
<1> QED
  BY <1>1, Invariance, PTL

\* A goroutine stays behind only if its file has timed out; and whatever the two
\* limits are, the timer being the shorter one, nobody hears that a job never
\* completed (ingest_async.go:28 and 38, http.go:179 and 213).
THEOREM LateMeansTimedOut == Spec => []LateOnlyAfterTimeout
<1>1. ASSUME IInv, NEW f \in Files, Leaked(f)
      PROVE  answer[f] = "timeout" /\ clock >= TimeoutMinutes
  BY <1>1 DEF Leaked, IInv, Chains, TypeOK, Chain, Heard
<1>2. ASSUME IInv, NEW f \in Files, result[f] = "never" PROVE answer[f] = "timeout"
  BY <1>2 DEF IInv, Chains, Chain
<1>3. IInv => LateOnlyAfterTimeout
  BY <1>1, <1>2 DEF LateOnlyAfterTimeout
<1> QED
  BY <1>3, Invariance, PTL

-----------------------------------------------------------------------------
(* The ingest implements Gather. *)

Fate == [f \in Files |-> FateOf(f)]
Told == {f \in Files : caller # "assemble" /\ (f \notin Called \/ f < next)}

\* What the caller has heard of is settled, and the errors are what is bad of it.
LEMMA ToldSettled ==
  ASSUME IInv
  PROVE  /\ \A f \in Told : FateOf(f) # "open"
         /\ caller # "assemble" => Bad = {f \in Told : FateOf(f) = "bad"}
<1>1. ASSUME NEW f \in Files, f \in Called, f < next PROVE answer[f] # "none"
  BY <1>1 DEF IInv, Chains, Chain
<1>2. ASSUME NEW f \in Files, f \notin Called PROVE answer[f] = "none"
  BY <1>2 DEF IInv, Chains, Chain
<1>3. \A f \in Told : FateOf(f) # "open"
  BY <1>1 DEF Told, FateOf
<1>4. ASSUME caller # "assemble", NEW f \in Files
      PROVE  f \in Bad <=> f \in Told /\ FateOf(f) = "bad"
  BY <1>1, <1>2, <1>4 DEF Told, FateOf, Bad
<1>5. Bad \subseteq Files /\ Told \subseteq Files
  BY DEF Bad, Told
<1> QED
  BY <1>3, <1>4, <1>5

\* A step of a goroutine, of Piazza or of the clock settles a file at most, and
\* no file that is settled.
LEMMA OthersSettle ==
  ASSUME IInv, path' = path, present' = present, NEW k \in Files,
         caller' = caller \/ (caller # "assemble" /\ caller' # "assemble"),
         \/ answer' = answer
         \/ \E f \in Files : \E a : outer[f] = "select" /\ answer' = [answer EXCEPT ![f] = a]
  PROVE  FateOf(k) # "open" => FateOf(k)' = FateOf(k)
<1>1. Called' = Called
  BY DEF Called
<1>2. CASE answer' = answer
  BY <1>1, <1>2 DEF FateOf
<1>3. ASSUME NEW f \in Files, NEW a, outer[f] = "select", answer' = [answer EXCEPT ![f] = a]
      PROVE  FateOf(k) # "open" => FateOf(k)' = FateOf(k)
  <2>1. answer[f] = "none" /\ f \in Called
    BY <1>3 DEF IInv, Chains, Chain
  <2>2. CASE k = f
    BY <2>1, <2>2 DEF FateOf
  <2>3. CASE k # f
    BY <1>1, <1>3, <2>3 DEF FateOf, IInv, Chains, TypeOK
  <2> QED
    BY <2>2, <2>3
<1> QED
  BY <1>2, <1>3

\* Every step settles files, or tells the caller of settled ones, and the errors
\* grow by those of them that are bad.
LEMMA StepGathers == IInv /\ [Next]_vars => [Ingesting!Next]_(Ingesting!vars)
<1> SUFFICES ASSUME IInv, [Next]_vars PROVE [Ingesting!Next]_(Ingesting!vars)
  OBVIOUS
<1> USE NAssumption
<1>0. Called' = Called /\ path' = path
  BY CalledKept
<1> DEFINE Settles == \A k \in Files : FateOf(k) # "open" => FateOf(k)' = FateOf(k)
           New == {k \in Told' \ Told : Fate'[k] = "bad"}
<1>1. ASSUME Settles, Told \subseteq Told', \A k \in Told' : Fate'[k] # "open",
             errors' = errors + Cardinality(New),
             caller' = "done" => Told' = Files
      PROVE  Ingesting!Next
  <2>1. Fate' \in [Files -> Ingesting!Fates]
    BY DEF Fate, FateOf, Ingesting!Fates
  <2>2. Ingesting!Settle
    BY <1>1, <2>1 DEF Fate, Ingesting!Settle
  <2>3. \A S : Ingesting!Cardinality(S) = Cardinality(S)
    BY DEF Ingesting!Cardinality, Cardinality
  <2>4. Ingesting!Hear
    BY <1>1, <2>3 DEF Fate, Told, Ingesting!Hear
  <2>5. Ingesting!Return
    BY <1>1 DEF Told, Ingesting!Return
  <2> QED
    BY <2>2, <2>4, <2>5 DEF Ingesting!Next
<1>2. ASSUME Settles, Told' = Told, errors' = errors, caller' = "done" => Told' = Files
      PROVE  Ingesting!Next
  <2>1. New = {} /\ Cardinality({}) = 0 /\ errors \in Nat
    BY <1>2, FS_EmptySet DEF IInv, Chains, TypeOK
  <2>2. \A k \in Told' : Fate'[k] # "open"
    BY <1>2, ToldSettled DEF Told, Fate
  <2> HIDE DEF New, Settles
  <2> QED
    BY <1>1, <1>2, <2>1, <2>2
<1>3. CASE AssembleAndCall
  <2>1. /\ caller = "assemble" /\ caller' = "handle" /\ next' = 1 /\ errors = 0
        /\ errors' = Cardinality(Files \ Called) /\ answer' = answer
    BY <1>3 DEF AssembleAndCall, IInv, Chains
  <2>2. Told = {} /\ Told' = Files \ Called
    BY <1>0, <2>1 DEF Told, Files
  <2>3. \A k \in Files : FateOf(k) = "open"
    BY <2>1 DEF FateOf
  <2>4. \A k \in Files \ Called : Fate'[k] = "bad"
    <3>1. \A k \in Files \ Called : answer'[k] = "none"
      BY <2>1 DEF IInv, Chains, Chain
    <3> QED
      BY <1>0, <2>1, <3>1 DEF Fate, FateOf
  <2>5. New = Files \ Called
    BY <2>2, <2>4
  <2>6. errors' = 0 + Cardinality(New)
    <3>1. Called \subseteq Files /\ IsFiniteSet(Files)
      BY FS_Interval DEF Called, Files
    <3>2. Cardinality(Files \ Called) \in Nat
      BY <3>1, FS_Subset, FS_CardinalityType
    <3> QED
      BY <2>1, <2>5, <3>2
  <2> HIDE DEF New
  <2> QED
    BY <1>1, <2>1, <2>2, <2>3, <2>4, <2>6
<1>4. CASE HandleAnswer
  <2>1. /\ next \in Files /\ next \in Called /\ next' = next + 1
        /\ caller = "handle" /\ caller' = caller /\ answer' = answer
    BY <1>4 DEF HandleAnswer, Called
  <2>2. Told' = Told \cup {next} /\ next \notin Told
    BY <1>0, <2>1 DEF Told, Files
  <2>3. \A k \in Files : FateOf(k)' = FateOf(k)
    BY <1>0, <2>1 DEF FateOf
  <2>4. answer[next] # "none" /\ FateOf(next) = IF answer[next] = "id" THEN "good" ELSE "bad"
    BY <1>4, <2>1 DEF HandleAnswer, FateOf, IInv, Chains, Chain
  <2>5. \A k \in Told' : Fate'[k] # "open"
    BY <2>1, <2>2, <2>3, <2>4, ToldSettled DEF Told, Fate
  <2>6. New = IF answer[next] = "id" THEN {} ELSE {next}
    BY <2>1, <2>2, <2>3, <2>4 DEF Fate
  <2>7. errors' = errors + Cardinality(New)
    <3>1. errors \in Nat /\ errors' = IF answer[next] = "id" THEN errors ELSE errors + 1
      BY <1>4 DEF HandleAnswer, IInv, Chains, TypeOK
    <3> QED
      BY <2>6, <3>1, FS_EmptySet, FS_Singleton
  <2> HIDE DEF New
  <2> QED
    BY <1>1, <2>1, <2>2, <2>3, <2>5, <2>7
<1>5. CASE SkipFile
  <2>1. /\ next \in Files \ Called /\ next' = next + 1
        /\ caller = "handle" /\ UNCHANGED <<caller, answer, errors>>
    BY <1>5 DEF SkipFile
  <2>2. Told' = Told
    BY <1>0, <2>1 DEF Told, Files
  <2>3. Settles
    BY <1>0, <2>1 DEF FateOf
  <2> HIDE DEF Settles
  <2> QED
    BY <1>2, <2>1, <2>2, <2>3
<1>6. CASE Return \/ ExitProcess \/ Tick \/ \E f \in Files : Inner(f) \/ Outer(f) \/ Store(f)
  <2>1. /\ next' = next /\ errors' = errors /\ present' = present
    BY <1>6 DEF Return, ExitProcess, Tick, Inner, Outer, Store, Submit, SubmitFails, Poll,
       PollFails, GiveUp, ReceiveResult, Timeout
  <2>2. \/ caller' = caller
        \/ caller # "assemble" /\ caller' # "assemble"
    <3>1. ASSUME NEW f \in Files, Poll(f) PROVE caller # "assemble"
      BY <3>1 DEF Poll, IInv, Chains, Chain
    <3> QED
      BY <1>6, <3>1 DEF Return, ExitProcess, Tick, Inner, Outer, Store, Submit, SubmitFails,
         Poll, PollFails, GiveUp, ReceiveResult, Timeout
  <2>3. \/ answer' = answer
        \/ \E f \in Files : \E a : outer[f] = "select" /\ answer' = [answer EXCEPT ![f] = a]
    BY <1>6 DEF Return, ExitProcess, Tick, Inner, Outer, Store, Submit, SubmitFails, Poll,
       PollFails, GiveUp, ReceiveResult, Timeout, Tells
  <2>4. Settles
    BY <1>0, <2>1, <2>2, <2>3, OthersSettle
  <2>5. Told' = Told
    BY <1>0, <2>1, <2>2 DEF Told
  <2>6. ASSUME caller' = "done" PROVE Told' = Files
    <3>1. next' = N + 1
      BY <2>6, StepChains DEF Chains
    <3> QED
      BY <2>6, <3>1 DEF Told, Files
  <2> HIDE DEF Settles
  <2> QED
    BY <1>2, <2>1, <2>4, <2>5, <2>6
<1>7. CASE UNCHANGED vars
  BY <1>0, <1>7 DEF vars, Ingesting!vars, FateOf
<1> QED
  BY <1>3, <1>4, <1>5, <1>6, <1>7 DEF Next, Caller

\* For any number of outputs, and however the timers and the results race,
\* OutputFilesToPiazza keeps the promise of Gather (ingest.go:59-66 and 94-121,
\* ingest_async.go:25-43).
THEOREM IngestImplementsGather == Spec => ImplementsGather
<1>1. Init => Ingesting!Init
  BY DEF Init, Ingesting!Init, FateOf
<1>2. IInv /\ [Next]_vars => IInv' /\ [Ingesting!Next]_(Ingesting!vars)
  BY StepInv, StepGathers
<1> QED
  BY <1>1, <1>2, InitInv, PTL DEF Spec, ImplementsGather, Ingesting!Spec

=============================================================================
