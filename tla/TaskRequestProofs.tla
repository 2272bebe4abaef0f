--------------------------- MODULE TaskRequestProofs ---------------------------
(***************************************************************************)
(* From a job to its worker, for jobs of any texts, inputs of any lengths  *)
(* and any settings.  The invariant says what each phase has decided: the  *)
(* texts of the command (Command), the limits of the task (Limits) and why *)
(* a worker exits (Exits).                                                 *)
(***************************************************************************)
EXTENDS TaskRequest, TLAPS

Built == phase \in {"size", "limits", "validate", "working", "exited"}

Command ==
    /\ Built => /\ Len(job.names) = Len(job.urls)
                /\ pairs = [k \in 1 .. Len(job.names) |-> job.names[k] \o job.urls[k]]
    /\ ~Built => pairs = <<>>
    /\ phase = "working" => inputs = [k \in DOMAIN pairs |-> ParseInputSource(pairs[k])]
    /\ phase # "working" => inputs = <<>>

\* Rounding down loses less than a megabyte per file.
Limits ==
    /\ i \in 1 .. Len(job.urls) + 1
    /\ total \in Nat /\ space \in Nat /\ disk \in Nat /\ memory \in Nat
    /\ phase # "limits" /\ i > Len(job.urls) => space <= total + Len(job.urls)
    /\ phase = "size" => space <= total + (i - 1)
    /\ phase \in {"poll", "build", "dropped"} => i = 1 /\ total = 0 /\ space = 0
    /\ phase = "limits" => i <= Len(job.urls)
    /\ phase = "limits" \/ (Requested /\ i <= Len(job.urls)) => total = 0
    /\ Requested => /\ disk = IF total > 0 THEN 4096 + total * 2 ELSE DefaultDisk
                    /\ memory = IF total > 0 THEN DefaultMemory + total * 5 ELSE DefaultMemory

Exits == phase = "exited" => ~job.geojson \/ ~WorkerStarts(config)

Given == /\ job \in Jobs /\ config \in Files /\ Starts(config) /\ phase \in Phases
         /\ env \in [limit : Texts(Numbers), disk : Texts(Numbers), memory : Texts(Numbers)]

IInv == Given /\ Command /\ Limits /\ Exits

-----------------------------------------------------------------------------
(* Texts and numbers. *)

LEMMA UpToSeq ==
  ASSUME NEW S, NEW s \in UpTo(S)
  PROVE  s \in Seq(S) /\ Len(s) \in Nat /\ DOMAIN s = 1 .. Len(s) /\ \A k \in 1 .. Len(s) : s[k] \in S
<1>1. PICK n \in 0..MaxInputs : s \in [1..n -> S]
  BY DEF UpTo
<1> QED
  BY <1>1, NumberAssumption

\* What a job names, and what the command makes of it, are texts.
LEMMA JobTexts ==
  ASSUME NEW j \in Jobs, Len(j.names) = Len(j.urls), NEW k \in 1 .. Len(j.names)
  PROVE  /\ j.names[k] \in Seq(Pieces) /\ j.names[k] # <<>>
         /\ j.urls[k] \in Seq(Pieces) /\ j.urls[k] # <<>>
<1>1. j.names \in UpTo(Names) /\ j.urls \in UpTo(URLs)
  BY DEF Jobs
<1>2. j.names[k] \in Names /\ j.urls[k] \in URLs
  BY <1>1, UpToSeq
<1> QED
  BY <1>2, TextAssumption

\* The first colon is the one of the command if, and only if, the name has none.
LEMMA FirstColon ==
  ASSUME NEW S, NEW s \in Seq(S), NEW t \in Seq(S), s # <<>>, t # <<>>
  PROVE  /\ Len(s \o t) >= 2 /\ Head(s \o t) \in S /\ Tail(s \o t) \in Seq(S)
         /\ <<Head(s \o t)>> = s /\ Tail(s \o t) = t <=> Len(s) = 1
<1>1. s \o t \in Seq(S) /\ Len(s \o t) = Len(s) + Len(t) /\ Len(s) > 0 /\ Len(t) > 0
  OBVIOUS
<1>2. Head(s \o t) = s[1] /\ Head(s \o t) \in S /\ Tail(s \o t) \in Seq(S)
  BY <1>1
<1>3. ASSUME Len(s) = 1 PROVE <<Head(s \o t)>> = s /\ Tail(s \o t) = t
  <2>1. Len(Tail(s \o t)) = Len(t)
    BY <1>1, <1>3
  <2>2. \A k \in 1 .. Len(t) : Tail(s \o t)[k] = t[k]
    BY <1>1, <1>3
  <2>3. Tail(s \o t) = t
    BY <1>2, <2>1, <2>2
  <2> QED
    BY <1>2, <1>3, <2>3
<1>4. <<Head(s \o t)>> = s => Len(s) = 1
  OBVIOUS
<1> QED
  BY <1>1, <1>2, <1>3, <1>4

LEMMA Defaults ==
  ASSUME env \in [limit : Texts(Numbers), disk : Texts(Numbers), memory : Texts(Numbers)]
  PROVE  DefaultDisk \in Nat /\ DefaultMemory \in Nat
<1>1. \A t \in Texts(Numbers) : Atoi(t) \in Int
  <2> SUFFICES ASSUME NEW t \in Texts(Numbers), t.kind = "number" PROVE t.n \in Int
    BY DEF Atoi
  <2>1. CASE t \in [kind : {"number"}, n : Numbers]
    BY <2>1, NumberAssumption
  <2>2. CASE t \in {[kind |-> k, n |-> 0] : k \in {"unset", "junk"}}
    BY <2>2
  <2> QED
    BY <2>1, <2>2 DEF Texts
<1>2. \A t \in Texts(Numbers), d \in Nat : PositiveOr(d, t) \in Nat
  BY <1>1 DEF PositiveOr
<1> QED
  BY <1>2 DEF DefaultDisk, DefaultMemory

LEMMA Rounding ==
  ASSUME NEW n \in Nat
  PROVE  /\ n \div MB \in Nat /\ (n + MB - 1) \div MB \in Nat
         /\ (n + MB - 1) \div MB <= n \div MB + 1
  BY SMT DEF MB

\* What the texts of a built command are, and what the worker reads from each.
LEMMA Pairs ==
  ASSUME IInv, Built
  PROVE  /\ Len(job.names) \in Nat /\ DOMAIN pairs = 1 .. Len(job.names)
         /\ \A k \in 1 .. Len(job.names) :
               /\ pairs[k] = job.names[k] \o job.urls[k]
               /\ pairs[k] \in Seq(Pieces) /\ Len(pairs[k]) >= 2
               /\ Head(pairs[k]) \in Pieces /\ Tail(pairs[k]) \in Seq(Pieces)
               /\ <<Head(pairs[k])>> = job.names[k] /\ Tail(pairs[k]) = job.urls[k]
                  <=> Len(job.names[k]) = 1
<1>1. Len(job.names) \in Nat
  BY UpToSeq DEF IInv, Given, Jobs
<1>2. pairs = [k \in 1 .. Len(job.names) |-> job.names[k] \o job.urls[k]]
      /\ Len(job.names) = Len(job.urls) /\ job \in Jobs
  BY DEF IInv, Command, Given
<1>3. ASSUME NEW k \in 1 .. Len(job.names)
      PROVE  /\ pairs[k] = job.names[k] \o job.urls[k]
             /\ pairs[k] \in Seq(Pieces) /\ Len(pairs[k]) >= 2
             /\ Head(pairs[k]) \in Pieces /\ Tail(pairs[k]) \in Seq(Pieces)
             /\ <<Head(pairs[k])>> = job.names[k] /\ Tail(pairs[k]) = job.urls[k]
                  <=> Len(job.names[k]) = 1
  <2>1. pairs[k] = job.names[k] \o job.urls[k]
    BY <1>2
  <2>2. /\ job.names[k] \in Seq(Pieces) /\ job.names[k] # <<>>
        /\ job.urls[k] \in Seq(Pieces) /\ job.urls[k] # <<>>
    BY <1>2, JobTexts
  <2> DEFINE s == job.names[k]
             t == job.urls[k]
  <2>3. s \in Seq(Pieces) /\ t \in Seq(Pieces) /\ s # <<>> /\ t # <<>> /\ pairs[k] = s \o t
    BY <2>1, <2>2
  <2> HIDE DEF s, t
  <2>4. s \o t \in Seq(Pieces)
    BY <2>3
  <2>5. /\ Len(s \o t) >= 2 /\ Head(s \o t) \in Pieces /\ Tail(s \o t) \in Seq(Pieces)
        /\ <<Head(s \o t)>> = s /\ Tail(s \o t) = t <=> Len(s) = 1
    BY <2>3, FirstColon
  <2>6. /\ pairs[k] = s \o t
        /\ pairs[k] \in Seq(Pieces) /\ Len(pairs[k]) >= 2
        /\ Head(pairs[k]) \in Pieces /\ Tail(pairs[k]) \in Seq(Pieces)
        /\ <<Head(pairs[k])>> = s /\ Tail(pairs[k]) = t <=> Len(s) = 1
    BY <2>3, <2>4, <2>5
  <2> QED
    BY <2>6 DEF s, t
<1> QED
  BY <1>1, <1>2, <1>3

-----------------------------------------------------------------------------
(* The invariant. *)

LEMMA InitInv == Init => IInv
<1> SUFFICES ASSUME Init PROVE IInv
  OBVIOUS
<1>1. job.urls \in Seq(URLs) /\ Len(job.urls) \in Nat
  BY UpToSeq DEF Init, Jobs
<1> QED
  BY <1>1 DEF Init, IInv, Given, Command, Limits, Exits, Built, Requested, Phases

LEMMA StepInv == IInv /\ [Next]_vars => IInv'
<1> SUFFICES ASSUME IInv, [Next]_vars PROVE IInv'
  OBVIOUS
<1>1. job.urls \in Seq(URLs) /\ Len(job.urls) \in Nat
  BY UpToSeq DEF IInv, Given, Jobs
<1>2. DefaultDisk \in Nat /\ DefaultMemory \in Nat
  BY Defaults DEF IInv, Given
<1> USE <1>1 DEF IInv, Given, Command, Limits, Exits, Built, Requested, Phases, settings
<1>3. CASE TakeJob
  BY <1>3 DEF TakeJob
<1>4. CASE BuildCommand
  <2>1. phase = "build" /\ UNCHANGED <<job, config, env, i, total, space, disk, memory, inputs>>
        /\ phase' \in {"dropped", "size"}
    BY <1>4 DEF BuildCommand
  <2>2. Command'
    <3>1. CASE Len(job.urls) # Len(job.names)
      BY <1>4, <2>1, <3>1 DEF BuildCommand
    <3>2. CASE Len(job.urls) = Len(job.names)
      BY <1>4, <2>1, <3>2 DEF BuildCommand
    <3> QED
      BY <3>1, <3>2
  <2>3. Given' /\ Exits'
    BY <2>1
  <2>4. Limits'
    BY <2>1
  <2> QED
    BY <2>2, <2>3, <2>4
<1>5. CASE AskSize
  <2>1. CASE GiveUpSizes /\ UNCHANGED <<i, space>>
    BY <1>5, <2>1 DEF AskSize, GiveUpSizes
  <2>2. ASSUME NEW length \in Lengths,
               total' = total + length \div MB,
               space' = space + (length + MB - 1) \div MB,
               i' = i + 1, phase' = phase
        PROVE  IInv'
    <3> DEFINE down == length \div MB
               up == (length + MB - 1) \div MB
    <3>1. down \in Nat /\ up \in Nat /\ up <= down + 1
      BY Rounding, NumberAssumption
    <3>2. total' = total + down /\ space' = space + up
      BY <2>2
    <3> HIDE DEF down, up
    <3>3. total' \in Nat /\ space' \in Nat /\ i' \in 1 .. Len(job.urls) + 1
      BY <1>5, <2>2, <3>1, <3>2 DEF AskSize
    <3>4. space' <= total' + (i' - 1)
      BY <1>5, <2>2, <3>1, <3>2 DEF AskSize
    <3>5. phase = "size" /\ UNCHANGED <<settings, pairs, disk, memory, inputs>>
      BY <1>5 DEF AskSize
    <3>6. i' > Len(job.urls) => space' <= total' + Len(job.urls)
      BY <1>5, <2>2, <3>3, <3>4
    <3> QED
      BY <2>2, <3>3, <3>4, <3>5, <3>6
  <2> QED
    BY <1>5, <2>1, <2>2 DEF AskSize
<1>6. CASE RequestTask
  <2>1. disk' \in Nat /\ memory' \in Nat
    BY <1>2, <1>6 DEF RequestTask
  <2>2. /\ disk' = IF total > 0 THEN 4096 + total * 2 ELSE DefaultDisk
        /\ memory' = IF total > 0 THEN DefaultMemory + total * 5 ELSE DefaultMemory
        /\ phase' = "validate" /\ UNCHANGED <<settings, pairs, i, total, space, inputs>>
    BY <1>6 DEF RequestTask
  <2>3. DefaultDisk' = DefaultDisk /\ DefaultMemory' = DefaultMemory
    BY <2>2 DEF DefaultDisk, DefaultMemory
  <2>4. phase = "limits" \/ (phase = "size" /\ i > Len(job.urls))
    BY <1>6 DEF RequestTask, SizesEnded
  <2> HIDE DEF IInv
  <2>5. Limits'
    BY <2>1, <2>2, <2>3, <2>4 DEF IInv
  <2> QED
    BY <2>2, <2>4, <2>5 DEF IInv
<1>7. CASE Validate
  <2>1. DefaultDisk' = DefaultDisk /\ DefaultMemory' = DefaultMemory
    BY <1>7 DEF Validate, DefaultDisk, DefaultMemory
  <2>2. phase = "validate" => \A k \in DOMAIN pairs : Len(pairs[k]) >= 2
    <3> HIDE DEF IInv
    <3> QED
      BY Pairs DEF Built
  <2>3. phase' \in {"working", "exited"} /\ phase = "validate"
        /\ UNCHANGED <<job, config, env, pairs, i, total, space, disk, memory>>
    BY <1>7 DEF Validate
  <2>5. Command'
    BY <1>7, <2>3 DEF Validate
  <2>6. Limits'
    BY <2>1, <2>3
  <2>7. Given'
    BY <2>3
  <2>4. Exits'
    BY <1>7, <2>2 DEF Validate
  <2> QED
    BY <2>4, <2>5, <2>6, <2>7
<1>8. CASE UNCHANGED vars
  <2>1. Given' /\ Exits'
    BY <1>8 DEF vars
  <2>2. Command'
    BY <1>8 DEF vars
  <2>3. Limits'
    BY <1>8 DEF vars, DefaultDisk, DefaultMemory
  <2> QED
    BY <2>1, <2>2, <2>3
<1> QED
  BY <1>3, <1>4, <1>5, <1>6, <1>7, <1>8 DEF Next

LEMMA Invariance == Spec => []IInv
  BY InitInv, StepInv, PTL DEF Spec

-----------------------------------------------------------------------------
(* The theorems. *)

\* The state of a job on its way to a worker has its types.
THEOREM TypeCorrect == Spec => []TypeOK
<1>1. ASSUME IInv PROVE TypeOK
  <2>1. CASE Built
    <3>1. pairs \in Seq(Seq(Pieces))
      <4> DEFINE n == Len(job.names)
      <4>1. pairs = [k \in 1 .. n |-> pairs[k]]
        BY <1>1, <2>1, Pairs DEF IInv, Command
      <4>2. n \in Nat /\ \A k \in 1 .. n : pairs[k] \in Seq(Pieces)
        BY <1>1, <2>1, Pairs
      <4> HIDE DEF n
      <4> QED
        BY <4>1, <4>2
    <3>2. inputs \in Seq([FileName : Pieces, URL : Seq(Pieces)])
      <4>1. CASE phase # "working"
        BY <1>1, <4>1 DEF IInv, Command
      <4>2. CASE phase = "working"
        <5>1. inputs = [k \in DOMAIN pairs |-> ParseInputSource(pairs[k])]
          BY <1>1, <4>2 DEF IInv, Command
        <5>2. \A k \in 1 .. Len(job.names) :
                 ParseInputSource(pairs[k]) \in [FileName : Pieces, URL : Seq(Pieces)]
          BY <1>1, <2>1, Pairs DEF ParseInputSource
        <5> QED
          BY <1>1, <2>1, <5>1, <5>2, Pairs
      <4> QED
        BY <4>1, <4>2
    <3> QED
      BY <1>1, <3>1, <3>2 DEF TypeOK, IInv, Given, Limits
  <2>2. CASE ~Built
    <3>1. pairs = <<>> /\ inputs = <<>>
      BY <1>1, <2>2 DEF IInv, Command, Built
    <3> QED
      BY <1>1, <3>1 DEF TypeOK, IInv, Given, Limits
  <2> QED
    BY <2>1, <2>2
<1> QED
  BY <1>1, Invariance, PTL

\* For any texts: the worker's inputs are the job's exactly where no name has a
\* colon.
THEOREM InputsArrive == Spec => []InputsIntact
<1>1. ASSUME IInv PROVE InputsIntact
  <2> SUFFICES ASSUME phase = "working" PROVE InputsIntact
    BY DEF InputsIntact
  <2>1. Built /\ inputs = [k \in DOMAIN pairs |-> ParseInputSource(pairs[k])]
    BY <1>1 DEF Built, IInv, Command
  <2>2. Len(inputs) = Len(job.names) /\ \A k \in 1 .. Len(job.names) :
           inputs[k].FileName = Head(pairs[k]) /\ inputs[k].URL = Tail(pairs[k])
    BY <1>1, <2>1, Pairs DEF ParseInputSource
  <2> QED
    BY <1>1, <2>1, <2>2, Pairs DEF InputsIntact
<1> QED
  BY <1>1, Invariance, PTL

\* For any number of inputs of any lengths, a task whose sizes are all told has
\* room for them but for two megabytes an input, or none of them has a megabyte;
\* any other has the default limits.
THEOREM RoomIsEnough == Spec => []RoomForInputs
<1>1. ASSUME IInv PROVE RoomForInputs
  <2> SUFFICES ASSUME Requested PROVE RoomForInputs
    BY DEF RoomForInputs
  <2>1. Len(job.urls) \in Nat
    BY <1>1, UpToSeq DEF IInv, Given, Jobs
  <2>2. phase # "limits"
    BY DEF Requested
  <2>3. /\ total \in Nat /\ space \in Nat /\ disk \in Nat
        /\ disk = IF total > 0 THEN 4096 + total * 2 ELSE DefaultDisk
        /\ memory = IF total > 0 THEN DefaultMemory + total * 5 ELSE DefaultMemory
        /\ i <= Len(job.urls) => total = 0
        /\ i > Len(job.urls) => space <= total + Len(job.urls)
    BY <1>1, <2>2 DEF IInv, Limits
  <2>4. ASSUME i <= Len(job.urls) PROVE disk = DefaultDisk /\ memory = DefaultMemory
    BY <2>3, <2>4
  <2>5. ASSUME i > Len(job.urls)
        PROVE  \/ disk + 2 * Len(job.urls) >= 4096 + 2 * space
               \/ disk = DefaultDisk /\ space <= Len(job.urls)
    <3> DEFINE n == Len(job.urls)
    <3>1. n \in Nat /\ total \in Nat /\ space \in Nat /\ space <= total + n
      BY <2>1, <2>3, <2>5
    <3> HIDE DEF n
    <3>2. CASE total > 0
      <4>1. disk = 4096 + total * 2
        BY <2>3, <3>2
      <4>2. disk + 2 * n >= 4096 + 2 * space
        BY <3>1, <4>1
      <4> QED
        BY <4>2 DEF n
    <3>3. CASE total = 0
      <4>1. disk = DefaultDisk
        BY <2>3, <3>3
      <4>2. space <= n
        BY <3>1, <3>3
      <4> QED
        BY <4>1, <4>2 DEF n
    <3> QED
      BY <3>1, <3>2, <3>3
  <2> QED
    BY <2>4, <2>5 DEF RoomForInputs
<1> QED
  BY <1>1, Invariance, PTL

\* For any configuration that starts a dispatcher, a worker exits at once only
\* for one of the two known reasons.
THEOREM ExitsAreExplained == Spec => []ExitsExplained
<1>1. ASSUME IInv PROVE ExitsExplained
  BY <1>1 DEF ExitsExplained, IInv, Exits, Given, WorkerStarts, Starts
<1> QED
  BY <1>1, Invariance, PTL

=============================================================================
