---------------------------- MODULE DownloadsProofs ----------------------------
(***************************************************************************)
(* The downloads of any number of inputs, with any settings.  Two things   *)
(* are known of a goroutine from where it is: whether its error is known   *)
(* to FetchInputs (Course), and whether its file is empty (Written).       *)
(***************************************************************************)
EXTENDS Downloads, FiniteSetTheorems, TLAPS

\* The inputs with the file name n.
Sharers(n) == {k \in Inputs : name[k] = n}

\* The requests are over and the last response is there.
Answered(i) == attempts[i] > 0 /\ attempts[i] = retries + 1

\* FetchInputs has heard of a goroutine only what it sent or that its channel was
\* closed.
Course(i) ==
    /\ i \in errors => i < next /\ err[i]
    /\ i < next => pc[i] \in {"close", "panic", "ended"}
    /\ pc[i] \in {"stat", "open"} => ~err[i] /\ attempts[i] = 0
    /\ pc[i] = "copy" => ~err[i] /\ Answered(i)
    /\ pc[i] = "panic" => ~err[i] /\ retries < 0
    /\ pc[i] = "send" => err[i] /\ i \notin errors
    /\ pc[i] \in {"close", "ended"} => IF err[i] THEN i \in errors ELSE Answered(i)

\* The goroutine may have emptied its file and not written to it since.
Opened(i) == \/ pc[i] \in {"get", "copy", "panic"}
             \/ pc[i] \in {"send", "close", "ended"} /\ err[i]

\* A goroutine past the check has a file that was not given; one that is done
\* finds its file written, or emptied by one that shares it and is not done.
Written(i) ==
    /\ pc[i] \in {"open", "get", "copy", "panic"} => name[i] \notin given
    /\ pc[i] \in {"close", "ended"} /\ ~err[i] =>
          /\ name[i] \notin given
          /\ file[name[i]] # {} \/ \E k \in Sharers(name[i]) : Opened(k)

\* A file that was not given holds inputs of its own name only.
OwnInputs == \A n \in Names \ given : file[n] \subseteq Sharers(n)

IInv == /\ TypeOK
        /\ given \subseteq exists
        /\ GivenFilesKept
        /\ OwnInputs
        /\ \A i \in Inputs : Course(i) /\ Written(i)

LEMMA InitInv == Init => IInv
<1> SUFFICES ASSUME Init PROVE IInv
  OBVIOUS
<1> USE InputsAssumption, NumbersAssumption
<1>1. retries \in Int /\ timeout \in BOOLEAN
  <2>1. PICK r, t \in Texts(Numbers) : retries = RetriesOf(r) /\ timeout = HasTimeout(t)
    BY DEF Init
  <2>2. retries \in Int
    BY <2>1 DEF Texts, RetriesOf, Atoi
  <2>3. timeout \in BOOLEAN
    BY <2>1 DEF HasTimeout
  <2> QED
    BY <2>2, <2>3
<1>2. TypeOK
  <2>1. /\ name \in [Inputs -> Names] /\ given \subseteq Names /\ exists = given
        /\ next = 1 /\ errors = {}
        /\ panicked = FALSE
    BY DEF Init
  <2>2. file \in [Names -> SUBSET (Inputs \cup {Original})]
    BY DEF Init, Original
  <2>3. /\ pc \in [Inputs -> Points] /\ attempts \in [Inputs -> Nat] /\ err \in [Inputs -> BOOLEAN]
        /\ \A i \in Inputs : attempts[i] = 0
    BY DEF Init, Points
  <2>4. exists \subseteq Names /\ next \in 1..(N + 1) /\ errors \subseteq Inputs
    BY <2>1
  <2> QED
    BY <1>1, <2>1, <2>2, <2>3, <2>4 DEF TypeOK
<1>3. GivenFilesKept /\ OwnInputs
  BY <1>2 DEF Init, GivenFilesKept, OwnInputs, TypeOK
<1>4. ASSUME NEW i \in Inputs PROVE Course(i) /\ Written(i)
  BY <1>4 DEF Init, Course, Written, Inputs
<1> QED
  BY <1>2, <1>3, <1>4 DEF IInv, Init

-----------------------------------------------------------------------------
(* A step of the goroutine of input i.  The others keep what is known of     *)
(* them: a file they share is emptied by one that is then Opened, and one    *)
(* that stops being Opened without an error has written to it.               *)

LEMMA GoroutineTypes ==
  ASSUME IInv, NEW i \in Inputs, Goroutine(i)
  PROVE  TypeOK'
<1> USE InputsAssumption DEF IInv, TypeOK, fixed, Goto, Write, Abort, Points
<1>1. CASE Stat(i)
  BY <1>1 DEF Stat
<1>2. CASE Open(i)
  <2>1. /\ exists' \subseteq Names
        /\ file' \in [Names -> SUBSET (Inputs \cup {Original})]
    BY <1>2 DEF Open
  <2>2. pc' \in [Inputs -> Points] /\ err' \in [Inputs -> BOOLEAN]
    BY <1>2 DEF Open
  <2>3. UNCHANGED <<retries, timeout, panicked, name, given, attempts, next, errors>>
    BY <1>2 DEF Open
  <2> QED
    BY <2>1, <2>2, <2>3
<1>3. CASE Get(i)
  BY <1>3 DEF Get
<1>4. CASE EndOfRetries(i)
  BY <1>4 DEF EndOfRetries
<1>5. CASE Copy(i)
  BY <1>5 DEF Copy
<1>6. CASE Close(i)
  BY <1>6 DEF Close
<1>7. CASE Panic(i)
  BY <1>7 DEF Panic
<1> QED
  BY <1>1, <1>2, <1>3, <1>4, <1>5, <1>6, <1>7 DEF Goroutine

LEMMA GoroutineCourse ==
  ASSUME IInv, NEW i \in Inputs, Goroutine(i), NEW k \in Inputs
  PROVE  Course(k)'
<1> USE InputsAssumption DEF IInv, TypeOK, fixed, Goto, Write, Abort, Points, Course, Answered, Inputs
<1>1. CASE Stat(i)
  BY <1>1 DEF Stat
<1>2. CASE Open(i)
  BY <1>2 DEF Open
<1>3. CASE Get(i)
  BY <1>3 DEF Get
<1>4. CASE EndOfRetries(i)
  BY <1>4 DEF EndOfRetries
<1>5. CASE Copy(i)
  BY <1>5 DEF Copy
<1>6. CASE Close(i)
  BY <1>6 DEF Close
<1>7. CASE Panic(i)
  BY <1>7 DEF Panic
<1> QED
  BY <1>1, <1>2, <1>3, <1>4, <1>5, <1>6, <1>7 DEF Goroutine

\* Opened and Written look at a goroutine and at its file.
LEMMA OthersWritten ==
  ASSUME IInv, NEW i \in Inputs, UNCHANGED <<name, given>>,
         \A k \in Inputs \ {i} : pc'[k] = pc[k] /\ err'[k] = err[k],
         \A n \in Names : file'[n] # file[n] =>
                n = name[i] /\ (file'[n] # {} \/ Opened(i)'),
         Opened(i) => Opened(i)' \/ file'[name[i]] # {},
         NEW k \in Inputs, k # i
  PROVE  Written(k)'
<1> USE DEF IInv, TypeOK
<1>1. Written(k) /\ name[k] \in Names
  OBVIOUS
<1>2. pc'[k] = pc[k] /\ err'[k] = err[k] /\ name' = name /\ given' = given
  OBVIOUS
<1>3. ASSUME pc[k] \in {"close", "ended"}, ~err[k]
      PROVE  file'[name[k]] # {} \/ \E j \in Sharers(name[k])' : Opened(j)'
  <2>1. CASE file'[name[k]] # file[name[k]]
    BY <1>1, <1>2, <2>1 DEF Sharers
  <2>2. CASE file'[name[k]] = file[name[k]] /\ file[name[k]] # {}
    BY <2>2
  <2>3. CASE file'[name[k]] = file[name[k]] /\ file[name[k]] = {}
    <3>1. PICK j \in Sharers(name[k]) : Opened(j)
      BY <1>1, <1>3, <2>3 DEF Written
    <3>2. CASE j = i
      BY <1>2, <2>3, <3>1, <3>2 DEF Sharers
    <3>3. CASE j # i
      BY <1>2, <3>1, <3>3 DEF Sharers, Opened
    <3> QED
      BY <3>2, <3>3
  <2> QED
    BY <2>1, <2>2, <2>3
<1> QED
  BY <1>1, <1>2, <1>3 DEF Written

LEMMA GoroutineWritten ==
  ASSUME IInv, NEW i \in Inputs, Goroutine(i)
  PROVE  /\ given' \subseteq exists' /\ GivenFilesKept' /\ OwnInputs'
         /\ \A k \in Inputs : Written(k)'
<1> USE DEF IInv, TypeOK, fixed, Goto, Write, Abort, Points
<1>0. /\ Course(i) /\ Written(i)
      /\ name' = name /\ given' = given /\ name[i] \in Names
      /\ \A k \in Inputs \ {i} : pc'[k] = pc[k] /\ err'[k] = err[k]
  BY DEF Goroutine, Stat, Open, Get, EndOfRetries, Copy, Panic, Close
<1>1. CASE file' = file /\ exists' = exists /\ ~Open(i) /\ ~Copy(i)
  <2>1. given' \subseteq exists' /\ GivenFilesKept' /\ OwnInputs'
    BY <1>0, <1>1 DEF GivenFilesKept, OwnInputs, Sharers
  <2>2. Opened(i) => Opened(i)'
    BY <1>0, <1>1 DEF Goroutine, Stat, Get, EndOfRetries, Panic, Close, Opened, Course
  <2>3. \A k \in Inputs \ {i} : Written(k)'
    BY <1>0, <1>1, <2>2, OthersWritten
  <2>4. Written(i)'
    <3>1. CASE Close(i)
      <4>1. pc[i] = "close" /\ err'[i] = err[i] /\ pc'[i] = "ended"
        BY <3>1 DEF Close
      <4>2. \A k \in Inputs : Opened(k) => Opened(k)'
        BY <1>0, <2>2 DEF Opened
      <4> QED
        BY <1>0, <1>1, <4>1, <4>2 DEF Written, Sharers
    <3>2. CASE ~Close(i)
      BY <1>0, <1>1, <3>2 DEF Goroutine, Stat, Get, EndOfRetries, Panic, Written, Course
    <3> QED
      BY <3>1, <3>2
  <2> QED
    BY <2>1, <2>3, <2>4
<1>2. CASE Open(i)
  <2>1. name[i] \notin given /\ given \subseteq exists'
    BY <1>0, <1>2 DEF Open, Written
  <2>2. \/ pc'[i] = "get" /\ file' = [file EXCEPT ![name[i]] = {}]
        \/ pc'[i] = "send" /\ err'[i] /\ file' = file
    BY <1>2 DEF Open
  <2>3. GivenFilesKept' /\ OwnInputs'
    BY <1>0, <2>1, <2>2 DEF GivenFilesKept, OwnInputs, Sharers
  <2>4. Opened(i)'
    BY <2>2 DEF Opened
  <2>5. \A k \in Inputs \ {i} : Written(k)'
    BY <1>0, <2>2, <2>4, OthersWritten
  <2>6. Written(i)'
    BY <1>0, <2>1, <2>2 DEF Written
  <2> QED
    BY <1>0, <2>1, <2>3, <2>5, <2>6
<1>3. CASE Copy(i)
  <2>1. /\ name[i] \notin given /\ exists' = exists
        /\ file' = [file EXCEPT ![name[i]] = file[name[i]] \cup {i}]
        /\ pc'[i] \in {"close", "send"}
    BY <1>0, <1>3 DEF Copy, Written
  <2>2. i \in file'[name[i]]
    BY <1>0, <2>1
  <2>3. GivenFilesKept' /\ OwnInputs'
    BY <1>0, <2>1 DEF GivenFilesKept, OwnInputs, Sharers
  <2>4. \A k \in Inputs \ {i} : Written(k)'
    BY <1>0, <2>1, <2>2, OthersWritten
  <2>5. Written(i)'
    BY <1>0, <2>1, <2>2 DEF Written
  <2> QED
    BY <1>0, <2>1, <2>3, <2>4, <2>5
<1>4. Open(i) \/ Copy(i) \/ (file' = file /\ exists' = exists)
  BY DEF Goroutine, Stat, Get, EndOfRetries, Panic, Close
<1> QED
  BY <1>1, <1>2, <1>3, <1>4

LEMMA StepInv == IInv /\ [Next]_vars => IInv'
<1> SUFFICES ASSUME IInv, [Next]_vars PROVE IInv'
  OBVIOUS
<1>1. ASSUME NEW i \in Inputs, Goroutine(i) PROVE IInv'
  BY <1>1, GoroutineTypes, GoroutineCourse, GoroutineWritten DEF IInv
<1>2. CASE FetchInputs
  <2> USE InputsAssumption DEF IInv, TypeOK, fixed, Goto, Points, FetchInputs
  <2>1. CASE ReceiveError
    <3>1. TypeOK'
      BY <2>1 DEF ReceiveError, Inputs
    <3>2. GivenFilesKept' /\ OwnInputs' /\ given' \subseteq exists'
      BY <2>1 DEF ReceiveError, GivenFilesKept, OwnInputs, Sharers
    <3>3. ASSUME NEW k \in Inputs PROVE Course(k)'
      BY <2>1, <3>3 DEF ReceiveError, Course, Answered, Inputs
    <3>4. ASSUME NEW k \in Inputs PROVE Written(k)'
      BY <2>1, <3>4 DEF ReceiveError, Course, Written, Opened, Sharers
    <3> QED
      BY <3>1, <3>2, <3>3, <3>4
  <2>2. CASE ReceiveClosed
    <3>1. TypeOK'
      BY <2>2 DEF ReceiveClosed, Inputs
    <3>2. GivenFilesKept' /\ OwnInputs' /\ given' \subseteq exists'
      BY <2>2 DEF ReceiveClosed, GivenFilesKept, OwnInputs, Sharers
    <3>3. ASSUME NEW k \in Inputs PROVE Course(k)'
      BY <2>2, <3>3 DEF ReceiveClosed, Course, Answered, Inputs
    <3>4. ASSUME NEW k \in Inputs PROVE Written(k)'
      BY <2>2, <3>4 DEF ReceiveClosed, Written, Opened, Sharers
    <3> QED
      BY <3>1, <3>2, <3>3, <3>4
  <2> QED
    BY <1>2, <2>1, <2>2
<1>3. CASE UNCHANGED vars
  BY <1>3 DEF vars, IInv, TypeOK, Course, Written, Opened, Answered, Sharers,
              GivenFilesKept, OwnInputs
<1> QED
  BY <1>1, <1>2, <1>3 DEF Next

LEMMA Invariance == Spec => []IInv
  BY InitInv, StepInv, PTL DEF Spec

-----------------------------------------------------------------------------
(* The theorems. *)

\* The state of FetchInputs and of its goroutines has its types; none sends more
\* requests than the retries allow.
THEOREM TypeCorrect == Spec => []TypeOK
<1>1. IInv => TypeOK
  BY DEF IInv
<1> QED
  BY <1>1, Invariance, PTL

\* Without an error, every input whose goroutine did not panic has a file with it
\* or its namesakes in it and nothing else, for any number of inputs and any
\* interleaving of their goroutines.
THEOREM FilesAreWhole == Spec => []InputsWhole
<1>1. ASSUME IInv PROVE InputsWhole
  <2> SUFFICES ASSUME Finished, errors = {}, NEW i \in Inputs, pc[i] # "panic"
               PROVE  file[name[i]] # {} /\ file[name[i]] \subseteq Sharers(name[i])
    BY DEF InputsWhole, Sharers
  <2>1. \A k \in Inputs : k < next
    BY InputsAssumption DEF Finished, Inputs
  <2>2. \A k \in Inputs : Course(k)
    BY <1>1 DEF IInv
  <2>3. \A k \in Inputs :
           /\ pc[k] \in {"close", "panic", "ended"}
           /\ pc[k] = "panic" => retries < 0
           /\ pc[k] \in {"close", "ended"} => ~err[k] /\ Answered(k)
    BY <2>1, <2>2 DEF Course
  <2>4. retries \in Int /\ retries >= 0
    <3>1. retries \in Int /\ attempts[i] \in Nat
      BY <1>1 DEF IInv, TypeOK
    <3>2. attempts[i] > 0 /\ attempts[i] = retries + 1
      BY <2>3 DEF Answered
    <3> QED
      BY <3>1, <3>2
  <2>5. ASSUME NEW k \in Inputs PROVE ~Opened(k)
    <3>1. ~(retries < 0)
      BY <2>4
    <3>2. pc[k] \in {"close", "ended"} /\ ~err[k]
      BY <2>3, <3>1
    <3> QED
      BY <3>2 DEF Opened
  <2>6. name[i] \in Names \ given /\ file[name[i]] # {}
    BY <1>1, <2>3, <2>5 DEF IInv, TypeOK, Written, Sharers
  <2> QED
    BY <1>1, <2>6 DEF IInv, OwnInputs
<1> QED
  BY <1>1, Invariance, PTL

\* No input overwrites a file that was there before the worker.
THEOREM GivenNeverWritten == Spec => []GivenFilesKept
<1>1. IInv => GivenFilesKept
  BY DEF IInv
<1> QED
  BY <1>1, Invariance, PTL

\* FetchInputs blames the inputs that failed and no others; the others have
\* sent all their requests, or are about to panic.
THEOREM ErrorsAreTheirs == Spec => []ErrorsAttributed
<1>1. ASSUME IInv PROVE ErrorsAttributed
  <2>1. \A i \in 1 .. next - 1 : i \in Inputs /\ i < next
    BY <1>1, InputsAssumption DEF IInv, TypeOK, Inputs
  <2>2. \A i \in Inputs : Course(i)
    BY <1>1 DEF IInv
  <2>3. errors \subseteq Inputs
    BY <1>1 DEF IInv, TypeOK
  <2>4. retries \in Int /\ attempts \in [Inputs -> Nat]
    BY <1>1 DEF IInv, TypeOK
  <2> QED
    BY <2>1, <2>2, <2>3, <2>4 DEF ErrorsAttributed, Course, Answered
<1> QED
  BY <1>1, Invariance, PTL

-----------------------------------------------------------------------------
(* The downloads implement Gather. *)

Fate == [i \in Inputs |-> FateOf(i)]
Heard == {i \in Inputs : i < next}

\* The errors so far are finitely many, and one more input counts one more.
LEMMA CountErrors ==
  ASSUME IInv
  PROVE  /\ IsFiniteSet(errors) /\ Cardinality(errors) \in Nat
         /\ \A i \in Inputs \ errors : Cardinality(errors \cup {i}) = Cardinality(errors) + 1
<1>1. IsFiniteSet(Inputs)
  BY InputsAssumption, FS_Interval DEF Inputs
<1>2. IsFiniteSet(errors) /\ Cardinality(errors) \in Nat
  BY <1>1, FS_Subset, FS_CardinalityType DEF IInv, TypeOK
<1> QED
  BY <1>2, FS_AddElement

\* A goroutine settles its own input, and that once.
LEMMA GoroutineSettles ==
  ASSUME IInv, NEW i \in Inputs, Goroutine(i), NEW k \in Inputs
  PROVE  FateOf(k) # "open" => FateOf(k)' = FateOf(k)
<1> USE DEF IInv, TypeOK, Points, FateOf, Goto, Abort
<1>1. CASE k # i
  BY <1>1 DEF Goroutine, Stat, Open, Get, EndOfRetries, Copy, Panic, Close
<1>2. CASE k = i
  BY <1>2 DEF Goroutine, Stat, Open, Get, EndOfRetries, Copy, Panic, Close
<1> QED
  BY <1>1, <1>2

\* FetchInputs changes the fate of no input.
LEMMA ReceiveSettlesNone ==
  ASSUME IInv, ReceiveError \/ ReceiveClosed, NEW k \in Inputs
  PROVE  FateOf(k)' = FateOf(k)
  BY DEF IInv, TypeOK, Points, FateOf, Goto, ReceiveError, ReceiveClosed

\* Every step settles inputs, or tells FetchInputs of the next one, which is
\* settled; one that failed counts as an error.
LEMMA StepGathers == IInv /\ [Next]_vars => [Fetching!Next]_(Fetching!vars)
<1> SUFFICES ASSUME IInv, [Next]_vars PROVE [Fetching!Next]_(Fetching!vars)
  OBVIOUS
<1> DEFINE Settles == \A k \in Inputs : FateOf(k) # "open" => FateOf(k)' = FateOf(k)
           New == {k \in Heard' \ Heard : Fate'[k] = "bad"}
<1>1. ASSUME Settles, Heard \subseteq Heard', \A k \in Heard' : Fate'[k] # "open",
             Cardinality(errors') = Cardinality(errors) + Cardinality(New)
      PROVE  Fetching!Next
  <2>1. Fate' \in [Inputs -> Fetching!Fates]
    BY DEF Fate, FateOf, Fetching!Fates
  <2>2. Fetching!Settle
    BY <1>1, <2>1 DEF Fate, Fetching!Settle
  <2>3. \A S : Fetching!Cardinality(S) = Cardinality(S)
    BY DEF Fetching!Cardinality, Cardinality
  <2>4. Fetching!Hear
    BY <1>1, <2>3 DEF Fate, Heard, Fetching!Hear
  <2>5. Finished' => Heard' = Inputs
    BY InputsAssumption DEF Finished, Heard, Inputs
  <2>6. Fetching!Return
    BY <2>5 DEF Finished, Heard, Fetching!Return
  <2> QED
    BY <2>2, <2>4, <2>6 DEF Fetching!Next
<1>2. \A k \in Heard : FateOf(k) # "open"
  BY DEF Heard, FateOf, IInv, Course
<1>3. ASSUME NEW i \in Inputs, Goroutine(i) PROVE Fetching!Next
  <2>1. next' = next /\ errors' = errors
    BY <1>3 DEF Goroutine, Stat, Open, Get, EndOfRetries, Copy, Panic, Close
  <2>2. Heard' = Heard /\ New = {}
    BY <2>1 DEF Heard
  <2>3. Settles
    BY <1>3, GoroutineSettles
  <2>4. \A k \in Heard' : Fate'[k] # "open"
    BY <1>2, <2>2, <2>3 DEF Heard, Fate
  <2>5. Cardinality(errors') = Cardinality(errors) + Cardinality(New)
    BY <2>1, <2>2, CountErrors, FS_EmptySet
  <2> HIDE DEF New, Settles
  <2> QED
    BY <1>1, <2>2, <2>3, <2>4, <2>5
<1>4. CASE ReceiveError \/ ReceiveClosed
  <2>1. next \in Inputs /\ next' = next + 1 /\ pc[next] \in {"send", "ended", "panic"}
    BY <1>4 DEF ReceiveError, ReceiveClosed
  <2>2. Heard' = Heard \cup {next} /\ next \notin Heard
    BY <2>1, InputsAssumption DEF Heard, Inputs
  <2>3. \A k \in Inputs : FateOf(k)' = FateOf(k)
    BY <1>4, ReceiveSettlesNone
  <2>4. FateOf(next) = IF err[next] THEN "bad" ELSE "good"
    BY <2>1 DEF FateOf
  <2>5. \A k \in Heard' : Fate'[k] # "open"
    BY <1>2, <2>1, <2>2, <2>3, <2>4 DEF Heard, Fate
  <2>6. New = IF err[next] THEN {next} ELSE {}
    BY <2>1, <2>2, <2>3, <2>4 DEF Fate
  <2>7. Course(next)
    BY <2>1 DEF IInv
  <2>8. Cardinality(errors') = Cardinality(errors) + Cardinality(New)
    <3>1. CASE ReceiveError
      <4>1. err[next] /\ next \notin errors /\ errors' = errors \cup {next}
        BY <2>7, <3>1 DEF ReceiveError, Course
      <4> QED
        BY <2>1, <2>6, <4>1, CountErrors, FS_Singleton
    <3>2. CASE ReceiveClosed
      <4>1. ~err[next] /\ errors' = errors
        BY <2>1, <2>7, <3>2, InputsAssumption DEF ReceiveClosed, Course, Inputs
      <4> QED
        BY <2>6, <4>1, CountErrors, FS_EmptySet
    <3> QED
      BY <1>4, <3>1, <3>2
  <2> HIDE DEF New
  <2> QED
    BY <1>1, <2>2, <2>3, <2>5, <2>8
<1>5. CASE UNCHANGED vars
  BY <1>5 DEF vars, Fetching!vars, FateOf, Finished
<1> QED
  BY <1>3, <1>4, <1>5 DEF Next, FetchInputs

\* For any number of inputs and any settings, FetchInputs keeps the promise of
\* Gather (fetch_input.go:33-47, download_async.go:47-84).
THEOREM DownloadsImplementGather == Spec => ImplementsGather
<1>1. Init => Fetching!Init
  <2> SUFFICES ASSUME Init PROVE Fetching!Init
    OBVIOUS
  <2>1. \A i \in Inputs : FateOf(i) = "open" /\ ~(i < next)
    BY InputsAssumption DEF Init, FateOf, Inputs
  <2>2. Cardinality(errors) = 0
    BY FS_EmptySet DEF Init
  <2>3. Finished => Inputs = {}
    BY InputsAssumption DEF Init, Finished, Inputs
  <2> QED
    BY <2>1, <2>2, <2>3 DEF Finished, Fetching!Init
<1>2. IInv /\ [Next]_vars => IInv' /\ [Fetching!Next]_(Fetching!vars)
  BY StepInv, StepGathers
<1> QED
  BY <1>1, <1>2, InitInv, PTL DEF Spec, ImplementsGather, Fetching!Spec

=============================================================================
