------------------------------- MODULE Downloads -------------------------------
(***************************************************************************)
(* How a Worker fetches its input files (src/worker/input).                *)
(*                                                                         *)
(* FetchInputs starts one goroutine per input and then reads one answer    *)
(* from each, in order.  A goroutine checks that no file of its name       *)
(* exists, opens the file, sends its requests and copies the last response *)
(* into the file.  Two inputs may have the same file name: the check and   *)
(* the opening are two system calls, between which another goroutine runs. *)
(***************************************************************************)
EXTENDS Settings, FiniteSets

CONSTANTS
    N,        \* the number of inputs
    Names,    \* the file names they may have
    Numbers   \* the numbers HTTP_RETRIES and HTTP_TIMEOUT may hold

ASSUME InputsAssumption == N \in Nat
ASSUME NumbersAssumption == Numbers \subseteq Int

Inputs == 1..N

VARIABLES
    retries,   \* defaultAsyncDownloader.Retries
    timeout,   \* whether httpClient has a timeout
    panicked,  \* the panic of a goroutine has ended the process
    name,      \* the file name of each input
    given,     \* the files that exist before the worker starts
    exists,    \* the files that exist now
    file,      \* what has been written to each file: inputs, or Original
    pc,        \* where each goroutine is
    attempts,  \* the requests it has sent
    err,       \* its variable err
    next,      \* the input whose answer FetchInputs awaits
    errors     \* the inputs FetchInputs got an error from

vars == <<retries, timeout, panicked, name, given, exists, file, pc, attempts, err, next,
          errors>>
fixed == <<retries, timeout, name, given>>

\* At "panic" a goroutine has used a nil response and run its deferred calls, at
\* "ended" it has returned: either way its channel is closed.
Points == {"stat", "open", "get", "copy", "send", "close", "panic", "ended"}

\* What a file held before the worker started.
Original == 0

TypeOK ==
    /\ retries \in Int /\ timeout \in BOOLEAN /\ panicked \in BOOLEAN
    /\ name \in [Inputs -> Names]
    /\ given \subseteq Names
    /\ exists \subseteq Names
    /\ file \in [Names -> SUBSET (Inputs \cup {Original})]
    /\ pc \in [Inputs -> Points]
    /\ attempts \in [Inputs -> Nat]
    /\ \A i \in Inputs : attempts[i] = 0 \/ attempts[i] <= retries + 1
    /\ err \in [Inputs -> BOOLEAN]
    /\ next \in 1..(N + 1)
    /\ errors \subseteq Inputs

Init ==
    /\ \E r, t \in Texts(Numbers) : retries = RetriesOf(r) /\ timeout = HasTimeout(t)
    /\ panicked = FALSE
    /\ name \in [Inputs -> Names]
    /\ given \in SUBSET Names
    /\ exists = given
    /\ file = [n \in Names |-> IF n \in given THEN {Original} ELSE {}]
    /\ pc = [i \in Inputs |-> "stat"]
    /\ attempts = [i \in Inputs |-> 0]
    /\ err = [i \in Inputs |-> FALSE]
    /\ next = 1
    /\ errors = {}

Goto(i, point) == pc' = [pc EXCEPT ![i] = point]
Write(n, content) == file' = [file EXCEPT ![n] = content]

\* The goroutine has an error to send, after which its channel is closed.
Abort(i) == Goto(i, "send") /\ err' = [err EXCEPT ![i] = TRUE]

-----------------------------------------------------------------------------
(* The goroutine of input i. *)

Stat_ErrorsOnly(i) ==
    /\ pc[i] = "stat"
    /\ \/ Goto(i, "open") /\ UNCHANGED err
       \/ Abort(i)
    /\ UNCHANGED <<fixed, panicked, exists, file, attempts, next, errors>>

\* CheckAndOpen, first half: os.Stat finds the file, or fails otherwise.
Stat(i) ==
    /\ pc[i] = "stat"
    /\ \/ name[i] \notin exists /\ Goto(i, "open") /\ UNCHANGED err
       \/ Abort(i)
    /\ UNCHANGED <<fixed, panicked, exists, file, attempts, next, errors>>

\* Second half: os.OpenFile creates the file or empties the one it finds.
Open(i) ==
    /\ pc[i] = "open"
    /\ \/ /\ exists' = exists \cup {name[i]}
          /\ Write(name[i], {})
          /\ Goto(i, "get")
          /\ UNCHANGED err
       \/ Abort(i) /\ UNCHANGED <<exists, file>>
    /\ UNCHANGED <<fixed, panicked, attempts, next, errors>>

Get_OneTooMany(i) ==
    /\ pc[i] = "get" /\ attempts[i] <= retries + 1
    /\ \E fails \in BOOLEAN : err' = [err EXCEPT ![i] = fails]
    /\ attempts' = [attempts EXCEPT ![i] = @ + 1]
    /\ UNCHANGED <<fixed, panicked, exists, file, pc, next, errors>>

\* One pass of the retry loop, which a success does not leave: err is that of
\* the last request.
Get(i) ==
    /\ pc[i] = "get"
    /\ attempts[i] <= retries
    /\ \E fails \in BOOLEAN : err' = [err EXCEPT ![i] = fails]
    /\ attempts' = [attempts EXCEPT ![i] = @ + 1]
    /\ UNCHANGED <<fixed, panicked, exists, file, pc, next, errors>>

EndOfRetries_ErrorIgnored(i) ==
    /\ pc[i] = "get"
    /\ attempts[i] > retries
    /\ Goto(i, IF err[i] THEN "close" ELSE "copy")
    /\ UNCHANGED <<fixed, panicked, exists, file, attempts, err, next, errors>>

\* The loop is over.  One that sent no request has left no response to read.
EndOfRetries(i) ==
    /\ pc[i] = "get"
    /\ attempts[i] > retries
    /\ \/ err[i] /\ Goto(i, "send")
       \/ ~err[i] /\ attempts[i] > 0 /\ Goto(i, "copy")
       \/ ~err[i] /\ attempts[i] = 0 /\ Goto(i, "panic")
    /\ UNCHANGED <<fixed, panicked, exists, file, attempts, err, next, errors>>

\* Nothing recovers it: after the deferred calls the process ends, and every
\* goroutine with it.
Panic(i) ==
    /\ pc[i] = "panic"
    /\ panicked' = TRUE
    /\ UNCHANGED <<fixed, exists, file, pc, attempts, err, next, errors>>

\* io.Copy writes from the start of the file, over what others wrote there; a
\* copy that fails has written a part.
Copy(i) ==
    /\ pc[i] = "copy"
    /\ Write(name[i], file[name[i]] \cup {i})
    /\ \/ Goto(i, "close") /\ UNCHANGED err
       \/ Abort(i)
    /\ UNCHANGED <<fixed, panicked, exists, attempts, next, errors>>

Close(i) ==
    /\ pc[i] = "close"
    /\ Goto(i, "ended")
    /\ UNCHANGED <<fixed, panicked, exists, file, attempts, err, next, errors>>

-----------------------------------------------------------------------------
(* FetchInputs. *)

ReceiveError_Stops ==
    /\ next \in Inputs /\ pc[next] = "send"
    /\ Goto(next, "close")
    /\ errors' = errors \cup {next} /\ next' = N + 1
    /\ UNCHANGED <<fixed, panicked, exists, file, attempts, err>>

\* It receives the error a goroutine sends.
ReceiveError ==
    /\ next \in Inputs
    /\ pc[next] = "send"
    /\ Goto(next, "close")
    /\ errors' = errors \cup {next}
    /\ next' = next + 1
    /\ UNCHANGED <<fixed, panicked, exists, file, attempts, err>>

\* It receives nil from a channel that was closed with nothing sent, be it by a
\* goroutine that panics.
ReceiveClosed ==
    /\ next \in Inputs
    /\ pc[next] \in {"ended", "panic"}
    /\ next' = next + 1
    /\ UNCHANGED <<fixed, panicked, exists, file, pc, attempts, err, errors>>

FetchInputs == ~panicked /\ (ReceiveError \/ ReceiveClosed)

Goroutine(i) ==
    /\ ~panicked
    /\ \/ Stat(i) \/ Open(i) \/ Get(i) \/ EndOfRetries(i)
       \/ Copy(i) \/ Panic(i) \/ Close(i)

Next == FetchInputs \/ \E i \in Inputs : Goroutine(i)

Spec == Init /\ [][Next]_vars

\* The goroutine waits for a server: for a response, or for the rest of a body.
Waits(i) == pc[i] = "copy" \/ (pc[i] = "get" /\ attempts[i] <= retries)

\* One that waits goes on if the HTTP client has a timeout, and is not known to
\* otherwise.
GoesOn(i) == Goroutine(i) /\ (Waits(i) => timeout)

FairSpec == Spec /\ WF_vars(FetchInputs) /\ \A i \in Inputs : WF_vars(GoesOn(i))

-----------------------------------------------------------------------------

Finished == next = N + 1

\* When FetchInputs returns no error, the file of every input holds that input,
\* or some of the inputs that share its name: it is never left empty by the last
\* one that opened it, and never holds any other.  The exception is an input whose
\* goroutine panics, whose closed channel FetchInputs takes for a success until
\* the process ends (fetch_input.go:33-47, download_async.go:52-83).
InputsWhole ==
    Finished /\ errors = {} =>
        \A i \in Inputs : \/ pc[i] = "panic"
                         \/ /\ file[name[i]] # {}
                            /\ file[name[i]] \subseteq {k \in Inputs : name[k] = name[i]}

\* A file that was there before the worker is never written to, however many
\* inputs have its name (file_checker.go:16-18).
GivenFilesKept == \A n \in given : file[n] = {Original}

\* The error of an input reaches FetchInputs as an error of that input, and an
\* input without one is not blamed: it has sent all its requests, one at least,
\* unless the retries are negative and it panics (fetch_input.go:35-42,
\* download_async.go:61-76).
ErrorsAttributed ==
    /\ \A i \in errors : err[i] /\ i < next
    /\ \A i \in 1 .. next - 1 : err[i] => i \in errors
    /\ \A i \in Inputs \ errors : i < next =>
          IF pc[i] = "panic" THEN retries < 0 ELSE retries >= 0 /\ attempts[i] = retries + 1

\* What has become of an input, as its channel will tell: the error of a request
\* may yet be overcome by a retry, a panic sends no error.
FateOf(i) == IF pc[i] \notin {"send", "close", "panic", "ended"} THEN "open"
             ELSE IF err[i] THEN "bad" ELSE "good"

Fetching == INSTANCE Gather WITH
                Parts <- Inputs,
                fate <- [i \in Inputs |-> FateOf(i)],
                heard <- {i \in Inputs : i < next},
                failures <- Cardinality(errors),
                returned <- Finished

\* The goroutines and FetchInputs keep the promise of Gather: an answer of one
\* input is never taken for that of another, read before it is final, or read
\* twice (fetch_input.go:33-47, download_async.go:47-84).
ImplementsGather == Fetching!Spec

\* Without a timeout a server may keep the goroutine waiting for ever.
Hangs(i) == Waits(i) /\ ~timeout

\* FetchInputs returns and leaves no goroutine behind, but for two settings that
\* are not checked.  If HTTP_RETRIES is negative a panic may end the process.  If
\* HTTP_TIMEOUT is not a positive number a server may hang the download FetchInputs
\* awaits, and with it, blocked on their errors, only downloads further down the
\* list: those before it have ended (download_async.go:14-32 and 47-84,
\* fetch_input.go:35-36).
AllEnd ==
    <>[](\/ panicked /\ retries < 0
         \/ /\ Finished \/ Hangs(next)
            /\ \A i \in Inputs :
                  \/ pc[i] = "ended"
                  \/ Hangs(i)
                  \/ pc[i] = "send" /\ next < i)

\* The comment on CheckAndOpen (file_checker.go:14) says it "checks that a file
\* of the given name does not already exist, then opens it for writing".  So no
\* file is opened that already exists.
OpensNewFiles ==
    [][\A i \in Inputs : pc[i] = "open" /\ pc'[i] = "get"
                         => name[i] \notin exists]_vars

=============================================================================
