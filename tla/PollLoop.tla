-------------------------------- MODULE PollLoop --------------------------------
(***************************************************************************)
(* Loop.Start and Loop.Stop of the Dispatcher (src/dispatcher/poll), with  *)
(* the goroutine Start launches, the reader of the channel it returns and  *)
(* a caller of Stop.  All three meet on two unbuffered channels; a tick    *)
(* that finds the one before still waiting is dropped.  Dispatcher models  *)
(* what one iteration does and takes from here that iterations never stop. *)
(***************************************************************************)
EXTENDS Naturals

CONSTANT MaxErrors   \* bound: iterations that return an error

ASSUME ErrorsAssumption == MaxErrors \in Nat

VARIABLES
    loop,      \* where the goroutine of Start is
    tick,      \* a tick waits in the channel of the ticker
    reader,    \* where the reader of errChan is
    stopper,   \* where the caller of Stop is
    returned,  \* the errors that iterations have returned
    received   \* the errors that the reader has received

vars == <<loop, tick, reader, stopper, returned, received>>

TypeOK ==
    /\ loop \in {"off", "select", "iterating", "sending", "closing", "over"}
    /\ tick \in BOOLEAN
    /\ reader \in {"off", "ranging", "handling", "over"}
    /\ stopper \in {"idle", "sending", "closing", "over"}
    /\ returned \in 0..MaxErrors
    /\ received \in 0..MaxErrors

Init ==
    /\ loop = "off"
    /\ tick = FALSE
    /\ reader = "off"
    /\ stopper = "idle"
    /\ returned = 0
    /\ received = 0

Start ==
    /\ loop = "off"
    /\ loop' = "select"
    /\ reader' = "ranging"
    /\ UNCHANGED <<tick, stopper, returned, received>>

-----------------------------------------------------------------------------
(* The goroutine. *)

Tick ==
    /\ loop # "off"
    /\ tick' = TRUE
    /\ UNCHANGED <<loop, reader, stopper, returned, received>>

\* select chooses the tick, also when a caller of Stop is waiting.
BeginIteration ==
    /\ loop = "select"
    /\ tick
    /\ loop' = "iterating"
    /\ tick' = FALSE
    /\ UNCHANGED <<reader, stopper, returned, received>>

EndIteration ==
    /\ loop = "iterating"
    /\ \/ loop' = "select" /\ UNCHANGED returned
       \/ /\ returned < MaxErrors
          /\ returned' = returned + 1
          /\ loop' = "sending"
    /\ UNCHANGED <<tick, reader, stopper, received>>

Deliver_Twice ==
    /\ loop = "sending" /\ reader = "ranging"
    /\ loop' = "select" /\ reader' = "handling"
    /\ received' = received + 2
    /\ UNCHANGED <<tick, stopper, returned>>

\* The goroutine sends an error, which the reader must be there to receive.
Deliver ==
    /\ loop = "sending"
    /\ reader = "ranging"
    /\ loop' = "select"
    /\ reader' = "handling"
    /\ received' = received + 1
    /\ UNCHANGED <<tick, stopper, returned>>

ReceiveStop_WhileSending ==
    /\ loop \in {"select", "sending"} /\ stopper = "sending"
    /\ loop' = "closing" /\ stopper' = "closing"
    /\ UNCHANGED <<tick, reader, returned, received>>

\* select chooses the value that Stop sends.
ReceiveStop ==
    /\ loop = "select"
    /\ stopper = "sending"
    /\ loop' = "closing"
    /\ stopper' = "closing"
    /\ UNCHANGED <<tick, reader, returned, received>>

CloseErrChan ==
    /\ loop = "closing"
    /\ loop' = "over"
    /\ UNCHANGED <<tick, reader, stopper, returned, received>>

-----------------------------------------------------------------------------
(* The reader, main of the Dispatcher, logs each error and reads the next. *)

Handle_ReturnsOnError ==
    /\ reader = "handling"
    /\ reader' = "over"
    /\ UNCHANGED <<loop, tick, stopper, returned, received>>

Handle ==
    /\ reader = "handling"
    /\ reader' = "ranging"
    /\ UNCHANGED <<loop, tick, stopper, returned, received>>

EndRange ==
    /\ reader = "ranging"
    /\ loop = "over"
    /\ reader' = "over"
    /\ UNCHANGED <<loop, tick, stopper, returned, received>>

-----------------------------------------------------------------------------
(* The caller of Stop, another goroutine than the reader. *)

CallStop_ClosesOnly ==
    /\ loop # "off" /\ stopper = "idle"
    /\ stopper' = "closing"
    /\ UNCHANGED <<loop, tick, reader, returned, received>>

CallStop ==
    /\ loop # "off"
    /\ stopper = "idle"
    /\ stopper' = "sending"
    /\ UNCHANGED <<loop, tick, reader, returned, received>>

CloseStopChan ==
    /\ stopper = "closing"
    /\ stopper' = "over"
    /\ UNCHANGED <<loop, tick, reader, returned, received>>

Next ==
    \/ Start
    \/ Tick \/ BeginIteration \/ EndIteration \/ Deliver
    \/ ReceiveStop \/ CloseErrChan
    \/ Handle \/ EndRange
    \/ CallStop \/ CloseStopChan

Spec == Init /\ [][Next]_vars

\* A select with several ready cases chooses one of them at random, so no case
\* that is ready again and again is passed over for ever.
FairSpec ==
    /\ Spec
    /\ WF_vars(Start)
    /\ WF_vars(Tick) /\ SF_vars(BeginIteration) /\ WF_vars(EndIteration)
    /\ WF_vars(Deliver) /\ SF_vars(ReceiveStop) /\ WF_vars(CloseErrChan)
    /\ WF_vars(Handle) /\ WF_vars(EndRange) /\ WF_vars(CloseStopChan)

-----------------------------------------------------------------------------

\* Once Stop has handed over its value no iteration runs or ever begins, and
\* no error is on its way: the caller of Stop may free what iterations use
\* (loop.go:93-96 and 103-106).
QuietAfterStop == stopper \in {"closing", "over"} => loop \in {"closing", "over"}

\* Every error is received exactly once and before the next iteration begins,
\* also when Stop is called in the meantime; the reader leaves its range loop
\* only with all of them (loop.go:88-96; loop_test.go:98 samples it).
ErrorsDelivered ==
    /\ returned = received + (IF loop = "sending" THEN 1 ELSE 0)
    /\ reader = "over" => loop = "over"

\* Stop returns, and ends the goroutine and the range loop of the reader, at
\* whatever point of an iteration it is called (loop.go:102-106).
StopHalts == stopper = "sending" ~> (stopper = "over" /\ reader = "over")

\* As long as nobody calls Stop, iterations follow each other for ever, also
\* after errors (loop.go:86-97, main.go:117-119).
KeepsPolling == []<>(loop = "iterating" \/ stopper # "idle")

=============================================================================
