---------------------------- MODULE PollLoopProofs ----------------------------
(***************************************************************************)
(* PollLoop's safety for every number of errors.  That no more errors are  *)
(* received than returned is what bounds received, so the type and the     *)
(* count of the errors are preserved together.                             *)
(***************************************************************************)
EXTENDS PollLoop, TLAPS

Counted == TypeOK /\ ErrorsDelivered

\* In the beginning nothing was returned and nothing received.
LEMMA InitCounted == Init => Counted
<1> SUFFICES ASSUME Init PROVE Counted
  OBVIOUS
<1>1. TypeOK
  <2>1. tick \in BOOLEAN
    BY Zenon DEF Init
  <2>2. 0 \in 0..MaxErrors
    BY ErrorsAssumption
  <2> QED
    BY <2>1, <2>2, Zenon DEF Init, TypeOK
<1>2. ErrorsDelivered
  BY DEF Init, ErrorsDelivered
<1> QED
  BY <1>1, <1>2 DEF Counted

\* Every step of the goroutine, the reader and the caller of Stop keeps the
\* count of the errors right.
LEMMA StepCounted == Counted /\ [Next]_vars => Counted'
<1> SUFFICES ASSUME Counted, [Next]_vars PROVE Counted'
  OBVIOUS
<1> USE ErrorsAssumption DEF Counted, TypeOK, ErrorsDelivered
<1>1. CASE Start
  BY <1>1 DEF Start
<1>2. CASE Tick
  BY <1>2 DEF Tick
<1>3. CASE BeginIteration
  BY <1>3 DEF BeginIteration
<1>4. CASE EndIteration
  BY <1>4 DEF EndIteration
<1>5. CASE Deliver
  BY <1>5 DEF Deliver
<1>6. CASE ReceiveStop
  BY <1>6 DEF ReceiveStop
<1>7. CASE CloseErrChan
  BY <1>7 DEF CloseErrChan
<1>8. CASE Handle
  BY <1>8 DEF Handle
<1>9. CASE EndRange
  BY <1>9 DEF EndRange
<1>10. CASE CallStop
  BY <1>10 DEF CallStop
<1>11. CASE CloseStopChan
  BY <1>11 DEF CloseStopChan
<1>12. CASE UNCHANGED vars
  BY <1>12 DEF vars
<1> QED
  BY <1>1, <1>2, <1>3, <1>4, <1>5, <1>6, <1>7, <1>8, <1>9, <1>10, <1>11, <1>12 DEF Next

\* The state of the goroutine and of its two peers always has its type
\* (loop.go:81-106).
THEOREM TypeCorrect == Spec => []TypeOK
<1>1. Counted => TypeOK
  BY DEF Counted
<1> QED
  BY InitCounted, StepCounted, <1>1, PTL DEF Spec

\* No error of an iteration is lost or duplicated on its way to the reader
\* (loop.go:88-96).
THEOREM ErrorsAreDelivered == Spec => []ErrorsDelivered
<1>1. Counted => ErrorsDelivered
  BY DEF Counted
<1> QED
  BY InitCounted, StepCounted, <1>1, PTL DEF Spec

\* After Stop has handed over its value no iteration runs (loop.go:93-106).
THEOREM QuietOnceStopped == Spec => []QuietAfterStop
<1>1. Init => QuietAfterStop
  BY DEF Init, QuietAfterStop
<1>2. QuietAfterStop /\ [Next]_vars => QuietAfterStop'
  BY DEF QuietAfterStop, Next, vars, Start, Tick, BeginIteration, EndIteration,
         Deliver, ReceiveStop, CloseErrChan, Handle, EndRange, CallStop,
         CloseStopChan
<1> QED
  BY <1>1, <1>2, PTL DEF Spec

=============================================================================
