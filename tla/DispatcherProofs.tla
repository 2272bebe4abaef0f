-------------------------- MODULE DispatcherProofs --------------------------
(* Proofs about Dispatcher, for any dispatchers, jobs, limits and faults. *)
EXTENDS Dispatcher, FiniteSetTheorems, TLAPS

USE DEF Fault, Goto, Release, Log, Failed

-----------------------------------------------------------------------------
(* Types and claims, which need each other: what SendFail reports is a job    *)
(* because a dispatcher at "fail" holds one.                                  *)

Claims == TypeOK /\ ClaimsSound

\* In the beginning nobody holds a job and Piazza has no report.
LEMMA InitClaims == Init => Claims
  BY JobsAssumption, BoundAssumption
     DEF Init, Claims, TypeOK, ClaimsSound, TaskStates, Points, Sessions, Errors

\* Every step of a dispatcher, of Piazza or of Cloud Foundry keeps the claims.
LEMMA StepClaims == Claims /\ [Next]_vars => Claims'
<1> SUFFICES ASSUME Claims, [Next]_vars PROVE Claims'
  OBVIOUS
<1> USE JobsAssumption, BoundAssumption
    DEF Claims, TypeOK, ClaimsSound, TaskStates, Points, Sessions, Errors,
        Senders, Statuses
<1>1. ASSUME NEW j \in Jobs, Submit(j) PROVE Claims'
  BY <1>1 DEF Submit
<1>2. ASSUME NEW j \in Jobs, StartTask(j) PROVE Claims'
  BY <1>2 DEF StartTask
<1>3. ASSUME NEW j \in Jobs, EndTask(j) PROVE Claims'
  BY <1>3 DEF EndTask, Active, Pending, Running
<1>4. ASSUME NEW d \in Dispatchers, ExpireSession(d) PROVE Claims'
  BY <1>4 DEF ExpireSession
<1>5. ASSUME NEW d \in Dispatchers, Crash(d) PROVE Claims'
  BY <1>5 DEF Crash
<1>6. ASSUME NEW d \in Dispatchers, GetSession(d) \/ GetSessionFails(d) PROVE Claims'
  BY <1>6 DEF GetSession, GetSessionFails
<1>7. ASSUME NEW d \in Dispatchers, CountTasks(d) \/ CountTasksFails(d) PROVE Claims'
  BY <1>7 DEF CountTasks, CountTasksFails
<1>8. ASSUME NEW d \in Dispatchers, PollNoJob(d) \/ PollFails(d) PROVE Claims'
  BY <1>8 DEF PollNoJob, PollFails
<1>9. ASSUME NEW d \in Dispatchers, NEW j \in Jobs, TakeJob(d, j) PROVE Claims'
  BY <1>9 DEF TakeJob
<1>10. ASSUME NEW d \in Dispatchers, NEW j \in Jobs, DropJob(d, j) PROVE Claims'
  BY <1>10, BodiesAssumption DEF DropJob, BodyError, BodyKinds
<1>11. ASSUME NEW d \in Dispatchers, CreateTask(d) PROVE Claims'
  <2>1. PICK k \in Jobs : k = held[d] /\ k \in taken
    BY <1>11 DEF CreateTask
  <2>2. \A e \in Dispatchers : e # d => held[e] # k
    BY <2>1
  <2>3. TypeOK'
    BY <1>11, <2>1 DEF CreateTask
  <2>4. ClaimsSound'
    BY <1>11, <2>1, <2>2, <2>3 DEF CreateTask
  <2> QED
    BY <2>3, <2>4
<1>12. ASSUME NEW d \in Dispatchers, CreateTaskMemoryLimit(d) PROVE Claims'
  <2>1. PICK k \in Jobs : k = held[d] /\ k \in taken
    BY <1>12 DEF CreateTaskMemoryLimit
  <2>2. \A e \in Dispatchers : e # d => held[e] # k
    BY <2>1
  <2>3. TypeOK'
    BY <1>12, <2>1 DEF CreateTaskMemoryLimit
  <2>4. ClaimsSound'
    BY <1>12, <2>1, <2>2, <2>3 DEF CreateTaskMemoryLimit
  <2> QED
    BY <2>3, <2>4
<1>13. ASSUME NEW d \in Dispatchers, CreateTaskFails(d) PROVE Claims'
  BY <1>13 DEF CreateTaskFails
<1>14. ASSUME NEW d \in Dispatchers, CreateTaskReplyLost(d) PROVE Claims'
  <2>1. PICK k \in Jobs : k = held[d] /\ k \in taken
    BY <1>14 DEF CreateTaskReplyLost
  <2>2. \A e \in Dispatchers : e # d => held[e] # k
    BY <2>1
  <2>3. TypeOK'
    BY <1>14, <2>1 DEF CreateTaskReplyLost
  <2>4. ClaimsSound'
    BY <1>14, <2>1, <2>2, <2>3 DEF CreateTaskReplyLost
  <2> QED
    BY <2>3, <2>4
<1>15. ASSUME NEW d \in Dispatchers, SendFail(d) PROVE Claims'
  <2>1. PICK k \in Jobs : k = held[d] /\ k \in taken
    BY <1>15 DEF SendFail
  <2>2. \A e \in Dispatchers : e # d => held[e] # k
    BY <2>1
  <2>3. TypeOK'
    BY <1>15, <2>1 DEF SendFail
  <2>4. ClaimsSound'
    BY <1>15, <2>1, <2>2, <2>3 DEF SendFail
  <2> QED
    BY <2>3, <2>4
<1>16. ASSUME UNCHANGED vars PROVE Claims'
  BY <1>16 DEF vars
<1> QED
  BY <1>1, <1>2, <1>3, <1>4, <1>5, <1>6, <1>7, <1>8, <1>9, <1>10, <1>11,
     <1>12, <1>13, <1>14, <1>15, <1>16 DEF Next, Environment, Iteration

\* Every variable keeps its type, for any number of dispatchers and jobs
\* (loop.go:108-175, factory.go:36-67).
THEOREM TypeCorrect == Spec => []TypeOK
<1>1. Claims => TypeOK
  BY DEF Claims
<1> QED
  BY InitClaims, StepClaims, <1>1, PTL DEF Spec

\* No job is in the hands of two dispatchers, and none is launched or failed
\* that Piazza did not hand out (loop.go:127-175).
THEOREM ClaimsCorrect == Spec => []ClaimsSound
<1>1. Claims => ClaimsSound
  BY DEF Claims
<1> QED
  BY InitClaims, StepClaims, <1>1, PTL DEF Spec

\* A task is created at most once per job and never after a failure report
\* (loop.go:163-174).
THEOREM LaunchesOnce == Spec => LaunchOnce
<1> DEFINE Launch(j) == task'[j] = "PENDING" /\ task[j] # "PENDING"
           Allowed(j) == task[j] = "none" /\ ~Failed(j) /\ Holds(j) # {}
<1>1. ASSUME Claims, [Next]_vars, NEW j \in Jobs, Launch(j) PROVE Allowed(j)
  <2>1. PICK d \in Dispatchers : CreateTask(d) \/ CreateTaskReplyLost(d)
    BY <1>1 DEF Next, Environment, Iteration, vars, Claims, TypeOK, TaskStates,
       Submit, StartTask, EndTask, ExpireSession, Crash, GetSession,
       GetSessionFails, CountTasks, CountTasksFails, PollNoJob, PollFails,
       TakeJob, DropJob, CreateTaskMemoryLimit, CreateTaskFails, SendFail
  <2>2. j = held[d]
    BY <1>1, <2>1 DEF CreateTask, CreateTaskReplyLost, Claims, TypeOK
  <2> QED
    BY <1>1, <2>1, <2>2, JobsAssumption
       DEF CreateTask, CreateTaskReplyLost, Claims, ClaimsSound, Holds
<1>2. Claims /\ [Next]_vars => [\A j \in Jobs : Launch(j) => Allowed(j)]_vars
  BY <1>1
<1> QED
  BY InitClaims, StepClaims, <1>2, PTL DEF Spec, LaunchOnce

-----------------------------------------------------------------------------
(* Cardinalities. *)

\* Adding an element to a finite set adds at most one to its size.
LEMMA AddOne ==
  ASSUME NEW S, NEW T, NEW x, IsFiniteSet(S), T \subseteq S \cup {x}
  PROVE  /\ IsFiniteSet(T)
         /\ Cardinality(T) \in Nat
         /\ Cardinality(T) <= Cardinality(S) + 1
<1>1. /\ IsFiniteSet(S \cup {x})
      /\ Cardinality(S \cup {x}) <= Cardinality(S) + 1
      /\ Cardinality(S) \in Nat
  BY FS_AddElement, FS_CardinalityType
<1>2. IsFiniteSet(T) /\ Cardinality(T) <= Cardinality(S \cup {x})
  BY <1>1, FS_Subset
<1>3. Cardinality(T) \in Nat /\ Cardinality(S \cup {x}) \in Nat
  BY <1>1, <1>2, FS_CardinalityType
<1> QED
  BY <1>1, <1>2, <1>3

\* Taking an element out of a finite set takes one from its size.
LEMMA DropOne ==
  ASSUME NEW S, NEW T, NEW x \in S, IsFiniteSet(S), T \subseteq S \ {x}
  PROVE  Cardinality(T) + 1 <= Cardinality(S)
<1>1. IsFiniteSet(S \ {x}) /\ Cardinality(S \ {x}) = Cardinality(S) - 1
  BY FS_RemoveElement
<1>2. IsFiniteSet(T) /\ Cardinality(T) <= Cardinality(S \ {x})
  BY <1>1, FS_Subset
<1>3. Cardinality(T) \in Nat /\ Cardinality(S) \in Nat
  BY <1>2, FS_CardinalityType
<1> QED
  BY <1>1, <1>2, <1>3

\* The sets of tasks and of cleared dispatchers are finite, and what is active
\* is what is pending and what is running.
LEMMA SizesOfTasks ==
  /\ IsFiniteSet(Pending) /\ Cardinality(Pending) \in Nat
  /\ IsFiniteSet(Running) /\ Cardinality(Running) \in Nat
  /\ IsFiniteSet(Active) /\ Cardinality(Active) \in Nat
  /\ IsFiniteSet(Cleared) /\ Cardinality(Cleared) \in Nat
  /\ Cardinality(Dispatchers) \in Nat
  /\ Cardinality(Cleared) <= Cardinality(Dispatchers)
  /\ Cardinality(Active) <= Cardinality(Pending) + Cardinality(Running)
<1>1. Pending \subseteq Jobs /\ Running \subseteq Jobs /\ Active \subseteq Jobs
  BY DEF Pending, Running, Active
<1>2. IsFiniteSet(Pending) /\ IsFiniteSet(Running) /\ IsFiniteSet(Active)
  BY <1>1, JobsAssumption, FS_Subset
<1>3. Cleared \subseteq Dispatchers
  BY DEF Cleared
<1>4. IsFiniteSet(Cleared) /\ Cardinality(Cleared) <= Cardinality(Dispatchers)
  BY <1>3, DispatchersAssumption, FS_Subset
<1>5. /\ Cardinality(Pending) \in Nat
      /\ Cardinality(Running) \in Nat
      /\ Cardinality(Active) \in Nat
      /\ Cardinality(Cleared) \in Nat
      /\ Cardinality(Dispatchers) \in Nat
      /\ Cardinality(Pending \cap Running) \in Nat
  <2>1. IsFiniteSet(Pending \cap Running)
    BY <1>2, FS_Intersection
  <2> QED
    BY <1>2, <1>4, <2>1, DispatchersAssumption, FS_CardinalityType
<1>6. Cardinality(Active) = Cardinality(Pending) + Cardinality(Running)
                            - Cardinality(Pending \cap Running)
  BY <1>2, FS_Union DEF Active
<1> QED
  BY <1>2, <1>4, <1>5, <1>6

-----------------------------------------------------------------------------
(* The number of tasks. *)

\* In the beginning nothing runs and no dispatcher has passed the check.
LEMMA InitReservations == Init => Reservations
<1> SUFFICES ASSUME Init PROVE Reservations
  OBVIOUS
<1>1. Pending = {} /\ Active = {} /\ Cleared = {}
  BY DEF Init, Pending, Active, Running, Cleared
<1>2. Cardinality({}) = 0 /\ Cardinality(Dispatchers) \in Nat
  BY FS_EmptySet, SizesOfTasks
<1> QED
  BY <1>1, <1>2, LimitAssumption, BoundAssumption DEF Reservations, Capacity

\* What is neither created nor cleared keeps the reservations.
LEMMA NoNewReservation ==
  ASSUME Reservations, Pending' \subseteq Pending, Active' \subseteq Active,
         Cleared' \subseteq Cleared
  PROVE  Reservations'
<1>1. /\ Cardinality(Pending') <= Cardinality(Pending)
      /\ Cardinality(Active') <= Cardinality(Active)
      /\ Cardinality(Cleared') <= Cardinality(Cleared)
  BY SizesOfTasks, FS_Subset
<1>2. /\ Cardinality(Pending') \in Nat
      /\ Cardinality(Active') \in Nat
      /\ Cardinality(Cleared') \in Nat
  BY <1>1, SizesOfTasks, FS_Subset, FS_CardinalityType
<1> QED
  BY <1>1, <1>2, SizesOfTasks, LimitAssumption, PageAssumption, BoundAssumption
     DEF Reservations, Capacity

\* A task that is created uses the reservation of its dispatcher.
LEMMA CreateReservation ==
  ASSUME Claims, Reservations, NEW d \in Dispatchers,
         CreateTask(d) \/ CreateTaskReplyLost(d)
  PROVE  Reservations'
<1> DEFINE k == held[d]
<1>1. /\ Pending' \subseteq Pending \cup {k}
      /\ Active' \subseteq Active \cup {k}
      /\ Cardinality(Pending) < MaxPending
  BY DEF CreateTask, CreateTaskReplyLost, Pending, Active, Running, Claims, TypeOK
<1>2. d \in Cleared /\ Cleared' \subseteq Cleared \ {d}
  BY DEF CreateTask, CreateTaskReplyLost, Cleared, Claims, TypeOK
<1>3. Cardinality(Pending') \in Nat /\ Cardinality(Pending') <= Cardinality(Pending) + 1
  BY <1>1, SizesOfTasks, AddOne
<1>4. Cardinality(Active') \in Nat /\ Cardinality(Active') <= Cardinality(Active) + 1
  BY <1>1, SizesOfTasks, AddOne
<1>5. Cardinality(Cleared') + 1 <= Cardinality(Cleared)
  BY <1>2, SizesOfTasks, DropOne
<1>6. IsFiniteSet(Cleared') /\ Cardinality(Cleared') \in Nat
  BY <1>2, SizesOfTasks, FS_Subset, FS_CardinalityType
<1> QED
  BY <1>1, <1>3, <1>4, <1>5, <1>6, SizesOfTasks,
     LimitAssumption, PageAssumption, BoundAssumption
     DEF Reservations, Capacity

\* The check of the limit leaves room for every dispatcher to reserve a place.
LEMMA CheckReservation ==
  ASSUME Claims, Reservations, NEW d \in Dispatchers, CountTasks(d)
  PROVE  Reservations'
<1>1. Pending' = Pending /\ Active' = Active
  BY DEF CountTasks, Pending, Active, Running
<1>2. CASE NumTasks >= TaskLimit
  <2>1. Cleared' \subseteq Cleared
    BY <1>2 DEF CountTasks, Cleared, Claims, TypeOK
  <2> QED
    BY <1>1, <2>1, NoNewReservation
<1>3. CASE ~(NumTasks >= TaskLimit)
  <2>1. Cleared' \subseteq Dispatchers
    BY DEF Cleared
  <2>2. /\ IsFiniteSet(Cleared')
        /\ Cardinality(Cleared') <= Cardinality(Dispatchers)
        /\ Cardinality(Cleared') \in Nat
    BY <2>1, DispatchersAssumption, FS_Subset, FS_CardinalityType
  <2>3. PageSize >= TaskLimit => Cardinality(Running) < TaskLimit
    BY <1>3, SizesOfTasks, LimitAssumption, PageAssumption DEF NumTasks
  <2> QED
    BY <1>1, <2>2, <2>3, SizesOfTasks, LimitAssumption, PageAssumption,
       BoundAssumption DEF Reservations, Capacity
<1> QED
  BY <1>2, <1>3

\* Every step keeps the reservations: a check makes one, a created task uses
\* it, and everything else gives back or leaves alone.
LEMMA StepReservations ==
  Claims /\ Reservations /\ [Next]_vars => Reservations'
<1> SUFFICES ASSUME Claims, Reservations, [Next]_vars PROVE Reservations'
  OBVIOUS
<1>1. CASE \E d \in Dispatchers : CreateTask(d) \/ CreateTaskReplyLost(d)
  BY <1>1, CreateReservation
<1>2. CASE \E d \in Dispatchers : CountTasks(d)
  BY <1>2, CheckReservation
<1> DEFINE Shrinks == /\ Pending' \subseteq Pending
                      /\ Active' \subseteq Active
                      /\ Cleared' \subseteq Cleared
<1> USE DEF Claims, TypeOK, Pending, Active, Running, Cleared
<1>3. ASSUME NEW j \in Jobs, Submit(j) \/ StartTask(j) \/ EndTask(j) PROVE Shrinks
  BY <1>3 DEF Submit, StartTask, EndTask
<1>4. ASSUME NEW d \in Dispatchers, ExpireSession(d) \/ Crash(d) PROVE Shrinks
  BY <1>4 DEF ExpireSession, Crash
<1>5. ASSUME NEW d \in Dispatchers,
             GetSession(d) \/ GetSessionFails(d) \/ CountTasksFails(d)
      PROVE  Shrinks
  BY <1>5 DEF GetSession, GetSessionFails, CountTasksFails
<1>6. ASSUME NEW d \in Dispatchers, PollNoJob(d) \/ PollFails(d) PROVE Shrinks
  BY <1>6 DEF PollNoJob, PollFails
<1>7. ASSUME NEW d \in Dispatchers, NEW j \in Jobs, TakeJob(d, j) \/ DropJob(d, j)
      PROVE  Shrinks
  BY <1>7 DEF TakeJob, DropJob
<1>8. ASSUME NEW d \in Dispatchers,
             CreateTaskMemoryLimit(d) \/ CreateTaskFails(d) \/ SendFail(d)
      PROVE  Shrinks
  BY <1>8 DEF CreateTaskMemoryLimit, CreateTaskFails, SendFail
<1>9. CASE UNCHANGED vars
  <2>1. Shrinks
    BY <1>9 DEF vars
  <2> QED
    BY <2>1, NoNewReservation
<1> QED
  BY <1>1, <1>2, <1>3, <1>4, <1>5, <1>6, <1>7, <1>8, <1>9, NoNewReservation
     DEF Next, Environment, Iteration

\* A dispatcher that passed the check holds a place in the capacity
\* (loop.go:122).
THEOREM ReservationsHold == Spec => []Reservations
<1>1. Init => Claims /\ Reservations
  BY InitClaims, InitReservations
<1>2. Claims /\ Reservations /\ [Next]_vars => (Claims /\ Reservations)'
  BY StepClaims, StepReservations
<1> QED
  BY <1>1, <1>2, PTL DEF Spec

\* The number of tasks stays within TaskLimit + MaxPending + N - 1, N being
\* the number of dispatchers (loop.go:117-163, session.go:54-63).
THEOREM TasksBounded == Spec => []TaskBound
<1>1. Reservations => TaskBound
  BY SizesOfTasks, LimitAssumption, BoundAssumption
     DEF Reservations, TaskBound, Capacity
<1> QED
  BY ReservationsHold, <1>1, PTL

-----------------------------------------------------------------------------
(* What adverse events cost. *)

Harmed == Stranded \cup Contradicted

\* A step that is no adverse event harms no job; an adverse event harms one.
Harmless == Harmed' \subseteq Harmed /\ faults' = faults
HarmsOne == faults' = faults + 1 /\ \E x : Harmed' \subseteq Harmed \cup {x}

\* An adverse event harms at most one job and any other step harms none.
LEMMA StepHarm == Claims /\ [Next]_vars => Harmless \/ HarmsOne
<1> SUFFICES ASSUME Claims, [Next]_vars PROVE Harmless \/ HarmsOne
  OBVIOUS
<1> USE JobsAssumption
    DEF Claims, TypeOK, ClaimsSound, Harmed, Stranded, Contradicted, Holds
<1>1. ASSUME NEW j \in Jobs, Submit(j) \/ StartTask(j) \/ EndTask(j) PROVE Harmless
  BY <1>1 DEF Submit, StartTask, EndTask, Active, Pending, Running, Harmless
<1>2. ASSUME NEW d \in Dispatchers, ExpireSession(d) \/ GetSessionFails(d)
      PROVE  HarmsOne
  BY <1>2 DEF ExpireSession, GetSessionFails, HarmsOne
<1>3. ASSUME NEW d \in Dispatchers, Crash(d) PROVE HarmsOne
  <2>1. Harmed' \subseteq Harmed \cup {held[d]}
    BY <1>3 DEF Crash
  <2> QED
    BY <1>3, <2>1 DEF Crash, HarmsOne
<1>4. ASSUME NEW d \in Dispatchers, GetSession(d) \/ CountTasks(d) \/ PollNoJob(d)
      PROVE  Harmless
  BY <1>4 DEF GetSession, CountTasks, PollNoJob, Harmless
<1>5. ASSUME NEW d \in Dispatchers, CountTasksFails(d) \/ CreateTaskFails(d)
      PROVE  Harmless \/ HarmsOne
  <2>1. Harmed' = Harmed
    BY <1>5 DEF CountTasksFails, CreateTaskFails
  <2> QED
    BY <1>5, <2>1 DEF CountTasksFails, CreateTaskFails, Harmless, HarmsOne
<1>6. ASSUME NEW d \in Dispatchers, PollFails(d) PROVE HarmsOne
  <2>1. CASE UNCHANGED <<queue, taken>>
    BY <1>6, <2>1 DEF PollFails, HarmsOne
  <2>2. ASSUME NEW j \in queue, taken' = taken \cup {j} PROVE HarmsOne
    <3>1. Harmed' \subseteq Harmed \cup {j}
      BY <1>6, <2>2 DEF PollFails
    <3> QED
      BY <1>6, <3>1 DEF PollFails, HarmsOne
  <2> QED
    BY <1>6, <2>1, <2>2 DEF PollFails
<1>7. ASSUME NEW d \in Dispatchers, NEW j \in Jobs, TakeJob(d, j) PROVE Harmless
  BY <1>7 DEF TakeJob, Harmless
<1>8. ASSUME NEW d \in Dispatchers, NEW j \in Jobs, DropJob(d, j) PROVE Harmless
  BY <1>8 DEF DropJob, Harmless
<1>9. ASSUME NEW d \in Dispatchers, CreateTask(d) PROVE Harmless
  BY <1>9 DEF CreateTask, Harmless
<1>10. ASSUME NEW d \in Dispatchers,
              CreateTaskMemoryLimit(d) \/ CreateTaskReplyLost(d)
       PROVE  HarmsOne
  <2>1. Harmed' \subseteq Harmed \cup {held[d]}
    BY <1>10 DEF CreateTaskMemoryLimit, CreateTaskReplyLost
  <2> QED
    BY <1>10, <2>1 DEF CreateTaskMemoryLimit, CreateTaskReplyLost, HarmsOne
<1>11. ASSUME NEW d \in Dispatchers, SendFail(d) PROVE Harmless \/ HarmsOne
  <2>1. Harmed' \subseteq Harmed \cup {held[d]}
    BY <1>11 DEF SendFail
  <2>2. CASE faults' = faults + 1
    BY <2>1, <2>2 DEF HarmsOne
  <2>3. CASE /\ reports' = reports \cup {<<held[d], "dispatcher", "Fail">>}
             /\ faults' = faults
    BY <1>11, <2>3 DEF SendFail, Harmless
  <2> QED
    BY <1>11, <2>2, <2>3 DEF SendFail
<1>12. CASE UNCHANGED vars
  BY <1>12 DEF vars, Harmless
<1> QED
  BY <1>1, <1>2, <1>3, <1>4, <1>5, <1>6, <1>7, <1>8, <1>9, <1>10, <1>11, <1>12
     DEF Next, Environment, Iteration

\* So the jobs harmed are never more than the adverse events.
LEMMA StepFaultBound ==
  Claims /\ FaultBound /\ [Next]_vars => FaultBound'
<1> SUFFICES ASSUME Claims, FaultBound, [Next]_vars PROVE FaultBound'
  OBVIOUS
<1>1. IsFiniteSet(Harmed) /\ Cardinality(Harmed) \in Nat /\ faults \in Nat
  <2>1. Harmed \subseteq Jobs /\ faults \in Nat
    BY BoundAssumption DEF Claims, TypeOK, Harmed, Stranded, Contradicted
  <2> QED
    BY <2>1, JobsAssumption, FS_Subset, FS_CardinalityType
<1>2. CASE Harmless
  <2>1. Cardinality(Harmed') <= Cardinality(Harmed)
    BY <1>1, <1>2, FS_Subset DEF Harmless
  <2>2. Cardinality(Harmed') \in Nat
    BY <1>1, <1>2, FS_Subset, FS_CardinalityType DEF Harmless
  <2> QED
    BY <1>1, <1>2, <2>1, <2>2 DEF Harmless, FaultBound, Harmed
<1>3. CASE HarmsOne
  <2>1. PICK x : Harmed' \subseteq Harmed \cup {x}
    BY <1>3 DEF HarmsOne
  <2>2. Cardinality(Harmed') \in Nat /\ Cardinality(Harmed') <= Cardinality(Harmed) + 1
    BY <1>1, <2>1, AddOne
  <2> QED
    BY <1>1, <1>3, <2>2 DEF HarmsOne, FaultBound, Harmed
<1> QED
  BY <1>2, <1>3, StepHarm

\* Each adverse event strands or contradicts at most one job
\* (loop.go:127-174).
THEOREM FaultsBoundHarm == Spec => []FaultBound
<1>1. Init => Claims /\ FaultBound
  <2>1. Init => Stranded \cup Contradicted = {}
    BY DEF Init, Stranded, Contradicted
  <2>2. Init => FaultBound
    BY <2>1, FS_EmptySet DEF Init, FaultBound
  <2> QED
    BY <2>2, InitClaims
<1>2. Claims /\ FaultBound /\ [Next]_vars => (Claims /\ FaultBound)'
  BY StepClaims, StepFaultBound
<1> QED
  BY <1>1, <1>2, PTL DEF Spec

-----------------------------------------------------------------------------
(* The dispatchers implement JobLifecycle. *)

LifeOf == [j \in Jobs |-> JobState(j)]

\* Job j, and no other, goes from one of the states in from to the state to.
Moves(j, from, to) ==
    /\ JobState(j) \in from
    /\ LifeOf' = [LifeOf EXCEPT ![j] = to]

\* If the state of one job changes and all others stay, the abstract step is
\* that of the one job.
LEMMA MovesOne ==
  ASSUME NEW j \in Jobs, NEW from, NEW to, JobState(j) \in from,
         JobState(j)' = to,
         \A k \in Jobs : k # j => JobState(k)' = JobState(k)
  PROVE  Moves(j, from, to)
  BY DEF Moves, LifeOf

\* If no job changes its state, the abstract step is a stutter.
LEMMA StaysPut ==
  ASSUME \A k \in Jobs : JobState(k)' = JobState(k)
  PROVE  LifeOf' = LifeOf
  BY DEF LifeOf

\* What a step of the dispatchers may do to the life of the jobs.
LifeStep ==
    \/ LifeOf' = LifeOf
    \/ \E j \in Jobs : \/ Moves(j, {"absent"}, "waiting")
                       \/ Moves(j, {"waiting"}, "claimed")
                       \/ Moves(j, {"waiting", "claimed"}, "dropped")
                       \/ Moves(j, {"launched"}, "finished")
                       \/ /\ Moves(j, {"claimed"}, "launched")
                          /\ \E d \in Dispatchers : d \in Cleared

\* JobState, now and after a step, without sets.
LEMMA LifeCases ==
  ASSUME NEW j \in Jobs
  PROVE  /\ JobState(j) =
              IF j \in queue THEN "waiting"
              ELSE IF task[j] \in {"PENDING", "RUNNING"} THEN "launched"
              ELSE IF task[j] = "ended" THEN "finished"
              ELSE IF j \notin taken THEN "absent"
              ELSE IF \E d \in Dispatchers : held[d] = j THEN "claimed"
              ELSE "dropped"
         /\ JobState(j)' =
              IF j \in queue' THEN "waiting"
              ELSE IF task'[j] \in {"PENDING", "RUNNING"} THEN "launched"
              ELSE IF task'[j] = "ended" THEN "finished"
              ELSE IF j \notin taken' THEN "absent"
              ELSE IF \E d \in Dispatchers : held'[d] = j THEN "claimed"
              ELSE "dropped"
<1>1. /\ j \in Active <=> task[j] \in {"PENDING", "RUNNING"}
      /\ j \in Active' <=> task'[j] \in {"PENDING", "RUNNING"}
  BY DEF Active, Pending, Running
<1>2. /\ Holds(j) # {} <=> \E d \in Dispatchers : held[d] = j
      /\ Holds(j)' # {} <=> \E d \in Dispatchers : held'[d] = j
  BY DEF Holds
<1> QED
  BY <1>1, <1>2 DEF JobState

\* Nobody holds a job of the queue, and it has no task.
Free(j) == j \notin taken /\ task[j] = "none" /\ \A e \in Dispatchers : held[e] # j

\* d alone holds j.
Only(d, j) == /\ held[d] = j /\ j \in taken /\ j \notin queue
              /\ \A e \in Dispatchers : e # d => held[e] # j

\* A job in the queue is held by nobody and has no task.
LEMMA QueuedIsFree == Claims => \A j \in queue : Free(j)
<1> SUFFICES ASSUME Claims, NEW j \in queue PROVE Free(j)
  OBVIOUS
<1>1. j \in Jobs /\ j \notin taken
  BY DEF Claims, TypeOK, ClaimsSound
<1>2. task[j] = "none"
  BY <1>1 DEF Claims, ClaimsSound
<1>3. ASSUME NEW e \in Dispatchers PROVE held[e] # j
  <2>1. held[e] # NoJob => held[e] \in taken
    BY DEF Claims, ClaimsSound
  <2> QED
    BY <1>1, <2>1, JobsAssumption
<1> QED
  BY <1>1, <1>2, <1>3 DEF Free

\* The job a dispatcher holds is handed out and held by nobody else.
LEMMA HeldByOne ==
  Claims => \A d \in Dispatchers : held[d] \in Jobs => Only(d, held[d])
<1> SUFFICES ASSUME Claims, NEW d \in Dispatchers, held[d] \in Jobs
             PROVE  Only(d, held[d])
  OBVIOUS
<1>1. held[d] \in taken
  BY JobsAssumption DEF Claims, ClaimsSound
<1>2. held[d] \notin queue
  BY <1>1, QueuedIsFree DEF Free
<1>3. ASSUME NEW e \in Dispatchers, e # d PROVE held[e] # held[d]
  BY <1>3, JobsAssumption DEF Claims, ClaimsSound
<1> QED
  BY <1>1, <1>2, <1>3 DEF Only

\* Every step of the dispatchers is a step of the life of one job, or a stutter;
\* a launch is made by a dispatcher that had passed the check.
LEMMA StepLife == Claims /\ [Next]_vars => LifeStep
<1> SUFFICES ASSUME Claims, [Next]_vars PROVE LifeStep
  OBVIOUS
<1> DEFINE Others(j) == \A k \in Jobs : k # j => JobState(k)' = JobState(k)
<1> USE JobsAssumption DEF Claims, TypeOK, ClaimsSound, TaskStates, Free, Only
<1>1. ASSUME NEW j \in Jobs, Submit(j) PROVE Moves(j, {"absent"}, "waiting")
  <2>1. JobState(j) = "absent" /\ JobState(j)' = "waiting"
    BY <1>1, LifeCases DEF Submit
  <2>2. Others(j)
    BY <1>1, LifeCases DEF Submit
  <2> QED
    BY <2>1, <2>2, MovesOne
<1>2. ASSUME NEW j \in Jobs, StartTask(j) PROVE LifeOf' = LifeOf
  BY <1>2, StaysPut, LifeCases DEF StartTask
<1>3. ASSUME NEW j \in Jobs, EndTask(j) PROVE Moves(j, {"launched"}, "finished")
  <2>1. JobState(j) = "launched" /\ JobState(j)' = "finished"
    BY QueuedIsFree, <1>3, LifeCases DEF EndTask, Active, Pending, Running
  <2>2. Others(j)
    BY <1>3, LifeCases DEF EndTask, Active, Pending, Running
  <2> QED
    BY <2>1, <2>2, MovesOne
<1>4. ASSUME NEW d \in Dispatchers, Crash(d)
      PROVE  LifeStep
  <2>1. CASE held[d] \in Jobs /\ task[held[d]] = "none"
    <3>1. PICK k \in Jobs : k = held[d]
      BY <2>1
    <3>2. Only(d, k)
      BY HeldByOne, <3>1
    <3>3. JobState(k) = "claimed" /\ JobState(k)' = "dropped"
      BY <1>4, <2>1, <3>1, <3>2, LifeCases DEF Crash
    <3>4. Others(k)
      BY <1>4, <3>1, LifeCases DEF Crash
    <3>5. Moves(k, {"waiting", "claimed"}, "dropped")
      BY <3>3, <3>4, MovesOne
    <3> QED
      BY <3>5 DEF LifeStep
  <2>2. CASE ~(held[d] \in Jobs /\ task[held[d]] = "none")
    <3>1. LifeOf' = LifeOf
      BY <1>4, <2>2, StaysPut, LifeCases DEF Crash
    <3> QED
      BY <3>1 DEF LifeStep
  <2> QED
    BY <2>1, <2>2
<1>5. ASSUME NEW d \in Dispatchers,
             \/ ExpireSession(d) \/ GetSession(d) \/ GetSessionFails(d)
             \/ CountTasks(d) \/ CountTasksFails(d) \/ PollNoJob(d)
             \/ CreateTaskFails(d)
      PROVE  LifeOf' = LifeOf
  BY <1>5, StaysPut, LifeCases DEF ExpireSession, GetSession, GetSessionFails, CountTasks,
     CountTasksFails, PollNoJob, CreateTaskFails
<1>6. ASSUME NEW d \in Dispatchers, PollFails(d) PROVE LifeStep
  <2>1. CASE UNCHANGED <<queue, taken>>
    <3>1. LifeOf' = LifeOf
      BY <1>6, <2>1, StaysPut, LifeCases DEF PollFails
    <3> QED
      BY <3>1 DEF LifeStep
  <2>2. ASSUME NEW j \in queue, queue' = queue \ {j}, taken' = taken \cup {j}
        PROVE  LifeStep
    <3>1. Moves(j, {"waiting", "claimed"}, "dropped")
      <4>1. JobState(j) = "waiting" /\ JobState(j)' = "dropped"
        BY QueuedIsFree, <1>6, <2>2, LifeCases DEF PollFails
      <4>2. Others(j)
        BY <1>6, <2>2, LifeCases DEF PollFails
      <4> QED
        BY <4>1, <4>2, MovesOne
    <3> QED
      BY <2>2, <3>1 DEF LifeStep
  <2> QED
    BY <1>6, <2>1, <2>2 DEF PollFails
<1>7. ASSUME NEW d \in Dispatchers, NEW j \in Jobs, TakeJob(d, j)
      PROVE  Moves(j, {"waiting"}, "claimed")
  <2>1. JobState(j) = "waiting" /\ JobState(j)' = "claimed"
    BY QueuedIsFree, <1>7, LifeCases DEF TakeJob
  <2>2. Others(j)
    <3> SUFFICES ASSUME NEW k \in Jobs, k # j PROVE JobState(k)' = JobState(k)
      OBVIOUS
    <3>1. /\ k \in queue' <=> k \in queue
          /\ k \in taken' <=> k \in taken
          /\ \A e \in Dispatchers : e # d => held'[e] = held[e]
          /\ held[d] = NoJob /\ held'[d] = j
      BY <1>7 DEF TakeJob
    <3> QED
      BY <1>7, <3>1, LifeCases DEF TakeJob
  <2> QED
    BY <2>1, <2>2, MovesOne
<1>8. ASSUME NEW d \in Dispatchers, NEW j \in Jobs, DropJob(d, j)
      PROVE  Moves(j, {"waiting", "claimed"}, "dropped")
  <2>1. JobState(j) = "waiting" /\ JobState(j)' = "dropped"
    BY QueuedIsFree, <1>8, LifeCases DEF DropJob
  <2>2. Others(j)
    BY <1>8, LifeCases DEF DropJob
  <2> QED
    BY <2>1, <2>2, MovesOne
<1>9. ASSUME NEW d \in Dispatchers, CreateTask(d) \/ CreateTaskReplyLost(d)
      PROVE  LifeStep
  <2>1. PICK k \in Jobs : k = held[d]
    BY <1>9 DEF CreateTask, CreateTaskReplyLost
  <2>2. JobState(k) = "claimed" /\ JobState(k)' = "launched" /\ d \in Cleared
    BY <1>9, <2>1, LifeCases DEF CreateTask, CreateTaskReplyLost, Cleared
  <2>3. Others(k)
    BY <1>9, <2>1, LifeCases DEF CreateTask, CreateTaskReplyLost
  <2>4. Moves(k, {"claimed"}, "launched")
    BY <2>2, <2>3, MovesOne
  <2> QED
    BY <2>2, <2>4 DEF LifeStep
<1>10. ASSUME NEW d \in Dispatchers, CreateTaskMemoryLimit(d) PROVE LifeStep
  <2>1. PICK k \in Jobs : k = held[d]
    BY <1>10 DEF CreateTaskMemoryLimit
  <2>2. Only(d, k)
    BY HeldByOne, <2>1
  <2>3. JobState(k) = "claimed" /\ JobState(k)' = "dropped"
    <3>1. task[k] = "none" /\ task' = task /\ queue' = queue /\ taken' = taken
      BY <1>10, <2>1 DEF CreateTaskMemoryLimit
    <3>2. \A e \in Dispatchers : held'[e] # k
      BY <1>10, <2>1, <2>2 DEF CreateTaskMemoryLimit
    <3> QED
      BY <2>2, <3>1, <3>2, LifeCases
  <2>4. Others(k)
    BY <1>10, <2>1, LifeCases DEF CreateTaskMemoryLimit
  <2>5. Moves(k, {"waiting", "claimed"}, "dropped")
    BY <2>3, <2>4, MovesOne
  <2> QED
    BY <2>5 DEF LifeStep
<1>11. ASSUME NEW d \in Dispatchers, SendFail(d) PROVE LifeStep
  <2>1. PICK k \in Jobs : k = held[d]
    BY <1>11 DEF SendFail
  <2>2. CASE task[k] = "none"
    <3>1. Only(d, k)
      BY HeldByOne, <2>1
    <3>2. JobState(k) = "claimed" /\ JobState(k)' = "dropped"
      BY <1>11, <2>1, <2>2, <3>1, LifeCases DEF SendFail
    <3>3. Others(k)
      BY <1>11, <2>1, LifeCases DEF SendFail
    <3>4. Moves(k, {"waiting", "claimed"}, "dropped")
      BY <3>2, <3>3, MovesOne
    <3> QED
      BY <3>4 DEF LifeStep
  <2>3. CASE task[k] # "none"
    <3>1. LifeOf' = LifeOf
      BY <1>11, <2>1, <2>3, StaysPut, LifeCases DEF SendFail
    <3> QED
      BY <3>1 DEF LifeStep
  <2> QED
    BY <2>2, <2>3
<1>12. CASE UNCHANGED vars
  <2>1. LifeOf' = LifeOf
    BY <1>12, StaysPut, LifeCases DEF vars
  <2> QED
    BY <2>1 DEF LifeStep
<1> QED
  BY <1>1, <1>2, <1>3, <1>4, <1>5, <1>6, <1>7, <1>8, <1>9, <1>10, <1>11, <1>12
     DEF Next, Environment, Iteration, LifeStep

\* With a page that shows TaskLimit tasks, the dispatchers only do what
\* JobLifecycle allows (loop.go:108-175).
THEOREM DispatcherImplementsLifecycle ==
  ASSUME PageSize >= TaskLimit
  PROVE  Spec => ImplementsLifecycle
<1>1. Init => Lifecycle!Init
  BY DEF Init, Lifecycle!Init, JobState, Active, Pending, Running
<1>2. Claims /\ Reservations /\ LifeStep => [Lifecycle!Next]_LifeOf
  <2> SUFFICES ASSUME Claims, Reservations, LifeStep PROVE [Lifecycle!Next]_LifeOf
    OBVIOUS
  <2>1. Lifecycle!Launched = Active
    BY DEF Lifecycle!Launched, JobState, Claims, TypeOK, ClaimsSound, TaskStates,
       Active, Pending, Running
  <2>2. ASSUME NEW d \in Dispatchers, d \in Cleared
        PROVE  Cardinality(Lifecycle!Launched) < Capacity
    <3>1. Cardinality({}) + 1 <= Cardinality(Cleared) /\ Cardinality({}) = 0
      BY <2>2, SizesOfTasks, DropOne, FS_EmptySet
    <3> QED
      BY <2>1, <3>1, SizesOfTasks, LimitAssumption, PageAssumption,
         BoundAssumption DEF Reservations, Capacity
  <2>3. ASSUME NEW j \in Jobs, NEW from, NEW to, Moves(j, from, to)
        PROVE  Lifecycle!Become(j, from, to)
    BY <2>3 DEF Moves, LifeOf, Lifecycle!Become
  <2>4. CASE \E j \in Jobs : Moves(j, {"absent"}, "waiting")
    BY <2>3, <2>4 DEF Lifecycle!Next, Lifecycle!Submit
  <2>5. CASE \E j \in Jobs : Moves(j, {"waiting"}, "claimed")
    BY <2>3, <2>5 DEF Lifecycle!Next, Lifecycle!Claim
  <2>6. CASE \E j \in Jobs : Moves(j, {"waiting", "claimed"}, "dropped")
    BY <2>3, <2>6 DEF Lifecycle!Next, Lifecycle!Drop
  <2>7. CASE \E j \in Jobs : Moves(j, {"launched"}, "finished")
    BY <2>3, <2>7 DEF Lifecycle!Next, Lifecycle!Finish
  <2>8. CASE \E j \in Jobs : /\ Moves(j, {"claimed"}, "launched")
                            /\ \E d \in Dispatchers : d \in Cleared
    <3>1. PICK j \in Jobs : Moves(j, {"claimed"}, "launched")
      BY <2>8
    <3>2. Lifecycle!Become(j, {"claimed"}, "launched")
      BY <2>3, <3>1
    <3>3. Lifecycle!Launch(j)
      <4>1. Cardinality(Lifecycle!Launched) < Capacity
        BY <2>2, <2>8
      <4>2. \A S : Lifecycle!Cardinality(S) = Cardinality(S)
        BY DEF Lifecycle!Cardinality, Cardinality
      <4> QED
        BY <3>2, <4>1, <4>2 DEF Lifecycle!Launch
    <3> QED
      BY <3>3 DEF Lifecycle!Next
  <2> QED
    BY <2>4, <2>5, <2>6, <2>7, <2>8 DEF LifeStep
<1>3. Init => Claims /\ Reservations
  BY InitClaims, InitReservations
<1>4. Claims /\ Reservations /\ [Next]_vars
          => (Claims /\ Reservations)' /\ [Lifecycle!Next]_LifeOf
  BY <1>2, StepClaims, StepReservations, StepLife
<1> QED
  BY <1>1, <1>3, <1>4, PTL DEF Spec, ImplementsLifecycle, Lifecycle!Spec, LifeOf

=============================================================================
