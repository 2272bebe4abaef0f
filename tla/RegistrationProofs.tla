-------------------------- MODULE RegistrationProofs --------------------------
(***************************************************************************)
(* Discovery and registration for any number of dispatchers, services and  *)
(* adverse events.  DuplicatesBounded is not inductive: it says nothing of *)
(* the dispatchers that are about to register.  These are counted too, as  *)
(* applicants.                                                             *)
(***************************************************************************)
EXTENDS Registration, FiniteSetTheorems, TLAPS

\* The dispatchers that may still register without a further adverse event:
\* those that found nothing, and, while Piazza lists nothing, those that start.
Applicants == {d \in Dispatchers :
                  \/ pc[d] = "post"
                  \/ pc[d] \in {"exited", "find", "manage"} /\ listed = {}}

\* A dispatcher that found a service keeps it, and Piazza never unlists it.
Located == /\ TypeOK
           /\ \A d \in Dispatchers :
                 pc[d] \in {"found", "polling"} => svcID[d] \in listed

FewApply == Cardinality(registered) + Cardinality(Applicants)
                <= Cardinality(Dispatchers) + faults

-----------------------------------------------------------------------------
(* What is found. *)

\* In the beginning at most one service is known, and nobody polls.
LEMMA InitLocated == Init => Located
<1> SUFFICES ASSUME Init PROVE Located
  OBVIOUS
<1>1. canReg \in BOOLEAN /\ logAudit \in BOOLEAN /\ hasAppID \in BOOLEAN
  <2>1. PICK c \in Configs : canReg = CanRegister(c) /\ logAudit = c.LogAudit
    BY DEF Init
  <2>2. CanRegister(c) \in BOOLEAN
    BY Zenon DEF CanRegister
  <2>3. c.LogAudit \in BOOLEAN
    BY <2>1 DEF Configs
  <2> QED
    BY <2>1, <2>2, <2>3, Zenon DEF Init
<1>2. 0 \in 0..MaxFaults
  BY FaultsAssumption
<1>3. /\ registered \subseteq Services /\ listed \subseteq registered
      /\ pc \in [Dispatchers -> Points]
      /\ svcID \in [Dispatchers -> Services \cup {NoService}]
      /\ faults \in 0..MaxFaults
  BY <1>2 DEF Init, Points
<1>4. \A d \in Dispatchers : pc[d] = "find"
  BY DEF Init
<1> QED
  BY <1>1, <1>3, <1>4, Zenon DEF Located, TypeOK

\* Every step keeps the types and what a dispatcher has found.
LEMMA StepLocated == Located /\ [Next]_vars => Located'
<1> SUFFICES ASSUME Located, [Next]_vars PROVE Located'
  OBVIOUS
<1> USE FaultsAssumption DEF Located, TypeOK, Points, Fault, Goto, Found, settings
<1>1. ASSUME NEW s \in Services, List(s) PROVE Located'
  BY <1>1 DEF List
<1>2. ASSUME NEW d \in Dispatchers, Crash(d) PROVE Located'
  BY <1>2 DEF Crash
<1>3. ASSUME NEW d \in Dispatchers, Restart(d) PROVE Located'
  BY <1>3 DEF Restart
<1>4. ASSUME NEW d \in Dispatchers, Find(d) PROVE Located'
  BY <1>4 DEF Find
<1>5. ASSUME NEW d \in Dispatchers, FindFails(d) PROVE Located'
  BY <1>5 DEF FindFails
<1>6. ASSUME NEW d \in Dispatchers, FindAgain(d) PROVE Located'
  BY <1>6 DEF FindAgain
<1>7. ASSUME NEW d \in Dispatchers, Manage(d) PROVE Located'
  BY <1>7 DEF Manage
<1>8. ASSUME NEW d \in Dispatchers, ManageFails(d) PROVE Located'
  BY <1>8 DEF ManageFails
<1>9. ASSUME NEW d \in Dispatchers, Register(d) PROVE Located'
  BY <1>9 DEF Register
<1>10. ASSUME NEW d \in Dispatchers, Update(d) PROVE Located'
  BY <1>10 DEF Update
<1>11. ASSUME NEW d \in Dispatchers, SubmitFails(d) PROVE Located'
  BY <1>11 DEF SubmitFails
<1>12. ASSUME NEW d \in Dispatchers, StartLoop(d) PROVE Located'
  BY <1>12 DEF StartLoop
<1>13. CASE UNCHANGED vars
  BY <1>13 DEF vars
<1> QED
  BY <1>1, <1>2, <1>3, <1>4, <1>5, <1>6, <1>7, <1>8, <1>9, <1>10, <1>11, <1>12, <1>13
     DEF Next, Discover

\* Every variable keeps its type, whatever the settings
\* (main.go:30-120, pzsvc_discover.go:17-44).
THEOREM TypeCorrect == Spec => []TypeOK
<1>1. Located => TypeOK
  BY DEF Located
<1> QED
  BY <1>1, InitLocated, StepLocated, PTL DEF Spec

\* A dispatcher polls only for a service that Piazza lists
\* (pzsvc_discover.go:19-43).
THEOREM OnlyListedPolled == Spec => []PollsListed
<1>1. Located => PollsListed
  BY DEF Located, PollsListed
<1> QED
  BY <1>1, InitLocated, StepLocated, PTL DEF Spec

-----------------------------------------------------------------------------
(* How many are registered. *)

\* The sets that are counted are finite, and a set grows by at most one element
\* when it gains one.
LEMMA Sizes ==
  ASSUME NEW S, IsFiniteSet(S), NEW x, NEW T, T \subseteq S \cup {x}
  PROVE  /\ IsFiniteSet(T)
         /\ Cardinality(S) \in Nat /\ Cardinality(T) \in Nat
         /\ Cardinality(T) <= Cardinality(S) + 1
         /\ T \subseteq S => Cardinality(T) <= Cardinality(S)
         /\ T \subseteq S /\ x \in S \ T => Cardinality(T) + 1 <= Cardinality(S)
<1>1. /\ IsFiniteSet(S \cup {x})
      /\ Cardinality(S \cup {x}) \in Nat
      /\ Cardinality(S \cup {x}) <= Cardinality(S) + 1
  BY FS_AddElement, FS_CardinalityType
<1>2. /\ IsFiniteSet(T)
      /\ Cardinality(T) <= Cardinality(S \cup {x})
      /\ Cardinality(T) \in Nat
  BY <1>1, FS_Subset, FS_CardinalityType
<1>3. Cardinality(S) \in Nat
  BY FS_CardinalityType
<1>4. ASSUME T \subseteq S PROVE Cardinality(T) <= Cardinality(S)
  BY <1>4, FS_Subset
<1>5. ASSUME T \subseteq S, x \in S \ T PROVE Cardinality(T) + 1 <= Cardinality(S)
  <2>1. T \subseteq S \ {x}
    BY <1>5
  <2>2. /\ IsFiniteSet(S \ {x})
        /\ Cardinality(S \ {x}) = Cardinality(S) - 1
    BY <1>5, FS_RemoveElement
  <2>3. Cardinality(T) <= Cardinality(S \ {x})
    BY <2>1, <2>2, FS_Subset
  <2> QED
    BY <1>2, <1>3, <2>2, <2>3
<1> QED
  BY <1>1, <1>2, <1>3, <1>4, <1>5

\* In the beginning every dispatcher may apply and nothing is registered, or one
\* service is and nobody applies.
LEMMA InitFewApply == Init => FewApply
<1> SUFFICES ASSUME Init PROVE FewApply
  OBVIOUS
<1>1. faults = 0 /\ listed = registered /\ \A d \in Dispatchers : pc[d] = "find"
  BY DEF Init
<1>2. Applicants \subseteq Dispatchers
  BY DEF Applicants
<1>3. Cardinality(Applicants) <= Cardinality(Dispatchers)
  BY <1>2, DispatchersAssumption, FS_Subset
<1>4. Cardinality(Applicants) \in Nat /\ Cardinality(Dispatchers) \in Nat
  BY <1>2, DispatchersAssumption, FS_Subset, FS_CardinalityType
<1>5. CASE registered = {}
  BY <1>1, <1>3, <1>4, <1>5, FS_EmptySet DEF FewApply
<1>6. ASSUME NEW s \in Services, registered = {s} PROVE FewApply
  <2>1. Applicants = {}
    BY <1>1, <1>6 DEF Applicants
  <2>2. Cardinality(registered) = 1 /\ Cardinality(Applicants) = 0
    BY <1>6, <2>1, FS_Singleton, FS_EmptySet
  <2>3. Cardinality(Dispatchers) # 0
    BY DispatchersAssumption, FS_EmptySet
  <2> QED
    BY <1>1, <1>4, <2>2, <2>3 DEF FewApply
<1> QED
  BY <1>5, <1>6 DEF Init

\* A step that registers nothing keeps the bound if it makes no applicant, or
\* one and is an adverse event, or if nothing is registered at all.
LEMMA NothingRegistered ==
  ASSUME Located, FewApply, registered' = registered, faults' \in Nat,
         NEW d \in Dispatchers,
         \/ Applicants' \subseteq Applicants /\ faults' >= faults
         \/ Applicants' \subseteq Applicants \cup {d} /\ faults' = faults + 1
         \/ registered = {}
  PROVE  FewApply'
<1>1. Applicants \subseteq Dispatchers /\ Applicants' \subseteq Dispatchers
  BY DEF Applicants
<1>2. /\ IsFiniteSet(Applicants) /\ IsFiniteSet(Applicants')
      /\ Cardinality(Applicants') <= Cardinality(Dispatchers)
  BY <1>1, DispatchersAssumption, FS_Subset
<1>3. /\ Cardinality(Applicants) \in Nat /\ Cardinality(Applicants') \in Nat
      /\ Cardinality(Dispatchers) \in Nat
  BY <1>2, DispatchersAssumption, FS_CardinalityType
<1>4. IsFiniteSet(registered) /\ Cardinality(registered) \in Nat
  BY ServicesAssumption, FS_Subset, FS_CardinalityType DEF Located, TypeOK
<1>5. faults \in Nat
  BY FaultsAssumption DEF Located, TypeOK
<1>6. CASE Applicants' \subseteq Applicants /\ faults' >= faults
  <2>1. Cardinality(Applicants') <= Cardinality(Applicants)
    BY <1>2, <1>6, FS_Subset
  <2> QED
    BY <1>3, <1>4, <1>5, <1>6, <2>1 DEF FewApply
<1>7. CASE Applicants' \subseteq Applicants \cup {d} /\ faults' = faults + 1
  <2>1. Cardinality(Applicants') <= Cardinality(Applicants) + 1
    BY <1>2, <1>7, Sizes
  <2> QED
    BY <1>3, <1>4, <1>5, <1>7, <2>1 DEF FewApply
<1>8. CASE registered = {}
  BY <1>2, <1>3, <1>8, FS_EmptySet DEF FewApply
<1> QED
  BY <1>6, <1>7, <1>8

\* A registration is by an applicant, who then is one no more unless the
\* answer of Piazza was lost.
LEMMA OneRegistered ==
  ASSUME Located, FewApply, faults' \in Nat,
         NEW s \in Services, registered' = registered \cup {s},
         NEW d \in Dispatchers,
         \/ Applicants' \subseteq Applicants \ {d} /\ d \in Applicants /\ faults' >= faults
         \/ Applicants' \subseteq Applicants /\ faults' = faults + 1
  PROVE  FewApply'
<1>1. Applicants \subseteq Dispatchers
  BY DEF Applicants
<1>2. IsFiniteSet(Applicants)
  BY <1>1, DispatchersAssumption, FS_Subset
<1>3. Applicants' \subseteq Applicants \cup {d}
  OBVIOUS
<1>4. /\ Cardinality(Applicants) \in Nat /\ Cardinality(Applicants') \in Nat
      /\ Cardinality(Applicants') <= Cardinality(Applicants)
      /\ d \in Applicants \ Applicants' =>
            Cardinality(Applicants') + 1 <= Cardinality(Applicants)
  BY <1>2, <1>3, Sizes
<1>5. IsFiniteSet(registered)
  BY ServicesAssumption, FS_Subset DEF Located, TypeOK
<1>6. /\ Cardinality(registered) \in Nat /\ Cardinality(registered') \in Nat
      /\ Cardinality(registered') <= Cardinality(registered) + 1
  BY <1>5, Sizes
<1>7. Cardinality(Dispatchers) \in Nat /\ faults \in Nat
  BY DispatchersAssumption, FS_CardinalityType, FaultsAssumption DEF Located, TypeOK
<1> QED
  BY <1>4, <1>6, <1>7 DEF FewApply

\* Every step keeps the bound.
LEMMA StepFewApply == Located /\ FewApply /\ [Next]_vars => FewApply'
<1> SUFFICES ASSUME Located, FewApply, [Next]_vars PROVE FewApply'
  OBVIOUS
<1>0. faults \in Nat
  BY FaultsAssumption DEF Located, TypeOK
<1> USE <1>0 DEF Fault, Goto, Found
<1>1. ASSUME NEW s \in Services, List(s) PROVE FewApply'
  <2>1. Applicants' \subseteq Applicants
    BY <1>1 DEF List, Applicants, Located, TypeOK
  <2>2. registered' = registered /\ faults' = faults
    BY <1>1 DEF List
  <2> QED
    BY <2>1, <2>2, DispatchersAssumption, NothingRegistered
<1>2. ASSUME NEW d \in Dispatchers,
             Crash(d) \/ FindFails(d) \/ ManageFails(d)
      PROVE  FewApply'
  <2>1. /\ Applicants' \subseteq Applicants \cup {d}
        /\ registered' = registered /\ faults' = faults + 1
    BY <1>2 DEF Crash, FindFails, ManageFails, Applicants, Located, TypeOK
  <2> QED
    BY <2>1, NothingRegistered
<1>3. ASSUME NEW d \in Dispatchers,
             Restart(d) \/ Find(d) \/ Manage(d) \/ Update(d) \/ StartLoop(d)
      PROVE  FewApply'
  <2>1. registered' = registered /\ faults' = faults
    BY <1>3 DEF Restart, Find, Manage, Update, StartLoop
  <2>2. Applicants' \subseteq Applicants
    BY <1>3 DEF Restart, Find, Manage, Update, StartLoop, Applicants, Located, TypeOK
  <2> QED
    BY <2>1, <2>2, NothingRegistered
<1>4. ASSUME NEW d \in Dispatchers, FindAgain(d) PROVE FewApply'
  <2>1. /\ registered' = registered
        /\ faults' = faults \/ faults' = faults + 1
        /\ \/ Applicants' \subseteq Applicants
           \/ Applicants' \subseteq Applicants \cup {d} /\ faults' = faults + 1
           \/ registered = {}
    BY <1>4 DEF FindAgain, Applicants, Located, TypeOK
  <2> QED
    BY <2>1, NothingRegistered
<1>5. ASSUME NEW d \in Dispatchers, Register(d) PROVE FewApply'
  <2>1. PICK s \in Services : registered' = registered \cup {s}
    BY <1>5 DEF Register
  <2>2. /\ Applicants' \subseteq Applicants \ {d} /\ d \in Applicants
        /\ faults' = faults
    BY <1>5 DEF Register, Applicants, Located, TypeOK
  <2> QED
    BY <2>1, <2>2, OneRegistered
<1>6. ASSUME NEW d \in Dispatchers, SubmitFails(d) PROVE FewApply'
  <2>1. faults' = faults + 1
    BY <1>6 DEF SubmitFails
  <2>2. CASE registered' = registered
    <3>1. Applicants' \subseteq Applicants \cup {d}
      BY <1>6 DEF SubmitFails, Applicants, Located, TypeOK
    <3> QED
      BY <2>1, <2>2, <3>1, NothingRegistered
  <2>3. CASE pc[d] = "post" /\ \E s \in Services : registered' = registered \cup {s}
    <3>1. PICK s \in Services : registered' = registered \cup {s}
      BY <2>3
    <3>2. Applicants' \subseteq Applicants
      BY <1>6, <2>3 DEF SubmitFails, Applicants, Located, TypeOK
    <3> QED
      BY <2>1, <3>1, <3>2, OneRegistered
  <2> QED
    BY <1>6, <2>2, <2>3 DEF SubmitFails
<1>7. CASE UNCHANGED vars
  BY <1>7 DEF vars, FewApply, Applicants
<1> QED
  BY <1>1, <1>2, <1>3, <1>4, <1>5, <1>6, <1>7 DEF Next, Discover

\* The service is registered at most once for every dispatcher and every
\* adverse event (service.go:63-75, pzsvc_discover.go:19-42).
THEOREM FewDuplicates == Spec => []DuplicatesBounded
<1>1. Located /\ FewApply => DuplicatesBounded
  <2> SUFFICES ASSUME Located, FewApply PROVE DuplicatesBounded
    OBVIOUS
  <2>1. Applicants \subseteq Dispatchers /\ registered \subseteq Services
    BY DEF Applicants, Located, TypeOK
  <2>2. /\ Cardinality(Applicants) \in Nat /\ Cardinality(registered) \in Nat
        /\ Cardinality(Dispatchers) \in Nat
    BY <2>1, DispatchersAssumption, ServicesAssumption, FS_Subset, FS_CardinalityType
  <2>3. faults \in Nat
    BY FaultsAssumption DEF Located, TypeOK
  <2> QED
    BY <2>2, <2>3 DEF FewApply, DuplicatesBounded
<1>2. Init => Located /\ FewApply
  BY InitLocated, InitFewApply
<1>3. Located /\ FewApply /\ [Next]_vars => (Located /\ FewApply)'
  BY StepLocated, StepFewApply
<1> QED
  BY <1>1, <1>2, <1>3, PTL DEF Spec

=============================================================================
