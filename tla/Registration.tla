------------------------------ MODULE Registration ------------------------------
(***************************************************************************)
(* How a Dispatcher finds its service in Piazza when it starts             *)
(* (discoverSvcID, src/dispatcher, and ManageRegistration, src/pzsvc).     *)
(*                                                                         *)
(* It looks for a service of its name, registers one if there is none and  *)
(* its settings allow it, waits a second and looks again; without a        *)
(* service it exits, and CF starts it anew.  Several dispatchers start     *)
(* together, and Piazza lists a service some time after it was registered. *)
(***************************************************************************)
EXTENDS Naturals, FiniteSets, Settings

CONSTANTS
    Dispatchers,  \* the processes
    Services,     \* the ids Piazza gives to services of the one name
    NoService,    \* the empty svcID
    MaxFaults     \* bound: adverse events in one behaviour

ASSUME DispatchersAssumption == IsFiniteSet(Dispatchers) /\ Dispatchers # {}
ASSUME ServicesAssumption == IsFiniteSet(Services) /\ NoService \notin Services
ASSUME FaultsAssumption == MaxFaults \in Nat

VARIABLES
    canReg,      \* the settings allow a registration
    logAudit,    \* Session.LogAudit
    hasAppID,    \* VCAP_APPLICATION holds an application_id
    registered,  \* Piazza: the services that were registered
    listed,      \* Piazza: those that its list of services shows
    pc,          \* where each dispatcher is
    svcID,       \* the service each dispatcher has found
    faults       \* adverse events so far

vars == <<canReg, logAudit, hasAppID, registered, listed, pc, svcID, faults>>
settings == <<canReg, logAudit, hasAppID>>

Points == {"find", "manage", "post", "put", "again", "found", "polling", "exited"}

TypeOK ==
    /\ canReg \in BOOLEAN
    /\ logAudit \in BOOLEAN
    /\ hasAppID \in BOOLEAN
    /\ registered \subseteq Services
    /\ listed \subseteq registered
    /\ pc \in [Dispatchers -> Points]
    /\ svcID \in [Dispatchers -> Services \cup {NoService}]
    /\ faults \in 0..MaxFaults

\* The service may be known from an earlier deployment.
Init ==
    /\ \E c \in Configs :
        Starts(c) /\ canReg = CanRegister(c) /\ logAudit = c.LogAudit
    /\ hasAppID \in BOOLEAN
    /\ registered = {} \/ \E s \in Services : registered = {s}
    /\ listed = registered
    /\ pc = [d \in Dispatchers |-> "find"]
    /\ svcID = [d \in Dispatchers |-> NoService]
    /\ faults = 0

Fault == faults < MaxFaults /\ faults' = faults + 1
Goto(d, point) == pc' = [pc EXCEPT ![d] = point]

-----------------------------------------------------------------------------
(* Piazza and Cloud Foundry. *)

List(s) ==
    /\ s \in registered \ listed
    /\ listed' = listed \cup {s}
    /\ UNCHANGED <<settings, registered, pc, svcID, faults>>

Crash(d) ==
    /\ pc[d] # "exited"
    /\ Fault
    /\ Goto(d, "exited")
    /\ UNCHANGED <<settings, registered, listed, svcID>>

Restart(d) ==
    /\ pc[d] = "exited"
    /\ Goto(d, "find")
    /\ svcID' = [svcID EXCEPT ![d] = NoService]
    /\ UNCHANGED <<settings, registered, listed, faults>>

-----------------------------------------------------------------------------
(* discoverSvcID. *)

Found_ByName(d) ==
    /\ listed # {} /\ svcID' = [svcID EXCEPT ![d] = "name"]
    /\ Goto(d, "found")

\* FindMySvc returns the first service of the list that has the name.
Found(d) ==
    /\ \E s \in listed : svcID' = [svcID EXCEPT ![d] = s]
    /\ Goto(d, "found")

Find_SkipsRegistration(d) ==
    /\ pc[d] = "find"
    /\ \/ listed # {} /\ Found(d)
       \/ listed = {} /\ Goto(d, "again") /\ UNCHANGED svcID
    /\ UNCHANGED <<settings, registered, listed, faults>>

\* ParseConfigAndRegister follows when nothing is found; it looks at the
\* configuration before it manages the registration.
Find(d) ==
    /\ pc[d] = "find"
    /\ \/ listed # {} /\ Found(d)
       \/ /\ listed = {}
          /\ Goto(d, IF canReg THEN "manage" ELSE "again")
          /\ UNCHANGED svcID
    /\ UNCHANGED <<settings, registered, listed, faults>>

\* The request fails and main returns.
FindFails(d) ==
    /\ pc[d] \in {"find", "again"}
    /\ Fault
    /\ Goto(d, "exited")
    /\ UNCHANGED <<settings, registered, listed, svcID>>

FindAgain_Unchecked(d) ==
    /\ pc[d] = "again"
    /\ \/ Found(d)
       \/ listed = {} /\ Goto(d, "found") /\ UNCHANGED svcID
    /\ UNCHANGED <<settings, registered, listed, faults>>

FindAgain_RegistersAgain(d) ==
    /\ pc[d] = "again"
    /\ \/ Found(d)
       \/ listed = {} /\ Goto(d, IF canReg THEN "manage" ELSE "exited") /\ UNCHANGED svcID
    /\ UNCHANGED <<settings, registered, listed, faults>>

\* After a second FindMySvc is called once more.  A service that is registered
\* and still not listed by then is an adverse event.
FindAgain(d) ==
    /\ pc[d] = "again"
    /\ \/ Found(d) /\ UNCHANGED faults
       \/ /\ listed = {}
          /\ IF registered = {} THEN UNCHANGED faults ELSE Fault
          /\ Goto(d, "exited")
          /\ UNCHANGED svcID
    /\ UNCHANGED <<settings, registered, listed>>

-----------------------------------------------------------------------------
(* ManageRegistration, whose errors ParseConfigAndRegister only logs. *)

Manage(d) ==
    /\ pc[d] = "manage"
    /\ Goto(d, IF listed = {} THEN "post" ELSE "put")
    /\ UNCHANGED <<settings, registered, listed, svcID, faults>>

ManageFails(d) ==
    /\ pc[d] = "manage"
    /\ Fault
    /\ Goto(d, "again")
    /\ UNCHANGED <<settings, registered, listed, svcID>>

Register(d) ==
    /\ pc[d] = "post"
    /\ \E s \in Services \ registered : registered' = registered \cup {s}
    /\ Goto(d, "again")
    /\ UNCHANGED <<settings, listed, svcID, faults>>

\* Piazza replaces what it knows of the service it found.
Update(d) ==
    /\ pc[d] = "put"
    /\ Goto(d, "again")
    /\ UNCHANGED <<settings, registered, listed, svcID, faults>>

\* The request fails before or after Piazza acted on it.  With no response at
\* all there is none to audit, and LogAuditResponse panics.
SubmitFails(d) ==
    /\ pc[d] \in {"post", "put"}
    /\ Fault
    /\ \/ UNCHANGED registered
       \/ /\ pc[d] = "post"
          /\ \E s \in Services \ registered : registered' = registered \cup {s}
    /\ \/ Goto(d, "again")
       \/ logAudit /\ Goto(d, "exited")
    /\ UNCHANGED <<settings, listed, svcID>>

-----------------------------------------------------------------------------
(* The rest of main. *)

\* NewLoop needs the ID of the application; Start then polls for ever.
StartLoop(d) ==
    /\ pc[d] = "found"
    /\ Goto(d, IF hasAppID THEN "polling" ELSE "exited")
    /\ UNCHANGED <<settings, registered, listed, svcID, faults>>

Discover(d) ==
    \/ Find(d) \/ FindFails(d) \/ FindAgain(d)
    \/ Manage(d) \/ ManageFails(d)
    \/ Register(d) \/ Update(d) \/ SubmitFails(d)
    \/ StartLoop(d)

Next ==
    \/ \E s \in Services : List(s)
    \/ \E d \in Dispatchers : Discover(d) \/ Crash(d) \/ Restart(d)

Spec == Init /\ [][Next]_vars

\* Requests end, CF restarts what exits, and Piazza lists what it registered.
FairSpec ==
    /\ Spec
    /\ \A d \in Dispatchers : WF_vars(Discover(d)) /\ WF_vars(Restart(d))
    /\ \A s \in Services : WF_vars(List(s))

-----------------------------------------------------------------------------

\* A dispatcher polls only for a service that Piazza knows and shows
\* (pzsvc_discover.go:19-43), whatever happened to its own registration.
PollsListed ==
    \A d \in Dispatchers : pc[d] = "polling" => svcID[d] \in listed

\* A start of a dispatcher registers at most one service, and one that failed
\* to find a service must have met an adverse event to be started again and
\* register another: the service has at most one duplicate per further
\* dispatcher and adverse event (service.go:63-75, pzsvc_discover.go:19-42).
DuplicatesBounded ==
    Cardinality(registered) <= Cardinality(Dispatchers) + faults

\* All dispatchers poll in the end and go on polling, however their first starts
\* went, if the application is named and the service is known or the settings
\* allow to register it.  Without that none ever polls: without a name each exits
\* after the discovery, without a service at its end, and CF starts it again for
\* ever (main.go:91-119, config.go:60-100).
AllPoll ==
    /\ hasAppID /\ (canReg \/ listed # {})
         => <>[](\A d \in Dispatchers : pc[d] = "polling")
    /\ ~(hasAppID /\ (canReg \/ listed # {}))
         => [](\A d \in Dispatchers : pc[d] # "polling")

=============================================================================
