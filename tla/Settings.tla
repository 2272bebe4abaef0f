-------------------------------- MODULE Settings --------------------------------
(***************************************************************************)
(* What a Dispatcher and its Workers are told by the configuration file    *)
(* and by the environment, and what each makes of it.                      *)
(***************************************************************************)
EXTENDS Integers

\* The fields of Config that matter here, each a Boolean for "given"; one that
\* names a variable of the environment also tells whether that has a value.
EnvVars == {"unnamed", "unset", "set"}
Configs == [PzAddr : BOOLEAN, PzAddrEnVar : EnvVars, APIKeyEnVar : EnvVars,
            SvcName : BOOLEAN, URL : BOOLEAN, RegForTaskMgr : BOOLEAN,
            MaxRunTime : BOOLEAN, LogAudit : BOOLEAN]

\* main of the dispatcher returns before the discovery without an address, a
\* name or a key.
Starts(c) ==
    /\ c.PzAddr \/ c.PzAddrEnVar = "set"
    /\ c.SvcName
    /\ c.APIKeyEnVar = "set"

\* checkConfig.
CheckConfig(c) ==
    /\ c.PzAddr \/ c.PzAddrEnVar # "unnamed"
    /\ c.APIKeyEnVar # "unnamed"
    /\ c.SvcName
    /\ c.URL \/ c.RegForTaskMgr
    /\ c.RegForTaskMgr => c.MaxRunTime

\* canReg of ParseConfigAndRegister, which also looks at the environment.
CanRegister(c) ==
    /\ CheckConfig(c)
    /\ c.PzAddrEnVar = "unset" => c.PzAddr
    /\ c.APIKeyEnVar # "unset"

WorkerStarts_ByPzAddr(c) == c.PzAddr /\ c.APIKeyEnVar = "set"

\* runCmd of the worker, whose command has neither --piazzaBaseURL nor
\* --piazzaAPIKey: both come from the environment, PzAddr is not looked at.
WorkerStarts(c) == c.PzAddrEnVar = "set" /\ c.APIKeyEnVar = "set"

-----------------------------------------------------------------------------
(* Numbers in the environment.  A text that is no number counts as 0 where   *)
(* the error of Atoi is ignored.                                             *)

Texts(numbers) == {[kind |-> k, n |-> 0] : k \in {"unset", "junk"}}
                  \cup [kind : {"number"}, n : numbers]

Atoi(t) == IF t.kind = "number" THEN t.n ELSE 0

TaskLimitOf_NoDefault(t) == Atoi(t)

\* TASK_LIMIT.
TaskLimitOf(t) == IF t.kind = "unset" THEN 3 ELSE Atoi(t)

PositiveOr_AnyNumber(default, t) == IF t.kind = "number" THEN t.n ELSE default

\* TASK_DISK_MB and TASK_MEMORY_MB: only a positive number replaces the default.
PositiveOr(default, t) == IF Atoi(t) > 0 THEN Atoi(t) ELSE default

\* HTTP_RETRIES and HTTP_TIMEOUT of a worker; the client takes a timeout that is
\* not positive for none.
RetriesOf(t) == IF t.kind = "unset" THEN 1 ELSE Atoi(t)
HasTimeout(t) == t.kind = "unset" \/ Atoi(t) > 0

=============================================================================
