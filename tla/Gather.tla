-------------------------------- MODULE Gather --------------------------------
(***************************************************************************)
(* What a concurrent stage of the Worker promises, with no word about      *)
(* goroutines, channels, retries or timers: the parts of the stage are     *)
(* settled in any order, once each; the caller hears of the parts that are *)
(* settled, of each of them once, counts those that failed, and returns    *)
(* only when it has heard of all.                                          *)
(***************************************************************************)
EXTENDS Naturals, FiniteSets

CONSTANT Parts   \* the inputs to fetch, or the outputs to ingest

VARIABLES
    fate,      \* what has become of each part
    heard,     \* the parts the caller has heard of
    failures,  \* how many of them it counts as failed
    returned   \* whether it has returned its answer

vars == <<fate, heard, failures, returned>>

Fates == {"open", "good", "bad"}

Init ==
    /\ fate = [p \in Parts |-> "open"]
    /\ heard = {}
    /\ failures = 0
    /\ returned \in BOOLEAN
    /\ returned => Parts = {}

\* A part that is settled stays as it is, whatever comes late.
Settle ==
    /\ fate' \in [Parts -> Fates]
    /\ \A p \in Parts : fate[p] # "open" => fate'[p] = fate[p]

Hear ==
    /\ heard \subseteq heard'
    /\ \A p \in heard' : fate'[p] # "open"
    /\ failures' = failures + Cardinality({p \in heard' \ heard : fate'[p] = "bad"})

Return ==
    /\ returned' \in BOOLEAN
    /\ returned' => heard' = Parts

Next == Settle /\ Hear /\ Return

Spec == Init /\ [][Next]_vars

=============================================================================
