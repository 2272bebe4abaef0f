------------------------------- MODULE JobPolling -------------------------------
(***************************************************************************)
(* What GetJobResponse (src/pzsvc/http.go) makes of one answer of Piazza   *)
(* about the job of an ingest.                                             *)
(***************************************************************************)

\* A JobStatusResp: its status, and what its result is: nil, a data ID, the
\* message "Job Not Found." or another message.
Responses == [status : {"Submitted", "Running", "Pending", "Success", "Fail",
                        "Error", "another"},
              result : {"nil", "dataID", "notFound", "message"}]

\* Piazza says Success only of a file it has stored, and what comes with it is
\* the data ID or, for a while, nothing.
Answers(stored) ==
    {r \in Responses : r.status = "Success" => stored /\ r.result \in {"nil", "dataID"}}

\* The condition reads the message of an Error whether there is a result or not.
Panics(r) == r.status = "Error" /\ r.result = "nil"

InProgress(r) ==
    \/ r.status \in {"Submitted", "Running", "Pending"}
    \/ r.status = "Success" /\ r.result = "nil"
    \/ r.status = "Error" /\ r.result = "notFound"

Outcome_AnyEndIsSuccess(r) ==
    CASE Panics(r)                    -> "panic"
      [] InProgress(r)                -> "again"
      [] r.status \in {"Success", "another"} -> "id"
      [] OTHER                        -> "error"

\* Another poll, the data ID, an error, or a nil pointer that is followed.
Outcome(r) ==
    CASE Panics(r)            -> "panic"
      [] InProgress(r)        -> "again"
      [] r.status = "Success" -> "id"
      [] OTHER                -> "error"

=============================================================================
