------------------------------ MODULE MCTaskRequest ------------------------------
(* Small instances of TaskRequest for TLC. *)
EXTENDS TaskRequest

\* A name without and one with a colon; a file on S3 and one elsewhere.
MCNames == {<<"a">>, <<"b", "c">>}
MCS3 == {<<"https", "amazonaws">>}
MCURLs == MCS3 \cup {<<"http", "host", "port">>}
MCNumbers == {-1, 9000}

\* Registered for the task manager; any way to name the address and the key.
MCFiles == {c \in Configs : c.RegForTaskMgr /\ c.MaxRunTime /\ ~c.URL /\ ~c.LogAudit}

=============================================================================
