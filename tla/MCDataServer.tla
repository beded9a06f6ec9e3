---------------------------- MODULE MCDataServer ----------------------------
(***************************************************************************)
(* Instances of DataServer for TLC.                                        *)
(***************************************************************************)
EXTENDS DataServer

\* The requests of a client that uses the data interface and closes nothing.
DataOps == AllOps \ {"OPEN", "CLOSE"}
\* The requests that matter to the environment.
EnvOps == {"CONNECT", "START_BACKUP", "STOP", "GET_ENV"}
\* The requests of an operation, from CONNECT to STOP.
OperationOps == {"CONNECT", "START_BACKUP", "START_RECOVER", "ABORT", "STOP", "GET_ENV"}
=============================================================================
