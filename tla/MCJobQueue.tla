----------------------------- MODULE MCJobQueue -----------------------------
(***************************************************************************)
(* Instances of JobQueue for TLC.                                          *)
(***************************************************************************)
EXTENDS JobQueue

\* The table the queue is written for, and the one the migrations leave.
MCDurable == <<DurableTable>>
MCDeployed == <<InitialTable, DurableTable>>
=============================================================================
