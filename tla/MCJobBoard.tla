------------------------------ MODULE MCJobBoard ------------------------------
(* Small instances of JobBoard for TLC.  Only listings of open jobs are asked *)
(* for, and a job may be closed.                                              *)
EXTENDS JobBoard

ListedStatuses == {"OPEN"}
PostedBefore == <<Posted(1), Posted(2)>>
UpdatedStatuses == {"CLOSE"}
=============================================================================
