--------------------------- MODULE MCDetectionJobs ---------------------------
(***************************************************************************)
(* Instances of DetectionJobs: up to two events, whose alerts share a      *)
(* semantic key and differ in severity, and up to two workers.             *)
(***************************************************************************)
EXTENDS DetectionJobs, TLC

CONSTANTS e1, e2, a1, a2, p1, p2, w1, w2

MCEventOf == [a \in Alerts |-> IF a = a1 THEN e1 ELSE e2]
MCKeyOf == [a \in Alerts |-> "key"]
MCPriorityOf == [a \in Alerts |-> IF a = a1 THEN 2 ELSE 4]
MCRank == [e \in Events |-> IF e = e1 THEN 1 ELSE 2]
=============================================================================
