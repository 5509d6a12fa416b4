------------------------------- MODULE MCJobs -------------------------------
(***************************************************************************)
(* Instances of Jobs for TLC: who asks for each start is fixed.            *)
(***************************************************************************)
EXTENDS Jobs

CONSTANTS p1, j1, j2, full, exec, build, serve

OnePeer == [j \in {j1, j2} |-> p1]
=============================================================================
