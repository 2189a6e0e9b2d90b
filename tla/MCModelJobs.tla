---------------------------- MODULE MCModelJobs ----------------------------
(* Instances of ModelJobs for TLC. *)
EXTENDS ModelJobs, TLC

CONSTANTS c1, c2, r1

OneChat   == {c1}
TwoChats  == {c1, c2}
OneReader == {r1}
=============================================================================
