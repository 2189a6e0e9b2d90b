---------------------------- MODULE MCStorageSync ----------------------------
(* Instances of StorageSync for TLC. *)
EXTENDS StorageSync

CONSTANTS a, b, s, u

NoUsers == {}
OneUser == {u}
=============================================================================
