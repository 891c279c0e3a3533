-------------------------- MODULE MCAdbConnection --------------------------
(***************************************************************************)
(* Values of the constants of AdbConnection that the TLC runs share.       *)
(***************************************************************************)
EXTENDS AdbConnection

AllServices == Kinds \cup {"unknown"}
AllRequests == SyncRequests \ {"stathuge"}
AllVersions == {V0, V1, 2}
Succeeds == {FALSE}
MayFail == BOOLEAN
=============================================================================
