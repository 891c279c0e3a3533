--------------------------- MODULE StreamManager ---------------------------
(***************************************************************************)
(* The stream table of src/src/stream.rs: the open streams keyed by the    *)
(* device's local_id, and the id the next stream will get.                 *)
(*                                                                         *)
(* Of a service the table keeps its kind and, for sync:, the state of the  *)
(* session ("Sent" is Sending with FileSender.done set).  tx counts the    *)
(* WRTEs the device has sent on the stream; the code keeps no such counter *)
(* and no guard reads it except to bound the model.                        *)
(***************************************************************************)
EXTENDS Naturals

Kinds == {"sync", "shell", "reboot", "forward"}

SyncStates == {"Idle", "Sending", "Sent", "Receiving"}

NewStream(remote_id, kind) ==
  [remote_id |-> remote_id, service |-> kind, waiting_for_okay |-> FALSE,
   remote_closed |-> FALSE, sync |-> "Idle", tx |-> 0]

NoStreams == [l \in {} |-> NewStream(0, "sync")]

Insert(streams, l, s) ==
  [k \in DOMAIN streams \cup {l} |-> IF k = l THEN s ELSE streams[k]]

Close(streams, l) == [k \in DOMAIN streams \ {l} |-> streams[k]]

\* Mutant: next_id is not incremented, the next stream takes the same id.
NextIdStuck(next_id) == next_id

\* Ids increase and are never given out again.
NextId(next_id) == next_id + 1
=============================================================================
