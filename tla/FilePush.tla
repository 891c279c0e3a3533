------------------------------ MODULE FilePush ------------------------------
(***************************************************************************)
(* What the sync: service promises about pushed files, whatever the bytes  *)
(* of a push travel in: the file grows by the bytes of the push, in order; *)
(* OKAY is said of a file that is complete; FAIL leaves no file behind; a  *)
(* push whose stream goes away leaves what was written so far.             *)
(*                                                                         *)
(* jobs[c] are the files client c pushes one after the other, verdicts[c]  *)
(* the answers so far: job number Len(verdicts[c]) + 1 is the one at hand. *)
(***************************************************************************)
EXTENDS Naturals, Sequences

CONSTANTS Clients, NoFile

VARIABLES jobs, busy, verdicts, store

pushVars == <<jobs, busy, verdicts, store>>

HasJob(c) == Len(verdicts[c]) < Len(jobs[c])
Job(c) == jobs[c][Len(verdicts[c]) + 1]

Init == /\ busy = [c \in Clients |-> FALSE]
        /\ verdicts = [c \in Clients |-> << >>]

\* The file is created, or an older one emptied.
Begin(c) == /\ ~busy[c] /\ HasJob(c)
            /\ busy' = [busy EXCEPT ![c] = TRUE]
            /\ store' = [store EXCEPT ![Job(c).path] = << >>]
            /\ UNCHANGED <<jobs, verdicts>>

Write(c) == /\ busy[c]
            /\ \E n \in (Len(store[Job(c).path]) + 1)..Len(Job(c).bytes) :
                 store' = [store EXCEPT ![Job(c).path] = SubSeq(Job(c).bytes, 1, n)]
            /\ UNCHANGED <<jobs, busy, verdicts>>

Verdict(c, v) == /\ verdicts' = [verdicts EXCEPT ![c] = Append(@, v)]
                 /\ busy' = [busy EXCEPT ![c] = FALSE]
                 /\ UNCHANGED jobs

Accept(c) == /\ busy[c] /\ store[Job(c).path] = Job(c).bytes
             /\ Verdict(c, "OKAY") /\ UNCHANGED store

Reject(c) == /\ busy[c]
             /\ store' = [store EXCEPT ![Job(c).path] = NoFile]
             /\ Verdict(c, "FAIL")

\* The file could not be created.
Refuse(c) == /\ ~busy[c] /\ HasJob(c)
             /\ Verdict(c, "FAIL") /\ UNCHANGED store

\* The stream of the push is closed.
Abandon(c) == /\ busy[c] /\ busy' = [busy EXCEPT ![c] = FALSE]
              /\ UNCHANGED <<jobs, verdicts, store>>

Next == \E c \in Clients : Begin(c) \/ Write(c) \/ Accept(c) \/ Reject(c)
                             \/ Refuse(c) \/ Abandon(c)

Spec == Init /\ [][Next]_pushVars
=============================================================================
