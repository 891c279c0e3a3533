------------------------ MODULE AdbConnectionProofs ------------------------
(***************************************************************************)
(* Proofs about AdbConnection, for every number of streams, slots and      *)
(* queue entries, in three parts:                                          *)
(*                                                                         *)
(*   the ring: who owns a write slot, which operations are armed, and that *)
(*   the submission queue cannot overflow;                                 *)
(*                                                                         *)
(*   sessions: what device and host know of each other's streams, and that *)
(*   the assertions of handle_command hold;                                *)
(*                                                                         *)
(*   flow: the reads of a PTY or socket and the OKAYs they wait for.       *)
(***************************************************************************)
EXTENDS AdbConnection, FiniteSetTheorems, SequenceTheorems, WellFoundedInduction,
        TLAPS

-----------------------------------------------------------------------------
(* The pool.                                                               *)

\* A nonempty set of naturals has a least element.
LEMMA LeastElement ==
  ASSUME NEW T, T \subseteq Nat, T # {}
  PROVE  \E s \in T : \A t \in T : s <= t
<1> DEFINE Less == {ss \in Nat \X Nat : ss[1] < ss[2]}
<1>1. IsWellFoundedOn(Less, Nat)
  BY NatLessThanWellFounded DEF OpToRel
<1>2. \E x \in T : \A y \in T : ~ (<<y, x>> \in Less)
  <2> HIDE DEF Less
  <2> QED BY <1>1, WFMin
<1>3. \A x, y \in Nat : y < x => <<y, x>> \in Less
  OBVIOUS
<1> HIDE DEF Less
<1>4. PICK x \in T : \A y \in T : ~ (<<y, x>> \in Less)
  BY <1>2
<1>5. \A y \in T : x \in Nat /\ y \in Nat /\ ~ (y < x)
  BY <1>3, <1>4
<1>6. \A y \in T : x <= y
  BY <1>5
<1> QED
  BY <1>6

\* alloc finds a slot that is in the pool and not in use.
LEMMA FirstFreeIsFree ==
  ASSUME NEW b, HasFree(b)
  PROVE  FirstFree(b) \in Slots \ Used(b)
<1>1. Slots \ Used(b) # {} /\ Slots \ Used(b) \subseteq Nat
  BY MaxSlotsAssumption DEF HasFree, Slots
<1>2. \E s \in Slots \ Used(b) : \A t \in Slots \ Used(b) : s <= t
  BY <1>1, LeastElement
<1> QED
  BY <1>2 DEF FirstFree

-----------------------------------------------------------------------------
(* How many entries the submission queue can have.                         *)

NonWrites(S) == {o \in S : o.op # "BulkInWrite"}

\* Besides writes: at most the poll of ep0, one bulk-out and one stream read.
Few(N) == \E b, r \in N \cup {Ep0Poll} : N \subseteq {Ep0Poll, b, r}

\* Few is at most three.
LEMMA FewCardinality ==
  ASSUME NEW N, Few(N)
  PROVE  IsFiniteSet(N) /\ Cardinality(N) <= 3
<1>1. PICK b \in N \cup {Ep0Poll}, r \in N \cup {Ep0Poll} : N \subseteq {Ep0Poll, b, r}
  BY DEF Few
<1> DEFINE A == {Ep0Poll} \cup {b}
           B == A \cup {r}
<1>2. IsFiniteSet({Ep0Poll}) /\ Cardinality({Ep0Poll}) = 1
  BY FS_Singleton
<1>3. IsFiniteSet(A) /\ Cardinality(A) \in Nat /\ Cardinality(A) <= 2
  <2>1. /\ IsFiniteSet(A)
        /\ Cardinality(A) = IF b \in {Ep0Poll} THEN Cardinality({Ep0Poll})
                            ELSE Cardinality({Ep0Poll}) + 1
    BY <1>2, FS_AddElement
  <2> HIDE DEF A
  <2> QED BY <1>2, <2>1
<1>4. IsFiniteSet(B) /\ Cardinality(B) \in Nat /\ Cardinality(B) <= 3
  <2> HIDE DEF A
  <2>1. /\ IsFiniteSet(B)
        /\ Cardinality(B) = IF r \in A THEN Cardinality(A) ELSE Cardinality(A) + 1
    BY <1>3, FS_AddElement
  <2> HIDE DEF B
  <2> QED BY <1>3, <2>1
<1>5. N \in SUBSET B
  BY <1>1
<1> HIDE DEF B
<1> QED
  BY <1>4, <1>5, FS_Subset, FS_CardinalityType

\* The writes of a set of operations have a slot each.
LEMMA WritesCardinality ==
  ASSUME NEW S, S \subseteq Ops, OneWritePerSlot(S)
  PROVE  IsFiniteSet(Writes(S)) /\ Cardinality(Writes(S)) <= MaxSlots
<1> DEFINE f == [o \in Writes(S) |-> o.data]
<1>1. f \in Injection(Writes(S), Slots)
  <2>1. \A o \in Writes(S) : o.data \in Slots
    BY DEF Writes, Ops
  <2>2. f \in [Writes(S) -> Slots]
    BY <2>1
  <2>3. \A o, p \in Writes(S) : f[o] = f[p] => o = p
    BY DEF OneWritePerSlot
  <2> HIDE DEF f
  <2> QED BY <2>2, <2>3 DEF Injection, IsInjective
<1>2. IsFiniteSet(Slots) /\ Cardinality(Slots) = MaxSlots
  BY MaxSlotsAssumption, FS_Interval DEF Slots
<1> HIDE DEF f
<1> QED
  BY <1>1, <1>2, FS_Injection

\* A queue with one write per slot and few other entries fits.
LEMMA SqRoom ==
  ASSUME NEW S, S \subseteq Ops, OneWritePerSlot(S), Few(NonWrites(S))
  PROVE  IsFiniteSet(S) /\ Cardinality(S) \in Nat /\ Cardinality(S) <= MaxSlots + 3
<1>1. S = Writes(S) \cup NonWrites(S)
  BY DEF Writes, NonWrites
<1>2. /\ IsFiniteSet(Writes(S)) /\ Cardinality(Writes(S)) \in Nat
      /\ Cardinality(Writes(S)) <= MaxSlots
  BY WritesCardinality, FS_CardinalityType
<1>3. /\ IsFiniteSet(NonWrites(S)) /\ Cardinality(NonWrites(S)) \in Nat
      /\ Cardinality(NonWrites(S)) <= 3
  BY FewCardinality, FS_CardinalityType
<1>4. Writes(S) \cap NonWrites(S) = {}
  BY DEF Writes, NonWrites
<1>5. Cardinality(Writes(S) \cup NonWrites(S)) =
        Cardinality(Writes(S)) + Cardinality(NonWrites(S)) - Cardinality({})
  BY <1>2, <1>3, <1>4, FS_Union
<1>6. IsFiniteSet(Writes(S) \cup NonWrites(S))
  BY <1>2, <1>3, FS_Union
<1> QED
  BY <1>1, <1>2, <1>3, <1>5, <1>6, FS_EmptySet, MaxSlotsAssumption

-----------------------------------------------------------------------------
(* What pushing does to the buffers and the queue (io), when W is the set  *)
(* of slots whose writes are elsewhere: in the kernel or completed.        *)

Daemons == {"running", "stopped", "failed"} \cup Panics

IoType == [buffers : [Slots -> DevMsgs], sq : SUBSET Ops, order : Seq(Slots),
           daemon : Daemons]

IoOwns(io, W) ==
  /\ io \in IoType
  /\ OneWritePerSlot(io.sq)
  /\ \A o \in Writes(io.sq) : o.data \notin W
  /\ Used(io.buffers) = W \cup {o.data : o \in Writes(io.sq)}

\* A push finds room, so it only adds its entry.
LEMMA PushHasRoom ==
  ASSUME NEW io \in IoType, NEW o \in Ops, o \notin io.sq,
         OneWritePerSlot(io.sq \cup {o}), Few(NonWrites(io.sq \cup {o}))
  PROVE  Push(io, o) = [io EXCEPT !.sq = io.sq \cup {o}]
<1>1. io.sq \cup {o} \subseteq Ops
  BY DEF IoType
<1>2. /\ IsFiniteSet(io.sq \cup {o}) /\ Cardinality(io.sq \cup {o}) \in Nat
      /\ Cardinality(io.sq \cup {o}) <= MaxSlots + 3
  BY <1>1, SqRoom
<1>3. IsFiniteSet(io.sq)
  BY <1>2, FS_Subset
<1>4. Cardinality(io.sq) \in Nat /\ Cardinality(io.sq \cup {o}) = Cardinality(io.sq) + 1
  BY <1>3, FS_AddElement, FS_CardinalityType
<1>5. ~ (Cardinality(io.sq) >= SqSize)
  BY <1>2, <1>4, MaxSlotsAssumption, ConnectionAssumption
<1> QED
  BY <1>5 DEF Push

\* Allocating a slot and pushing its write: the write owns a slot nobody
\* else has.
LEMMA SubmitPartOwns ==
  ASSUME NEW io, NEW W, IoOwns(io, W), Few(NonWrites(io.sq)),
         NEW m \in DevMsgs, m.cmd # "none", NEW after \in {0} \cup Slots
  PROVE  LET j == SubmitPart(io, m, after)
         IN /\ IoOwns(j, W)
            /\ NonWrites(j.sq) = NonWrites(io.sq)
            /\ j.daemon \in {io.daemon, "all write slots in use"}
<1> DEFINE s == FirstFree(io.buffers)
           o == Op("BulkInWrite", s, after)
           io1 == [io EXCEPT !.buffers = Alloc(@, s, m),
                             !.order = IF after = 0 THEN Append(@, s) ELSE @]
<1>0. io \in IoType /\ OneWritePerSlot(io.sq)
  BY DEF IoOwns
<1>1. CASE ~HasFree(io.buffers)
  <2>1. SubmitPart(io, m, after) = Panic(io, "all write slots in use")
    BY <1>1 DEF SubmitPart
  <2>2. Panic(io, "all write slots in use")
          \in {io, [io EXCEPT !.daemon = "all write slots in use"]}
    BY DEF Panic
  <2>3. "all write slots in use" \in Daemons
    BY DEF Daemons, Panics
  <2> DEFINE j == SubmitPart(io, m, after)
  <2>4. /\ j \in IoType
        /\ j.sq = io.sq /\ j.buffers = io.buffers
        /\ j.daemon \in {io.daemon, "all write slots in use"}
    <3>1. CASE j = io
      BY <3>1, <1>0
    <3>2. CASE j = [io EXCEPT !.daemon = "all write slots in use"]
      <4> HIDE DEF j
      <4> QED BY <3>2, <2>3, <1>0 DEF IoType
    <3> QED BY <2>1, <2>2, <3>1, <3>2
  <2> HIDE DEF j
  <2>5. IoOwns(j, W) /\ NonWrites(j.sq) = NonWrites(io.sq)
    BY <2>4 DEF IoOwns
  <2> QED
    BY <2>4, <2>5 DEF j
<1>2. CASE HasFree(io.buffers)
  <2>1. s \in Slots /\ s \notin Used(io.buffers)
    BY <1>2, FirstFreeIsFree
  <2>2. o \in Ops /\ o.op = "BulkInWrite" /\ o.data = s
    BY <2>1 DEF Op, Ops
  <2> HIDE DEF s
  <2>3. /\ io1 \in IoType /\ io1.sq = io.sq /\ io1.daemon = io.daemon
        /\ io1.buffers = [io.buffers EXCEPT ![s] = m]
    <3> DEFINE q == IF after = 0 THEN Append(io.order, s) ELSE io.order
    <3>1. q \in Seq(Slots)
      BY <1>0, <2>1 DEF IoType
    <3>2. [io.buffers EXCEPT ![s] = m] \in [Slots -> DevMsgs]
      BY <1>0, <2>1 DEF IoType
    <3>3. io1 = [io EXCEPT !.buffers = [io.buffers EXCEPT ![s] = m], !.order = q]
      BY DEF Alloc
    <3> HIDE DEF q, io1
    <3> QED BY <1>0, <3>1, <3>2, <3>3 DEF IoType
  <2>4. \A p \in Writes(io.sq) : p.data # s
    BY <2>1 DEF IoOwns
  <2>5. o \notin io.sq
    BY <2>2, <2>4 DEF Writes
  <2>6. OneWritePerSlot(io.sq \cup {o})
    BY <1>0, <2>2, <2>4 DEF OneWritePerSlot, Writes
  <2>7. NonWrites(io.sq \cup {o}) = NonWrites(io.sq)
    BY <2>2 DEF NonWrites
  <2>8. Push(io1, o) = [io1 EXCEPT !.sq = io1.sq \cup {o}]
    <3> HIDE DEF io1, o
    <3> QED BY <2>2, <2>3, <2>5, <2>6, <2>7, PushHasRoom
  <2>9. SubmitPart(io, m, after) = [io1 EXCEPT !.sq = io1.sq \cup {o}]
    BY <1>2, <2>8 DEF SubmitPart, s
  <2> DEFINE j == [io1 EXCEPT !.sq = io1.sq \cup {o}]
  <2>10. /\ j \in IoType /\ j.sq = io.sq \cup {o} /\ j.daemon = io.daemon
         /\ j.buffers = [io.buffers EXCEPT ![s] = m]
    <3> HIDE DEF io1, o
    <3> QED BY <1>0, <2>2, <2>3 DEF IoType
  <2> HIDE DEF j, io1, o
  <2>11. Used(j.buffers) = Used(io.buffers) \cup {s}
    BY <1>0, <2>1, <2>10 DEF Used, IoType
  <2>12. Writes(j.sq) = Writes(io.sq) \cup {o}
    BY <2>2, <2>10 DEF Writes
  <2>13. {p.data : p \in Writes(j.sq)} = {p.data : p \in Writes(io.sq)} \cup {s}
    BY <2>2, <2>12
  <2>14. s \notin W
    BY <2>1 DEF IoOwns
  <2>15. IoOwns(j, W)
    BY <2>2, <2>6, <2>10, <2>11, <2>12, <2>13, <2>14 DEF IoOwns
  <2> QED
    BY <2>7, <2>9, <2>10, <2>15 DEF j
<1> QED
  BY <1>1, <1>2

\* submit_message: both transfers of the message own their slots.
LEMMA SubmitMessageOwns ==
  ASSUME NEW io, NEW W, IoOwns(io, W), Few(NonWrites(io.sq)),
         NEW m \in DevMsgs, m.cmd # "none"
  PROVE  LET j == SubmitMessage(io, m)
         IN /\ IoOwns(j, W)
            /\ NonWrites(j.sq) = NonWrites(io.sq)
            /\ j.daemon \in {io.daemon, "all write slots in use"}
<1> DEFINE h == SubmitPart(io, m, 0)
<1>1. /\ IoOwns(h, W)
      /\ NonWrites(h.sq) = NonWrites(io.sq)
      /\ h.daemon \in {io.daemon, "all write slots in use"}
  BY SubmitPartOwns
<1> HIDE DEF h
<1>2. CASE m.payload = 0 \/ ~HasFree(io.buffers)
  BY <1>1, <1>2 DEF SubmitMessage, h
<1>3. CASE ~(m.payload = 0 \/ ~HasFree(io.buffers))
  <2>1. FirstFree(io.buffers) \in {0} \cup Slots
    BY <1>3, FirstFreeIsFree
  <2> DEFINE a == FirstFree(io.buffers)
             j == SubmitPart(h, m, a)
  <2> HIDE DEF a
  <2>2. /\ IoOwns(j, W)
        /\ NonWrites(j.sq) = NonWrites(h.sq)
        /\ j.daemon \in {h.daemon, "all write slots in use"}
    BY <1>1, <2>1, SubmitPartOwns DEF a
  <2> HIDE DEF j
  <2>3. SubmitMessage(io, m) = j
    BY <1>3 DEF SubmitMessage, h, j, a
  <2> QED
    BY <1>1, <2>2, <2>3
<1> QED
  BY <1>2, <1>3

\* Pushing the poll, or a read, when it is one of the few.
LEMMA PushOwns ==
  ASSUME NEW io, NEW W, IoOwns(io, W), NEW o \in Ops, o.op # "BulkInWrite",
         o \notin io.sq, Few(NonWrites(io.sq) \cup {o})
  PROVE  LET j == Push(io, o)
         IN /\ IoOwns(j, W)
            /\ NonWrites(j.sq) = NonWrites(io.sq) \cup {o}
            /\ j.daemon = io.daemon
<1>1. io \in IoType /\ OneWritePerSlot(io.sq)
  BY DEF IoOwns
<1>2. Writes(io.sq \cup {o}) = Writes(io.sq)
  BY DEF Writes
<1>3. NonWrites(io.sq \cup {o}) = NonWrites(io.sq) \cup {o}
  BY DEF NonWrites
<1>4. OneWritePerSlot(io.sq \cup {o})
  BY <1>1, <1>2 DEF OneWritePerSlot
<1>5. Push(io, o) = [io EXCEPT !.sq = io.sq \cup {o}]
  BY <1>1, <1>3, <1>4, PushHasRoom
<1> DEFINE j == [io EXCEPT !.sq = io.sq \cup {o}]
<1>6. /\ j \in IoType /\ j.sq = io.sq \cup {o} /\ j.daemon = io.daemon
      /\ j.buffers = io.buffers
  BY <1>1 DEF IoType
<1> HIDE DEF j
<1>7. IoOwns(j, W)
  BY <1>2, <1>4, <1>6 DEF IoOwns
<1> QED
  BY <1>3, <1>5, <1>6, <1>7 DEF j

\* A panic changes the daemon's status and nothing else.
LEMMA PanicOwns ==
  ASSUME NEW io, NEW W, IoOwns(io, W), NEW why \in Panics
  PROVE  LET j == Panic(io, why)
         IN IoOwns(j, W) /\ j.sq = io.sq /\ j.daemon \in {io.daemon, why}
<1>1. io \in IoType /\ why \in Daemons
  BY DEF IoOwns, Daemons
<1>2. /\ [io EXCEPT !.daemon = why] \in IoType
      /\ [io EXCEPT !.daemon = why].sq = io.sq
      /\ [io EXCEPT !.daemon = why].buffers = io.buffers
      /\ [io EXCEPT !.daemon = why].daemon = why
  BY <1>1 DEF IoType
<1> QED
  BY <1>2 DEF Panic, IoOwns

-----------------------------------------------------------------------------
(* The inductive invariant.  The queue's shape bounds what is in it besides *)
(* writes; a completion of ep0 or bulk-out has something to deliver.        *)

Elsewhere == {o.data : o \in Writes(kern) \cup Writes(cq) \cup Writes(batch)}

SqShape == \/ NonWrites(sq) \subseteq {Ep0Poll}
           \/ BulkOuts(sq) # {} /\ Few(NonWrites(sq))

Fed == /\ Polls(cq) \cup Polls(batch) # {} => ep0 # << >>
       /\ \A c \in BulkOuts(cq) \cup BulkOuts(batch) :
            c.res = "ok" => bulk_out_buf # << >>

Inv == /\ TypeOK
       /\ WritesOwnTheirSlot
       /\ LoopArmed
       /\ SqNeverFull
       /\ daemon = "running" => SqShape /\ Fed

-----------------------------------------------------------------------------
(* The handlers of bulk-out completions.  P is the poll of ep0 if it is in  *)
(* the queue when the handler starts.                                       *)

\* What a handler may have pushed before it reads on.
Ready(io, W, P) ==
  /\ IoOwns(io, W) /\ io.daemon # "SQ full"
  /\ P \subseteq {Ep0Poll}
  /\ \/ NonWrites(io.sq) = P
     \/ \E r \in Ops : /\ r.op \in {"PtyRead", "SocketRead"}
                      /\ NonWrites(io.sq) = P \cup {r}

\* What it has pushed when it is done: o is the bulk-out read.
Armed(io, W, P, o) ==
  /\ IoOwns(io, W) /\ io.daemon # "SQ full"
  /\ Few(NonWrites(io.sq))
  /\ Polls(io.sq) = P /\ BulkOuts(io.sq) = {o}

\* The poll of ep0 is an operation.
LEMMA PollIsPoll == Ep0Poll.op = "Ep0Poll" /\ Ep0Poll \in Ops
BY DEF Ep0Poll, Op, Ops, OpTypes

\* A handler may push the next bulk-out read and still has few other entries.
LEMMA ReadyIsFew ==
  ASSUME NEW io, NEW W, NEW P, Ready(io, W, P)
  PROVE  Few(NonWrites(io.sq)) /\ Few(NonWrites(io.sq) \cup {ReadHeader})
           /\ Few(NonWrites(io.sq) \cup {ReadPayload})
<1>1. PICK r : NonWrites(io.sq) \subseteq {Ep0Poll, r} /\ r \in NonWrites(io.sq) \cup {Ep0Poll}
  BY DEF Ready
<1> QED
  BY <1>1 DEF Few

\* submit_message leaves an io that is ready.
LEMMA SubmitMessageReady ==
  ASSUME NEW io, NEW W, NEW P, Ready(io, W, P), NEW m \in DevMsgs, m.cmd # "none"
  PROVE  Ready(SubmitMessage(io, m), W, P)
<1>1. Few(NonWrites(io.sq)) /\ IoOwns(io, W)
  BY ReadyIsFew DEF Ready
<1> DEFINE j == SubmitMessage(io, m)
<1>2. /\ IoOwns(j, W)
      /\ NonWrites(j.sq) = NonWrites(io.sq)
      /\ j.daemon \in {io.daemon, "all write slots in use"}
  BY <1>1, SubmitMessageOwns
<1> HIDE DEF j
<1>3. Ready(j, W, P)
  BY <1>2 DEF Ready
<1> QED
  BY <1>3 DEF j

\* A panic leaves an io that is ready.
LEMMA PanicReady ==
  ASSUME NEW io, NEW W, NEW P, Ready(io, W, P), NEW why \in Panics \ {"SQ full"}
  PROVE  Ready(Panic(io, why), W, P)
<1> DEFINE j == Panic(io, why)
<1>1. IoOwns(j, W) /\ j.sq = io.sq /\ j.daemon \in {io.daemon, why}
  BY PanicOwns DEF Ready
<1> HIDE DEF j
<1>2. Ready(j, W, P)
  BY <1>1 DEF Ready
<1> QED
  BY <1>2 DEF j

\* maybe_submit_pty_read and maybe_submit_socket_read, once per handler.
LEMMA SubmitReadReady ==
  ASSUME NEW io, NEW W, NEW P, Ready(io, W, P), NonWrites(io.sq) = P,
         NEW l \in Nat, NEW s
  PROVE  Ready(MaybeSubmitRead(io, l, s), W, P)
<1> DEFINE r == StreamRead(s.service, l)
           j == Push(io, r)
<1>1. r \in Ops /\ r.op \in {"PtyRead", "SocketRead"}
  BY DEF StreamRead, Op, Ops, OpTypes
<1> HIDE DEF r
<1>2. r \notin io.sq /\ r.op # "BulkInWrite"
  BY <1>1, PollIsPoll DEF Ready, NonWrites
<1>3. Few(NonWrites(io.sq) \cup {r})
  BY DEF Ready, Few
<1>4. /\ IoOwns(j, W)
      /\ NonWrites(j.sq) = NonWrites(io.sq) \cup {r}
      /\ j.daemon = io.daemon
  BY <1>1, <1>2, <1>3, PushOwns DEF Ready
<1> HIDE DEF j
<1>5. Ready(j, W, P)
  BY <1>1, <1>4 DEF Ready
<1> QED
  BY <1>5 DEF MaybeSubmitRead, j, r

\* Reading on from a state that is ready arms exactly one bulk-out read.
LEMMA PushArms ==
  ASSUME NEW io, NEW W, NEW P, Ready(io, W, P), NEW o \in {ReadHeader, ReadPayload}
  PROVE  Armed(Push(io, o), W, P, o)
<1>1. o \in Ops /\ o.op \in {"BulkOutReadHeader", "BulkOutReadPayload"}
  BY DEF ReadHeader, ReadPayload, Op, Ops, OpTypes
<1>2. o \notin io.sq /\ o.op # "BulkInWrite"
  BY <1>1, PollIsPoll DEF Ready, NonWrites
<1>3. Few(NonWrites(io.sq) \cup {o})
  BY ReadyIsFew
<1> DEFINE j == Push(io, o)
<1>4. /\ IoOwns(j, W)
      /\ NonWrites(j.sq) = NonWrites(io.sq) \cup {o}
      /\ j.daemon = io.daemon
  BY <1>1, <1>2, <1>3, PushOwns DEF Ready
<1> HIDE DEF j
<1>5. \A x \in P : x.op = "Ep0Poll"
  BY PollIsPoll DEF Ready
<1>6. Polls(j.sq) = P
  <2>1. Polls(j.sq) = Polls(NonWrites(j.sq))
    BY DEF Polls, NonWrites
  <2>2. Polls(NonWrites(j.sq)) = P
    BY <1>1, <1>4, <1>5 DEF Ready, Polls
  <2> QED BY <2>1, <2>2
<1>7. BulkOuts(j.sq) = {o}
  <2>1. BulkOuts(j.sq) = BulkOuts(NonWrites(j.sq))
    BY DEF BulkOuts, NonWrites
  <2>2. BulkOuts(NonWrites(j.sq)) = {o}
    BY <1>1, <1>4, <1>5 DEF Ready, BulkOuts
  <2> QED BY <2>1, <2>2
<1>8. Armed(j, W, P, o)
  BY <1>3, <1>4, <1>6, <1>7 DEF Armed, Ready
<1> QED
  BY <1>8 DEF j

-----------------------------------------------------------------------------
(* Each command keeps the stream table well-formed and ends armed.          *)

StreamsOK == /\ next_id \in Nat \ {0}
             /\ DOMAIN streams \subseteq 1..(next_id - 1)
             /\ streams \in [DOMAIN streams -> StreamRecords]
             /\ version \in {V0, V1}

\* Closing a stream keeps the table typed.
LEMMA CloseTyped ==
  ASSUME StreamsOK, NEW l, next_id' = next_id, version' = version,
         streams' = Close(streams, l)
  PROVE  StreamsOK'
BY DEF StreamsOK, Close

\* Updating a stream keeps the table typed.
LEMMA UpdateTyped ==
  ASSUME StreamsOK, NEW l, NEW s \in StreamRecords, next_id' = next_id, version' = version,
         streams' = [streams EXCEPT ![l] = s]
  PROVE  StreamsOK'
BY DEF StreamsOK

\* A table that stays is typed.
LEMMA SameTyped ==
  ASSUME StreamsOK, UNCHANGED <<streams, next_id, version>>
  PROVE  StreamsOK'
BY DEF StreamsOK

\* The answers a handler sends are messages of the device.
LEMMA MessagesTyped ==
  ASSUME NEW l \in Nat, NEW r \in Nat
  PROVE  /\ Okay(l, r) \in DevMsgs /\ Okay(l, r).cmd # "none"
         /\ Clse(l, r) \in DevMsgs /\ Clse(l, r).cmd # "none"
         /\ \A n \in Nat, fin \in BOOLEAN :
              /\ DevMsg("WRTE", l, r, n, fin) \in DevMsgs
              /\ DevMsg("WRTE", l, r, n, fin).cmd # "none"
BY DEF Okay, Clse, DevMsg, DevMsgs

\* The next frame of a pull leaves a stream that is typed.
LEMMA ContinueSyncTyped ==
  ASSUME NEW s \in StreamRecords, NEW more
  PROVE  ContinueSync(s, more) \in StreamRecords
<1>0. s.tx + 1 \in Nat
  BY DEF StreamRecords
<1>1. ASSUME NEW x \in {"Sending", "Sent"}
      PROVE  [s EXCEPT !.waiting_for_okay = TRUE, !.tx = @ + 1, !.sync = x] \in StreamRecords
  <2>1. x \in SyncStates
    BY DEF SyncStates
  <2> QED BY <1>0, <2>1 DEF StreamRecords
<1>2. [s EXCEPT !.sync = "Idle"] \in StreamRecords
  BY DEF StreamRecords, SyncStates
<1> DEFINE x == IF more THEN "Sending" ELSE "Sent"
<1>3. ContinueSync(s, more) \in
        {s, [s EXCEPT !.sync = "Idle"],
         [s EXCEPT !.waiting_for_okay = TRUE, !.tx = @ + 1, !.sync = x]}
  BY DEF ContinueSync
<1>4. x \in {"Sending", "Sent"}
  OBVIOUS
<1> HIDE DEF x
<1> QED
  BY <1>1, <1>2, <1>3, <1>4

\* What is true when a command has been handled.
Handled(W, P) == /\ StreamsOK'
                 /\ \E j : Armed(j, W, P, ReadHeader) /\ Commit(j)

\* A handler that ends with the read of the next header is done.
LEMMA FinishHandles ==
  ASSUME NEW io, NEW W, NEW P, Ready(io, W, P), Finish(io), StreamsOK'
  PROVE  Handled(W, P)
BY PushArms DEF Finish, Handled

\* handle_cnxn keeps what the loop needs.
LEMMA CnxnHandled ==
  ASSUME NEW io, NEW W, NEW P, Ready(io, W, P), StreamsOK,
         NEW m \in HostMsgs, HandleCnxn(io, m)
  PROVE  Handled(W, P)
<1> DEFINE c == DevMsg("CNXN", 0, 0, 1, FALSE)
<1>1. c \in DevMsgs /\ c.cmd # "none"
  BY DEF DevMsg, DevMsgs
<1> HIDE DEF c
<1>2. Ready(SubmitMessage(io, c), W, P)
  BY <1>1, SubmitMessageReady
<1>3. StreamsOK'
  BY DEF HandleCnxn, StreamsOK
<1>4. Finish(SubmitMessage(io, c))
  BY DEF HandleCnxn, c
<1> QED
  BY <1>2, <1>3, <1>4, FinishHandles

\* handle_open keeps what the loop needs.
LEMMA OpenHandled ==
  ASSUME NEW io, NEW W, NEW P, Ready(io, W, P), NonWrites(io.sq) = P, StreamsOK,
         NEW m \in HostMsgs, HandleOpen(io, m)
  PROVE  Handled(W, P)
<1>0. m.arg0 \in Nat /\ next_id \in Nat
  BY DEF HostMsgs, StreamsOK
<1>1. PICK fails \in OsFails :
        IF m.payload \notin Kinds \/ (fails /\ m.payload \in {"shell", "forward"})
        THEN /\ Finish(Refuse(io, m.arg0))
             /\ UNCHANGED <<streams, next_id>>
        ELSE LET s == NewStream(m.arg0, m.payload)
                 io1 == SubmitMessage(io, Okay(next_id, m.arg0))
             IN /\ streams' = Insert(streams, next_id, s)
                /\ next_id' = NextId(next_id)
                /\ Finish(IF s.service \in {"shell", "forward"}
                          THEN MaybeSubmitRead(io1, next_id, s) ELSE io1)
  BY DEF HandleOpen
<1>2. CASE m.payload \notin Kinds \/ (fails /\ m.payload \in {"shell", "forward"})
  <2>1. Ready(Refuse(io, m.arg0), W, P)
    BY <1>0, MessagesTyped, SubmitMessageReady DEF Refuse
  <2>2. StreamsOK'
    BY <1>1, <1>2, SameTyped DEF HandleOpen
  <2> QED
    BY <1>1, <1>2, <2>1, <2>2, FinishHandles
<1>3. CASE ~(m.payload \notin Kinds \/ (fails /\ m.payload \in {"shell", "forward"}))
  <2> DEFINE s == NewStream(m.arg0, m.payload)
             io1 == SubmitMessage(io, Okay(next_id, m.arg0))
             io2 == IF s.service \in {"shell", "forward"}
                    THEN MaybeSubmitRead(io1, next_id, s) ELSE io1
  <2>1. /\ streams' = Insert(streams, next_id, s) /\ next_id' = next_id + 1
        /\ Finish(io2)
    BY <1>1, <1>3 DEF NextId
  <2>2. s \in StreamRecords
    BY <1>0, <1>3 DEF NewStream, StreamRecords, SyncStates
  <2>3. StreamsOK'
    <3>1. version' = version
      BY DEF HandleOpen
    <3> HIDE DEF s
    <3> QED BY <2>1, <2>2, <3>1 DEF StreamsOK, Insert
  <2>4. Ready(io1, W, P)
    BY <1>0, MessagesTyped, SubmitMessageReady
  <2>5. NonWrites(io1.sq) = P
    BY <1>0, MessagesTyped, SubmitMessageOwns, ReadyIsFew DEF Ready
  <2>6. Ready(io2, W, P)
    <3> HIDE DEF io1
    <3> QED BY <1>0, <2>4, <2>5, SubmitReadReady
  <2> QED
    BY <2>1, <2>3, <2>6, FinishHandles
<1> QED
  BY <1>2, <1>3

\* Sending a frame of a pull leaves an io that is ready.
LEMMA FrameReady ==
  ASSUME NEW io, NEW W, NEW P, Ready(io, W, P), NEW l \in Nat,
         NEW s \in StreamRecords, NEW t \in StreamRecords
  PROVE  Ready(SubmitFrame(io, l, s, t), W, P)
<1>1. t.remote_id \in Nat /\ t.tx \in Nat
  BY DEF StreamRecords
<1> DEFINE f == t.sync # "Sending"
<1>2. f \in BOOLEAN
  OBVIOUS
<1> HIDE DEF f
<1>3. /\ DevMsg("WRTE", l, t.remote_id, t.tx, f) \in DevMsgs
      /\ DevMsg("WRTE", l, t.remote_id, t.tx, f).cmd # "none"
  BY <1>1, <1>2, MessagesTyped
<1>4. Ready(SubmitMessage(io, DevMsg("WRTE", l, t.remote_id, t.tx, f)), W, P)
  BY <1>3, SubmitMessageReady
<1> QED
  BY <1>4 DEF SubmitFrame, f

\* handle_okay keeps what the loop needs.
LEMMA OkayHandled ==
  ASSUME NEW io, NEW W, NEW P, Ready(io, W, P), NonWrites(io.sq) = P, StreamsOK,
         NEW m \in HostMsgs, HandleOkay(io, m)
  PROVE  Handled(W, P)
<1> DEFINE l == StreamOf(m)
<1>0. l \in Nat
  BY DEF StreamOf, HostMsgs
<1>1. next_id' = next_id /\ version' = version
  BY DEF HandleOkay
<1>2. CASE l \notin DOMAIN streams
  <2>1. Finish(io) /\ streams' = streams
    BY <1>2 DEF HandleOkay
  <2> QED
    BY <1>1, <2>1, SameTyped, FinishHandles
<1>3. CASE l \in DOMAIN streams
  <2> DEFINE s == [streams[l] EXCEPT !.waiting_for_okay = FALSE]
  <2>1. PICK more \in MoreFrames(s) :
          LET t == IF s.service = "sync" THEN ContinueSync(s, more) ELSE s
          IN /\ streams' = [streams EXCEPT ![l] = t]
             /\ Finish(CASE s.service = "sync" -> SubmitFrame(io, l, s, t)
                         [] s.service = "reboot" -> Panic(io, "unreachable")
                         [] OTHER -> MaybeSubmitRead(io, l, s))
    BY <1>3 DEF HandleOkay
  <2>2. s \in StreamRecords
    BY <1>3 DEF StreamsOK, StreamRecords
  <2> HIDE DEF s
  <2> DEFINE t == IF s.service = "sync" THEN ContinueSync(s, more) ELSE s
             io1 == CASE s.service = "sync" -> SubmitFrame(io, l, s, t)
                      [] s.service = "reboot" -> Panic(io, "unreachable")
                      [] OTHER -> MaybeSubmitRead(io, l, s)
  <2>3. streams' = [streams EXCEPT ![l] = t] /\ Finish(io1)
    BY <2>1
  <2>4. t \in StreamRecords
    BY <2>2, ContinueSyncTyped
  <2> HIDE DEF t, l
  <2>5. Ready(SubmitFrame(io, l, s, t), W, P)
    BY <1>0, <2>2, <2>4, FrameReady
  <2>6. Ready(Panic(io, "unreachable"), W, P)
    BY PanicReady DEF Panics
  <2>7. Ready(MaybeSubmitRead(io, l, s), W, P)
    BY <1>0, SubmitReadReady
  <2>8. Ready(io1, W, P)
    BY <2>5, <2>6, <2>7
  <2>9. StreamsOK'
    BY <1>1, <2>3, <2>4, UpdateTyped
  <2> QED
    BY <2>3, <2>8, <2>9, FinishHandles
<1> QED
  BY <1>2, <1>3

\* handle_clse keeps what the loop needs.
LEMMA ClseHandled ==
  ASSUME NEW io, NEW W, NEW P, Ready(io, W, P), StreamsOK,
         NEW m \in HostMsgs, HandleClse(io, m)
  PROVE  Handled(W, P)
<1> DEFINE l == StreamOf(m)
           s == streams[l]
           io1 == IF s.remote_id = m.arg0 THEN io
                  ELSE Panic(io, "CLSE remote_id mismatch")
<1>0. l \in Nat
  BY DEF StreamOf, HostMsgs
<1>1. next_id' = next_id /\ version' = version
  BY DEF HandleClse
<1>2. Ready(io1, W, P)
  BY PanicReady DEF Panics
<1>3. CASE l \notin DOMAIN streams
  <2>1. Finish(io) /\ streams' = streams
    BY <1>3 DEF HandleClse
  <2> QED
    BY <1>1, <2>1, SameTyped, FinishHandles
<1>4. CASE l \in DOMAIN streams /\ Drains(s)
  <2>1. Finish(io1) /\ streams' = [streams EXCEPT ![l].remote_closed = TRUE]
    BY <1>4 DEF HandleClse
  <2>2. [s EXCEPT !.remote_closed = TRUE] \in StreamRecords
    BY <1>4 DEF StreamsOK, StreamRecords
  <2>3. streams' = [streams EXCEPT ![l] = [s EXCEPT !.remote_closed = TRUE]]
    BY <2>1
  <2>4. StreamsOK'
    BY <1>1, <2>2, <2>3, UpdateTyped
  <2> QED
    BY <1>2, <2>1, <2>4, FinishHandles
<1>5. CASE l \in DOMAIN streams /\ ~Drains(s)
  <2>1. Finish(SubmitMessage(io1, Clse(l, s.remote_id))) /\ streams' = Close(streams, l)
    BY <1>5 DEF HandleClse
  <2>2. s.remote_id \in Nat
    BY <1>5 DEF StreamsOK, StreamRecords
  <2> HIDE DEF l, io1
  <2>3. Ready(SubmitMessage(io1, Clse(l, s.remote_id)), W, P)
    BY <1>0, <1>2, <2>2, MessagesTyped, SubmitMessageReady
  <2>4. StreamsOK'
    BY <1>1, <2>1, CloseTyped
  <2> QED
    BY <2>1, <2>3, <2>4, FinishHandles
<1> QED
  BY <1>3, <1>4, <1>5

\* The sync service is left in one of its states.
LEMMA SyncHandleTyped ==
  ASSUME NEW sync \in SyncStates, NEW req, NEW fails
  PROVE  SyncHandle(sync, req, fails).sync \in SyncStates
<1>1. {"Idle", "Sending", "Receiving", sync} \subseteq SyncStates
  BY DEF SyncStates
<1>2. SyncHandle(sync, req, fails) \in
        {[sync |-> x, result |-> y] : x \in {"Idle", "Sending", "Receiving", sync},
                                      y \in {"Continue", "Data", "Quit", "Panic"}}
  BY DEF SyncHandle
<1>3. \A z \in {[sync |-> x, result |-> y] : x \in {"Idle", "Sending", "Receiving", sync},
                                      y \in {"Continue", "Data", "Quit", "Panic"}} :
        z.sync \in {"Idle", "Sending", "Receiving", sync}
  OBVIOUS
<1> QED
  BY <1>1, <1>2, <1>3

\* handle_wrte keeps what the loop needs.
LEMMA WrteHandled ==
  ASSUME NEW io, NEW W, NEW P, Ready(io, W, P), StreamsOK,
         NEW m \in HostMsgs, HandleWrte(io, m)
  PROVE  Handled(W, P)
<1> DEFINE l == StreamOf(m)
           io1 == Acknowledge(io, l, m.arg0)
<1>0. l \in Nat /\ m.arg0 \in Nat
  BY DEF StreamOf, HostMsgs
<1>1. next_id' = next_id /\ version' = version
  BY Zenon DEF HandleWrte
<1>2. Ready(io1, W, P)
  BY <1>0, MessagesTyped, SubmitMessageReady DEF Acknowledge
<1>3. CASE l \notin DOMAIN streams
  <2>1. Finish(io1) /\ streams' = streams
    BY <1>3 DEF HandleWrte
  <2> QED
    BY <1>1, <1>2, <2>1, SameTyped, FinishHandles
<1>4. CASE l \in DOMAIN streams
  <2> DEFINE s == streams[l]
             R(fails) == SyncHandle(s.sync, m.payload, fails)
             T(fails) == [s EXCEPT !.sync = R(fails).sync]
             Closes(fails) == IF s.service = "sync" THEN R(fails).result = "Quit" ELSE fails
             U(fails, more) ==
               IF s.service # "sync" THEN s
               ELSE CASE R(fails).result = "Data" -> [T(fails) EXCEPT !.tx = @ + 1]
                      [] R(fails).result = "Continue" -> ContinueSync(T(fails), more)
                      [] OTHER -> T(fails)
             J(fails, more) ==
               CASE s.service = "reboot" -> Panic(io1, "unreachable")
                 [] s.service = "sync" /\ R(fails).result = "Panic" ->
                      Panic(io1, "File too large for 32-bits")
                 [] OTHER -> IF Closes(fails) THEN SubmitMessage(io1, Clse(l, s.remote_id))
                             ELSE SubmitFrame(io1, l, s, U(fails, more))
  <2>1. PICK fails \in OsFails, more \in MoreFrames(streams[l]) :
          /\ streams' = IF Closes(fails) /\ s.service # "reboot" THEN Close(streams, l)
                        ELSE [streams EXCEPT ![l] = U(fails, more)]
          /\ Finish(J(fails, more))
    BY <1>4, Zenon DEF HandleWrte
  <2> DEFINE r == R(fails)
             t == T(fails)
             u == U(fails, more)
             j == J(fails, more)
  <2>2. s \in StreamRecords
    BY <1>4 DEF StreamsOK
  <2>3. s.sync \in SyncStates /\ s.remote_id \in Nat
    BY <2>2 DEF StreamRecords
  <2>4. r.sync \in SyncStates
    BY <2>3, SyncHandleTyped
  <2>5. t \in StreamRecords
    <3> HIDE DEF r, s
    <3>1. [s EXCEPT !.sync = r.sync] \in StreamRecords
      BY <2>2, <2>4 DEF StreamRecords
    <3> QED BY <3>1 DEF r, s
  <2>6. u \in StreamRecords
    <3>1. [t EXCEPT !.tx = @ + 1] \in StreamRecords
      <4> HIDE DEF t
      <4> QED BY <2>5 DEF StreamRecords
    <3>2. ContinueSync(t, more) \in StreamRecords
      BY <2>5, ContinueSyncTyped
    <3>3. u \in {s, [t EXCEPT !.tx = @ + 1], ContinueSync(t, more), t}
      OBVIOUS
    <3> HIDE DEF u, t
    <3> QED BY <2>2, <2>5, <3>1, <3>2, <3>3
  <2>7. Ready(j, W, P)
    <3>1. Ready(Panic(io1, "unreachable"), W, P)
      BY <1>2, PanicReady DEF Panics
    <3>2. Ready(Panic(io1, "File too large for 32-bits"), W, P)
      BY <1>2, PanicReady DEF Panics
    <3>3. Ready(SubmitMessage(io1, Clse(l, s.remote_id)), W, P)
      <4> HIDE DEF io1, l
      <4> QED BY <1>0, <1>2, <2>3, MessagesTyped, SubmitMessageReady
    <3>4. Ready(SubmitFrame(io1, l, s, u), W, P)
      <4> HIDE DEF io1, l, s, u
      <4> QED BY <1>0, <1>2, <2>2, <2>6, FrameReady
    <3>5. j \in {Panic(io1, "unreachable"), Panic(io1, "File too large for 32-bits"),
                 SubmitMessage(io1, Clse(l, s.remote_id)), SubmitFrame(io1, l, s, u)}
      <4> HIDE DEF io1, l, u
      <4> QED BY DEF u
    <3> HIDE DEF j, io1, l, s, u
    <3> QED BY <3>1, <3>2, <3>3, <3>4, <3>5
  <2>8. StreamsOK'
    <3>1. streams' = Close(streams, l) \/ streams' = [streams EXCEPT ![l] = u]
      BY <2>1
    <3> HIDE DEF u, l
    <3> QED BY <1>1, <2>6, <3>1, CloseTyped, UpdateTyped
  <2>9. Finish(j)
    BY <2>1
  <2> HIDE DEF j
  <2> QED
    BY <2>7, <2>8, <2>9, FinishHandles
<1> QED
  BY <1>3, <1>4

\* handle_command, whatever the command.
LEMMA CommandHandled ==
  ASSUME NEW io, NEW W, NEW P, Ready(io, W, P), NonWrites(io.sq) = P, StreamsOK,
         NEW m \in HostMsgs, HandleCommand(io, m)
  PROVE  Handled(W, P)
<1> DEFINE bad == (m.cmd \in {"CNXN", "OPEN", "WRTE"} /\ m.payload = "none")
                    \/ (m.cmd = "OKAY" /\ m.payload # "none")
           io1 == IF bad THEN Panic(io, "payload expected") ELSE io
<1>1. Ready(io1, W, P)
  BY PanicReady DEF Panics
<1>2. NonWrites(io1.sq) = P
  <2>1. io1.sq = io.sq
    BY PanicOwns DEF Ready, Panics
  <2> QED BY <2>1
<1>3. \/ HandleCnxn(io1, m) \/ HandleOpen(io1, m) \/ HandleOkay(io1, m)
      \/ HandleWrte(io1, m) \/ HandleClse(io1, m) \/ HandleOther(io1, m)
  BY DEF HandleCommand
<1> HIDE DEF io1
<1>4. CASE HandleOther(io1, m)
  BY <1>1, <1>4, SameTyped, FinishHandles DEF HandleOther
<1> QED
  BY <1>1, <1>2, <1>3, <1>4, CnxnHandled, OpenHandled, OkayHandled, WrteHandled, ClseHandled

-----------------------------------------------------------------------------
(* What a device step keeps, from what it commits.                          *)

\* The io a handler starts from is the state of the ring.
LEMMA IoNow ==
  ASSUME TypeOK, WritesOwnTheirSlot
  PROVE  IoOwns(Io, Elsewhere)
<1>1. Io \in IoType
  BY DEF Io, IoType, TypeOK, Daemons
<1>2. /\ Io.sq = sq /\ Io.buffers = buffers /\ OneWritePerSlot(sq)
      /\ \A o \in Writes(sq) : o.data \notin Elsewhere
      /\ Used(buffers) = Elsewhere \cup {o.data : o \in Writes(sq)}
  BY DEF Io, WritesOwnTheirSlot, NoCommonSlot, Elsewhere
<1> HIDE DEF Io
<1> QED
  BY <1>1, <1>2 DEF IoOwns

\* Committing a handler's io keeps the slots owned.
LEMMA CommitKeeps ==
  ASSUME WritesOwnTheirSlot, NEW j, IoOwns(j, Elsewhere), Commit(j),
         Writes(kern') = Writes(kern), Writes(cq') = Writes(cq),
         Writes(batch') = Writes(batch)
  PROVE  WritesOwnTheirSlot'
<1>1. sq' = j.sq /\ buffers' = j.buffers
  BY DEF Commit
<1>2. /\ OneWritePerSlot(sq') /\ \A o \in Writes(sq') : o.data \notin Elsewhere
      /\ Used(buffers') = Elsewhere \cup {o.data : o \in Writes(sq')}
  BY <1>1 DEF IoOwns
<1>3. /\ OneWritePerSlot(kern') /\ OneWritePerSlot(cq') /\ OneWritePerSlot(batch')
      /\ NoCommonSlot(kern', cq') /\ NoCommonSlot(kern', batch')
      /\ NoCommonSlot(cq', batch')
  BY DEF WritesOwnTheirSlot, OneWritePerSlot, NoCommonSlot
<1>4. NoCommonSlot(sq', kern') /\ NoCommonSlot(sq', cq') /\ NoCommonSlot(sq', batch')
  BY <1>2 DEF Elsewhere, NoCommonSlot
<1>5. Used(buffers') = {o.data : o \in Writes(sq') \cup Writes(kern')
                                         \cup Writes(cq') \cup Writes(batch')}
  BY <1>2 DEF Elsewhere
<1> QED
  BY <1>2, <1>3, <1>4, <1>5 DEF WritesOwnTheirSlot

\* The shape of the state after a completion has been taken.
LEMMA TakeTyped ==
  ASSUME TypeOK, NEW c, batch' = batch \ {c},
         UNCHANGED <<cq, kern, bulk_in, bulk_out_buf, usb, faults, events, hostVars>>,
         ep0' \in Seq({"other", "stop"}), StreamsOK', pending_header' \in Seq(HostMsgs),
         NEW j \in IoType, Commit(j)
  PROVE  TypeOK'
<1>1. buffers' \in [Slots -> DevMsgs] /\ sq' \subseteq Ops /\ order' \in Seq(Slots)
        /\ daemon' \in {"running", "stopped", "failed"} \cup Panics
  BY DEF Commit, IoType, Daemons
<1>2. HostTypeOK'
  BY DEF TypeOK, HostTypeOK, hostVars
<1>3. /\ kern' \subseteq Ops /\ cq' \subseteq Cqes /\ batch' \subseteq Cqes
      /\ bulk_in' \in Seq(Slots) /\ bulk_out_buf' \in Seq(Xfers) /\ usb' \in BOOLEAN
      /\ faults' \in Nat /\ events' \in Nat
  BY DEF TypeOK
<1> QED
  BY <1>1, <1>2, <1>3 DEF TypeOK, StreamsOK

\* The operations that keep the loop going are where they were.
LEMMA ArmedSame ==
  ASSUME LoopArmed, daemon = "running", pending_header' = pending_header,
         Polls(sq') = Polls(sq), Polls(kern') = Polls(kern),
         Polls(cq') = Polls(cq), Polls(batch') = Polls(batch),
         BulkOuts(sq') = BulkOuts(sq), BulkOuts(kern') = BulkOuts(kern),
         BulkOuts(cq') = BulkOuts(cq), BulkOuts(batch') = BulkOuts(batch)
  PROVE  LoopArmed'
<1>1. \A S, T : BulkOuts(S) = BulkOuts(T) =>
        ((\E o \in S : o.op = "BulkOutReadPayload") <=>
           (\E o \in T : o.op = "BulkOutReadPayload"))
  BY DEF BulkOuts
<1>2. (\E o \in sq' \cup kern' \cup cq' \cup batch' : o.op = "BulkOutReadPayload") <=>
        (\E o \in sq \cup kern \cup cq \cup batch : o.op = "BulkOutReadPayload")
  BY <1>1
<1>3. /\ ExactlyOne(Polls(sq'), Polls(kern'), Polls(cq'), Polls(batch'))
      /\ ExactlyOne(BulkOuts(sq'), BulkOuts(kern'), BulkOuts(cq'), BulkOuts(batch'))
  BY DEF LoopArmed
<1> QED
  BY <1>2, <1>3 DEF LoopArmed

\* A step that takes a read or a write and pushes nothing but writes.
LEMMA TakenKeeps ==
  ASSUME Inv, daemon = "running", NEW c \in batch,
         c.op \notin {"Ep0Poll", "BulkOutReadHeader", "BulkOutReadPayload"},
         batch' = batch \ {c}, NonWrites(sq') = NonWrites(sq),
         UNCHANGED <<cq, kern, ep0, bulk_out_buf, pending_header>>
  PROVE  LoopArmed' /\ SqShape' /\ Fed'
<1>1. Polls(batch') = Polls(batch) /\ BulkOuts(batch') = BulkOuts(batch)
  BY DEF Polls, BulkOuts
<1>2. \A S : Polls(S) = Polls(NonWrites(S)) /\ BulkOuts(S) = BulkOuts(NonWrites(S))
  BY DEF Polls, BulkOuts, NonWrites
<1>3. Polls(sq') = Polls(sq) /\ BulkOuts(sq') = BulkOuts(sq)
  BY <1>2
<1>4. LoopArmed'
  BY <1>1, <1>3, ArmedSame DEF Inv
<1>5. SqShape'
  BY <1>3 DEF Inv, SqShape
<1>6. Fed'
  BY <1>1 DEF Inv, Fed
<1> QED
  BY <1>4, <1>5, <1>6

\* A step that takes the bulk-out completion and arms the next read.
LEMMA Rearmed ==
  ASSUME Inv, daemon = "running", NEW c \in BulkOuts(batch), batch' = batch \ {c},
         UNCHANGED <<cq, kern, ep0, bulk_out_buf>>,
         NEW o \in {ReadHeader, ReadPayload}, NEW j,
         Armed(j, Elsewhere, Polls(sq), o), Commit(j),
         pending_header' # << >> <=> o = ReadPayload
  PROVE  /\ WritesOwnTheirSlot' /\ LoopArmed' /\ SqNeverFull'
         /\ SqShape' /\ Fed'
<1>1. sq' = j.sq /\ daemon' = j.daemon
  BY DEF Commit
<1>2. Writes(batch') = Writes(batch) /\ Polls(batch') = Polls(batch)
  BY DEF Writes, Polls, BulkOuts
<1>3. WritesOwnTheirSlot'
  BY <1>2, CommitKeeps DEF Inv, Armed
<1>4. Polls(sq') = Polls(sq) /\ BulkOuts(sq') = {o} /\ Few(NonWrites(sq'))
        /\ daemon' # "SQ full"
  BY <1>1 DEF Armed
<1>5. /\ ExactlyOne(Polls(sq), Polls(kern), Polls(cq), Polls(batch))
      /\ ExactlyOne(BulkOuts(sq), BulkOuts(kern), BulkOuts(cq), BulkOuts(batch))
  BY DEF Inv, LoopArmed
<1>6. BulkOuts(kern) = {} /\ BulkOuts(cq) = {} /\ BulkOuts(batch) = {c}
  BY <1>5 DEF ExactlyOne
<1>7. BulkOuts(batch') = {}
  BY <1>6 DEF BulkOuts
<1>8. ExactlyOne(BulkOuts(sq'), BulkOuts(kern'), BulkOuts(cq'), BulkOuts(batch'))
  BY <1>4, <1>6, <1>7 DEF ExactlyOne
<1>9. ExactlyOne(Polls(sq'), Polls(kern'), Polls(cq'), Polls(batch'))
  BY <1>2, <1>4, <1>5
<1>10. (\E p \in sq' \cup kern' \cup cq' \cup batch' : p.op = "BulkOutReadPayload")
         <=> o = ReadPayload
  <2>1. o.op = "BulkOutReadPayload" <=> o = ReadPayload
    BY DEF ReadHeader, ReadPayload, Op
  <2>2. \A p \in sq' \cup kern' \cup cq' \cup batch' :
          p.op = "BulkOutReadPayload" => p = o
    BY <1>4, <1>6, <1>7 DEF BulkOuts
  <2>3. o \in sq'
    BY <1>4 DEF BulkOuts
  <2> QED
    BY <2>1, <2>2, <2>3
<1>11. LoopArmed'
  BY <1>8, <1>9, <1>10 DEF LoopArmed
<1>12. SqShape' /\ SqNeverFull'
  BY <1>4 DEF SqShape, SqNeverFull
<1>13. Fed'
  BY <1>2, <1>6, <1>7 DEF Inv, Fed
<1> QED
  BY <1>3, <1>11, <1>12, <1>13

-----------------------------------------------------------------------------
(* The steps of the device.                                                 *)

\* Inv, for what handlers ask of it.
LEMMA InvFacts ==
  ASSUME Inv, daemon = "running"
  PROVE  /\ StreamsOK /\ IoOwns(Io, Elsewhere) /\ Few(NonWrites(sq))
         /\ Io.sq = sq /\ Io.daemon = "running" /\ Io \in IoType
<1>1. StreamsOK
  BY DEF Inv, TypeOK, StreamsOK
<1>2. IoOwns(Io, Elsewhere)
  BY IoNow DEF Inv
<1>3. Few(NonWrites(sq))
  BY DEF Inv, SqShape, Few
<1>4. Io.sq = sq /\ Io.daemon = "running"
  BY DEF Io
<1> QED
  BY <1>1, <1>2, <1>3, <1>4 DEF IoOwns

\* ReadEnd and ReadData have this form.
LEMMA ReadTaken ==
  ASSUME Inv, NEW c \in Reads(batch), Take(c), NEW j, Commit(j), StreamsOK',
         pending_header' = pending_header, IoOwns(j, Elsewhere),
         NonWrites(j.sq) = NonWrites(sq), j.daemon # "SQ full"
  PROVE  Inv'
<1>1. /\ daemon = "running" /\ c \in batch /\ batch' = batch \ {c}
      /\ UNCHANGED <<cq, kern, bulk_in, bulk_out_buf, ep0, usb, faults, events, hostVars>>
  BY DEF Take, kernVars
<1>2. c.op \in {"PtyRead", "SocketRead"}
  BY DEF Reads
<1>3. TypeOK'
  <2>1. j \in IoType
    BY DEF IoOwns
  <2>2. ep0' \in Seq({"other", "stop"}) /\ pending_header' \in Seq(HostMsgs) /\ TypeOK
    BY <1>1 DEF Inv, TypeOK
  <2> QED BY <1>1, <2>1, <2>2, TakeTyped
<1>4. Writes(batch') = Writes(batch)
  BY <1>1, <1>2 DEF Writes
<1>5. WritesOwnTheirSlot'
  BY <1>1, <1>4, CommitKeeps DEF Inv
<1>6. sq' = j.sq /\ daemon' = j.daemon
  BY DEF Commit
<1>7. LoopArmed' /\ SqShape' /\ Fed'
  BY <1>1, <1>2, <1>6, TakenKeeps
<1> QED
  BY <1>3, <1>5, <1>6, <1>7 DEF Inv, SqNeverFull

\* The end of a PTY or socket keeps Inv.
LEMMA ReadEndKeeps ==
  ASSUME Inv, NEW c \in batch, ReadEnd(c)
  PROVE  Inv'
<1> DEFINE j == IF c.data \in DOMAIN streams
                THEN SubmitMessage(Io, Clse(c.data, streams[c.data].remote_id)) ELSE Io
<1>1. /\ c \in Reads(batch) /\ Take(c) /\ Commit(j) /\ streams' = Close(streams, c.data)
      /\ UNCHANGED <<next_id, version, pending_header>>
  BY DEF ReadEnd
<1>2. daemon = "running"
  BY <1>1 DEF Take
<1>3. /\ StreamsOK /\ IoOwns(Io, Elsewhere) /\ Few(NonWrites(sq))
      /\ Io.sq = sq /\ Io.daemon = "running"
  BY <1>2, InvFacts
<1>4. StreamsOK'
  BY <1>1, <1>3, CloseTyped
<1>5. /\ IoOwns(j, Elsewhere) /\ NonWrites(j.sq) = NonWrites(sq)
      /\ j.daemon # "SQ full"
  <2>1. CASE c.data \in DOMAIN streams
    <3> DEFINE m == Clse(c.data, streams[c.data].remote_id)
    <3>1. c.data \in Nat /\ streams[c.data].remote_id \in Nat
      BY <1>3, <2>1 DEF StreamsOK, StreamRecords
    <3>2. m \in DevMsgs /\ m.cmd # "none"
      BY <3>1, MessagesTyped
    <3> HIDE DEF m
    <3>3. /\ IoOwns(SubmitMessage(Io, m), Elsewhere)
          /\ NonWrites(SubmitMessage(Io, m).sq) = NonWrites(sq)
          /\ SubmitMessage(Io, m).daemon \in {"running", "all write slots in use"}
      BY <1>3, <3>2, SubmitMessageOwns
    <3> QED BY <2>1, <3>3 DEF m
  <2>2. CASE c.data \notin DOMAIN streams
    BY <1>3, <2>2
  <2> QED BY <2>1, <2>2
<1> HIDE DEF j
<1> QED
  BY <1>1, <1>4, <1>5, ReadTaken

\* Data from a PTY or socket keeps Inv.
LEMMA ReadDataKeeps ==
  ASSUME Inv, NEW c \in batch, ReadData(c)
  PROVE  Inv'
<1> DEFINE s == streams[c.data]
           m == DevMsg("WRTE", c.data, s.remote_id, s.tx + 1, FALSE)
           valid == /\ c.data \in DOMAIN streams
                    /\ s.service = (IF c.op = "PtyRead" THEN "shell" ELSE "forward")
<1>1. /\ c \in Reads(batch) /\ Take(c)
      /\ UNCHANGED <<next_id, version, pending_header>>
  BY DEF ReadData
<1>2. daemon = "running"
  BY <1>1 DEF Take
<1>3. /\ StreamsOK /\ IoOwns(Io, Elsewhere) /\ Few(NonWrites(sq))
      /\ Io.sq = sq /\ Io.daemon = "running"
  BY <1>2, InvFacts
<1>4. CASE ~valid
  <2>1. UNCHANGED <<streams, ioVars>>
    BY <1>4 DEF ReadData
  <2>2. Commit(Io)
    BY <2>1 DEF Commit, Io, ioVars
  <2>3. StreamsOK'
    BY <1>1, <1>3, <2>1, SameTyped
  <2> QED
    BY <1>1, <1>3, <2>2, <2>3, ReadTaken
<1>5. CASE valid
  <2>1. /\ streams' = [streams EXCEPT ![c.data].waiting_for_okay = TRUE,
                                      ![c.data].tx = @ + 1]
        /\ Commit(SubmitMessage(Io, m))
    BY <1>5 DEF ReadData, SubmitData
  <2>2. c.data \in Nat /\ s \in StreamRecords
    BY <1>3, <1>5 DEF StreamsOK
  <2>3. s.remote_id \in Nat /\ s.tx + 1 \in Nat
    BY <2>2 DEF StreamRecords
  <2>4. m \in DevMsgs /\ m.cmd # "none"
    BY <2>2, <2>3, MessagesTyped
  <2>5. [s EXCEPT !.waiting_for_okay = TRUE, !.tx = @ + 1] \in StreamRecords
    <3> HIDE DEF s
    <3> QED BY <2>2, <2>3 DEF StreamRecords
  <2>6. streams' = [streams EXCEPT ![c.data] =
                      [s EXCEPT !.waiting_for_okay = TRUE, !.tx = @ + 1]]
    BY <2>1
  <2>7. StreamsOK'
    BY <1>1, <1>3, <2>5, <2>6, UpdateTyped
  <2> DEFINE j == SubmitMessage(Io, m)
  <2> HIDE DEF m
  <2>8. /\ IoOwns(j, Elsewhere) /\ NonWrites(j.sq) = NonWrites(sq)
        /\ j.daemon \in {"running", "all write slots in use"}
    BY <1>3, <2>4, SubmitMessageOwns
  <2> HIDE DEF j
  <2> QED
    BY <1>1, <2>1, <2>7, <2>8, ReadTaken DEF j
<1> QED
  BY <1>4, <1>5

\* A handled write leaves the batch and its slot at the same time.
LEMMA WriteDoneKeeps ==
  ASSUME Inv, NEW c \in batch, WriteDone(c)
  PROVE  Inv'
<1>1. /\ c \in Writes(batch) /\ daemon = "running" /\ batch' = batch \ {c}
      /\ buffers' = Free(buffers, c.data)
      /\ UNCHANGED <<sq, order, daemon, streams, next_id, version, pending_header,
                     cq, kern, bulk_in, bulk_out_buf, ep0, usb, faults, events, hostVars>>
  BY DEF WriteDone, Take, kernVars, devVars
<1>2. WritesOwnTheirSlot /\ TypeOK
  BY DEF Inv
<1>3. c.data \in Used(buffers) /\ c.data \in Slots
  BY <1>1, <1>2 DEF WritesOwnTheirSlot, Used
<1> DEFINE j == [buffers |-> buffers', sq |-> sq, order |-> order, daemon |-> daemon]
<1>4. j \in IoType
  <2>1. NoMsg \in DevMsgs
    BY DEF NoMsg, DevMsgs
  <2>2. buffers' \in [Slots -> DevMsgs]
    BY <1>1, <1>2, <1>3, <2>1 DEF TypeOK, Free
  <2> QED BY <1>2, <2>2 DEF TypeOK, IoType, Daemons
<1>5. TypeOK'
  <2>1. Commit(j)
    BY <1>1 DEF Commit
  <2>2. StreamsOK' /\ ep0' \in Seq({"other", "stop"}) /\ pending_header' \in Seq(HostMsgs)
    BY <1>1, <1>2 DEF TypeOK, StreamsOK
  <2> HIDE DEF j
  <2> QED BY <1>1, <1>2, <1>4, <2>1, <2>2, TakeTyped
<1>6. WritesOwnTheirSlot'
  <2>1. Used(buffers') = Used(buffers) \ {c.data}
    BY <1>1, <1>2, <1>3 DEF Used, Free, NoMsg, TypeOK
  <2>2. Writes(batch') = Writes(batch) \ {c} /\ c \in Writes(batch)
    BY <1>1 DEF Writes
  <2>3. \A o \in Writes(batch') : o.data # c.data
    BY <1>2, <2>2 DEF WritesOwnTheirSlot, OneWritePerSlot
  <2>4. OneWritePerSlot(batch')
    BY <1>2, <2>2 DEF WritesOwnTheirSlot, OneWritePerSlot
  <2>5. /\ NoCommonSlot(sq, batch') /\ NoCommonSlot(kern, batch')
        /\ NoCommonSlot(cq, batch')
    BY <1>2, <2>2 DEF WritesOwnTheirSlot, NoCommonSlot
  <2>6. \A o \in Writes(sq) \cup Writes(kern) \cup Writes(cq) : o.data # c.data
    BY <1>2, <2>2 DEF WritesOwnTheirSlot, NoCommonSlot
  <2> DEFINE D == {o.data : o \in Writes(sq) \cup Writes(kern)
                                    \cup Writes(cq) \cup Writes(batch')}
  <2>7. Used(buffers) = D \cup {c.data}
    BY <1>2, <2>2 DEF WritesOwnTheirSlot
  <2>8. c.data \notin D
    BY <2>3, <2>6
  <2>9. Used(buffers') = D
    BY <2>1, <2>7, <2>8
  <2> QED BY <1>1, <1>2, <2>4, <2>5, <2>9 DEF WritesOwnTheirSlot
<1>7. LoopArmed' /\ SqShape' /\ Fed'
  <2>1. c.op = "BulkInWrite"
    BY <1>1 DEF Writes
  <2> QED BY <1>1, <2>1, TakenKeeps
<1> QED
  BY <1>1, <1>5, <1>6, <1>7 DEF Inv, SqNeverFull

\* A step after which the loop does not run.
LEMMA LoopEnds ==
  ASSUME Inv, daemon = "running", NEW c \in batch, c.op # "BulkInWrite",
         batch' = batch \ {c}, NEW how \in {"stopped", "failed"}, daemon' = how,
         UNCHANGED <<buffers, sq, order, devVars, cq, kern, bulk_in, bulk_out_buf, usb,
                     faults, events, hostVars>>,
         ep0' \in Seq({"other", "stop"})
  PROVE  Inv'
<1> DEFINE j == [Io EXCEPT !.daemon = how]
<1>1. IoOwns(Io, Elsewhere) /\ Io \in IoType
  BY InvFacts
<1>2. j \in IoType /\ j.sq = Io.sq /\ j.buffers = Io.buffers
  BY <1>1 DEF IoType, Daemons
<1>3. Commit(j)
  BY DEF Commit, Io
<1> HIDE DEF j
<1>4. IoOwns(j, Elsewhere)
  BY <1>1, <1>2 DEF IoOwns
<1>5. Writes(batch') = Writes(batch)
  BY DEF Writes
<1>6. WritesOwnTheirSlot'
  BY <1>3, <1>4, <1>5, CommitKeeps DEF Inv
<1>7. StreamsOK' /\ pending_header' \in Seq(HostMsgs) /\ TypeOK
  BY DEF Inv, TypeOK, StreamsOK, devVars
<1>8. TypeOK'
  BY <1>2, <1>3, <1>7, TakeTyped
<1> QED
  BY <1>6, <1>8 DEF Inv, LoopArmed, SqNeverFull

\* A failed operation keeps Inv.
LEMMA OpFailedKeeps ==
  ASSUME Inv, NEW c \in batch, OpFailed(c)
  PROVE  Inv'
<1>1. /\ daemon = "running" /\ batch' = batch \ {c} /\ c.op # "BulkInWrite"
      /\ daemon' = "failed" /\ ep0' = ep0
      /\ UNCHANGED <<buffers, sq, order, devVars, cq, kern, bulk_in, bulk_out_buf, usb,
                     faults, events, hostVars>>
  BY DEF OpFailed, Take, kernVars, Writes
<1>2. ep0' \in Seq({"other", "stop"})
  BY <1>1 DEF Inv, TypeOK
<1> QED
  BY <1>1, <1>2, LoopEnds

\* The poll of ep0 is pushed again, or the loop ends.
LEMMA Ep0EventKeeps ==
  ASSUME Inv, NEW c \in batch, Ep0Event(c)
  PROVE  Inv'
<1>1. /\ daemon = "running" /\ batch' = batch \ {c} /\ c.op = "Ep0Poll"
      /\ ep0' = Tail(ep0)
      /\ UNCHANGED <<devVars, cq, kern, bulk_in, bulk_out_buf, usb, faults, events, hostVars>>
  BY DEF Ep0Event
<1>2. c \in Polls(batch)
  BY <1>1 DEF Polls
<1>3. ep0' \in Seq({"other", "stop"})
  <2>1. ep0 \in Seq({"other", "stop"}) /\ ep0 # << >>
    BY <1>1, <1>2 DEF Inv, TypeOK, Fed
  <2> QED BY <1>1, <2>1
<1>4. CASE Head(ep0) = "stop"
  <2>1. Commit([Io EXCEPT !.daemon = "stopped"])
    BY <1>4 DEF Ep0Event
  <2>2. daemon' = "stopped" /\ UNCHANGED <<buffers, sq, order>>
    BY <2>1 DEF Commit, Io
  <2> QED
    BY <1>1, <1>3, <2>2, LoopEnds
<1>5. CASE Head(ep0) # "stop"
  <2> DEFINE j == Push(Io, Ep0Poll)
  <2>1. Commit(j)
    BY <1>5 DEF Ep0Event
  <2>2. /\ IoOwns(Io, Elsewhere) /\ Few(NonWrites(sq)) /\ Io.sq = sq
        /\ Io.daemon = "running" /\ StreamsOK
    BY <1>1, InvFacts
  <2>3. ExactlyOne(Polls(sq), Polls(kern), Polls(cq), Polls(batch))
    BY <1>1 DEF Inv, LoopArmed
  <2>4. Polls(sq) = {} /\ Polls(kern) = {} /\ Polls(cq) = {} /\ Polls(batch) = {c}
    BY <1>2, <2>3 DEF ExactlyOne
  <2>5. Ep0Poll \notin sq
    BY <2>4, PollIsPoll DEF Polls
  <2>6. Few(NonWrites(sq) \cup {Ep0Poll})
    BY <2>2 DEF Few
  <2>7. /\ IoOwns(j, Elsewhere) /\ NonWrites(j.sq) = NonWrites(sq) \cup {Ep0Poll}
        /\ j.daemon = "running"
    BY <2>2, <2>5, <2>6, PollIsPoll, PushOwns
  <2> HIDE DEF j
  <2>8. TypeOK'
    <3>1. j \in IoType /\ TypeOK
      BY <2>7 DEF IoOwns, Inv
    <3>2. StreamsOK' /\ pending_header' \in Seq(HostMsgs)
      BY <1>1, <2>2, <3>1 DEF StreamsOK, TypeOK, devVars
    <3> QED BY <1>1, <1>3, <2>1, <3>1, <3>2, TakeTyped
  <2>9. WritesOwnTheirSlot'
    <3>1. Writes(batch') = Writes(batch)
      BY <1>1 DEF Writes
    <3> QED BY <1>1, <2>1, <2>7, <3>1, CommitKeeps DEF Inv
  <2>10. sq' = j.sq /\ daemon' = "running"
    BY <2>1, <2>7 DEF Commit
  <2>11. Polls(sq') = {Ep0Poll} /\ BulkOuts(sq') = BulkOuts(sq)
    <3>1. \A S : Polls(S) = Polls(NonWrites(S)) /\ BulkOuts(S) = BulkOuts(NonWrites(S))
      BY DEF Polls, BulkOuts, NonWrites
    <3>2. Polls(NonWrites(sq) \cup {Ep0Poll}) = Polls(NonWrites(sq)) \cup {Ep0Poll}
      BY PollIsPoll DEF Polls
    <3>3. BulkOuts(NonWrites(sq) \cup {Ep0Poll}) = BulkOuts(NonWrites(sq))
      BY PollIsPoll DEF BulkOuts
    <3> QED BY <2>4, <2>7, <2>10, <3>1, <3>2, <3>3
  <2>12. BulkOuts(batch') = BulkOuts(batch) /\ Polls(batch') = {}
    BY <1>1, <2>4 DEF BulkOuts, Polls
  <2>13. ExactlyOne(Polls(sq'), Polls(kern'), Polls(cq'), Polls(batch'))
    BY <1>1, <2>4, <2>11, <2>12 DEF ExactlyOne
  <2>14. LoopArmed'
    <3>1. \A S, T : BulkOuts(S) = BulkOuts(T) =>
            ((\E o \in S : o.op = "BulkOutReadPayload") <=>
               (\E o \in T : o.op = "BulkOutReadPayload"))
      BY DEF BulkOuts
    <3>2. (\E o \in sq' \cup kern' \cup cq' \cup batch' : o.op = "BulkOutReadPayload") <=>
            (\E o \in sq \cup kern \cup cq \cup batch : o.op = "BulkOutReadPayload")
      BY <1>1, <2>11, <2>12, <3>1
    <3>3. pending_header' = pending_header
      BY <1>1 DEF devVars
    <3> QED
      BY <1>1, <2>11, <2>12, <2>13, <3>2, <3>3 DEF Inv, LoopArmed
  <2>15. SqShape'
    <3>1. CASE NonWrites(sq) \subseteq {Ep0Poll}
      BY <2>7, <2>10, <3>1 DEF SqShape
    <3>2. CASE BulkOuts(sq) # {} /\ Few(NonWrites(sq))
      BY <2>6, <2>7, <2>10, <2>11, <3>2 DEF SqShape
    <3> QED BY <1>1, <3>1, <3>2 DEF Inv, SqShape
  <2>16. Fed'
    BY <1>1, <2>4, <2>12 DEF Inv, Fed
  <2> QED
    BY <2>8, <2>9, <2>10, <2>14, <2>15, <2>16 DEF Inv, SqNeverFull
<1> QED
  BY <1>4, <1>5

\* A handler of bulk-out starts with nothing but the poll in the queue.
LEMMA HandlerStarts ==
  ASSUME Inv, daemon = "running", NEW c \in BulkOuts(batch)
  PROVE  Ready(Io, Elsewhere, Polls(sq)) /\ NonWrites(Io.sq) = Polls(sq)
<1>1. /\ IoOwns(Io, Elsewhere) /\ Io.sq = sq /\ Io.daemon = "running"
  BY InvFacts
<1>2. BulkOuts(sq) = {}
  BY DEF Inv, LoopArmed, ExactlyOne
<1>3. NonWrites(sq) \subseteq {Ep0Poll}
  BY <1>2 DEF Inv, SqShape
<1>4. NonWrites(sq) = Polls(sq)
  BY <1>3, PollIsPoll DEF NonWrites, Polls
<1> QED
  BY <1>1, <1>3, <1>4 DEF Ready

\* What the handlers of bulk-out share.
LEMMA BulkOutTaken ==
  ASSUME Inv, NEW c \in BulkOuts(batch), Take(c), NEW o \in {ReadHeader, ReadPayload},
         NEW j, Armed(j, Elsewhere, Polls(sq), o), Commit(j), StreamsOK',
         pending_header' \in Seq(HostMsgs), pending_header' # << >> <=> o = ReadPayload
  PROVE  Inv'
<1>1. /\ daemon = "running" /\ batch' = batch \ {c}
      /\ UNCHANGED <<cq, kern, bulk_in, bulk_out_buf, ep0, usb, faults, events, hostVars>>
  BY DEF Take, kernVars
<1>2. TypeOK'
  <2>1. j \in IoType /\ TypeOK
    BY DEF Armed, IoOwns, Inv
  <2>2. ep0' \in Seq({"other", "stop"})
    BY <1>1, <2>1 DEF TypeOK
  <2> QED BY <1>1, <2>1, <2>2, TakeTyped
<1>3. /\ WritesOwnTheirSlot' /\ LoopArmed' /\ SqNeverFull'
      /\ SqShape' /\ Fed'
  BY <1>1, Rearmed
<1> QED
  BY <1>2, <1>3 DEF Inv

\* The two bulk-out reads differ.
LEMMA HeadersDiffer == ReadHeader # ReadPayload /\ ReadHeader.op = "BulkOutReadHeader"
                         /\ ReadPayload.op = "BulkOutReadPayload"
BY DEF ReadHeader, ReadPayload, Op

\* A header read from the host keeps Inv.
LEMMA BulkOutReadHeaderKeeps ==
  ASSUME Inv, NEW c \in batch, BulkOutReadHeader(c)
  PROVE  Inv'
<1> DEFINE t == bulk_out_buf[1]
           P == Polls(sq)
<1>1. c \in BulkOuts(batch) /\ Take(c) /\ c.res = "ok" /\ daemon = "running"
        /\ c.op = "BulkOutReadHeader"
  BY DEF BulkOutReadHeader, BulkOuts, Take
<1>2. Ready(Io, Elsewhere, P) /\ NonWrites(Io.sq) = P /\ StreamsOK
  BY <1>1, HandlerStarts, InvFacts
<1>3. t \in Xfers
  <2>1. bulk_out_buf \in Seq(Xfers) /\ bulk_out_buf # << >>
    BY <1>1 DEF Inv, TypeOK, Fed
  <2> QED BY <2>1
<1>4. t.msg \in HostMsgs
  BY <1>3 DEF Xfers
<1>5. pending_header = << >>
  <2>1. ExactlyOne(BulkOuts(sq), BulkOuts(kern), BulkOuts(cq), BulkOuts(batch))
    BY <1>1 DEF Inv, LoopArmed
  <2>2. BulkOuts(sq) = {} /\ BulkOuts(kern) = {} /\ BulkOuts(cq) = {} /\ BulkOuts(batch) = {c}
    BY <1>1, <2>1 DEF ExactlyOne
  <2>3. ~ \E o \in sq \cup kern \cup cq \cup batch : o.op = "BulkOutReadPayload"
    BY <1>1, <2>2 DEF BulkOuts
  <2> QED BY <1>1, <2>3 DEF Inv, LoopArmed
<1> HIDE DEF t, P
<1>6. CASE Handled(Elsewhere, P) /\ pending_header' = pending_header
  <2>1. PICK j : Armed(j, Elsewhere, P, ReadHeader) /\ Commit(j)
    BY <1>6 DEF Handled
  <2>2. StreamsOK' /\ pending_header' \in Seq(HostMsgs) /\ pending_header' = << >>
    BY <1>5, <1>6 DEF Handled
  <2> QED
    BY <1>1, <2>1, <2>2, HeadersDiffer, BulkOutTaken DEF P
<1>7. CASE Finish(Io) /\ UNCHANGED devVars
  <2>1. StreamsOK'
    BY <1>2, <1>7, SameTyped DEF devVars
  <2>2. Handled(Elsewhere, P)
    BY <1>2, <1>7, <2>1, FinishHandles
  <2> QED
    BY <1>6, <1>7, <2>2 DEF devVars
<1>8. CASE /\ pending_header' = <<t.msg>> /\ Commit(Push(Io, ReadPayload))
           /\ UNCHANGED <<streams, next_id, version>>
  <2>1. StreamsOK'
    BY <1>2, <1>8, SameTyped
  <2>2. Armed(Push(Io, ReadPayload), Elsewhere, P, ReadPayload)
    BY <1>2, PushArms
  <2>3. pending_header' \in Seq(HostMsgs) /\ pending_header' # << >>
    BY <1>4, <1>8
  <2> QED
    BY <1>1, <1>8, <2>1, <2>2, <2>3, BulkOutTaken DEF P
<1>9. CASE HandleCommand(Io, t.msg) /\ UNCHANGED pending_header
  BY <1>2, <1>4, <1>6, <1>9, CommandHandled
<1> QED
  BY <1>7, <1>8, <1>9 DEF BulkOutReadHeader, t

\* A payload read from the host keeps Inv.
LEMMA BulkOutReadPayloadKeeps ==
  ASSUME Inv, NEW c \in batch, BulkOutReadPayload(c)
  PROVE  Inv'
<1> DEFINE P == Polls(sq)
<1>1. c \in BulkOuts(batch) /\ Take(c) /\ daemon = "running" /\ pending_header' = << >>
  BY DEF BulkOutReadPayload, BulkOuts, Take
<1>2. Ready(Io, Elsewhere, P) /\ NonWrites(Io.sq) = P /\ StreamsOK
  BY <1>1, HandlerStarts, InvFacts
<1>3. Handled(Elsewhere, P)
  <2>1. CASE Finish(Io) /\ UNCHANGED <<streams, next_id, version>>
    BY <1>2, <2>1, SameTyped, FinishHandles
  <2>2. CASE pending_header # << >> /\ HandleCommand(Io, pending_header[1])
    <3>1. pending_header[1] \in HostMsgs
      BY <2>2 DEF Inv, TypeOK
    <3> QED BY <1>2, <2>2, <3>1, CommandHandled
  <2> QED
    BY <2>1, <2>2 DEF BulkOutReadPayload
<1>4. PICK j : Armed(j, Elsewhere, P, ReadHeader) /\ Commit(j)
  BY <1>3 DEF Handled
<1>5. StreamsOK' /\ pending_header' \in Seq(HostMsgs)
  BY <1>1, <1>3 DEF Handled
<1> QED
  BY <1>1, <1>4, <1>5, HeadersDiffer, BulkOutTaken

\* One operation that moves on is still there once.
LEMMA OneMoves ==
  ASSUME NEW A, NEW B, NEW C, NEW D, ExactlyOne(A, B, C, D)
  PROVE  ExactlyOne({}, B \cup A, C, D)
<1>1. CASE A = {}
  <2>1. B \cup A = B
    BY <1>1
  <2> QED BY <1>1, <2>1
<1>2. CASE A # {}
  <2>1. B = {} /\ C = {} /\ D = {}
    BY <1>2 DEF ExactlyOne
  <2>2. B \cup A = A
    BY <2>1
  <2>3. \E x \in A : A = {x}
    BY <1>2, <2>1 DEF ExactlyOne
  <2>4. ExactlyOne({}, A, {}, {})
    BY <2>3 DEF ExactlyOne
  <2> QED BY <2>1, <2>2, <2>4
<1> QED
  BY <1>1, <1>2

\* Handing the queue to the kernel keeps Inv.
LEMMA SubmitKeeps ==
  ASSUME Inv, Submit
  PROVE  Inv'
<1>1. /\ daemon = "running" /\ batch = {} /\ kern' = kern \cup sq
      /\ bulk_in' = bulk_in \o order /\ sq' = {} /\ order' = << >>
      /\ bulk_out_buf' = IF BulkOuts(sq) = {} THEN bulk_out_buf ELSE << >>
      /\ UNCHANGED <<streams, next_id, version, pending_header, buffers, daemon, batch, cq,
                     ep0, usb, faults, events, hostVars>>
  BY DEF Submit, devVars
<1>2. TypeOK'
  <2>1. TypeOK
    BY DEF Inv
  <2>2. HostTypeOK'
    BY <1>1, <2>1 DEF TypeOK, HostTypeOK, hostVars
  <2>3. bulk_in' \in Seq(Slots) /\ order' \in Seq(Slots) /\ bulk_out_buf' \in Seq(Xfers)
    BY <1>1, <2>1 DEF TypeOK
  <2> QED BY <1>1, <2>1, <2>2, <2>3 DEF TypeOK
<1>3. WritesOwnTheirSlot'
  <2>1. Writes(sq') = {} /\ Writes(kern') = Writes(kern) \cup Writes(sq)
    BY <1>1 DEF Writes
  <2>2. WritesOwnTheirSlot
    BY DEF Inv
  <2>3. OneWritePerSlot(kern') /\ OneWritePerSlot(sq')
    BY <2>1, <2>2 DEF WritesOwnTheirSlot, OneWritePerSlot, NoCommonSlot
  <2>4. /\ NoCommonSlot(sq', kern') /\ NoCommonSlot(sq', cq') /\ NoCommonSlot(sq', batch')
        /\ NoCommonSlot(kern', cq') /\ NoCommonSlot(kern', batch')
    BY <1>1, <2>1, <2>2 DEF WritesOwnTheirSlot, NoCommonSlot
  <2>5. Writes(sq') \cup Writes(kern') \cup Writes(cq') \cup Writes(batch')
          = Writes(sq) \cup Writes(kern) \cup Writes(cq) \cup Writes(batch)
    BY <1>1, <2>1
  <2> QED BY <1>1, <2>2, <2>3, <2>4, <2>5 DEF WritesOwnTheirSlot
<1>4. /\ Polls(sq') = {} /\ Polls(kern') = Polls(kern) \cup Polls(sq)
      /\ BulkOuts(sq') = {} /\ BulkOuts(kern') = BulkOuts(kern) \cup BulkOuts(sq)
  BY <1>1 DEF Polls, BulkOuts
<1>5. /\ ExactlyOne(Polls(sq), Polls(kern), Polls(cq), Polls(batch))
      /\ ExactlyOne(BulkOuts(sq), BulkOuts(kern), BulkOuts(cq), BulkOuts(batch))
  BY <1>1 DEF Inv, LoopArmed
<1>6. LoopArmed'
  <2>1. ExactlyOne(Polls(sq'), Polls(kern'), Polls(cq'), Polls(batch'))
    <3>1. ExactlyOne({}, Polls(kern) \cup Polls(sq), Polls(cq), Polls(batch))
      BY <1>5, OneMoves
    <3> QED BY <1>1, <1>4, <3>1
  <2>2. ExactlyOne(BulkOuts(sq'), BulkOuts(kern'), BulkOuts(cq'), BulkOuts(batch'))
    <3>1. ExactlyOne({}, BulkOuts(kern) \cup BulkOuts(sq), BulkOuts(cq), BulkOuts(batch))
      BY <1>5, OneMoves
    <3> QED BY <1>1, <1>4, <3>1
  <2>3. sq' \cup kern' \cup cq' \cup batch' = sq \cup kern \cup cq \cup batch
    BY <1>1
  <2> QED BY <1>1, <2>1, <2>2, <2>3 DEF Inv, LoopArmed
<1>7. SqShape' /\ SqNeverFull'
  BY <1>1 DEF SqShape, NonWrites, SqNeverFull
<1>8. Fed'
  BY <1>1, <1>5 DEF Inv, Fed, ExactlyOne
<1> QED
  BY <1>2, <1>3, <1>6, <1>7, <1>8 DEF Inv

\* Taking a batch of completions keeps Inv.
LEMMA ReapKeeps ==
  ASSUME Inv, Reap
  PROVE  Inv'
<1>1. /\ daemon = "running" /\ batch = {} /\ batch' = cq /\ cq' = {}
      /\ UNCHANGED <<devVars, buffers, sq, order, daemon, kern, bulk_in, bulk_out_buf, ep0,
                     usb, faults, events, hostVars>>
  BY DEF Reap, ioVars, kernVars
<1>2. TypeOK'
  <2>1. TypeOK
    BY DEF Inv
  <2>2. HostTypeOK'
    BY <1>1, <2>1 DEF TypeOK, HostTypeOK, hostVars
  <2> QED BY <1>1, <2>1, <2>2 DEF TypeOK, devVars
<1>3. /\ Writes(cq') = {} /\ Writes(batch) = {} /\ Polls(cq') = {} /\ Polls(batch) = {}
      /\ BulkOuts(cq') = {} /\ BulkOuts(batch) = {}
  BY <1>1 DEF Writes, Polls, BulkOuts
<1>4. WritesOwnTheirSlot'
  <2>1. WritesOwnTheirSlot
    BY DEF Inv
  <2>2. /\ OneWritePerSlot(cq') /\ OneWritePerSlot(batch')
        /\ NoCommonSlot(sq', cq') /\ NoCommonSlot(sq', batch')
        /\ NoCommonSlot(kern', cq') /\ NoCommonSlot(kern', batch') /\ NoCommonSlot(cq', batch')
    BY <1>1, <1>3, <2>1 DEF WritesOwnTheirSlot, OneWritePerSlot, NoCommonSlot
  <2>3. Writes(sq') \cup Writes(kern') \cup Writes(cq') \cup Writes(batch')
          = Writes(sq) \cup Writes(kern) \cup Writes(cq) \cup Writes(batch)
    BY <1>1, <1>3
  <2> QED BY <1>1, <2>1, <2>2, <2>3 DEF WritesOwnTheirSlot
<1>5. LoopArmed'
  <2>0. /\ ExactlyOne(Polls(sq), Polls(kern), Polls(cq), Polls(batch))
        /\ ExactlyOne(BulkOuts(sq), BulkOuts(kern), BulkOuts(cq), BulkOuts(batch))
    BY <1>1 DEF Inv, LoopArmed
  <2>1. ExactlyOne(Polls(sq'), Polls(kern'), Polls(cq'), Polls(batch'))
    BY <1>1, <1>3, <2>0 DEF ExactlyOne
  <2>2. ExactlyOne(BulkOuts(sq'), BulkOuts(kern'), BulkOuts(cq'), BulkOuts(batch'))
    BY <1>1, <1>3, <2>0 DEF ExactlyOne
  <2>3. sq' \cup kern' \cup cq' \cup batch' = sq \cup kern \cup cq \cup batch
    BY <1>1
  <2> QED BY <1>1, <2>1, <2>2, <2>3 DEF Inv, LoopArmed, devVars
<1>6. SqShape' /\ SqNeverFull' /\ Fed'
  BY <1>1, <1>3 DEF Inv, SqShape, SqNeverFull, Fed
<1> QED
  BY <1>2, <1>4, <1>5, <1>6 DEF Inv

-----------------------------------------------------------------------------
(* The steps of the kernel.                                                 *)

\* An operation other than a write moves from the kernel to the completions.
LEMMA Completes ==
  ASSUME Inv, daemon = "running", NEW o \in kern, o.op # "BulkInWrite",
         NEW res \in {"ok", "end", "err"},
         kern' = kern \ {o}, cq' = cq \cup {Cqe(o, res)},
         UNCHANGED <<devVars, ioVars, batch>>
  PROVE  /\ WritesOwnTheirSlot' /\ LoopArmed' /\ SqNeverFull' /\ SqShape'
         /\ cq' \subseteq Cqes
<1> DEFINE c == Cqe(o, res)
<1>1. c.op = o.op /\ c \in Cqes
  <2>1. o \in Ops
    BY DEF Inv, TypeOK
  <2>2. o.op \in OpTypes /\ o.data \in Nat
    BY <2>1, MaxSlotsAssumption DEF Ops, Slots, OpTypes
  <2> QED BY <2>2 DEF Cqe, Cqes
<1> HIDE DEF c
<1>2. cq' = cq \cup {c}
  BY DEF c
<1>3. WritesOwnTheirSlot'
  <2>1. Writes(kern') = Writes(kern) /\ Writes(cq') = Writes(cq)
    BY <1>1, <1>2 DEF Writes
  <2>2. IoOwns(Io, Elsewhere)
    BY InvFacts
  <2>3. Commit(Io) /\ batch' = batch
    BY DEF Commit, Io, ioVars
  <2> QED BY <2>1, <2>2, <2>3, CommitKeeps DEF Inv
<1>4. sq' = sq /\ batch' = batch /\ daemon' = daemon /\ pending_header' = pending_header
  BY DEF ioVars, devVars
<1>5. LoopArmed'
  <2>1. /\ Polls(kern') = Polls(kern) \ {o}
        /\ Polls(cq') = IF o.op = "Ep0Poll" THEN Polls(cq) \cup {c} ELSE Polls(cq)
    BY <1>1, <1>2 DEF Polls
  <2>2. /\ BulkOuts(kern') = BulkOuts(kern) \ {o}
        /\ BulkOuts(cq') = IF o.op \in {"BulkOutReadHeader", "BulkOutReadPayload"}
                           THEN BulkOuts(cq) \cup {c} ELSE BulkOuts(cq)
    BY <1>1, <1>2 DEF BulkOuts
  <2>3. /\ ExactlyOne(Polls(sq), Polls(kern), Polls(cq), Polls(batch))
        /\ ExactlyOne(BulkOuts(sq), BulkOuts(kern), BulkOuts(cq), BulkOuts(batch))
    BY DEF Inv, LoopArmed
  <2>4. ExactlyOne(Polls(sq'), Polls(kern'), Polls(cq'), Polls(batch'))
    <3>1. CASE o.op = "Ep0Poll"
      <4>1. o \in Polls(kern)
        BY <3>1 DEF Polls
      <4>2. Polls(sq) = {} /\ Polls(kern) = {o} /\ Polls(cq) = {} /\ Polls(batch) = {}
        BY <2>3, <4>1 DEF ExactlyOne
      <4> QED BY <1>4, <2>1, <3>1, <4>2 DEF ExactlyOne
    <3>2. CASE o.op # "Ep0Poll"
      <4>1. Polls(kern') = Polls(kern) /\ Polls(cq') = Polls(cq)
        BY <2>1, <3>2 DEF Polls
      <4> QED BY <1>4, <2>3, <4>1
    <3> QED BY <3>1, <3>2
  <2>5. ExactlyOne(BulkOuts(sq'), BulkOuts(kern'), BulkOuts(cq'), BulkOuts(batch'))
    <3>1. CASE o.op \in {"BulkOutReadHeader", "BulkOutReadPayload"}
      <4>1. o \in BulkOuts(kern)
        BY <3>1 DEF BulkOuts
      <4>2. BulkOuts(sq) = {} /\ BulkOuts(kern) = {o} /\ BulkOuts(cq) = {}
              /\ BulkOuts(batch) = {}
        BY <2>3, <4>1 DEF ExactlyOne
      <4> QED BY <1>4, <2>2, <3>1, <4>2 DEF ExactlyOne
    <3>2. CASE o.op \notin {"BulkOutReadHeader", "BulkOutReadPayload"}
      <4>1. BulkOuts(kern') = BulkOuts(kern) /\ BulkOuts(cq') = BulkOuts(cq)
        BY <2>2, <3>2 DEF BulkOuts
      <4> QED BY <1>4, <2>3, <4>1
    <3> QED BY <3>1, <3>2
  <2>6. (\E p \in sq' \cup kern' \cup cq' \cup batch' : p.op = "BulkOutReadPayload")
          <=> (\E p \in sq \cup kern \cup cq \cup batch : p.op = "BulkOutReadPayload")
    BY <1>1, <1>2, <1>4
  <2> QED
    BY <1>4, <2>4, <2>5, <2>6 DEF Inv, LoopArmed
<1> QED
  BY <1>1, <1>2, <1>3, <1>4, <1>5 DEF Inv, SqNeverFull, SqShape, TypeOK

\* The completion of a PTY or socket read keeps Inv.
LEMMA KernelReadKeeps ==
  ASSUME Inv, daemon = "running", NEW o \in kern, NEW res \in {"ok", "end"},
         KernelRead(o, res)
  PROVE  Inv'
<1>1. /\ o.op \in {"PtyRead", "SocketRead"} /\ kern' = kern \ {o}
      /\ cq' = cq \cup {Cqe(o, res)}
      /\ UNCHANGED <<devVars, ioVars, batch, bulk_in, bulk_out_buf, ep0, usb, faults,
                     events, hostVars>>
  BY DEF KernelRead, Reads
<1>2. /\ WritesOwnTheirSlot' /\ LoopArmed' /\ SqNeverFull' /\ SqShape'
      /\ cq' \subseteq Cqes
  BY <1>1, Completes
<1>3. TypeOK'
  <2>1. TypeOK
    BY DEF Inv
  <2>2. HostTypeOK'
    BY <1>1, <2>1 DEF TypeOK, HostTypeOK, hostVars
  <2> QED BY <1>1, <1>2, <2>1, <2>2 DEF TypeOK, devVars, ioVars
<1>4. Fed'
  <2>1. Polls(cq') = Polls(cq) /\ BulkOuts(cq') = BulkOuts(cq)
    BY <1>1 DEF Polls, BulkOuts, Cqe
  <2> QED BY <1>1, <2>1 DEF Inv, Fed
<1> QED
  BY <1>2, <1>3, <1>4 DEF Inv

\* The completion of a bulk-out read keeps Inv.
LEMMA KernelBulkOutKeeps ==
  ASSUME Inv, daemon = "running", NEW o \in kern, KernelBulkOut(o)
  PROVE  Inv'
<1>1. /\ o.op \in {"BulkOutReadHeader", "BulkOutReadPayload"} /\ kern' = kern \ {o}
      /\ cq' = cq \cup {Cqe(o, "ok")} /\ bulk_out # << >>
      /\ bulk_out_buf' = <<Head(bulk_out)>> /\ bulk_out' = Tail(bulk_out)
      /\ UNCHANGED <<devVars, ioVars, batch, bulk_in, ep0, usb, faults, events, host,
                     link, wire, noise>>
  BY DEF KernelBulkOut, BulkOuts
<1>2. /\ WritesOwnTheirSlot' /\ LoopArmed' /\ SqNeverFull' /\ SqShape'
      /\ cq' \subseteq Cqes
  BY <1>1, Completes
<1>3. TypeOK'
  <2>1. TypeOK
    BY DEF Inv
  <2>2. bulk_out \in Seq(Xfers)
    BY <2>1 DEF TypeOK, HostTypeOK
  <2>3. bulk_out' \in Seq(Xfers) /\ bulk_out_buf' \in Seq(Xfers)
    BY <1>1, <2>2
  <2>4. HostTypeOK'
    BY <1>1, <2>1, <2>3 DEF TypeOK, HostTypeOK
  <2> QED BY <1>1, <1>2, <2>1, <2>3, <2>4 DEF TypeOK, devVars, ioVars
<1>4. Fed'
  <2>1. Polls(cq') = Polls(cq)
    BY <1>1 DEF Polls, Cqe
  <2>2. bulk_out_buf' # << >>
    BY <1>1
  <2> QED BY <1>1, <2>1, <2>2 DEF Inv, Fed
<1> QED
  BY <1>2, <1>3, <1>4 DEF Inv

\* A failed bulk-out read keeps Inv.
LEMMA KernelBulkOutFailKeeps ==
  ASSUME Inv, daemon = "running", NEW o \in kern, KernelBulkOutFail(o)
  PROVE  Inv'
<1>1. /\ o.op \in {"BulkOutReadHeader", "BulkOutReadPayload"} /\ kern' = kern \ {o}
      /\ cq' = cq \cup {Cqe(o, "err")}
      /\ UNCHANGED <<devVars, ioVars, batch, bulk_in, bulk_out_buf, ep0, usb, faults,
                     events, hostVars>>
  BY DEF KernelBulkOutFail, BulkOuts
<1>2. /\ WritesOwnTheirSlot' /\ LoopArmed' /\ SqNeverFull' /\ SqShape'
      /\ cq' \subseteq Cqes
  BY <1>1, Completes
<1>3. TypeOK'
  <2>1. TypeOK
    BY DEF Inv
  <2>2. HostTypeOK'
    BY <1>1, <2>1 DEF TypeOK, HostTypeOK, hostVars
  <2> QED BY <1>1, <1>2, <2>1, <2>2 DEF TypeOK, devVars, ioVars
<1>4. Fed'
  <2>1. Polls(cq') = Polls(cq)
    BY <1>1 DEF Polls, Cqe
  <2>2. \A c \in BulkOuts(cq') : c \in BulkOuts(cq) \/ c.res = "err"
    BY <1>1 DEF BulkOuts, Cqe
  <2> QED BY <1>1, <2>1, <2>2 DEF Inv, Fed
<1> QED
  BY <1>2, <1>3, <1>4 DEF Inv

\* The completion of the poll of ep0 keeps Inv.
LEMMA KernelEp0Keeps ==
  ASSUME Inv, daemon = "running", KernelEp0
  PROVE  Inv'
<1> DEFINE o == Ep0Poll
<1>1. /\ o \in kern /\ o.op = "Ep0Poll" /\ kern' = kern \ {o}
      /\ cq' = cq \cup {Cqe(o, "ok")} /\ ep0 # << >>
      /\ UNCHANGED <<devVars, ioVars, batch, bulk_in, bulk_out_buf, ep0, usb, faults,
                     events, hostVars>>
  BY PollIsPoll DEF KernelEp0
<1> HIDE DEF o
<1>2. /\ WritesOwnTheirSlot' /\ LoopArmed' /\ SqNeverFull' /\ SqShape'
      /\ cq' \subseteq Cqes
  BY <1>1, Completes
<1>3. TypeOK'
  <2>1. TypeOK
    BY DEF Inv
  <2>2. HostTypeOK'
    BY <1>1, <2>1 DEF TypeOK, HostTypeOK, hostVars
  <2> QED BY <1>1, <1>2, <2>1, <2>2 DEF TypeOK, devVars, ioVars
<1>4. Fed'
  <2>1. BulkOuts(cq') = BulkOuts(cq)
    BY <1>1 DEF BulkOuts, Cqe
  <2> QED BY <1>1, <2>1 DEF Inv, Fed
<1> QED
  BY <1>2, <1>3, <1>4 DEF Inv

\* A step that leaves the device and its operations alone.
LEMMA RingSame ==
  ASSUME Inv, daemon = "running",
         UNCHANGED <<devVars, ioVars, batch, cq, kern, bulk_in, bulk_out_buf, faults>>,
         ep0' \in Seq({"other", "stop"}), ep0 # << >> => ep0' # << >>,
         usb' \in BOOLEAN, events' \in Nat, HostTypeOK'
  PROVE  Inv'
<1>1. TypeOK'
  BY DEF Inv, TypeOK, devVars, ioVars
<1>2. WritesOwnTheirSlot'
  BY DEF Inv, WritesOwnTheirSlot, ioVars
<1>3. LoopArmed' /\ SqNeverFull'
  BY DEF Inv, LoopArmed, SqNeverFull, devVars, ioVars
<1>4. SqShape' /\ Fed'
  BY DEF Inv, SqShape, Fed, ioVars
<1> QED
  BY <1>1, <1>2, <1>3, <1>4 DEF Inv

\* An event on ep0 keeps Inv.
LEMMA UsbEventKeeps ==
  ASSUME Inv, daemon = "running", UsbEvent
  PROVE  Inv'
<1>1. PICK e \in {"other", "stop"} : ep0' = Append(ep0, e) /\ usb' = (e # "stop")
  BY DEF UsbEvent
<1>2. /\ UNCHANGED <<devVars, ioVars, batch, cq, kern, bulk_in, bulk_out_buf, faults>>
      /\ UNCHANGED hostVars /\ events' = events + 1
  BY DEF UsbEvent
<1>3. TypeOK
  BY DEF Inv
<1>4. ep0' \in Seq({"other", "stop"}) /\ ep0' # << >>
  BY <1>1, <1>3 DEF TypeOK
<1>5. usb' \in BOOLEAN /\ events' \in Nat
  BY <1>1, <1>2, <1>3 DEF TypeOK
<1>6. HostTypeOK'
  BY <1>2, <1>3 DEF TypeOK, HostTypeOK, hostVars
<1> QED
  BY <1>2, <1>4, <1>5, <1>6, RingSame

-----------------------------------------------------------------------------
(* The writes.  f(o) below is what becomes of a write o that stays in the   *)
(* kernel: it keeps its slot.                                               *)

\* The writes of a set G leave the kernel and complete with res; those that
\* stay may lose their link.
LEMMA WritesComplete ==
  ASSUME Inv, daemon = "running", NEW G, G \subseteq Writes(kern), NEW s \in Slots,
         NEW res \in {"ok", "err"},
         kern' = {IF o.after = s THEN [o EXCEPT !.after = 0] ELSE o : o \in kern \ G},
         cq' = cq \cup {Cqe(o, res) : o \in G},
         UNCHANGED <<devVars, ioVars, batch>>
  PROVE  /\ WritesOwnTheirSlot' /\ LoopArmed' /\ SqNeverFull' /\ SqShape'
         /\ kern' \subseteq Ops /\ cq' \subseteq Cqes
         /\ Polls(cq') = Polls(cq) /\ BulkOuts(cq') = BulkOuts(cq)
<1> DEFINE f(o) == IF o.after = s THEN [o EXCEPT !.after = 0] ELSE o
<1>0. s # 0 /\ kern \subseteq Ops /\ Slots \subseteq Nat
  BY MaxSlotsAssumption DEF Slots, Inv, TypeOK
<1>1. \A o \in kern : f(o) \in Ops /\ f(o).op = o.op /\ f(o).data = o.data
                        /\ (o.op # "BulkInWrite" => f(o) = o)
  BY <1>0 DEF Ops
<1>2. kern' = {f(o) : o \in kern \ G}
  OBVIOUS
<1> HIDE DEF f
<1>3. /\ \A p \in kern' : \E o \in kern \ G : p = f(o)
      /\ \A o \in kern \ G : f(o) \in kern'
  BY <1>2
<1>4. kern' \subseteq Ops
  BY <1>1, <1>3
<1>5. \A o \in G : o.op = "BulkInWrite" /\ o.data \in Slots /\ o \in kern
  BY <1>0 DEF Writes, Ops
<1>6. \A o \in G : Cqe(o, res) \in Cqes /\ Cqe(o, res).op = "BulkInWrite"
                     /\ Cqe(o, res).data = o.data
  BY <1>0, <1>5 DEF Cqe, Cqes, OpTypes
<1>7. cq' \subseteq Cqes
  BY <1>6 DEF Inv, TypeOK
<1>8. Polls(cq') = Polls(cq) /\ BulkOuts(cq') = BulkOuts(cq)
  BY <1>6 DEF Polls, BulkOuts
<1>9. Polls(kern') = Polls(kern) /\ BulkOuts(kern') = BulkOuts(kern)
  <2>1. \A o : o.op # "BulkInWrite" => (o \in kern' <=> o \in kern)
    <3> SUFFICES ASSUME NEW o, o.op # "BulkInWrite"
                 PROVE  o \in kern' <=> o \in kern
      OBVIOUS
    <3>1. ASSUME o \in kern' PROVE o \in kern
      <4>1. PICK p \in kern \ G : o = f(p)
        BY <1>3, <3>1
      <4>2. o = p
        BY <1>1, <4>1
      <4> QED BY <4>2
    <3>2. ASSUME o \in kern PROVE o \in kern'
      <4>1. o \in kern \ G /\ f(o) = o
        BY <1>1, <1>5, <3>2
      <4> QED BY <1>3, <4>1
    <3> QED BY <3>1, <3>2
  <2> QED BY <2>1 DEF Polls, BulkOuts
<1>10. sq' = sq /\ batch' = batch /\ daemon' = daemon /\ pending_header' = pending_header
         /\ buffers' = buffers
  BY DEF ioVars, devVars
<1>11. LoopArmed'
  BY <1>8, <1>9, <1>10, ArmedSame DEF Inv
<1>12. SqShape' /\ SqNeverFull'
  BY <1>10 DEF Inv, SqShape, SqNeverFull
<1>13. WritesOwnTheirSlot'
  <2>1. WritesOwnTheirSlot
    BY DEF Inv
  <2>2. \A p \in Writes(kern') : \E o \in Writes(kern) \ G : p = f(o) /\ p.data = o.data
    <3> SUFFICES ASSUME NEW p \in Writes(kern')
                 PROVE  \E o \in Writes(kern) \ G : p = f(o) /\ p.data = o.data
      OBVIOUS
    <3>1. p \in kern' /\ p.op = "BulkInWrite"
      BY DEF Writes
    <3>2. PICK o \in kern \ G : p = f(o)
      BY <1>3, <3>1
    <3>3. o.op = "BulkInWrite" /\ p.data = o.data
      BY <1>1, <3>1, <3>2
    <3>4. o \in Writes(kern) \ G
      BY <3>3 DEF Writes
    <3> QED BY <3>2, <3>3, <3>4
  <2>3. \A o \in Writes(kern) \ G : f(o) \in Writes(kern') /\ f(o).data = o.data
    BY <1>1, <1>3 DEF Writes
  <2>4. \A c \in Writes(cq') : c \in Writes(cq) \/ \E o \in G : c = Cqe(o, res) /\ c.data = o.data
    BY <1>6 DEF Writes
  <2>5. /\ \A c \in Writes(cq) : c \in Writes(cq')
        /\ \A o \in G : Cqe(o, res) \in Writes(cq') /\ Cqe(o, res).data = o.data
    BY <1>6 DEF Writes
  <2>6. OneWritePerSlot(kern')
    <3>1. OneWritePerSlot(kern)
      BY <2>1 DEF WritesOwnTheirSlot
    <3> SUFFICES ASSUME NEW p \in Writes(kern'), NEW q \in Writes(kern'), p.data = q.data
                 PROVE  p = q
      BY DEF OneWritePerSlot
    <3>2. PICK o \in Writes(kern) \ G : p = f(o) /\ p.data = o.data
      BY <2>2
    <3>3. PICK r \in Writes(kern) \ G : q = f(r) /\ q.data = r.data
      BY <2>2
    <3>4. o = r
      BY <3>1, <3>2, <3>3 DEF OneWritePerSlot
    <3> QED BY <3>2, <3>3, <3>4
  <2>7. OneWritePerSlot(cq')
    BY <1>5, <2>1, <2>4 DEF WritesOwnTheirSlot, OneWritePerSlot, NoCommonSlot
  <2>8. NoCommonSlot(kern', cq')
    <3>1. \A o \in Writes(kern) \ G, p \in G : o.data # p.data
      BY <2>1 DEF WritesOwnTheirSlot, OneWritePerSlot
    <3>2. NoCommonSlot(kern, cq)
      BY <2>1 DEF WritesOwnTheirSlot
    <3> SUFFICES ASSUME NEW p \in Writes(kern'), NEW c \in Writes(cq')
                 PROVE  p.data # c.data
      BY DEF NoCommonSlot
    <3>3. PICK o \in Writes(kern) \ G : p.data = o.data
      BY <2>2
    <3>4. CASE c \in Writes(cq)
      BY <3>2, <3>3, <3>4 DEF NoCommonSlot
    <3>5. CASE \E g \in G : c.data = g.data
      BY <3>1, <3>3, <3>5
    <3> QED BY <2>4, <3>4, <3>5
  <2>9. NoCommonSlot(sq', kern') /\ NoCommonSlot(kern', batch')
    <3>1. NoCommonSlot(sq, kern) /\ NoCommonSlot(kern, batch)
      BY <2>1 DEF WritesOwnTheirSlot
    <3>2. \A p \in Writes(kern') : \E o \in Writes(kern) : p.data = o.data
      BY <2>2
    <3> QED BY <1>10, <3>1, <3>2 DEF NoCommonSlot
  <2>10. NoCommonSlot(sq', cq') /\ NoCommonSlot(cq', batch')
    BY <1>10, <2>1, <2>4 DEF WritesOwnTheirSlot, NoCommonSlot
  <2>11. \A o \in Writes(kern') \cup Writes(cq') :
           \E p \in Writes(kern) \cup Writes(cq) : o.data = p.data
    BY <2>2, <2>4
  <2>12. \A p \in Writes(kern) \cup Writes(cq) :
           \E o \in Writes(kern') \cup Writes(cq') : o.data = p.data
    BY <2>3, <2>5
  <2>13. Used(buffers') = {o.data : o \in Writes(sq') \cup Writes(kern')
                                            \cup Writes(cq') \cup Writes(batch')}
    <3> DEFINE A == Writes(sq) \cup Writes(kern) \cup Writes(cq) \cup Writes(batch)
               B == Writes(sq') \cup Writes(kern') \cup Writes(cq') \cup Writes(batch')
    <3>1. \A o \in A : \E p \in B : o.data = p.data
      BY <1>10, <2>12
    <3>2. \A p \in B : \E o \in A : o.data = p.data
      BY <1>10, <2>11
    <3>3. Used(buffers') = {o.data : o \in A}
      BY <1>10, <2>1 DEF WritesOwnTheirSlot
    <3> HIDE DEF A, B
    <3>4. {o.data : o \in A} = {o.data : o \in B}
      BY <3>1, <3>2
    <3> QED BY <3>3, <3>4 DEF B
  <2> QED
    BY <1>10, <2>1, <2>6, <2>7, <2>8, <2>9, <2>10, <2>13 DEF WritesOwnTheirSlot
<1> QED
  BY <1>4, <1>7, <1>8, <1>11, <1>12, <1>13

-----------------------------------------------------------------------------
(* The host keeps its own types.                                            *)

\* What the host makes of a message is typed.
LEMMA ReceivedTyped ==
  ASSUME NEW h \in HostRecords, NEW m \in DevMsgs
  PROVE  Received(h, m) \in HostRecords
<1>1. m.arg0 \in Nat /\ m.payload \in Nat /\ m.fin \in BOOLEAN
  BY DEF DevMsgs
<1>2. /\ [h EXCEPT !.st = "open", !.local = m.arg0] \in HostRecords
      /\ [h EXCEPT !.st = "closed"] \in HostRecords
      /\ [h EXCEPT !.st = "closing"] \in HostRecords
      /\ [h EXCEPT !.unacked = FALSE] \in HostRecords
      /\ [h EXCEPT !.bad = TRUE] \in HostRecords
  BY <1>1 DEF HostRecords
<1> DEFINE x == IF m.fin THEN "ready" ELSE h.mode
<1>3. x \in {"ready", "await", "push", "quit"}
  BY DEF HostRecords
<1> HIDE DEF x
<1>4. [h EXCEPT !.got = m.payload, !.mode = x] \in HostRecords
  BY <1>1, <1>3 DEF HostRecords
<1>5. Received(h, m) \in {h, [h EXCEPT !.st = "open", !.local = m.arg0],
                          [h EXCEPT !.st = "closed"], [h EXCEPT !.st = "closing"],
                          [h EXCEPT !.unacked = FALSE], [h EXCEPT !.bad = TRUE],
                          [h EXCEPT !.got = m.payload, !.mode = x]}
  BY DEF Received, x
<1> QED
  BY <1>2, <1>4, <1>5

\* What the host makes of a transfer is typed.
LEMMA HostReadTyped ==
  ASSUME HostTypeOK, NEW s \in Nat, NEW next \in Nat, NEW m \in DevMsgs,
         HostRead(s, next, m), UNCHANGED <<bulk_out, noise>>
  PROVE  HostTypeOK'
<1>1. wire' \in [expect : Nat, torn : BOOLEAN]
  <2>1. wire \in [expect : Nat, torn : BOOLEAN]
    BY DEF HostTypeOK
  <2>2. /\ [wire EXCEPT !.expect = next] \in [expect : Nat, torn : BOOLEAN]
        /\ [wire EXCEPT !.torn = TRUE] \in [expect : Nat, torn : BOOLEAN]
    BY <2>1
  <2>3. wire' \in {wire, [wire EXCEPT !.expect = next], [wire EXCEPT !.torn = TRUE]}
    BY DEF HostRead
  <2> QED BY <2>1, <2>2, <2>3
<1>2. Deliver(m) \/ UNCHANGED <<host, link>>
  BY DEF HostRead
<1>3. /\ host' \in [Remotes -> HostRecords]
      /\ link' \in {"offline", "connecting", "online"}
  <2>1. CASE UNCHANGED <<host, link>>
    BY <2>1 DEF HostTypeOK
  <2>2. CASE Deliver(m)
    <3>1. \A r \in Remotes : Received(host[r], m) \in HostRecords /\ host[r] \in HostRecords
      BY ReceivedTyped DEF HostTypeOK
    <3> QED BY <2>2, <3>1 DEF Deliver, HostTypeOK
  <2> QED BY <1>2, <2>1, <2>2
<1> QED
  BY <1>1, <1>3 DEF HostTypeOK

\* Recording a transfer keeps the wire typed.
LEMMA RecordTyped ==
  ASSUME NEW h \in HostRecords, NEW mode \in {"ready", "await", "push", "quit"}
  PROVE  /\ [h EXCEPT !.unacked = TRUE, !.sent = @ + 1] \in HostRecords
         /\ [h EXCEPT !.unacked = TRUE, !.sent = @ + 1, !.mode = mode] \in HostRecords
         /\ [h EXCEPT !.acked = @ + 1] \in HostRecords
<1>1. h.sent + 1 \in Nat /\ h.acked + 1 \in Nat
  BY DEF HostRecords
<1> QED
  BY <1>1 DEF HostRecords

\* Two sequences of transfers make one.
LEMMA ConcatTyped ==
  ASSUME NEW S, NEW a \in Seq(S), NEW b \in Seq(S)
  PROVE  a \o b \in Seq(S)
OBVIOUS

\* A message of the host is one or two transfers.
LEMMA SendTyped ==
  ASSUME NEW m \in HostMsgs, NEW hok \in BOOLEAN, NEW pok \in BOOLEAN
  PROVE  Transfers(m, hok, pok) \in Seq(Xfers)
<1>1. /\ [part |-> "header", msg |-> m, ok |-> hok] \in Xfers
      /\ [part |-> "payload", msg |-> m, ok |-> pok] \in Xfers
  BY DEF Xfers
<1> QED
  BY <1>1 DEF Transfers

\* Sending a message keeps what is on bulk-out typed.
LEMMA HostSendTyped ==
  ASSUME HostTypeOK, NEW m \in HostMsgs, HostSend(m)
  PROVE  /\ bulk_out' \in Seq(Xfers)
         /\ wire' \in [expect : Nat, torn : BOOLEAN] /\ noise' \in Nat
<1>1. Transfers(m, TRUE, TRUE) \in Seq(Xfers)
  BY SendTyped
<1>2. bulk_out' = bulk_out \o Transfers(m, TRUE, TRUE) /\ UNCHANGED <<wire, noise>>
  BY DEF HostSend
<1>3. bulk_out' \in Seq(Xfers)
  BY <1>1, <1>2, ConcatTyped DEF HostTypeOK
<1> QED
  BY <1>2, <1>3 DEF HostTypeOK

\* Every action of the host.
LEMMA HostActionTyped ==
  ASSUME HostTypeOK,
         \/ HostConnect
         \/ \E r \in Remotes : \/ \E svc \in Services : HostOpen(r, svc)
                               \/ HostWrite(r) \/ HostAck(r) \/ HostClose(r)
         \/ HostNoise \/ HostRestart
  PROVE  HostTypeOK'
<1>0. /\ Remotes \subseteq Nat /\ Versions \subseteq Nat
      /\ Services \subseteq Kinds \cup {"unknown"} /\ Requests \subseteq SyncRequests
  BY HostAssumption
<1>1. \A cmd \in {"CNXN", "OPEN", "OKAY", "WRTE", "CLSE", "STLS"}, a \in Nat, b \in Nat,
        p \in Payloads : Message(cmd, a, b, p) \in HostMsgs
  BY DEF Message, HostMsgs
<1>2. /\ {"none", "unknown", "bytes", "system"} \subseteq Payloads
      /\ Kinds \subseteq Payloads /\ SyncRequests \subseteq Payloads
  BY DEF Payloads
<1>3. /\ link \in {"offline", "connecting", "online"} /\ noise \in Nat
      /\ bulk_out \in Seq(Xfers)
      /\ \A r \in Remotes : host[r] \in HostRecords /\ host[r].local \in Nat
                              /\ host[r].sent \in Nat /\ host[r].acked \in Nat
  BY DEF HostTypeOK, HostRecords
<1>4. CASE HostConnect
  <2>1. PICK v \in Versions : HostSend(Message("CNXN", v, 0, "system"))
    BY <1>4 DEF HostConnect
  <2>2. Message("CNXN", v, 0, "system") \in HostMsgs
    BY <1>0, <1>1, <1>2
  <2> QED
    BY <1>4, <2>1, <2>2, HostSendTyped DEF HostConnect, HostTypeOK
<1>5. ASSUME NEW r \in Remotes, NEW svc \in Services, HostOpen(r, svc)
      PROVE  HostTypeOK'
  <2>1. Message("OPEN", r, 0, svc) \in HostMsgs
    BY <1>0, <1>1, <1>2
  <2>2. [host[r] EXCEPT !.st = "opening", !.svc = svc] \in HostRecords
    BY <1>0, <1>3 DEF HostRecords
  <2>3. host' = [host EXCEPT ![r] = [host[r] EXCEPT !.st = "opening", !.svc = svc]]
    BY <1>5 DEF HostOpen
  <2> QED
    BY <1>5, <2>1, <2>2, <2>3, HostSendTyped DEF HostOpen, HostTypeOK
<1>6. ASSUME NEW r \in Remotes, HostWrite(r)
      PROVE  HostTypeOK'
  <2>1. CASE /\ HostSend(Message("WRTE", r, host[r].local, "bytes"))
             /\ host' = [host EXCEPT ![r].unacked = TRUE, ![r].sent = @ + 1]
    <3>1. Message("WRTE", r, host[r].local, "bytes") \in HostMsgs
      BY <1>0, <1>1, <1>2, <1>3
    <3>2. [host[r] EXCEPT !.unacked = TRUE, !.sent = @ + 1] \in HostRecords
      BY <1>3, RecordTyped, Zenon
    <3>3. host' = [host EXCEPT ![r] = [host[r] EXCEPT !.unacked = TRUE, !.sent = @ + 1]]
      BY <2>1
    <3>4. /\ bulk_out' \in Seq(Xfers) /\ noise' \in Nat
          /\ wire' \in [expect : Nat, torn : BOOLEAN]
      BY <2>1, <3>1, HostSendTyped
    <3> QED
      BY <1>6, <3>4, <3>2, <3>3 DEF HostWrite, HostTypeOK
  <2>2. ASSUME NEW req \in Requests, HostSend(Message("WRTE", r, host[r].local, req)),
               host' = [host EXCEPT ![r].unacked = TRUE, ![r].sent = @ + 1,
                                    ![r].mode = Mode(req)]
        PROVE  HostTypeOK'
    <3>1. Message("WRTE", r, host[r].local, req) \in HostMsgs
      BY <1>0, <1>1, <1>2, <1>3
    <3>2. Mode(req) \in {"ready", "await", "push", "quit"}
      BY DEF Mode
    <3>3. [host[r] EXCEPT !.unacked = TRUE, !.sent = @ + 1, !.mode = Mode(req)]
            \in HostRecords
      BY <1>3, <3>2, RecordTyped, Zenon
    <3>4. host' = [host EXCEPT ![r] = [host[r] EXCEPT !.unacked = TRUE, !.sent = @ + 1,
                                                      !.mode = Mode(req)]]
      BY <2>2
    <3>5. /\ bulk_out' \in Seq(Xfers) /\ noise' \in Nat
          /\ wire' \in [expect : Nat, torn : BOOLEAN]
      BY <2>2, <3>1, HostSendTyped
    <3> QED
      BY <1>6, <3>5, <3>3, <3>4 DEF HostWrite, HostTypeOK
  <2> QED
    BY <1>6, <2>1, <2>2, Zenon DEF HostWrite
<1>7. ASSUME NEW r \in Remotes, HostAck(r)
      PROVE  HostTypeOK'
  <2>1. Message("OKAY", r, host[r].local, "none") \in HostMsgs
    BY <1>0, <1>1, <1>2, <1>3
  <2>2. [host[r] EXCEPT !.acked = @ + 1] \in HostRecords
    BY <1>3, RecordTyped, Zenon
  <2>3. host' = [host EXCEPT ![r] = [host[r] EXCEPT !.acked = @ + 1]]
    BY <1>7 DEF HostAck
  <2> QED
    BY <1>7, <2>1, <2>2, <2>3, HostSendTyped DEF HostAck, HostTypeOK
<1>8. ASSUME NEW r \in Remotes, HostClose(r)
      PROVE  HostTypeOK'
  <2>1. Message("CLSE", r, host[r].local, "none") \in HostMsgs
    BY <1>0, <1>1, <1>2, <1>3
  <2>2. [host[r] EXCEPT !.st = "closed"] \in HostRecords
    BY <1>3 DEF HostRecords
  <2>3. host' = [host EXCEPT ![r] = [host[r] EXCEPT !.st = "closed"]]
    BY <1>8 DEF HostClose
  <2> QED
    BY <1>8, <2>1, <2>2, <2>3, HostSendTyped DEF HostClose, HostTypeOK
<1>9. CASE HostNoise
  <2>1. /\ Message("OPEN", 0, 0, "unknown") \in HostMsgs
        /\ Message("STLS", 0, 0, "none") \in HostMsgs
    BY <1>1, <1>2
  <2>2. bulk_out' \in Seq(Xfers)
    <3> DEFINE A == Transfers(Message("OPEN", 0, 0, "unknown"), FALSE, TRUE)
               B == Transfers(Message("OPEN", 0, 0, "unknown"), TRUE, FALSE)
               C == Transfers(Message("STLS", 0, 0, "none"), TRUE, TRUE)
    <3>1. A \in Seq(Xfers) /\ B \in Seq(Xfers) /\ C \in Seq(Xfers)
      BY <2>1, SendTyped
    <3>2. bulk_out' = bulk_out \o A \/ bulk_out' = bulk_out \o B \/ bulk_out' = bulk_out \o C
      BY <1>9 DEF HostNoise
    <3> HIDE DEF A, B, C
    <3> QED BY <1>3, <3>1, <3>2, ConcatTyped
  <2> QED
    BY <1>3, <1>9, <2>2 DEF HostNoise, HostTypeOK
<1>10. CASE HostRestart
  <2>1. \A v \in Versions : Message("CNXN", v, 0, "system") \in HostMsgs
    BY <1>0, <1>1, <1>2
  <2>2. PICK v \in Versions :
          bulk_out' = bulk_out \o Transfers(Message("CNXN", v, 0, "system"), TRUE, TRUE)
    BY <1>10 DEF HostRestart
  <2>3. bulk_out' \in Seq(Xfers)
    BY <1>3, <2>1, <2>2, SendTyped, ConcatTyped
  <2>4. NewHost \in HostRecords
    BY DEF NewHost, HostRecords
  <2>5. host' \in [Remotes -> HostRecords]
    <3>1. host' = [r \in Remotes |-> NewHost]
      BY <1>10 DEF HostRestart
    <3> HIDE DEF NewHost, HostRecords
    <3> QED BY <2>4, <3>1
  <2>6. link' = "connecting" /\ noise' = noise + 1 /\ wire' = wire
    BY <1>10 DEF HostRestart
  <2>7. wire \in [expect : Nat, torn : BOOLEAN]
    BY DEF HostTypeOK
  <2> QED
    BY <1>3, <2>3, <2>5, <2>6, <2>7 DEF HostTypeOK
<1> QED
  BY <1>4, <1>5, <1>6, <1>7, <1>8, <1>9, <1>10

-----------------------------------------------------------------------------
(* A write ends, and its effect on the host.                                *)

\* Taking one element out of a queue keeps it typed.
LEMMA RemoveTyped ==
  ASSUME NEW S, NEW q \in Seq(S), NEW i \in DOMAIN q
  PROVE  SubSeq(q, 1, i - 1) \o SubSeq(q, i + 1, Len(q)) \in Seq(S)
<1>1. DOMAIN q = 1..Len(q) /\ Len(q) \in Nat /\ i \in Nat
  OBVIOUS
<1>2. SubSeq(q, 1, i - 1) \in Seq(S)
  <2>1. \A k \in 1..(i - 1) : q[k] \in S
    BY <1>1
  <2> QED BY <1>1, <2>1, SubSeqProperties
<1>3. SubSeq(q, i + 1, Len(q)) \in Seq(S)
  <2>1. \A k \in (i + 1)..Len(q) : q[k] \in S
    BY <1>1
  <2> QED BY <1>1, <2>1, SubSeqProperties
<1> QED
  BY <1>2, <1>3, ConcatTyped

\* A write that reaches the host keeps Inv.
LEMMA KernelWriteKeeps ==
  ASSUME Inv, daemon = "running", NEW i \in DOMAIN bulk_in, KernelWrite(i)
  PROVE  Inv'
<1> DEFINE s == bulk_in[i]
           linked == {o \in kern : o.after = s}
           rest == SubSeq(bulk_in, 1, i - 1) \o SubSeq(bulk_in, i + 1, Len(bulk_in))
           G == OnData(Writes(kern), s)
<1>0. TypeOK
  BY DEF Inv
<1>1. /\ kern' = {IF o.after = s THEN [o EXCEPT !.after = 0] ELSE o : o \in kern \ G}
      /\ cq' = cq \cup {Cqe(o, "ok") : o \in G}
      /\ UNCHANGED <<devVars, ioVars, batch>>
      /\ UNCHANGED <<bulk_out, bulk_out_buf, ep0, usb, faults, events, noise>>
  BY DEF KernelWrite
<1>2. \/ /\ bulk_in' = rest /\ HostRead(s, 0, buffers[s])
      \/ \E p \in linked : /\ bulk_in' = Append(rest, p.data)
                           /\ HostRead(s, p.data, buffers[s])
  BY DEF KernelWrite
<1>3. s \in Slots /\ s \in Nat /\ s # 0
  BY <1>0, MaxSlotsAssumption DEF TypeOK, Slots
<1>4. \A p \in linked : p.data \in Slots /\ p.data \in Nat
  BY <1>0, <1>3, MaxSlotsAssumption DEF TypeOK, Ops, Slots
<1>5. rest \in Seq(Slots)
  BY <1>0, RemoveTyped DEF TypeOK
<1>6. G \subseteq Writes(kern)
  BY DEF OnData
<1> HIDE DEF s, G, rest, linked
<1>7. bulk_in' \in Seq(Slots)
  BY <1>2, <1>4, <1>5
<1>8. HostTypeOK'
  <2>1. buffers[s] \in DevMsgs /\ HostTypeOK
    BY <1>0, <1>3 DEF TypeOK
  <2> QED BY <1>1, <1>2, <1>3, <1>4, <2>1, HostReadTyped
<1>9. /\ WritesOwnTheirSlot' /\ LoopArmed' /\ SqNeverFull' /\ SqShape'
      /\ kern' \subseteq Ops /\ cq' \subseteq Cqes
      /\ Polls(cq') = Polls(cq) /\ BulkOuts(cq') = BulkOuts(cq)
  BY <1>1, <1>3, <1>6, WritesComplete
<1>10. TypeOK'
  BY <1>0, <1>1, <1>7, <1>8, <1>9 DEF TypeOK, devVars, ioVars
<1>11. Fed'
  BY <1>1, <1>9 DEF Inv, Fed
<1> QED
  BY <1>9, <1>10, <1>11 DEF Inv

\* A failed write keeps Inv.
LEMMA KernelWriteFailKeeps ==
  ASSUME Inv, daemon = "running", KernelWriteFail
  PROVE  Inv'
<1> DEFINE s == Head(bulk_in)
           G == {o \in Writes(kern) : s \in {o.data, o.after}}
<1>0. TypeOK
  BY DEF Inv
<1>1. /\ kern' = kern \ G /\ bulk_in # << >>
      /\ cq' = cq \cup {Cqe(o, "err") : o \in G}
      /\ wire' = IF wire.expect = s THEN [wire EXCEPT !.expect = MaxSlots + 1] ELSE wire
      /\ bulk_in' = Tail(bulk_in)
      /\ faults' = IF usb THEN faults + 1 ELSE faults
      /\ UNCHANGED <<devVars, ioVars, batch>>
      /\ UNCHANGED <<bulk_out, bulk_out_buf, ep0, usb, events, noise, host, link>>
  BY DEF KernelWriteFail
<1>2. s \in Slots /\ s # 0 /\ bulk_in' \in Seq(Slots)
  BY <1>0, <1>1, MaxSlotsAssumption DEF TypeOK, Slots
<1>3. G \subseteq Writes(kern)
  OBVIOUS
<1>4. kern' = {IF o.after = s THEN [o EXCEPT !.after = 0] ELSE o : o \in kern \ G}
  <2>1. \A o \in kern \ G : o.after # s
    BY <1>0, <1>2 DEF TypeOK, Ops, Writes
  <2> HIDE DEF G, s
  <2>2. \A o \in kern \ G : o = IF o.after = s THEN [o EXCEPT !.after = 0] ELSE o
    BY <2>1
  <2> QED BY <1>1, <2>2
<1> HIDE DEF s, G
<1>5. /\ WritesOwnTheirSlot' /\ LoopArmed' /\ SqNeverFull' /\ SqShape'
      /\ kern' \subseteq Ops /\ cq' \subseteq Cqes
      /\ Polls(cq') = Polls(cq) /\ BulkOuts(cq') = BulkOuts(cq)
  BY <1>1, <1>2, <1>3, <1>4, WritesComplete
<1>6. HostTypeOK'
  <2>1. wire \in [expect : Nat, torn : BOOLEAN] /\ MaxSlots + 1 \in Nat
    BY <1>0, MaxSlotsAssumption DEF TypeOK, HostTypeOK
  <2>2. [wire EXCEPT !.expect = MaxSlots + 1] \in [expect : Nat, torn : BOOLEAN]
    BY <2>1
  <2>3. wire' \in [expect : Nat, torn : BOOLEAN]
    BY <1>1, <2>1, <2>2
  <2> QED BY <1>0, <1>1, <2>3 DEF TypeOK, HostTypeOK
<1>7. faults' \in Nat
  BY <1>0, <1>1 DEF TypeOK
<1>8. TypeOK'
  BY <1>0, <1>1, <1>2, <1>5, <1>6, <1>7 DEF TypeOK, devVars, ioVars
<1>9. Fed'
  BY <1>1, <1>5 DEF Inv, Fed
<1> QED
  BY <1>5, <1>8, <1>9 DEF Inv

-----------------------------------------------------------------------------
(* Together.                                                                *)

\* Inv holds at the start.
LEMMA InitInv ==
  ASSUME Init
  PROVE  Inv
<1>1. TypeOK
  <2>1. sq \subseteq Ops
    BY PollIsPoll DEF Init, InitDev, ReadHeader, Op, Ops, OpTypes
  <2>2. buffers \in [Slots -> DevMsgs]
    BY DEF Init, InitDev, NoBuffers, NoMsg, DevMsgs
  <2>3. streams \in [DOMAIN streams -> StreamRecords] /\ DOMAIN streams = {}
    BY DEF Init, InitDev, NoStreams
  <2>4. HostTypeOK
    <3>1. NewHost \in HostRecords
      BY DEF NewHost, HostRecords
    <3> QED BY <3>1 DEF Init, InitHost, HostTypeOK
  <2> QED
    BY <2>1, <2>2, <2>3, <2>4 DEF Init, InitDev, InitKern, TypeOK
<1>2. /\ sq = {Ep0Poll, ReadHeader} /\ kern = {} /\ cq = {} /\ batch = {}
      /\ daemon = "running" /\ pending_header = << >> /\ buffers = NoBuffers
  BY DEF Init, InitDev, InitKern
<1>3. Ep0Poll.op = "Ep0Poll" /\ ReadHeader.op = "BulkOutReadHeader"
  BY PollIsPoll, HeadersDiffer
<1>4. WritesOwnTheirSlot
  <2>1. Writes(sq) = {} /\ Writes(kern) = {} /\ Writes(cq) = {} /\ Writes(batch) = {}
    BY <1>2, <1>3 DEF Writes
  <2>2. Used(buffers) = {}
    BY <1>2 DEF Used, NoBuffers, NoMsg
  <2> QED BY <2>1, <2>2 DEF WritesOwnTheirSlot, OneWritePerSlot, NoCommonSlot
<1>5. /\ Polls(sq) = {Ep0Poll} /\ BulkOuts(sq) = {ReadHeader}
      /\ Polls(kern) = {} /\ Polls(cq) = {} /\ Polls(batch) = {}
      /\ BulkOuts(kern) = {} /\ BulkOuts(cq) = {} /\ BulkOuts(batch) = {}
  BY <1>2, <1>3 DEF Polls, BulkOuts
<1>6. LoopArmed
  <2>1. /\ ExactlyOne(Polls(sq), Polls(kern), Polls(cq), Polls(batch))
        /\ ExactlyOne(BulkOuts(sq), BulkOuts(kern), BulkOuts(cq), BulkOuts(batch))
    BY <1>5 DEF ExactlyOne
  <2>2. ~ \E o \in sq \cup kern \cup cq \cup batch : o.op = "BulkOutReadPayload"
    BY <1>2, <1>3
  <2> QED BY <1>2, <2>1, <2>2 DEF LoopArmed
<1>7. SqShape
  <2>1. NonWrites(sq) = {Ep0Poll, ReadHeader}
    BY <1>2, <1>3 DEF NonWrites
  <2> QED BY <1>5, <2>1 DEF SqShape, Few
<1> QED
  BY <1>1, <1>2, <1>4, <1>5, <1>6, <1>7 DEF Inv, SqNeverFull, Fed

\* Every step keeps Inv.
LEMMA NextInv ==
  ASSUME Inv, Next
  PROVE  Inv'
<1>1. CASE Device
  BY <1>1, SubmitKeeps, ReapKeeps, ReadEndKeeps, ReadDataKeeps, WriteDoneKeeps,
     OpFailedKeeps, Ep0EventKeeps, BulkOutReadHeaderKeeps, BulkOutReadPayloadKeeps
     DEF Device
<1>2. CASE Kernel
  <2>1. daemon = "running"
    BY <1>2 DEF Kernel
  <2> QED
    BY <1>2, <2>1, KernelWriteKeeps, KernelWriteFailKeeps, KernelBulkOutKeeps,
       KernelBulkOutFailKeeps, KernelEp0Keeps, KernelReadKeeps, UsbEventKeeps
       DEF Kernel, Transfer
<1>3. CASE Host
  <2>1. daemon = "running" /\ HostTypeOK /\ ep0 \in Seq({"other", "stop"})
          /\ usb \in BOOLEAN /\ events \in Nat
    BY <1>3 DEF Host, HostStep, Inv, TypeOK
  <2>2. HostTypeOK'
    BY <1>3, <2>1, HostActionTyped DEF Host, HostStep
  <2>3. UNCHANGED <<devVars, ioVars, batch, cq, kern, bulk_in, bulk_out_buf, faults,
                    ep0, usb, events>>
    BY <1>3 DEF Host, HostStep, kernVars
  <2> QED
    BY <2>1, <2>2, <2>3, RingSame
<1> QED
  BY <1>1, <1>2, <1>3 DEF Next

\* Stuttering keeps Inv.
LEMMA StutterInv ==
  ASSUME Inv, UNCHANGED vars
  PROVE  Inv'
<1> USE DEF vars, devVars, ioVars, kernVars, hostVars
<1>1. TypeOK'
  BY DEF Inv, TypeOK, HostTypeOK
<1>2. WritesOwnTheirSlot'
  BY DEF Inv, WritesOwnTheirSlot
<1>3. LoopArmed' /\ SqNeverFull'
  BY DEF Inv, LoopArmed, SqNeverFull
<1>4. daemon' = "running" => SqShape' /\ Fed'
  BY DEF Inv, SqShape, Fed
<1> QED
  BY <1>1, <1>2, <1>3, <1>4 DEF Inv

\* The inductive invariant holds in every state of run().
THEOREM Invariance == Spec => []Inv
<1>1. Init => Inv
  BY InitInv
<1>2. Inv /\ [Next]_vars => Inv'
  BY NextInv, StutterInv
<1> QED
  BY <1>1, <1>2, PTL DEF Spec

\* Every variable of the session keeps its type and stream ids are below next_id.
THEOREM TypeCorrect == Spec => []TypeOK
<1>1. Inv => TypeOK
  BY DEF Inv
<1> QED
  BY <1>1, Invariance, PTL

\* submit_message, the kernel and the BulkInWrite completions together never let
\* two writes share a slot of the pool, and never leak one: whatever the number of
\* slots, streams and failing writes, a slot is used exactly while its write is on
\* its way.
THEOREM SlotsAreOwned == Spec => []WritesOwnTheirSlot
<1>1. Inv => WritesOwnTheirSlot
  BY DEF Inv
<1> QED
  BY <1>1, Invariance, PTL

\* Every path through run() and handle_command re-arms the bulk-out read once and
\* the poll of ep0 once, and reads a payload exactly when a header is pending.
THEOREM LoopStaysArmed == Spec => []LoopArmed
<1>1. Inv => LoopArmed
  BY DEF Inv
<1> QED
  BY <1>1, Invariance, PTL

\* With three entries more than there are write slots the submission queue cannot
\* overflow between two calls of submit_and_wait, so none of the expect("SQ full")
\* of src/src/main.rs fails: the code has 32 entries and 8 slots.
THEOREM SqCannotOverflow == Spec => []SqNeverFull
<1>1. Inv => SqNeverFull
  BY DEF Inv
<1> QED
  BY <1>1, Invariance, PTL

-----------------------------------------------------------------------------
(***************************************************************************)
(* Sessions: what the device and the host of AdbConnection know of         *)
(* each other's streams, as long as the host is not started anew: an id    *)
(* one of them uses is either the other's end of the same stream or that   *)
(* of a stream that is gone, so the assertions of handle_command hold.     *)
(***************************************************************************)

-----------------------------------------------------------------------------
(* The inductive invariant.                                                 *)

Opened(r) == r \in Remotes /\ host[r].st # "idle"

\* If l is the id of an open stream it is the one the host calls r.
Knows(r, l) == /\ l < next_id
               /\ l \in DOMAIN streams => streams[l].remote_id = r

\* What is true of a message of the host until the device has handled it.
MsgAgrees(m) ==
  /\ m.cmd = "OPEN" /\ m.payload \in Kinds =>
       Opened(m.arg0) /\ host[m.arg0].svc = m.payload
  /\ m.cmd \in {"OKAY", "WRTE", "CLSE"} => Opened(m.arg0) /\ Knows(m.arg0, m.arg1)
  /\ m.cmd \in {"OKAY", "WRTE"} => host[m.arg0].svc # "reboot"
  /\ m.cmd \in {"CNXN", "OPEN", "WRTE"} => m.payload # "none"
  /\ m.cmd = "OKAY" => m.payload = "none"
  /\ m.cmd = "WRTE" => m.payload \in Requests \cup {"bytes"}

\* What is true of a message of the device while it has a slot.
AnswerAgrees(m) ==
  /\ m.cmd = "OKAY" /\ m.arg1 \in Remotes => Knows(m.arg1, m.arg0)
  /\ m.cmd = "WRTE" => Opened(m.arg1) /\ host[m.arg1].svc # "reboot"

MsgsAgree == /\ \A i \in 1..Len(bulk_out) : MsgAgrees(bulk_out[i].msg)
             /\ \A i \in 1..Len(bulk_out_buf) : MsgAgrees(bulk_out_buf[i].msg)
             /\ \A i \in 1..Len(pending_header) : MsgAgrees(pending_header[i])

AnswersAgree == \A s \in Slots : AnswerAgrees(buffers[s])

StreamsAgree == \A l \in DOMAIN streams :
                  LET r == streams[l].remote_id
                  IN Opened(r) /\ streams[l].service = host[r].svc

HostsAgree == \A r \in Remotes :
                /\ Knows(r, host[r].local)
                /\ host[r].got > 0 => Opened(r) /\ host[r].svc # "reboot"

\* The panics of handle_command and of the arms it calls; the one over a
\* size if the host asks for no such file.
Refuted == {"unreachable", "payload expected", "CLSE remote_id mismatch"}
             \cup {x \in {"File too large for 32-bits"} : "stathuge" \notin Requests}

\* No assertion that the device makes of the host's messages fails.
AssertionsHold == daemon \notin Refuted

Agree == MsgsAgree /\ AnswersAgree /\ StreamsAgree /\ HostsAgree /\ AssertionsHold

-----------------------------------------------------------------------------
(* Handing messages of a set G to the ring leaves only messages of G in the *)
(* slots.                                                                   *)

Ios(G) == [buffers : [Slots -> G], sq : SUBSET Ops, order : Seq(Slots),
           daemon : Daemons \ Refuted]

\* A larger set of messages allows more.
LEMMA IosMonotone ==
  ASSUME NEW G, NEW H, G \subseteq H, NEW io \in Ios(G)
  PROVE  io \in Ios(H)
BY DEF Ios

\* A panic that is not one of the refuted ones.
LEMMA PanicIn ==
  ASSUME NEW G, NEW io \in Ios(G), NEW why \in Daemons \ Refuted
  PROVE  Panic(io, why) \in Ios(G)
<1>1. [io EXCEPT !.daemon = why] \in Ios(G)
  BY DEF Ios
<1> QED
  BY <1>1 DEF Panic

\* Pushing an entry leaves the slots alone.
LEMMA PushIn ==
  ASSUME NEW G, NEW io \in Ios(G), NEW o \in Ops
  PROVE  Push(io, o) \in Ios(G)
<1>1. [io EXCEPT !.sq = io.sq \cup {o}] \in Ios(G)
  BY DEF Ios
<1>2. "SQ full" \in Daemons \ Refuted
  BY DEF Daemons, Panics, Refuted
<1>3. Panic(io, "SQ full") \in Ios(G)
  BY <1>2, PanicIn
<1> QED
  BY <1>1, <1>3 DEF Push

\* One transfer of a message of G.
LEMMA SubmitPartIn ==
  ASSUME NEW G, NEW io \in Ios(G), NEW m \in G, NEW after \in {0} \cup Slots
  PROVE  SubmitPart(io, m, after) \in Ios(G)
<1> DEFINE s == FirstFree(io.buffers)
           io1 == [io EXCEPT !.buffers = Alloc(@, s, m),
                             !.order = IF after = 0 THEN Append(@, s) ELSE @]
<1>1. CASE ~HasFree(io.buffers)
  <2>1. "all write slots in use" \in Daemons \ Refuted
    BY DEF Daemons, Panics, Refuted
  <2>2. Panic(io, "all write slots in use") \in Ios(G)
    BY <2>1, PanicIn
  <2> QED BY <1>1, <2>2 DEF SubmitPart
<1>2. CASE HasFree(io.buffers)
  <2>1. s \in Slots
    BY <1>2, FirstFreeIsFree
  <2>2. Op("BulkInWrite", s, after) \in Ops
    BY <2>1 DEF Op, Ops
  <2>4. SubmitPart(io, m, after) = Push(io1, Op("BulkInWrite", s, after))
    BY <1>2, Zenon DEF SubmitPart
  <2> HIDE DEF s
  <2>3. io1 \in Ios(G)
    <3> DEFINE q == IF after = 0 THEN Append(io.order, s) ELSE io.order
               b == [io.buffers EXCEPT ![s] = m]
    <3>1. q \in Seq(Slots)
      BY <2>1 DEF Ios
    <3>2. b \in [Slots -> G]
      BY <2>1 DEF Ios
    <3>3. io1 = [io EXCEPT !.buffers = b, !.order = q]
      BY DEF Alloc
    <3> HIDE DEF q, b, io1
    <3> QED BY <3>1, <3>2, <3>3 DEF Ios
  <2> HIDE DEF io1
  <2> QED BY <2>2, <2>3, <2>4, PushIn
<1> QED
  BY <1>1, <1>2

\* submit_message.
LEMMA SubmitMessageIn ==
  ASSUME NEW G, NEW io \in Ios(G), NEW m \in G
  PROVE  SubmitMessage(io, m) \in Ios(G)
<1>1. SubmitPart(io, m, 0) \in Ios(G)
  BY SubmitPartIn
<1>2. HasFree(io.buffers) => FirstFree(io.buffers) \in {0} \cup Slots
  BY FirstFreeIsFree
<1> QED
  BY <1>1, <1>2, SubmitPartIn DEF SubmitMessage

\* maybe_submit_pty_read, maybe_submit_socket_read.
LEMMA SubmitReadIn ==
  ASSUME NEW G, NEW io \in Ios(G), NEW l \in Nat, NEW s
  PROVE  MaybeSubmitRead(io, l, s) \in Ios(G)
<1>1. StreamRead(s.service, l) \in Ops
  BY DEF StreamRead, Op, Ops, OpTypes
<1> QED
  BY <1>1, PushIn DEF MaybeSubmitRead

\* Every handler ends with the next read.
LEMMA FinishIn ==
  ASSUME NEW G, NEW io \in Ios(G), Finish(io)
  PROVE  \E j \in Ios(G) : Commit(j)
<1>1. ReadHeader \in Ops
  BY DEF ReadHeader, Op, Ops, OpTypes
<1> QED
  BY <1>1, PushIn DEF Finish

-----------------------------------------------------------------------------
(* What is agreed stays agreed: streams come and go, but no id changes its  *)
(* meaning.                                                                 *)

Grows ==
  /\ next_id \in Nat /\ next_id' \in Nat /\ next_id <= next_id'
  /\ \A l \in DOMAIN streams' :
       \/ /\ l \in DOMAIN streams
          /\ streams'[l].remote_id = streams[l].remote_id
          /\ streams'[l].service = streams[l].service
       \/ ~(l < next_id)

HostGrows ==
  \A r \in Remotes : host[r].st # "idle" =>
    host'[r].st # "idle" /\ host'[r].svc = host[r].svc

\* What an open stream is known by stays while next_id grows.
LEMMA KnowsStays ==
  ASSUME Grows, NEW r, NEW l \in Nat, Knows(r, l)
  PROVE  Knows(r, l)'
BY DEF Grows, Knows

\* A stream that was opened stays one that was.
LEMMA OpenedStays ==
  ASSUME HostGrows, NEW r, Opened(r)
  PROVE  Opened(r)' /\ host'[r].svc = host[r].svc
BY DEF HostGrows, Opened

\* A message of the host that agrees still does after the step.
LEMMA MsgStays ==
  ASSUME Grows, HostGrows, NEW m \in HostMsgs, MsgAgrees(m)
  PROVE  MsgAgrees(m)'
<1>1. m.arg1 \in Nat
  BY DEF HostMsgs
<1>2. /\ Opened(m.arg0) => Opened(m.arg0)' /\ host'[m.arg0].svc = host[m.arg0].svc
      /\ Knows(m.arg0, m.arg1) => Knows(m.arg0, m.arg1)'
  BY <1>1, KnowsStays, OpenedStays
<1> QED
  BY <1>2 DEF MsgAgrees

Good == {m \in DevMsgs : AnswerAgrees(m)}

\* A message of the device that agrees still does after the step.
LEMMA AnswerStays ==
  ASSUME Grows, HostGrows
  PROVE  Good \subseteq Good'
<1> SUFFICES ASSUME NEW m \in DevMsgs, AnswerAgrees(m)
             PROVE  AnswerAgrees(m)'
  BY DEF Good
<1>1. m.arg0 \in Nat
  BY DEF DevMsgs
<1>2. /\ Opened(m.arg1) => Opened(m.arg1)' /\ host'[m.arg1].svc = host[m.arg1].svc
      /\ Knows(m.arg1, m.arg0) => Knows(m.arg1, m.arg0)'
  BY <1>1, KnowsStays, OpenedStays
<1> QED
  BY <1>2 DEF AnswerAgrees

-----------------------------------------------------------------------------
(* Each command leaves device and host in agreement.                        *)

\* What is true when a command has been handled.
Agreed == Grows /\ StreamsAgree' /\ \E j \in Ios(Good') : Commit(j)

\* The hypotheses a handler starts from.
Starts(io) == StreamsOK /\ StreamsAgree /\ io \in Ios(Good) /\ host' = host

\* A host that does not change keeps what is known of it.
LEMMA HostSame ==
  ASSUME host' = host
  PROVE  HostGrows
BY DEF HostGrows

\* A stream keeps its remote_id and service when its entry is rewritten.
SameStream(s, t) == s.remote_id = t.remote_id /\ s.service = t.service

\* A table that does not change still agrees.
LEMMA TableSame ==
  ASSUME NEW io, Starts(io), UNCHANGED <<streams, next_id>>
  PROVE  Grows /\ StreamsAgree' /\ io \in Ios(Good')
<1>1. Grows
  BY DEF Starts, StreamsOK, Grows
<1>2. StreamsAgree'
  BY DEF Starts, StreamsAgree, Opened
<1> QED
  BY <1>1, <1>2, HostSame, AnswerStays, IosMonotone DEF Starts

\* A table from which a stream is removed still agrees.
LEMMA TableCloses ==
  ASSUME NEW io, Starts(io), NEW l, streams' = Close(streams, l), next_id' = next_id
  PROVE  Grows /\ StreamsAgree' /\ io \in Ios(Good')
<1>1. Grows
  BY DEF Starts, StreamsOK, Grows, Close
<1>2. StreamsAgree'
  BY DEF Starts, StreamsAgree, Opened, Close
<1> QED
  BY <1>1, <1>2, HostSame, AnswerStays, IosMonotone DEF Starts

\* A table still agrees when a stream keeps its service and its peer.
LEMMA TableUpdates ==
  ASSUME NEW io, Starts(io), NEW l \in DOMAIN streams, NEW t, SameStream(streams[l], t),
         streams' = [streams EXCEPT ![l] = t], next_id' = next_id
  PROVE  Grows /\ StreamsAgree' /\ io \in Ios(Good')
<1>0. /\ DOMAIN streams' = DOMAIN streams
      /\ \A k \in DOMAIN streams : SameStream(streams[k], streams'[k])
  BY DEF Starts, StreamsOK, SameStream
<1>1. Grows
  BY <1>0 DEF Starts, StreamsOK, Grows, SameStream
<1>2. StreamsAgree'
  BY <1>0 DEF Starts, StreamsAgree, Opened, SameStream
<1> QED
  BY <1>1, <1>2, HostSame, AnswerStays, IosMonotone DEF Starts

\* The messages of the handlers.
LEMMA OkayIsGood ==
  ASSUME NEW l \in Nat, NEW r \in Nat, Knows(r, l)'
  PROVE  Okay(l, r) \in Good'
<1>1. Okay(l, r) \in DevMsgs
  BY MessagesTyped
<1> QED
  BY <1>1 DEF Good, AnswerAgrees, Okay, DevMsg

\* The CLSE of an open stream agrees.
LEMMA ClseIsGood ==
  ASSUME NEW l \in Nat, NEW r \in Nat
  PROVE  Clse(l, r) \in Good'
<1>1. Clse(l, r) \in DevMsgs
  BY MessagesTyped
<1> QED
  BY <1>1 DEF Good, AnswerAgrees, Clse, DevMsg

\* A WRTE of an open stream agrees.
LEMMA WrteIsGood ==
  ASSUME NEW l \in Nat, NEW r \in Nat, Opened(r), host[r].svc # "reboot", host' = host,
         NEW n \in Nat, NEW fin \in BOOLEAN
  PROVE  DevMsg("WRTE", l, r, n, fin) \in Good'
<1>1. DevMsg("WRTE", l, r, n, fin) \in DevMsgs
  BY MessagesTyped
<1>2. AnswerAgrees(DevMsg("WRTE", l, r, n, fin))'
  BY DEF AnswerAgrees, DevMsg, Opened
<1> QED
  BY <1>1, <1>2 DEF Good

\* handle_cnxn keeps the two ends in agreement.
LEMMA CnxnAgrees ==
  ASSUME NEW io, Starts(io), NEW m, HandleCnxn(io, m)
  PROVE  Agreed
<1>1. Grows /\ StreamsAgree' /\ io \in Ios(Good')
  BY TableSame DEF HandleCnxn
<1> DEFINE c == DevMsg("CNXN", 0, 0, 1, FALSE)
<1>2. c \in Good'
  BY DEF Good, DevMsg, DevMsgs, AnswerAgrees
<1>3. Finish(SubmitMessage(io, c))
  BY DEF HandleCnxn
<1> HIDE DEF c
<1>4. SubmitMessage(io, c) \in Ios(Good')
  BY <1>1, <1>2, SubmitMessageIn
<1> QED
  BY <1>1, <1>3, <1>4, FinishIn DEF Agreed

\* handle_open keeps the two ends in agreement.
LEMMA OpenAgrees ==
  ASSUME NEW io, Starts(io), NEW m \in HostMsgs, MsgAgrees(m), HandleOpen(io, m)
  PROVE  Agreed
<1>0. m.arg0 \in Nat /\ next_id \in Nat /\ m.cmd = "OPEN"
  BY DEF HostMsgs, Starts, StreamsOK, HandleOpen
<1>1. PICK fails \in OsFails :
        IF m.payload \notin Kinds \/ (fails /\ m.payload \in {"shell", "forward"})
        THEN /\ Finish(Refuse(io, m.arg0))
             /\ UNCHANGED <<streams, next_id>>
        ELSE LET s == NewStream(m.arg0, m.payload)
                 io1 == SubmitMessage(io, Okay(next_id, m.arg0))
             IN /\ streams' = Insert(streams, next_id, s)
                /\ next_id' = NextId(next_id)
                /\ Finish(IF s.service \in {"shell", "forward"}
                          THEN MaybeSubmitRead(io1, next_id, s) ELSE io1)
  BY DEF HandleOpen
<1>2. CASE m.payload \notin Kinds \/ (fails /\ m.payload \in {"shell", "forward"})
  <2>1. Grows /\ StreamsAgree' /\ io \in Ios(Good')
    BY <1>1, <1>2, TableSame
  <2>2. Clse(0, m.arg0) \in Good'
    BY <1>0, ClseIsGood
  <2>3. Refuse(io, m.arg0) \in Ios(Good')
    BY <2>1, <2>2, SubmitMessageIn DEF Refuse
  <2> QED
    BY <1>1, <1>2, <2>1, <2>3, FinishIn DEF Agreed
<1>3. CASE ~(m.payload \notin Kinds \/ (fails /\ m.payload \in {"shell", "forward"}))
  <2> DEFINE s == NewStream(m.arg0, m.payload)
             io1 == SubmitMessage(io, Okay(next_id, m.arg0))
             io2 == IF s.service \in {"shell", "forward"}
                    THEN MaybeSubmitRead(io1, next_id, s) ELSE io1
  <2>1. /\ streams' = Insert(streams, next_id, s) /\ next_id' = next_id + 1
        /\ Finish(io2)
    BY <1>1, <1>3 DEF NextId
  <2>2. s.remote_id = m.arg0 /\ s.service = m.payload
    BY DEF NewStream
  <2> HIDE DEF s
  <2>3. Grows
    BY <1>0, <2>1 DEF Grows, Insert
  <2>4. StreamsAgree'
    <3>1. Opened(m.arg0) /\ host[m.arg0].svc = m.payload
      BY <1>0, <1>3 DEF MsgAgrees
    <3> QED
      BY <2>1, <2>2, <3>1 DEF Starts, StreamsAgree, Opened, Insert
  <2>5. io \in Ios(Good')
    BY <2>3, HostSame, AnswerStays, IosMonotone DEF Starts
  <2>6. Okay(next_id, m.arg0) \in Good'
    <3>1. PICK id : id = next_id
      OBVIOUS
    <3>2. Knows(m.arg0, id)'
      BY <1>0, <2>1, <2>2, <3>1 DEF Knows, Insert
    <3> QED BY <1>0, <3>1, <3>2, OkayIsGood
  <2>7. io1 \in Ios(Good')
    BY <2>5, <2>6, SubmitMessageIn
  <2> HIDE DEF io1
  <2>8. io2 \in Ios(Good')
    BY <1>0, <2>7, SubmitReadIn
  <2> QED
    BY <2>1, <2>3, <2>4, <2>8, FinishIn DEF Agreed
<1> QED
  BY <1>2, <1>3

\* The next frame of a sync answer, to a host that knows the stream.
LEMMA FrameIn ==
  ASSUME NEW io \in Ios(Good'), NEW l \in Nat, NEW s, NEW t \in StreamRecords,
         Opened(t.remote_id), host[t.remote_id].svc # "reboot", host' = host
  PROVE  SubmitFrame(io, l, s, t) \in Ios(Good')
<1>1. t.remote_id \in Nat /\ t.tx \in Nat
  BY DEF StreamRecords
<1> DEFINE f == t.sync # "Sending"
           m == DevMsg("WRTE", l, t.remote_id, t.tx, f)
<1>2. f \in BOOLEAN
  OBVIOUS
<1> HIDE DEF f
<1>3. m \in Good'
  BY <1>1, <1>2, WrteIsGood
<1> HIDE DEF m
<1>4. SubmitMessage(io, m) \in Ios(Good')
  BY <1>3, SubmitMessageIn
<1> QED
  BY <1>4 DEF SubmitFrame, m, f

\* The next frame of a pull changes neither service nor peer, nor whether the
\* peer has closed, and it is one frame.
LEMMA ContinueSyncSame ==
  ASSUME NEW s \in StreamRecords, NEW more
  PROVE  /\ SameStream(s, ContinueSync(s, more))
         /\ ContinueSync(s, more).remote_closed = s.remote_closed
         /\ ContinueSync(s, more).tx \in {s.tx, s.tx + 1}
<1> DEFINE x == IF more THEN "Sending" ELSE "Sent"
<1>1. ContinueSync(s, more) \in
        {s, [s EXCEPT !.sync = "Idle"],
         [s EXCEPT !.waiting_for_okay = TRUE, !.tx = @ + 1, !.sync = x]}
  BY DEF ContinueSync
<1> HIDE DEF x
<1>2. \A n : LET t == [s EXCEPT !.waiting_for_okay = TRUE, !.tx = n, !.sync = x]
             IN SameStream(s, t) /\ t.remote_closed = s.remote_closed /\ t.tx = n
  BY DEF SameStream, StreamRecords
<1>3. /\ SameStream(s, [s EXCEPT !.sync = "Idle"]) /\ SameStream(s, s)
      /\ [s EXCEPT !.sync = "Idle"].remote_closed = s.remote_closed
      /\ [s EXCEPT !.sync = "Idle"].tx = s.tx
  BY DEF SameStream, StreamRecords
<1> QED
  BY <1>1, <1>2, <1>3

\* What the device knows of the stream a message is about.
LEMMA StreamFacts ==
  ASSUME NEW io, Starts(io), NEW m \in HostMsgs, MsgAgrees(m),
         m.cmd \in {"OKAY", "WRTE", "CLSE"}, StreamOf(m) \in DOMAIN streams
  PROVE  LET s == streams[StreamOf(m)]
         IN /\ s \in StreamRecords /\ s.remote_id = m.arg0 /\ s.service = host[m.arg0].svc
            /\ Opened(m.arg0)
BY DEF Starts, StreamsOK, MsgAgrees, StreamOf, Knows, StreamsAgree

\* handle_okay keeps the two ends in agreement.
LEMMA OkayAgrees ==
  ASSUME NEW io, Starts(io), NEW m \in HostMsgs, MsgAgrees(m), HandleOkay(io, m)
  PROVE  Agreed
<1> DEFINE l == StreamOf(m)
<1>0. l \in Nat /\ m.cmd = "OKAY" /\ next_id' = next_id
  BY DEF StreamOf, HostMsgs, HandleOkay
<1>1. CASE l \notin DOMAIN streams
  <2>1. Finish(io) /\ UNCHANGED <<streams, next_id>>
    BY <1>1 DEF HandleOkay
  <2> QED
    BY <2>1, TableSame, FinishIn DEF Agreed
<1>2. CASE l \in DOMAIN streams
  <2> DEFINE s == [streams[l] EXCEPT !.waiting_for_okay = FALSE]
  <2>1. PICK more \in MoreFrames(s) :
          LET t == IF s.service = "sync" THEN ContinueSync(s, more) ELSE s
          IN /\ streams' = [streams EXCEPT ![l] = t]
             /\ Finish(CASE s.service = "sync" -> SubmitFrame(io, l, s, t)
                         [] s.service = "reboot" -> Panic(io, "unreachable")
                         [] OTHER -> MaybeSubmitRead(io, l, s))
    BY <1>2 DEF HandleOkay
  <2>2. /\ streams[l] \in StreamRecords /\ streams[l].remote_id = m.arg0
        /\ streams[l].service = host[m.arg0].svc /\ Opened(m.arg0)
        /\ host[m.arg0].svc # "reboot"
    BY <1>0, <1>2, StreamFacts DEF MsgAgrees
  <2>3. s \in StreamRecords /\ SameStream(streams[l], s)
    BY <2>2 DEF StreamRecords, SameStream
  <2> HIDE DEF s
  <2> DEFINE t == IF s.service = "sync" THEN ContinueSync(s, more) ELSE s
  <2>4. t \in StreamRecords /\ SameStream(streams[l], t)
    BY <2>3, ContinueSyncTyped, ContinueSyncSame DEF SameStream
  <2>5. streams' = [streams EXCEPT ![l] = t]
    BY <2>1
  <2> HIDE DEF t
  <2>6. Grows /\ StreamsAgree' /\ io \in Ios(Good')
    BY <1>0, <1>2, <2>4, <2>5, TableUpdates
  <2>7. Finish(IF s.service = "sync" THEN SubmitFrame(io, l, s, t)
               ELSE MaybeSubmitRead(io, l, s))
    BY <2>1, <2>2, <2>3 DEF SameStream, t
  <2>8. /\ SubmitFrame(io, l, s, t) \in Ios(Good')
        /\ MaybeSubmitRead(io, l, s) \in Ios(Good')
    BY <1>0, <2>2, <2>4, <2>6, FrameIn, SubmitReadIn DEF SameStream, Starts
  <2> QED
    BY <2>6, <2>7, <2>8, FinishIn DEF Agreed
<1> QED
  BY <1>1, <1>2

\* handle_clse keeps the two ends in agreement.
LEMMA ClseAgrees ==
  ASSUME NEW io, Starts(io), NEW m \in HostMsgs, MsgAgrees(m), HandleClse(io, m)
  PROVE  Agreed
<1> DEFINE l == StreamOf(m)
<1>0. l \in Nat /\ m.cmd = "CLSE" /\ next_id' = next_id /\ m.arg0 \in Nat
  BY DEF StreamOf, HostMsgs, HandleClse
<1>1. CASE l \notin DOMAIN streams
  <2>1. Finish(io) /\ UNCHANGED <<streams, next_id>>
    BY <1>1 DEF HandleClse
  <2> QED
    BY <2>1, TableSame, FinishIn DEF Agreed
<1>2. CASE l \in DOMAIN streams
  <2> DEFINE s == streams[l]
  <2>1. s \in StreamRecords /\ s.remote_id = m.arg0
    BY <1>0, <1>2, StreamFacts
  <2>2. CASE Drains(s)
    <3> DEFINE t == [s EXCEPT !.remote_closed = TRUE]
    <3>1. streams' = [streams EXCEPT ![l] = t] /\ Finish(io)
      BY <1>2, <2>1, <2>2 DEF HandleClse
    <3>2. SameStream(s, t)
      BY <2>1 DEF SameStream, StreamRecords
    <3> HIDE DEF t
    <3> QED
      BY <1>0, <1>2, <3>1, <3>2, TableUpdates, FinishIn DEF Agreed
  <2>3. CASE ~Drains(s)
    <3>1. streams' = Close(streams, l) /\ Finish(SubmitMessage(io, Clse(l, m.arg0)))
      BY <1>2, <2>1, <2>3 DEF HandleClse
    <3>2. Grows /\ StreamsAgree' /\ io \in Ios(Good')
      BY <1>0, <3>1, TableCloses
    <3>3. SubmitMessage(io, Clse(l, m.arg0)) \in Ios(Good')
      BY <1>0, <3>2, ClseIsGood, SubmitMessageIn
    <3> QED
      BY <3>1, <3>2, <3>3, FinishIn DEF Agreed
  <2> QED BY <2>2, <2>3
<1> QED
  BY <1>1, <1>2

\* A sync stream waits for an OKAY exactly while it sends a file.
SyncWaits(s) == s.sync \in {"Sending", "Sent"} <=> s.waiting_for_okay

\* It sends none.
IsQuiet(s) == s.sync \notin {"Sending", "Sent"} /\ ~s.waiting_for_okay

\* The next frame of a pull leaves a session that waits for what it must.
LEMMA ContinueSyncWaits ==
  ASSUME NEW s \in StreamRecords, NEW more,
         s.waiting_for_okay => s.sync \in {"Sending", "Sent"}
  PROVE  SyncWaits(ContinueSync(s, more))
<1> DEFINE x == IF more THEN "Sending" ELSE "Sent"
           a == [s EXCEPT !.waiting_for_okay = TRUE, !.tx = @ + 1, !.sync = x]
           b == [s EXCEPT !.sync = "Idle"]
<1>0. x \in {"Sending", "Sent"}
  OBVIOUS
<1>1. CASE s.sync = "Sending" /\ ~s.waiting_for_okay
  <2>1. ContinueSync(s, more) = a
    BY <1>1 DEF ContinueSync
  <2>2. SyncWaits(a)
    <3> HIDE DEF x
    <3>1. a.sync = x /\ a.waiting_for_okay = TRUE
      BY DEF StreamRecords
    <3> QED BY <1>0, <3>1 DEF SyncWaits
  <2> QED BY <2>1, <2>2
<1>2. CASE s.sync = "Sent" /\ ~s.waiting_for_okay
  <2>1. ContinueSync(s, more) = b
    BY <1>2 DEF ContinueSync
  <2>2. b.sync = "Idle" /\ b.waiting_for_okay = s.waiting_for_okay
    BY DEF StreamRecords
  <2>3. SyncWaits(b)
    BY <1>2, <2>2 DEF SyncWaits
  <2> QED BY <2>1, <2>3
<1>3. CASE ~(s.sync = "Sending" /\ ~s.waiting_for_okay) /\ ~(s.sync = "Sent" /\ ~s.waiting_for_okay)
  <2>1. ContinueSync(s, more) = s
    BY <1>3 DEF ContinueSync
  <2> QED BY <1>3, <2>1 DEF SyncWaits
<1> QED
  BY <1>1, <1>2, <1>3

\* What a WRTE does to a stream that is open: it is closed, or its sync
\* session goes on as u, or the device panics over a size.
WrteEffect(io1, l, s, u, req) ==
  \/ /\ streams' = Close(streams, l)
     /\ Finish(SubmitMessage(io1, Clse(l, s.remote_id)))
  \/ /\ streams' = [streams EXCEPT ![l] = u]
     /\ \/ Finish(SubmitFrame(io1, l, s, u))
        \/ req = "stathuge" /\ u.tx = s.tx /\ Finish(Panic(io1, "File too large for 32-bits"))

\* What handle_wrte does: nothing, a close, or one stream updated.
LEMMA WrteCases ==
  ASSUME NEW io, NEW m, HandleWrte(io, m), StreamOf(m) \in DOMAIN streams,
         streams[StreamOf(m)] \in StreamRecords, streams[StreamOf(m)].service # "reboot"
  PROVE  LET l == StreamOf(m)
         IN \E u \in StreamRecords :
              /\ SameStream(streams[l], u) /\ u.remote_closed = streams[l].remote_closed
              /\ u.tx \in {streams[l].tx, streams[l].tx + 1}
              /\ streams[l].service # "sync" => u = streams[l]
              /\ m.payload # "send" /\ SyncWaits(streams[l]) => SyncWaits(u)
              /\ m.payload # "recv" /\ IsQuiet(streams[l]) => IsQuiet(u)
              /\ WrteEffect(Acknowledge(io, l, m.arg0), l, streams[l], u, m.payload)
<1> DEFINE l == StreamOf(m)
           io1 == Acknowledge(io, l, m.arg0)
           s == streams[l]
           R(fails) == SyncHandle(s.sync, m.payload, fails)
           T(fails) == [s EXCEPT !.sync = R(fails).sync]
           Closes(fails) == IF s.service = "sync" THEN R(fails).result = "Quit" ELSE fails
           U(fails, more) ==
             IF s.service # "sync" THEN s
             ELSE CASE R(fails).result = "Data" -> [T(fails) EXCEPT !.tx = @ + 1]
                    [] R(fails).result = "Continue" -> ContinueSync(T(fails), more)
                    [] OTHER -> T(fails)
           J(fails, more) ==
             CASE s.service = "reboot" -> Panic(io1, "unreachable")
               [] s.service = "sync" /\ R(fails).result = "Panic" ->
                    Panic(io1, "File too large for 32-bits")
               [] OTHER -> IF Closes(fails) THEN SubmitMessage(io1, Clse(l, s.remote_id))
                           ELSE SubmitFrame(io1, l, s, U(fails, more))
<1>1. PICK fails \in OsFails, more \in MoreFrames(streams[l]) :
        /\ streams' = IF Closes(fails) /\ s.service # "reboot" THEN Close(streams, l)
                      ELSE [streams EXCEPT ![l] = U(fails, more)]
        /\ Finish(J(fails, more))
  BY Zenon DEF HandleWrte
<1> DEFINE r == R(fails)
           t == T(fails)
           u == U(fails, more)
<1>2. s.sync \in SyncStates /\ s.tx \in Nat
  BY DEF StreamRecords
<1>3. r.sync \in SyncStates
  BY <1>2, SyncHandleTyped
<1>4. t \in StreamRecords /\ SameStream(s, t) /\ t.sync = r.sync
        /\ t.waiting_for_okay = s.waiting_for_okay /\ t.remote_closed = s.remote_closed
        /\ t.tx = s.tx
  <2> HIDE DEF r, s
  <2>1. LET v == [s EXCEPT !.sync = r.sync]
        IN v \in StreamRecords /\ SameStream(s, v) /\ v.sync = r.sync
             /\ v.waiting_for_okay = s.waiting_for_okay
             /\ v.remote_closed = s.remote_closed /\ v.tx = s.tx
    BY <1>3 DEF s, StreamRecords, SameStream
  <2> QED BY <2>1 DEF r
<1> DEFINE d == [t EXCEPT !.tx = @ + 1]
           c == ContinueSync(t, more)
<1>5. d \in StreamRecords /\ SameStream(s, d) /\ d.sync = t.sync
        /\ d.waiting_for_okay = t.waiting_for_okay /\ d.remote_closed = s.remote_closed
        /\ d.tx = s.tx + 1
  <2> HIDE DEF t, s
  <2> QED BY <1>4 DEF StreamRecords, SameStream
<1>6. c \in StreamRecords /\ SameStream(s, c) /\ c.remote_closed = s.remote_closed
        /\ c.tx \in {s.tx, s.tx + 1}
  <2> HIDE DEF t, s
  <2> QED BY <1>4, ContinueSyncTyped, ContinueSyncSame DEF SameStream
<1>7. u = IF s.service # "sync" THEN s
          ELSE CASE r.result = "Data" -> d [] r.result = "Continue" -> c [] OTHER -> t
  BY Zenon
<1>8. u \in StreamRecords /\ SameStream(s, u) /\ u.remote_closed = s.remote_closed
        /\ u.tx \in {s.tx, s.tx + 1}
  <2>1. s \in StreamRecords /\ SameStream(s, s)
    BY DEF SameStream
  <2> HIDE DEF u, t, c, d, s
  <2>2. u \in {s, d, c, t}
    BY <1>7
  <2> QED BY <1>4, <1>5, <1>6, <2>1, <2>2
<1>9. ASSUME m.payload # "send", SyncWaits(s)
      PROVE  SyncWaits(u)
  <2>1. CASE r.result = "Continue" /\ s.service = "sync"
    <3>1. r.sync \in {"Sending", "Receiving"} /\ (r.sync = "Receiving" => s.sync = "Receiving")
      BY <1>9, <2>1 DEF SyncHandle
    <3>2. u = c
      BY <2>1
    <3>3. t.waiting_for_okay => t.sync \in {"Sending", "Sent"}
      <4> HIDE DEF t, s, r
      <4> QED BY <1>4, <1>9, <3>1 DEF SyncWaits
    <3>4. SyncWaits(c)
      <4> HIDE DEF t
      <4> QED BY <1>4, <3>3, ContinueSyncWaits
    <3> HIDE DEF u, c
    <3> QED BY <3>2, <3>4
  <2>2. CASE ~(r.result = "Continue" /\ s.service = "sync")
    <3>1. r.result # "Continue" => r.sync = s.sync \/ (s.sync = "Receiving" /\ r.sync = "Idle")
      BY DEF SyncHandle
    <3> HIDE DEF u, t, d, c, s, r
    <3>2. u = s \/ (r.result # "Continue" /\ u \in {d, t})
      BY <1>7, <2>2
    <3>3. CASE u = s
      BY <1>9, <3>3
    <3>4. CASE r.result # "Continue" /\ u \in {d, t}
      <4>1. u.sync = r.sync /\ u.waiting_for_okay = s.waiting_for_okay
        BY <1>4, <1>5, <3>4
      <4> QED BY <1>9, <3>1, <3>4, <4>1 DEF SyncWaits
    <3> QED BY <3>2, <3>3, <3>4
  <2> QED BY <2>1, <2>2
<1>10. WrteEffect(io1, l, s, u, m.payload)
  <2> DEFINE j == J(fails, more)
  <2>0. Finish(j) /\ (r.result = "Panic" => r.result # "Quit")
    BY <1>1
  <2>1. CASE Closes(fails)
    <3>1. streams' = Close(streams, l)
      BY <1>1, <2>1
    <3>2. j = SubmitMessage(io1, Clse(l, s.remote_id))
      <4> HIDE DEF io1
      <4> QED BY <2>0, <2>1
    <3> HIDE DEF j, io1, s
    <3> QED BY <2>0, <3>1, <3>2 DEF WrteEffect
  <2>2. CASE ~Closes(fails)
    <3>1. streams' = [streams EXCEPT ![l] = u]
      BY <1>1, <2>2
    <3>2. j = IF s.service = "sync" /\ r.result = "Panic"
              THEN Panic(io1, "File too large for 32-bits") ELSE SubmitFrame(io1, l, s, u)
      <4> HIDE DEF io1, u
      <4> QED BY <2>2 DEF u
    <3>3. r.result = "Panic" => m.payload = "stathuge"
      BY DEF SyncHandle
    <3> HIDE DEF j, io1, s, u, r, t, c, d
    <3>4. s.service = "sync" /\ r.result = "Panic" => u.tx = s.tx
      BY <1>4, <1>7
    <3> QED BY <2>0, <3>1, <3>2, <3>3, <3>4 DEF WrteEffect
  <2> QED BY <2>1, <2>2
<1>11. s.service # "sync" => u = s
  <2> HIDE DEF u, s, d, c, t, r
  <2> QED BY <1>7
<1>12. ASSUME m.payload # "recv", IsQuiet(s)
       PROVE  IsQuiet(u)
  <2>1. r.sync \notin {"Sending", "Sent"}
    BY <1>12 DEF SyncHandle, IsQuiet
  <2> HIDE DEF u, s, d, t, r
  <2>2. IsQuiet(t) /\ IsQuiet(d)
    BY <1>4, <1>5, <1>12, <2>1 DEF IsQuiet
  <2>3. c = t
    BY <2>2 DEF ContinueSync, IsQuiet
  <2> HIDE DEF c
  <2>4. u \in {s, d, c, t}
    BY <1>7
  <2> QED BY <1>12, <2>2, <2>3, <2>4
<1> HIDE DEF u, s, io1
<1> QED
  BY <1>8, <1>9, <1>10, <1>11, <1>12 DEF s, io1

\* handle_wrte keeps the two ends in agreement.
LEMMA WrteAgrees ==
  ASSUME NEW io, Starts(io), NEW m \in HostMsgs, MsgAgrees(m), HandleWrte(io, m)
  PROVE  Agreed
<1> DEFINE l == StreamOf(m)
           io1 == Acknowledge(io, l, m.arg0)
<1>0. l \in Nat /\ m.cmd = "WRTE" /\ next_id' = next_id /\ m.arg0 \in Nat
  BY Zenon DEF StreamOf, HostMsgs, HandleWrte
<1>1. ASSUME Grows, io \in Ios(Good')
      PROVE  io1 \in Ios(Good')
  <2>1. Knows(m.arg0, l)
    BY <1>0 DEF MsgAgrees, StreamOf
  <2>2. Knows(m.arg0, l)'
    BY <1>0, <1>1, <2>1, KnowsStays
  <2>3. Okay(l, m.arg0) \in Good'
    BY <1>0, <2>2, OkayIsGood
  <2> QED BY <1>1, <2>3, SubmitMessageIn DEF Acknowledge
<1>2. CASE l \notin DOMAIN streams
  <2>1. Finish(io1) /\ UNCHANGED <<streams, next_id>>
    BY <1>2 DEF HandleWrte
  <2>2. Grows /\ StreamsAgree' /\ io \in Ios(Good')
    BY <2>1, TableSame
  <2> QED
    BY <1>1, <2>1, <2>2, FinishIn DEF Agreed
<1>3. CASE l \in DOMAIN streams
  <2>1. /\ streams[l] \in StreamRecords /\ streams[l].remote_id = m.arg0
        /\ streams[l].service = host[m.arg0].svc /\ Opened(m.arg0)
        /\ host[m.arg0].svc # "reboot"
    BY <1>0, <1>3, StreamFacts DEF MsgAgrees
  <2>2. PICK u \in StreamRecords : /\ SameStream(streams[l], u)
                                  /\ WrteEffect(io1, l, streams[l], u, m.payload)
    BY <1>3, <2>1, WrteCases
  <2> HIDE DEF io1, l
  <2>3. CASE /\ streams' = Close(streams, l)
             /\ Finish(SubmitMessage(io1, Clse(l, streams[l].remote_id)))
    <3>1. Grows /\ StreamsAgree' /\ io \in Ios(Good')
      BY <1>0, <2>3, TableCloses
    <3>2. Clse(l, m.arg0) \in Good'
      BY <1>0, ClseIsGood
    <3>3. SubmitMessage(io1, Clse(l, m.arg0)) \in Ios(Good')
      BY <1>1, <3>1, <3>2, SubmitMessageIn
    <3> QED BY <2>1, <2>3, <3>1, <3>3, FinishIn DEF Agreed
  <2>4. CASE /\ streams' = [streams EXCEPT ![l] = u]
             /\ \/ Finish(SubmitFrame(io1, l, streams[l], u))
                \/ /\ m.payload = "stathuge"
                   /\ Finish(Panic(io1, "File too large for 32-bits"))
    <3>1. Grows /\ StreamsAgree' /\ io \in Ios(Good')
      BY <1>0, <1>3, <2>2, <2>4, TableUpdates
    <3>2. SubmitFrame(io1, l, streams[l], u) \in Ios(Good')
      BY <1>0, <1>1, <2>1, <2>2, <3>1, FrameIn DEF SameStream, Starts
    <3>3. m.payload = "stathuge" => Panic(io1, "File too large for 32-bits") \in Ios(Good')
      <4>1. m.payload = "stathuge" => "File too large for 32-bits" \in Daemons \ Refuted
        BY <1>0 DEF MsgAgrees, Daemons, Panics, Refuted
      <4> QED BY <1>1, <3>1, <4>1, PanicIn
    <3> QED BY <2>4, <3>1, <3>2, <3>3, FinishIn DEF Agreed
  <2> QED
    BY <2>2, <2>3, <2>4 DEF WrteEffect
<1> QED
  BY <1>2, <1>3

\* handle_command, whatever the command: none of its assertions fails.
LEMMA CommandAgrees ==
  ASSUME NEW io, Starts(io), NEW m \in HostMsgs, MsgAgrees(m), HandleCommand(io, m)
  PROVE  Agreed
<1>1. ~((m.cmd \in {"CNXN", "OPEN", "WRTE"} /\ m.payload = "none")
          \/ (m.cmd = "OKAY" /\ m.payload # "none"))
  BY DEF MsgAgrees
<1>2. \/ HandleCnxn(io, m) \/ HandleOpen(io, m) \/ HandleOkay(io, m)
      \/ HandleWrte(io, m) \/ HandleClse(io, m) \/ HandleOther(io, m)
  BY <1>1 DEF HandleCommand
<1>3. CASE HandleOther(io, m)
  BY <1>3, TableSame, FinishIn DEF HandleOther, Agreed
<1> QED
  BY <1>2, <1>3, CnxnAgrees, OpenAgrees, OkayAgrees, WrteAgrees, ClseAgrees

-----------------------------------------------------------------------------
(* The steps of the device.                                                 *)

\* What a handler may rely on, from the invariants.
LEMMA LoopStarts ==
  ASSUME Inv, Agree, daemon = "running", host' = host
  PROVE  Starts(Io)
<1>1. StreamsOK
  BY InvFacts
<1>2. Io \in Ios(Good)
  <2>1. buffers \in [Slots -> Good]
    BY DEF Inv, TypeOK, Agree, AnswersAgree, Good
  <2>2. "running" \in Daemons \ Refuted
    BY DEF Daemons, Refuted
  <2>3. sq \in SUBSET Ops /\ order \in Seq(Slots)
    BY DEF Inv, TypeOK
  <2> QED BY <2>1, <2>2, <2>3 DEF Ios, Io
<1> QED
  BY <1>1, <1>2 DEF Starts, Agree

\* The parts of the invariant that are about messages of the host and its
\* own records follow from what was committed.
LEMMA DeviceAgrees ==
  ASSUME TypeOK, Agree, Agreed, UNCHANGED <<host, bulk_out, bulk_out_buf>>,
         pending_header' \in Seq(HostMsgs),
         \A i \in 1..Len(pending_header') : MsgAgrees(pending_header'[i])
  PROVE  Agree'
<1>0. Grows /\ HostGrows /\ StreamsAgree'
  BY HostSame DEF Agreed
<1>1. AnswersAgree' /\ AssertionsHold'
  BY DEF Agreed, Commit, Ios, Good, AnswersAgree, AssertionsHold
<1>2. MsgsAgree'
  <2>1. bulk_out \in Seq(Xfers) /\ bulk_out_buf \in Seq(Xfers)
    BY DEF TypeOK, HostTypeOK
  <2>2. /\ \A i \in 1..Len(bulk_out) : bulk_out[i] \in Xfers
        /\ \A i \in 1..Len(bulk_out_buf) : bulk_out_buf[i] \in Xfers
    BY <2>1
  <2>3. \A x \in Xfers : x.msg \in HostMsgs
    BY DEF Xfers
  <2>4. \A i \in 1..Len(pending_header') :
          pending_header'[i] \in HostMsgs /\ MsgAgrees(pending_header'[i])
    OBVIOUS
  <2>5. \A m \in HostMsgs : MsgAgrees(m) => MsgAgrees(m)'
    BY <1>0, MsgStays
  <2>6. /\ \A i \in 1..Len(bulk_out) : MsgAgrees(bulk_out[i].msg)
        /\ \A i \in 1..Len(bulk_out_buf) : MsgAgrees(bulk_out_buf[i].msg)
    BY DEF Agree, MsgsAgree
  <2> QED BY <2>2, <2>3, <2>4, <2>5, <2>6 DEF MsgsAgree
<1>3. HostsAgree'
  <2>1. \A r \in Remotes : Knows(r, host[r].local)'
    <3>1. \A r \in Remotes : host[r].local \in Nat /\ Knows(r, host[r].local)
      BY DEF TypeOK, HostTypeOK, HostRecords, Agree, HostsAgree
    <3> QED BY <1>0, <3>1, KnowsStays
  <2> QED BY <2>1 DEF Agree, HostsAgree, Opened
<1> QED
  BY <1>0, <1>1, <1>2, <1>3 DEF Agree

\* Steps that change nothing the invariant is about.
LEMMA AgreeSame ==
  ASSUME Agree, UNCHANGED <<streams, next_id, host, bulk_out, pending_header, buffers>>,
         bulk_out_buf' \in {bulk_out_buf, << >>}, daemon' \notin Refuted
  PROVE  Agree'
<1>1. \A m : MsgAgrees(m) => MsgAgrees(m)'
  BY DEF MsgAgrees, Opened, Knows
<1>2. MsgsAgree'
  <2>1. /\ \A i \in 1..Len(bulk_out) : MsgAgrees(bulk_out[i].msg)
        /\ \A i \in 1..Len(bulk_out_buf) : MsgAgrees(bulk_out_buf[i].msg)
        /\ \A i \in 1..Len(pending_header) : MsgAgrees(pending_header[i])
    BY DEF Agree, MsgsAgree
  <2>2. CASE bulk_out_buf' = bulk_out_buf
    BY <1>1, <2>1, <2>2 DEF MsgsAgree
  <2>3. CASE bulk_out_buf' = << >>
    <3>1. 1..Len(bulk_out_buf') = {}
      BY <2>3
    <3> QED BY <1>1, <2>1, <3>1 DEF MsgsAgree
  <2> QED BY <2>2, <2>3
<1>3. AnswersAgree' /\ StreamsAgree' /\ HostsAgree'
  BY DEF Agree, AnswersAgree, AnswerAgrees, StreamsAgree, HostsAgree, Opened, Knows
<1> QED
  BY <1>2, <1>3 DEF Agree, AssertionsHold

\* The pending header stays, or there is none any more.
LEMMA PendingAgrees ==
  ASSUME TypeOK, Agree, pending_header' \in {pending_header, << >>}
  PROVE  /\ pending_header' \in Seq(HostMsgs)
         /\ \A i \in 1..Len(pending_header') : MsgAgrees(pending_header'[i])
<1>1. CASE pending_header' = pending_header
  BY <1>1 DEF TypeOK, Agree, MsgsAgree
<1>2. CASE pending_header' = << >>
  BY <1>2
<1> QED
  BY <1>1, <1>2

\* The end of a PTY or socket keeps the two ends in agreement.
LEMMA ReadEndAgrees ==
  ASSUME Inv, Agree, NEW c \in batch, ReadEnd(c)
  PROVE  Agree'
<1> DEFINE j == IF c.data \in DOMAIN streams
                THEN SubmitMessage(Io, Clse(c.data, streams[c.data].remote_id)) ELSE Io
<1>1. /\ daemon = "running" /\ Commit(j) /\ streams' = Close(streams, c.data)
      /\ UNCHANGED <<next_id, pending_header, host, bulk_out, bulk_out_buf>>
  BY DEF ReadEnd, Take, kernVars, hostVars
<1>2. Starts(Io)
  BY <1>1, LoopStarts
<1>3. Grows /\ StreamsAgree' /\ Io \in Ios(Good')
  BY <1>1, <1>2, TableCloses
<1>4. j \in Ios(Good')
  <2>1. CASE c.data \in DOMAIN streams
    <3>1. c.data \in Nat /\ streams[c.data].remote_id \in Nat
      BY <1>2, <2>1 DEF Starts, StreamsOK, StreamRecords
    <3>2. Clse(c.data, streams[c.data].remote_id) \in Good'
      BY <3>1, ClseIsGood
    <3> QED BY <1>3, <2>1, <3>2, SubmitMessageIn
  <2>2. CASE c.data \notin DOMAIN streams
    BY <1>3, <2>2
  <2> QED BY <2>1, <2>2
<1>5. Agreed
  <2> HIDE DEF j
  <2> QED BY <1>1, <1>3, <1>4 DEF Agreed
<1> QED
  BY <1>1, <1>5, PendingAgrees, DeviceAgrees DEF Inv

\* Data from a PTY or socket keeps the two ends in agreement.
LEMMA ReadDataAgrees ==
  ASSUME Inv, Agree, NEW c \in batch, ReadData(c)
  PROVE  Agree'
<1> DEFINE s == streams[c.data]
           m == DevMsg("WRTE", c.data, s.remote_id, s.tx + 1, FALSE)
           valid == /\ c.data \in DOMAIN streams
                    /\ s.service = (IF c.op = "PtyRead" THEN "shell" ELSE "forward")
<1>1. /\ daemon = "running"
      /\ UNCHANGED <<next_id, pending_header, host, bulk_out, bulk_out_buf>>
  BY DEF ReadData, Take, kernVars, hostVars
<1>2. Starts(Io)
  BY <1>1, LoopStarts
<1>3. CASE ~valid
  <2>1. UNCHANGED <<streams, buffers, daemon>>
    BY <1>3 DEF ReadData, ioVars
  <2> QED BY <1>1, <2>1, AgreeSame DEF Agree, AssertionsHold
<1>4. CASE valid
  <2> DEFINE t == [s EXCEPT !.waiting_for_okay = TRUE, !.tx = @ + 1]
  <2>1. streams' = [streams EXCEPT ![c.data] = t] /\ Commit(SubmitMessage(Io, m))
    BY <1>4 DEF ReadData, SubmitData
  <2>2. /\ c.data \in Nat /\ s \in StreamRecords /\ s.service # "reboot"
        /\ Opened(s.remote_id) /\ s.service = host[s.remote_id].svc
    BY <1>2, <1>4 DEF Starts, StreamsOK, StreamsAgree
  <2>3. s.remote_id \in Nat /\ s.tx + 1 \in Nat
    BY <2>2 DEF StreamRecords
  <2>4. SameStream(s, t)
    <3> HIDE DEF s
    <3> QED BY <2>2 DEF SameStream, StreamRecords
  <2> HIDE DEF t
  <2>5. Grows /\ StreamsAgree' /\ Io \in Ios(Good')
    BY <1>1, <1>2, <1>4, <2>1, <2>4, TableUpdates
  <2>6. m \in Good'
    BY <1>1, <2>2, <2>3, WrteIsGood
  <2> HIDE DEF m
  <2>7. SubmitMessage(Io, m) \in Ios(Good')
    BY <2>5, <2>6, SubmitMessageIn
  <2>8. Agreed
    BY <2>1, <2>5, <2>7 DEF Agreed
  <2> QED
    BY <1>1, <2>8, PendingAgrees, DeviceAgrees DEF Inv
<1> QED
  BY <1>3, <1>4

\* A completed write keeps the two ends in agreement.
LEMMA WriteDoneAgrees ==
  ASSUME Inv, Agree, NEW c \in batch, WriteDone(c)
  PROVE  Agree'
<1>1. /\ buffers' = Free(buffers, c.data) /\ daemon = "running"
      /\ UNCHANGED <<sq, order, daemon>>
      /\ UNCHANGED <<streams, next_id, pending_header, host, bulk_out, bulk_out_buf>>
  BY DEF WriteDone, Take, kernVars, hostVars, devVars
<1>2. Starts(Io)
  BY <1>1, LoopStarts
<1>3. Grows /\ StreamsAgree' /\ Io \in Ios(Good')
  BY <1>1, <1>2, TableSame
<1> DEFINE b == [buffers EXCEPT ![c.data] = NoMsg]
           j == [Io EXCEPT !.buffers = b]
<1>4. NoMsg \in Good'
  BY DEF NoMsg, Good, DevMsgs, AnswerAgrees
<1>5. b \in [Slots -> Good']
  <2>1. buffers \in [Slots -> Good']
    BY <1>3 DEF Io, Ios
  <2> QED BY <1>4, <2>1
<1> HIDE DEF b
<1>6. j \in Ios(Good')
  BY <1>3, <1>5 DEF Ios
<1>7. Commit(j)
  BY <1>1 DEF Commit, Io, Free, b
<1> HIDE DEF j
<1>8. Agreed
  BY <1>3, <1>6, <1>7 DEF Agreed
<1> QED
  BY <1>1, <1>8, PendingAgrees, DeviceAgrees DEF Inv

\* A failed operation keeps the two ends in agreement.
LEMMA OpFailedAgrees ==
  ASSUME Agree, NEW c \in batch, OpFailed(c)
  PROVE  Agree'
<1>1. /\ daemon' = "failed" /\ bulk_out_buf' = bulk_out_buf
      /\ UNCHANGED <<streams, next_id, host, bulk_out, pending_header, buffers>>
  BY DEF OpFailed, Take, kernVars, hostVars, devVars
<1> QED
  BY <1>1, AgreeSame DEF Refuted

\* An event of ep0 keeps the two ends in agreement.
LEMMA Ep0EventAgrees ==
  ASSUME Inv, Agree, NEW c \in batch, Ep0Event(c)
  PROVE  Agree'
<1> DEFINE j == IF Head(ep0) = "stop" THEN [Io EXCEPT !.daemon = "stopped"]
                ELSE Push(Io, Ep0Poll)
<1>1. /\ daemon = "running" /\ Commit(j)
      /\ UNCHANGED <<streams, next_id, pending_header, host, bulk_out, bulk_out_buf>>
  BY DEF Ep0Event, hostVars, devVars
<1>2. Starts(Io)
  BY <1>1, LoopStarts
<1>3. Grows /\ StreamsAgree' /\ Io \in Ios(Good')
  BY <1>1, <1>2, TableSame
<1>4. j \in Ios(Good')
  <2>1. [Io EXCEPT !.daemon = "stopped"] \in Ios(Good')
    <3>1. "stopped" \in Daemons \ Refuted
      BY DEF Daemons, Refuted
    <3> QED BY <1>3, <3>1 DEF Ios
  <2>2. Push(Io, Ep0Poll) \in Ios(Good')
    BY <1>3, PollIsPoll, PushIn
  <2> QED BY <2>1, <2>2
<1> HIDE DEF j
<1>5. Agreed
  BY <1>1, <1>3, <1>4 DEF Agreed
<1> QED
  BY <1>1, <1>5, PendingAgrees, DeviceAgrees DEF Inv

\* A header from the host keeps the two ends in agreement.
LEMMA BulkOutReadHeaderAgrees ==
  ASSUME Inv, Agree, NEW c \in batch, BulkOutReadHeader(c)
  PROVE  Agree'
<1> DEFINE t == bulk_out_buf[1]
<1>1. /\ c \in BulkOuts(batch) /\ c.res = "ok" /\ daemon = "running"
      /\ UNCHANGED <<host, bulk_out, bulk_out_buf>>
  BY DEF BulkOutReadHeader, BulkOuts, Take, kernVars, hostVars
<1>2. t.msg \in HostMsgs /\ MsgAgrees(t.msg)
  <2>1. bulk_out_buf \in Seq(Xfers) /\ bulk_out_buf # << >>
    BY <1>1 DEF Inv, TypeOK, Fed
  <2>2. t \in Xfers /\ 1 \in 1..Len(bulk_out_buf)
    BY <2>1
  <2>3. MsgAgrees(t.msg)
    BY <2>2 DEF Agree, MsgsAgree
  <2> QED BY <2>2, <2>3 DEF Xfers
<1>3. Starts(Io) /\ TypeOK
  BY <1>1, LoopStarts DEF Inv
<1> HIDE DEF t
<1>4. CASE Finish(Io) /\ UNCHANGED devVars
  <2>1. UNCHANGED <<streams, next_id, pending_header>>
    BY <1>4 DEF devVars
  <2>2. Agreed
    BY <1>3, <1>4, <2>1, TableSame, FinishIn DEF Agreed
  <2> QED BY <1>1, <1>3, <2>1, <2>2, PendingAgrees, DeviceAgrees
<1>5. CASE /\ pending_header' = <<t.msg>> /\ Commit(Push(Io, ReadPayload))
           /\ UNCHANGED <<streams, next_id, version>>
  <2>1. ReadPayload \in Ops
    BY DEF ReadPayload, Op, Ops, OpTypes
  <2>2. Agreed
    BY <1>3, <1>5, <2>1, TableSame, PushIn DEF Agreed
  <2>3. /\ pending_header' \in Seq(HostMsgs)
        /\ \A i \in 1..Len(pending_header') : MsgAgrees(pending_header'[i])
    BY <1>2, <1>5
  <2> QED BY <1>1, <1>3, <2>2, <2>3, DeviceAgrees
<1>6. CASE HandleCommand(Io, t.msg) /\ UNCHANGED pending_header
  <2>1. Agreed
    BY <1>2, <1>3, <1>6, CommandAgrees
  <2> QED BY <1>1, <1>3, <1>6, <2>1, PendingAgrees, DeviceAgrees
<1> QED
  BY <1>4, <1>5, <1>6 DEF BulkOutReadHeader, t

\* A payload from the host keeps the two ends in agreement.
LEMMA BulkOutReadPayloadAgrees ==
  ASSUME Inv, Agree, NEW c \in batch, BulkOutReadPayload(c)
  PROVE  Agree'
<1>1. /\ daemon = "running" /\ pending_header' = << >>
      /\ UNCHANGED <<host, bulk_out, bulk_out_buf>>
  BY DEF BulkOutReadPayload, Take, kernVars, hostVars
<1>2. Starts(Io) /\ TypeOK
  BY <1>1, LoopStarts DEF Inv
<1>3. Agreed
  <2>1. CASE Finish(Io) /\ UNCHANGED <<streams, next_id, version>>
    BY <1>2, <2>1, TableSame, FinishIn DEF Agreed
  <2>2. CASE pending_header # << >> /\ HandleCommand(Io, pending_header[1])
    <3>1. pending_header[1] \in HostMsgs /\ 1 \in 1..Len(pending_header)
      BY <1>2, <2>2 DEF TypeOK
    <3>2. MsgAgrees(pending_header[1])
      BY <3>1 DEF Agree, MsgsAgree
    <3> QED BY <1>2, <2>2, <3>1, <3>2, CommandAgrees
  <2> QED
    BY <2>1, <2>2 DEF BulkOutReadPayload
<1> QED
  BY <1>1, <1>2, <1>3, PendingAgrees, DeviceAgrees

\* Every step of the loop keeps the two ends in agreement.
LEMMA LoopAgrees ==
  ASSUME Agree, Submit \/ Reap
  PROVE  Agree'
<1>1. /\ bulk_out_buf' \in {bulk_out_buf, << >>} /\ daemon' = daemon
      /\ UNCHANGED <<streams, next_id, host, bulk_out, pending_header, buffers>>
  BY DEF Submit, Reap, devVars, ioVars, kernVars, hostVars
<1> QED
  BY <1>1, AgreeSame DEF Agree, AssertionsHold

-----------------------------------------------------------------------------
(* The kernel.                                                              *)

\* Everything but the transfers that succeed.
LEMMA KernelAgrees ==
  ASSUME Agree,
         \/ KernelWriteFail \/ KernelEp0 \/ UsbEvent
         \/ \E o \in kern : KernelBulkOutFail(o)
         \/ \E o \in kern, res \in {"ok", "end"} : KernelRead(o, res)
  PROVE  Agree'
<1>1. /\ bulk_out_buf' = bulk_out_buf /\ daemon' = daemon
      /\ UNCHANGED <<streams, next_id, host, bulk_out, pending_header, buffers>>
  BY DEF KernelWriteFail, KernelEp0, UsbEvent, KernelBulkOutFail, KernelRead, devVars,
         ioVars, hostVars
<1> QED
  BY <1>1, AgreeSame DEF Agree, AssertionsHold

\* The completion of a bulk-out read keeps the two ends in agreement.
LEMMA KernelBulkOutAgrees ==
  ASSUME Inv, Agree, NEW o \in kern, KernelBulkOut(o)
  PROVE  Agree'
<1>1. /\ bulk_out # << >> /\ bulk_out_buf' = <<Head(bulk_out)>> /\ bulk_out' = Tail(bulk_out)
      /\ UNCHANGED <<streams, next_id, host, pending_header, buffers, daemon>>
  BY DEF KernelBulkOut, devVars, ioVars
<1>2. \A m : MsgAgrees(m) => MsgAgrees(m)'
  BY <1>1 DEF MsgAgrees, Opened, Knows
<1>3. /\ \A i \in 1..Len(bulk_out) : MsgAgrees(bulk_out[i].msg)
      /\ \A i \in 1..Len(pending_header) : MsgAgrees(pending_header[i])
  BY DEF Agree, MsgsAgree
<1>4. \A i \in 1..Len(Tail(bulk_out)) : MsgAgrees(Tail(bulk_out)[i].msg)
  <2>1. bulk_out \in Seq(Xfers)
    BY DEF Inv, TypeOK, HostTypeOK
  <2>2. \A i \in 1..Len(Tail(bulk_out)) :
          i + 1 \in 1..Len(bulk_out) /\ Tail(bulk_out)[i] = bulk_out[i + 1]
    BY <1>1, <2>1
  <2> QED BY <1>3, <2>2
<1>5. \A i \in 1..Len(<<Head(bulk_out)>>) : MsgAgrees(<<Head(bulk_out)>>[i].msg)
  <2>1. bulk_out \in Seq(Xfers)
    BY DEF Inv, TypeOK, HostTypeOK
  <2>2. Head(bulk_out) = bulk_out[1] /\ 1 \in 1..Len(bulk_out)
    BY <1>1, <2>1
  <2> QED BY <1>3, <2>2
<1>6. MsgsAgree'
  BY <1>1, <1>2, <1>3, <1>4, <1>5 DEF MsgsAgree
<1>7. AnswersAgree' /\ StreamsAgree' /\ HostsAgree'
  BY <1>1 DEF Agree, AnswersAgree, AnswerAgrees, StreamsAgree, HostsAgree, Opened, Knows
<1> QED
  BY <1>1, <1>6, <1>7 DEF Agree, AssertionsHold

\* A step of the host that forgets no stream and leaves the device alone.
LEMMA HostStepAgrees ==
  ASSUME Inv, Agree, HostGrows, UNCHANGED <<streams, next_id, buffers, daemon>>,
         UNCHANGED <<bulk_out_buf, pending_header>>, HostsAgree',
         \A i \in 1..Len(bulk_out') : MsgAgrees(bulk_out[i].msg)'
  PROVE  Agree'
<1>0. StreamsOK /\ TypeOK
  BY DEF Inv, TypeOK, StreamsOK
<1>1. Grows
  BY <1>0 DEF StreamsOK, Grows
<1>2. \A m \in HostMsgs : MsgAgrees(m) => MsgAgrees(m)'
  BY <1>1, MsgStays
<1>3. MsgsAgree'
  <2>1. bulk_out_buf \in Seq(Xfers) /\ pending_header \in Seq(HostMsgs)
    BY <1>0 DEF TypeOK
  <2>2. /\ \A i \in 1..Len(bulk_out_buf) : bulk_out_buf[i] \in Xfers
        /\ \A i \in 1..Len(pending_header) : pending_header[i] \in HostMsgs
    BY <2>1
  <2>3. \A x \in Xfers : x.msg \in HostMsgs
    BY DEF Xfers
  <2>4. /\ \A i \in 1..Len(bulk_out_buf) : MsgAgrees(bulk_out_buf[i].msg)
        /\ \A i \in 1..Len(pending_header) : MsgAgrees(pending_header[i])
    BY DEF Agree, MsgsAgree
  <2> QED BY <1>2, <2>2, <2>3, <2>4 DEF MsgsAgree
<1>4. AnswersAgree'
  <2>1. \A s \in Slots : buffers[s] \in Good
    BY <1>0 DEF TypeOK, Agree, AnswersAgree, Good
  <2>2. \A s \in Slots : buffers[s] \in Good'
    BY <1>1, <2>1, AnswerStays
  <2> QED BY <2>2 DEF Good, AnswersAgree
<1>5. StreamsAgree'
  BY DEF Agree, StreamsAgree, Opened, HostGrows
<1> QED
  BY <1>3, <1>4, <1>5 DEF Agree, AssertionsHold

\* What a message of the device can change in the host's record.
LEMMA ReceivedChanges ==
  ASSUME NEW h \in HostRecords, NEW m \in DevMsgs
  PROVE  LET g == Received(h, m)
         IN /\ g.svc = h.svc /\ (h.st # "idle" => g.st # "idle")
            /\ g.local = h.local \/ (m.cmd = "OKAY" /\ g.local = m.arg0)
            /\ g.got = h.got \/ (m.cmd = "WRTE" /\ g.st = "open")
<1>1. \/ Received(h, m) \in {h, [h EXCEPT !.st = "closed"], [h EXCEPT !.st = "closing"],
                           [h EXCEPT !.unacked = FALSE], [h EXCEPT !.bad = TRUE]}
      \/ m.cmd = "OKAY" /\ Received(h, m) = [h EXCEPT !.st = "open", !.local = m.arg0]
      \/ /\ m.cmd = "WRTE" /\ h.st = "open"
         /\ Received(h, m) = [h EXCEPT !.got = m.payload,
                                       !.mode = IF m.fin THEN "ready" ELSE @]
  BY DEF Received
<1> DEFINE g == Received(h, m)
<1> HIDE DEF g
<1>2. CASE g \in {h, [h EXCEPT !.st = "closed"], [h EXCEPT !.st = "closing"],
                [h EXCEPT !.unacked = FALSE], [h EXCEPT !.bad = TRUE]}
  <2>1. g.svc = h.svc /\ g.local = h.local /\ g.got = h.got /\ (h.st # "idle" => g.st # "idle")
    BY <1>2 DEF HostRecords
  <2> QED BY <2>1 DEF g
<1>3. CASE m.cmd = "OKAY" /\ g = [h EXCEPT !.st = "open", !.local = m.arg0]
  <2>1. g.svc = h.svc /\ g.local = m.arg0 /\ g.got = h.got /\ g.st = "open"
    BY <1>3 DEF HostRecords
  <2> QED BY <1>3, <2>1 DEF g
<1>4. ASSUME NEW x, m.cmd = "WRTE", h.st = "open",
             g = [h EXCEPT !.got = m.payload, !.mode = x]
      PROVE  /\ g.svc = h.svc /\ g.local = h.local /\ g.st = "open"
  BY <1>4 DEF HostRecords
<1> QED
  BY <1>1, <1>2, <1>3, <1>4 DEF g

\* A queued write reaches the host.
LEMMA KernelWriteAgrees ==
  ASSUME Inv, Agree, NEW i \in DOMAIN bulk_in, KernelWrite(i)
  PROVE  Agree'
<1> DEFINE s == bulk_in[i]
           m == buffers[s]
<1>0. TypeOK
  BY DEF Inv
<1>1. UNCHANGED <<streams, next_id, buffers, daemon, bulk_out_buf, pending_header, bulk_out>>
  BY DEF KernelWrite, devVars, ioVars
<1>2. s \in Slots
  BY <1>0 DEF TypeOK
<1>3. m \in DevMsgs /\ AnswerAgrees(m)
  BY <1>0, <1>2 DEF TypeOK, Agree, AnswersAgree
<1>4. host' = host \/ Deliver(m)
  BY DEF KernelWrite, HostRead
<1> HIDE DEF m, s
<1>5. host' = host \/ host' = [r \in Remotes |-> IF r = m.arg1 THEN Received(host[r], m)
                                                ELSE host[r]]
  BY <1>4 DEF Deliver
<1>6. \A r \in Remotes :
        /\ host'[r].svc = host[r].svc /\ (host[r].st # "idle" => host'[r].st # "idle")
        /\ \/ host'[r].local = host[r].local
           \/ m.cmd = "OKAY" /\ r = m.arg1 /\ host'[r].local = m.arg0
        /\ \/ host'[r].got = host[r].got
           \/ m.cmd = "WRTE" /\ r = m.arg1 /\ host'[r].st = "open"
  <2>1. \A r \in Remotes : host[r] \in HostRecords
    BY <1>0 DEF TypeOK, HostTypeOK
  <2>2. CASE host' = host
    BY <2>2
  <2>3. CASE host' = [r \in Remotes |-> IF r = m.arg1 THEN Received(host[r], m)
                                        ELSE host[r]]
    <3> SUFFICES ASSUME NEW r \in Remotes
                 PROVE  /\ host'[r].svc = host[r].svc
                        /\ (host[r].st # "idle" => host'[r].st # "idle")
                        /\ \/ host'[r].local = host[r].local
                           \/ m.cmd = "OKAY" /\ r = m.arg1 /\ host'[r].local = m.arg0
                        /\ \/ host'[r].got = host[r].got
                           \/ m.cmd = "WRTE" /\ r = m.arg1 /\ host'[r].st = "open"
      OBVIOUS
    <3>1. CASE r = m.arg1
      <4>1. host'[r] = Received(host[r], m)
        BY <2>3, <3>1
      <4> QED BY <1>3, <2>1, <3>1, <4>1, ReceivedChanges
    <3>2. CASE r # m.arg1
      BY <2>3, <3>2
    <3> QED BY <3>1, <3>2
  <2> QED BY <1>5, <2>2, <2>3
<1>7. HostGrows
  BY <1>6 DEF HostGrows
<1>8. HostsAgree'
  <2> SUFFICES ASSUME NEW r \in Remotes
               PROVE  /\ Knows(r, host'[r].local)
                      /\ host'[r].got > 0 => host'[r].st # "idle" /\ host'[r].svc # "reboot"
    BY <1>1 DEF HostsAgree, Opened, Knows
  <2>1. /\ Knows(r, host[r].local)
        /\ host[r].got > 0 => Opened(r) /\ host[r].svc # "reboot"
    BY DEF Agree, HostsAgree
  <2>2. Knows(r, host'[r].local)
    <3>1. CASE host'[r].local = host[r].local
      BY <2>1, <3>1
    <3>2. CASE m.cmd = "OKAY" /\ r = m.arg1 /\ host'[r].local = m.arg0
      BY <1>3, <3>2 DEF AnswerAgrees
    <3> QED BY <1>6, <3>1, <3>2
  <2>3. ASSUME host'[r].got > 0
        PROVE  host'[r].st # "idle" /\ host'[r].svc # "reboot"
    <3>1. CASE host'[r].got = host[r].got
      BY <1>6, <2>1, <2>3, <3>1 DEF Opened
    <3>2. CASE m.cmd = "WRTE" /\ r = m.arg1 /\ host'[r].st = "open"
      BY <1>3, <1>6, <3>2 DEF AnswerAgrees
    <3> QED BY <1>6, <3>1, <3>2
  <2> QED BY <2>2, <2>3
<1>9. \A k \in 1..Len(bulk_out') : MsgAgrees(bulk_out[k].msg)'
  <2>1. Grows
    BY <1>0, <1>1 DEF TypeOK, Grows
  <2>2. \A k \in 1..Len(bulk_out) : bulk_out[k] \in Xfers /\ MsgAgrees(bulk_out[k].msg)
    BY <1>0 DEF TypeOK, HostTypeOK, Agree, MsgsAgree
  <2>3. \A x \in Xfers : x.msg \in HostMsgs
    BY DEF Xfers
  <2>4. \A x \in HostMsgs : MsgAgrees(x) => MsgAgrees(x)'
    BY <1>7, <2>1, MsgStays
  <2> QED BY <1>1, <2>2, <2>3, <2>4
<1> QED
  BY <1>1, <1>7, <1>8, <1>9, HostStepAgrees

-----------------------------------------------------------------------------
(* The host.                                                                *)

\* Both transfers of a message are parts of it.
LEMMA TransfersAre ==
  ASSUME NEW m, NEW hok, NEW pok
  PROVE  /\ \E S : Transfers(m, hok, pok) \in Seq(S)
         /\ \A k \in 1..Len(Transfers(m, hok, pok)) : Transfers(m, hok, pok)[k].msg = m
<1> DEFINE h == [part |-> "header", msg |-> m, ok |-> hok]
           p == [part |-> "payload", msg |-> m, ok |-> pok]
<1>1. Transfers(m, hok, pok) \in {<<h>>, <<h, p>>}
  BY DEF Transfers
<1>2. h.msg = m /\ p.msg = m
  OBVIOUS
<1> HIDE DEF h, p
<1>3. <<h>> \in Seq({h, p}) /\ <<h, p>> \in Seq({h, p})
  OBVIOUS
<1>4. \A k \in 1..Len(<<h>>) : <<h>>[k].msg = m
  BY <1>2
<1>5. \A k \in 1..Len(<<h, p>>) : <<h, p>>[k].msg = m
  BY <1>2
<1> QED
  BY <1>1, <1>3, <1>4, <1>5

Agreeing == {m \in HostMsgs : MsgAgrees(m)}

\* A message that agrees with what the host knows now is sent.
LEMMA SendAgrees ==
  ASSUME Inv, Agree, HostGrows, UNCHANGED <<streams, next_id>>,
         NEW m \in Agreeing', NEW hok, NEW pok,
         bulk_out' = bulk_out \o Transfers(m, hok, pok)
  PROVE  \A k \in 1..Len(bulk_out') : MsgAgrees(bulk_out[k].msg)'
<1> DEFINE t == Transfers(m, hok, pok)
<1>0. bulk_out \in Seq(Xfers) /\ TypeOK
  BY DEF Inv, TypeOK, HostTypeOK
<1>1. \A k \in 1..Len(t) : t[k].msg = m
  BY TransfersAre
<1>2. PICK S : t \in Seq(S)
  BY TransfersAre
<1>3. Agreeing \subseteq Agreeing'
  <2>1. Grows
    BY <1>0 DEF TypeOK, Grows
  <2> QED BY <2>1, MsgStays DEF Agreeing
<1>4. \A k \in 1..Len(bulk_out) : bulk_out[k].msg \in Agreeing
  <2>1. \A k \in 1..Len(bulk_out) : bulk_out[k] \in Xfers /\ MsgAgrees(bulk_out[k].msg)
    BY <1>0 DEF Agree, MsgsAgree
  <2>2. \A x \in Xfers : x.msg \in HostMsgs
    BY DEF Xfers
  <2> QED BY <2>1, <2>2 DEF Agreeing
<1> HIDE DEF t
<1>5. \A k \in 1..Len(bulk_out') : bulk_out'[k].msg \in Agreeing'
  <2> SUFFICES ASSUME NEW k \in 1..Len(bulk_out \o t)
               PROVE  (bulk_out \o t)[k].msg \in Agreeing'
    BY DEF t
  <2>1. bulk_out \in Seq(Xfers \cup S) /\ t \in Seq(Xfers \cup S)
    BY <1>0, <1>2
  <2>2. \/ k \in 1..Len(bulk_out) /\ (bulk_out \o t)[k] = bulk_out[k]
        \/ k - Len(bulk_out) \in 1..Len(t) /\ (bulk_out \o t)[k] = t[k - Len(bulk_out)]
    BY <2>1, ConcatProperties
  <2> QED BY <1>1, <1>3, <1>4, <2>2
<1> QED
  BY <1>5 DEF Agreeing

\* Sending a message that agrees keeps the two ends in agreement.
LEMMA HostSendAgrees ==
  ASSUME Inv, Agree, HostGrows, HostsAgree', UNCHANGED <<streams, next_id>>,
         UNCHANGED <<buffers, daemon, bulk_out_buf, pending_header>>,
         NEW m \in Agreeing', NEW hok, NEW pok,
         bulk_out' = bulk_out \o Transfers(m, hok, pok)
  PROVE  Agree'
BY SendAgrees, HostStepAgrees

\* A step of the host on one stream, that keeps its service.
LEMMA HostUpdates ==
  ASSUME Inv, Agree, NEW r \in Remotes, NEW h \in HostRecords,
         host' = [host EXCEPT ![r] = h], h.st # "idle", UNCHANGED <<streams, next_id>>,
         h.svc = host[r].svc \/ host[r].st = "idle",
         h.local = host[r].local, h.got = host[r].got
  PROVE  HostGrows /\ HostsAgree' /\ Opened(r)' /\ host'[r] = h
<1>0. host \in [Remotes -> HostRecords]
  BY DEF Inv, TypeOK, HostTypeOK
<1>1. host'[r] = h /\ \A q \in Remotes : q # r => host'[q] = host[q]
  BY <1>0
<1>2. HostGrows /\ Opened(r)'
  BY <1>1 DEF HostGrows, Opened
<1>3. HostsAgree'
  <2> SUFFICES ASSUME NEW q \in Remotes
               PROVE  /\ Knows(q, host'[q].local)
                      /\ host'[q].got > 0 => host'[q].st # "idle" /\ host'[q].svc # "reboot"
    BY DEF HostsAgree, Opened, Knows
  <2>1. /\ Knows(q, host[q].local)
        /\ host[q].got > 0 => host[q].st # "idle" /\ host[q].svc # "reboot"
    BY DEF Agree, HostsAgree, Opened
  <2>2. CASE q = r
    BY <1>1, <2>1, <2>2
  <2>3. CASE q # r
    BY <1>1, <2>1, <2>3
  <2> QED BY <2>2, <2>3
<1> QED
  BY <1>1, <1>2, <1>3

\* A message about a stream that is open.
LEMMA StreamMsgAgrees ==
  ASSUME NEW r \in Remotes, NEW l \in Nat, Opened(r)', Knows(r, l)',
         NEW cmd \in {"OKAY", "WRTE", "CLSE"}, NEW p \in Payloads,
         cmd = "WRTE" <=> p # "none", cmd = "WRTE" => p \in Requests \cup {"bytes"},
         cmd = "CLSE" \/ host'[r].svc # "reboot"
  PROVE  Message(cmd, r, l, p) \in Agreeing'
<1>1. Message(cmd, r, l, p) \in HostMsgs
  BY HostAssumption DEF Message, HostMsgs
<1>2. MsgAgrees(Message(cmd, r, l, p))'
  BY DEF MsgAgrees, Message
<1> QED
  BY <1>1, <1>2 DEF Agreeing

\* The host knows its peer, and what is known stays.
LEMMA HostKnows ==
  ASSUME Inv, Agree, NEW r \in Remotes, UNCHANGED <<streams, next_id>>
  PROVE  /\ host[r] \in HostRecords /\ host[r].local \in Nat
         /\ Knows(r, host[r].local)
         /\ \A l : Knows(r, l) => Knows(r, l)'
BY DEF Inv, TypeOK, HostTypeOK, HostRecords, Agree, HostsAgree, Knows

\* An OPEN keeps the two ends in agreement.
LEMMA HostOpenAgrees ==
  ASSUME Inv, Agree, NEW r \in Remotes, NEW svc \in Services, HostOpen(r, svc),
         UNCHANGED <<streams, next_id, buffers, daemon, bulk_out_buf, pending_header>>
  PROVE  Agree'
<1> DEFINE h == [host[r] EXCEPT !.st = "opening", !.svc = svc]
           m == Message("OPEN", r, 0, svc)
<1>1. /\ host[r].st = "idle" /\ host' = [host EXCEPT ![r] = h]
      /\ bulk_out' = bulk_out \o Transfers(m, TRUE, TRUE)
  BY DEF HostOpen, HostSend
<1>2. svc \in Kinds \cup {"unknown"} /\ r \in Nat
  BY HostAssumption
<1>3. /\ h \in HostRecords /\ h.st = "opening" /\ h.svc = svc
      /\ h.local = host[r].local /\ h.got = host[r].got
  BY <1>2, HostKnows DEF HostRecords
<1> HIDE DEF h
<1>4. HostGrows /\ HostsAgree' /\ Opened(r)' /\ host'[r] = h
  BY <1>1, <1>3, HostUpdates
<1>5. m \in Agreeing'
  <2>1. svc \in Payloads /\ svc # "none"
    BY <1>2 DEF Kinds, Payloads
  <2>2. m \in HostMsgs
    BY <1>2, <2>1 DEF Message, HostMsgs
  <2>3. MsgAgrees(m)'
    BY <1>3, <1>4, <2>1 DEF MsgAgrees, Message
  <2> QED BY <2>2, <2>3 DEF Agreeing
<1> HIDE DEF m
<1> QED
  BY <1>1, <1>4, <1>5, HostSendAgrees

\* A WRTE of the host keeps the two ends in agreement.
LEMMA HostWriteAgrees ==
  ASSUME Inv, Agree, NEW r \in Remotes, HostWrite(r),
         UNCHANGED <<streams, next_id, buffers, daemon, bulk_out_buf, pending_header>>
  PROVE  Agree'
<1>0. host[r].st = "open"
  BY DEF HostWrite
<1>1. ASSUME NEW h \in HostRecords, host' = [host EXCEPT ![r] = h], h.st = "open",
             h.svc = host[r].svc, h.local = host[r].local, h.got = host[r].got,
             NEW p \in Payloads, p # "none", p \in Requests \cup {"bytes"},
             host[r].svc # "reboot",
             HostSend(Message("WRTE", r, host[r].local, p))
      PROVE  Agree'
  <2>1. HostGrows /\ HostsAgree' /\ Opened(r)' /\ host'[r] = h
    BY <1>1, HostUpdates
  <2>2. PICK l \in Nat : l = host[r].local
    BY HostKnows
  <2>3. Knows(r, l)'
    BY <2>2, HostKnows
  <2>4. Message("WRTE", r, l, p) \in Agreeing'
    BY <1>1, <2>1, <2>3, StreamMsgAgrees
  <2>5. bulk_out' = bulk_out \o Transfers(Message("WRTE", r, l, p), TRUE, TRUE)
    BY <1>1, <2>2 DEF HostSend
  <2> QED
    BY <2>1, <2>4, <2>5, HostSendAgrees
<1>2. CASE /\ host[r].svc \in {"shell", "forward"}
           /\ HostSend(Message("WRTE", r, host[r].local, "bytes"))
           /\ host' = [host EXCEPT ![r].unacked = TRUE, ![r].sent = @ + 1]
  <2> DEFINE h == [host[r] EXCEPT !.unacked = TRUE, !.sent = @ + 1]
  <2>1. host' = [host EXCEPT ![r] = h]
    BY <1>2
  <2>2. h \in HostRecords
    BY HostKnows, RecordTyped, Zenon
  <2>3. h.st = host[r].st /\ h.svc = host[r].svc /\ h.local = host[r].local /\ h.got = host[r].got
    BY HostKnows DEF HostRecords
  <2>4. "bytes" \in Payloads
    BY DEF Payloads
  <2> HIDE DEF h
  <2> QED BY <1>0, <1>1, <1>2, <2>1, <2>2, <2>3, <2>4
<1>3. ASSUME NEW req \in Requests, HostSend(Message("WRTE", r, host[r].local, req)),
             host' = [host EXCEPT ![r].unacked = TRUE, ![r].sent = @ + 1,
                                  ![r].mode = Mode(req)],
             host[r].svc = "sync"
      PROVE  Agree'
  <2> DEFINE h == [host[r] EXCEPT !.unacked = TRUE, !.sent = @ + 1, !.mode = Mode(req)]
  <2>1. host' = [host EXCEPT ![r] = h]
    BY <1>3
  <2>2. Mode(req) \in {"ready", "await", "push", "quit"}
    BY DEF Mode
  <2>3. h \in HostRecords
    BY <2>2, HostKnows, RecordTyped, Zenon
  <2>4. h.st = host[r].st /\ h.svc = host[r].svc /\ h.local = host[r].local /\ h.got = host[r].got
    BY HostKnows DEF HostRecords
  <2>5. req \in Payloads /\ req # "none"
    BY HostAssumption DEF Payloads, SyncRequests, Answered
  <2> HIDE DEF h
  <2> QED BY <1>0, <1>1, <1>3, <2>1, <2>3, <2>4, <2>5
<1> QED
  BY <1>2, <1>3, Zenon DEF HostWrite

\* An OKAY of the host keeps the two ends in agreement.
LEMMA HostAckAgrees ==
  ASSUME Inv, Agree, NEW r \in Remotes, HostAck(r),
         UNCHANGED <<streams, next_id, buffers, daemon, bulk_out_buf, pending_header>>
  PROVE  Agree'
<1> DEFINE h == [host[r] EXCEPT !.acked = @ + 1]
<1>1. /\ host[r].st = "open" /\ host[r].acked < host[r].got
      /\ HostSend(Message("OKAY", r, host[r].local, "none"))
      /\ host' = [host EXCEPT ![r] = h]
  BY DEF HostAck
<1>2. h \in HostRecords
  BY HostKnows, RecordTyped, Zenon
<1>3. h.st = host[r].st /\ h.svc = host[r].svc /\ h.local = host[r].local /\ h.got = host[r].got
  BY HostKnows DEF HostRecords
<1> HIDE DEF h
<1>4. host[r].svc # "reboot"
  <2>1. host[r].acked \in Nat /\ host[r].got \in Nat
    BY HostKnows DEF HostRecords
  <2>2. host[r].got > 0
    BY <1>1, <2>1
  <2> QED BY <2>2 DEF Agree, HostsAgree
<1>5. HostGrows /\ HostsAgree' /\ Opened(r)' /\ host'[r] = h
  BY <1>1, <1>2, <1>3, HostUpdates
<1>6. PICK l \in Nat : l = host[r].local
  BY HostKnows
<1>7. Knows(r, l)'
  BY <1>6, HostKnows
<1>8. Message("OKAY", r, l, "none") \in Agreeing'
  <2>1. "none" \in Payloads
    BY DEF Payloads
  <2> QED BY <1>3, <1>4, <1>5, <1>7, <2>1, StreamMsgAgrees
<1>9. bulk_out' = bulk_out \o Transfers(Message("OKAY", r, l, "none"), TRUE, TRUE)
  BY <1>1, <1>6 DEF HostSend
<1> QED
  BY <1>5, <1>8, <1>9, HostSendAgrees

\* A CLSE of the host keeps the two ends in agreement.
LEMMA HostCloseAgrees ==
  ASSUME Inv, Agree, NEW r \in Remotes, HostClose(r),
         UNCHANGED <<streams, next_id, buffers, daemon, bulk_out_buf, pending_header>>
  PROVE  Agree'
<1> DEFINE h == [host[r] EXCEPT !.st = "closed"]
<1>1. /\ host[r].st # "idle" /\ HostSend(Message("CLSE", r, host[r].local, "none"))
      /\ host' = [host EXCEPT ![r] = h]
  BY DEF HostClose
<1>2. /\ h \in HostRecords /\ h.st = "closed"
      /\ h.svc = host[r].svc /\ h.local = host[r].local /\ h.got = host[r].got
  BY HostKnows DEF HostRecords
<1> HIDE DEF h
<1>3. HostGrows /\ HostsAgree' /\ Opened(r)' /\ host'[r] = h
  BY <1>1, <1>2, HostUpdates
<1>4. PICK l \in Nat : l = host[r].local
  BY HostKnows
<1>5. Knows(r, l)'
  BY <1>4, HostKnows
<1>6. Message("CLSE", r, l, "none") \in Agreeing'
  <2>1. "none" \in Payloads
    BY DEF Payloads
  <2> QED BY <1>3, <1>5, <2>1, StreamMsgAgrees
<1>7. bulk_out' = bulk_out \o Transfers(Message("CLSE", r, l, "none"), TRUE, TRUE)
  BY <1>1, <1>4 DEF HostSend
<1> QED
  BY <1>3, <1>6, <1>7, HostSendAgrees

\* Messages that are about no stream: CNXN, and what the device must survive.
LEMMA HostOtherAgrees ==
  ASSUME Inv, Agree, HostConnect \/ HostNoise,
         UNCHANGED <<streams, next_id, buffers, daemon, bulk_out_buf, pending_header>>
  PROVE  Agree'
<1>0. host' = host
  BY DEF HostConnect, HostNoise
<1>1. HostGrows /\ HostsAgree'
  BY <1>0, HostSame DEF Agree, HostsAgree, Opened, Knows
<1>2. \A v \in Versions : Message("CNXN", v, 0, "system") \in Agreeing'
  <2>1. "system" \in Payloads /\ Versions \subseteq Nat
    BY HostAssumption DEF Payloads
  <2> QED BY <2>1 DEF Agreeing, MsgAgrees, Message, HostMsgs
<1>3. /\ Message("OPEN", 0, 0, "unknown") \in Agreeing'
      /\ Message("STLS", 0, 0, "none") \in Agreeing'
  <2>1. "unknown" \in Payloads /\ "none" \in Payloads /\ "unknown" \notin Kinds
    BY DEF Payloads, Kinds
  <2> QED BY <2>1 DEF Agreeing, MsgAgrees, Message, HostMsgs
<1>4. \E m \in Agreeing', hok, pok \in BOOLEAN : bulk_out' = bulk_out \o Transfers(m, hok, pok)
  BY <1>2, <1>3 DEF HostConnect, HostNoise, HostSend
<1> QED
  BY <1>1, <1>4, HostSendAgrees

-----------------------------------------------------------------------------
(* Together.                                                                *)

\* The two ends agree at the start.
LEMMA InitAgrees ==
  ASSUME Init
  PROVE  Agree
<1>1. /\ streams = NoStreams /\ DOMAIN streams = {} /\ next_id = 1
      /\ buffers = NoBuffers /\ daemon = "running"
      /\ pending_header = << >> /\ bulk_out_buf = << >> /\ bulk_out = << >>
      /\ host = [r \in Remotes |-> NewHost]
  BY DEF Init, InitDev, InitKern, InitHost, NoStreams
<1>2. MsgsAgree /\ StreamsAgree
  BY <1>1 DEF MsgsAgree, StreamsAgree
<1>3. AnswersAgree
  BY <1>1 DEF AnswersAgree, AnswerAgrees, NoBuffers, NoMsg
<1>4. HostsAgree
  BY <1>1 DEF HostsAgree, Knows, NewHost
<1>5. AssertionsHold
  BY <1>1 DEF AssertionsHold, Refuted
<1> QED
  BY <1>2, <1>3, <1>4, <1>5 DEF Agree

\* Every step keeps the two ends in agreement.
LEMMA NextAgrees ==
  ASSUME ~Restarts, Inv, Agree, Next
  PROVE  Agree'
<1>1. CASE Device
  BY <1>1, LoopAgrees, ReadEndAgrees, ReadDataAgrees, WriteDoneAgrees, OpFailedAgrees,
     Ep0EventAgrees, BulkOutReadHeaderAgrees, BulkOutReadPayloadAgrees DEF Device
<1>2. CASE Kernel
  BY <1>2, KernelWriteAgrees, KernelBulkOutAgrees, KernelAgrees DEF Kernel, Transfer
<1>3. CASE Host
  <2>1. UNCHANGED <<streams, next_id, buffers, daemon, bulk_out_buf, pending_header>>
    BY <1>3 DEF Host, HostStep, devVars, ioVars, kernVars
  <2>2. \/ HostConnect \/ HostNoise
        \/ \E r \in Remotes : \/ \E svc \in Services : HostOpen(r, svc)
                              \/ HostWrite(r) \/ HostAck(r) \/ HostClose(r)
    BY <1>3 DEF Host, HostStep, HostRestart
  <2> QED
    BY <2>1, <2>2, HostOtherAgrees, HostOpenAgrees, HostWriteAgrees, HostAckAgrees,
       HostCloseAgrees
<1> QED
  BY <1>1, <1>2, <1>3 DEF Next

\* What the host and the device know of each other is never wrong.
THEOREM AgreementHolds ==
  ASSUME ~Restarts
  PROVE  Spec => [](Inv /\ Agree)
<1>1. Init => Inv /\ Agree
  BY InitInv, InitAgrees
<1>2. Inv /\ Agree /\ [Next]_vars => (Inv /\ Agree)'
  <2>1. ASSUME Inv, Agree, Next
        PROVE  Inv' /\ Agree'
    BY <2>1, NextInv, NextAgrees
  <2>2. ASSUME Inv, Agree, UNCHANGED vars
        PROVE  Inv' /\ Agree'
    <3>1. /\ UNCHANGED <<streams, next_id, host, bulk_out, pending_header, buffers>>
          /\ bulk_out_buf' = bulk_out_buf /\ daemon' = daemon
      BY <2>2 DEF vars, devVars, ioVars, kernVars, hostVars
    <3> QED BY <2>2, <3>1, StutterInv, AgreeSame DEF Agree, AssertionsHold
  <2> QED BY <2>1, <2>2
<1> QED
  BY <1>1, <1>2, PTL DEF Spec

\* For any number of streams and in any order of messages and completions: when
\* the host believes a stream open under an id of the device, the entry of
\* StreamManager under that id, if there still is one, is the other end of the
\* same stream and runs the service the host asked for.
THEOREM SessionsStayInAgreement ==
  ASSUME ~Restarts
  PROVE  Spec => []SessionsAgree
<1>1. Inv /\ Agree => SessionsAgree
  BY DEF Agree, HostsAgree, StreamsAgree, Knows, SessionsAgree
<1> QED
  BY <1>1, AgreementHolds, PTL

\* Of the assertions and panics in the code of a session only one can be reached
\* by a host that follows the protocol, is not started anew and asks for the size
\* of no file of 4 GiB: running out of write slots.  The assert! of handle_command,
\* the remote_id check of a CLSE, the unreachable! of the reboot arms and the
\* expect("SQ full") hold.
THEOREM OnlySlotsPanic ==
  ASSUME ~Restarts, "stathuge" \notin Requests
  PROVE  Spec => [](SlotsSuffice => NoPanic)
<1>1. Inv /\ Agree => (SlotsSuffice => NoPanic)
  BY DEF Inv, TypeOK, SqNeverFull, Agree, AssertionsHold, Refuted, Panics, SlotsSuffice,
         NoPanic
<1> QED
  BY <1>1, AgreementHolds, PTL

-----------------------------------------------------------------------------
(***************************************************************************)
(* Flow: the data of a stream of AdbConnection, that is the reads          *)
(* of a PTY or socket and the OKAYs they wait for.                         *)
(***************************************************************************)

-----------------------------------------------------------------------------
(* The inductive invariant.                                                 *)

\* A header is kept only while its payload is read.
PayloadsDue == \A i \in 1..Len(pending_header) : pending_header[i].payload # "none"

\* The slots queued in q are those of unlinked writes in S, each once.
Queued(q, S) ==
  /\ \A i \in 1..Len(q) : \E o \in Writes(S) : o.data = q[i] /\ o.after = 0
  /\ \A i, k \in 1..Len(q) : q[i] = q[k] => i = k

\* A WRTE of the device names both ends of its stream.
WrtesKnown == \A s \in Slots : buffers[s].cmd = "WRTE" =>
                Knows(buffers[s].arg1, buffers[s].arg0)

\* A read on its way is for a stream that is or was open, of its kind.
ReadKnown(o) ==
  /\ o.data < next_id
  /\ o.data \in DOMAIN streams =>
       o.op = IF streams[o.data].service = "shell" THEN "PtyRead" ELSE "SocketRead"

AllReads == Reads(sq) \cup Reads(kern) \cup Reads(cq) \cup Reads(batch)

ReadsKnown == \A o \in AllReads : ReadKnown(o)

\* Before a stream is open nothing has been received on it.
HostsFresh == \A r \in Remotes : host[r].st \in {"idle", "opening"} =>
                host[r].got = 0 /\ host[r].acked = 0

\* The writes of a WRTE on stream l: of its header, its payload or both.
Carries(l) == {o \in Writes(sq) \cup Writes(kern) :
                 buffers[o.data].cmd = "WRTE" /\ buffers[o.data].arg0 = l}

\* The OKAYs of stream l that the device will handle.
IsAck(x, l) == /\ x.part = "header" /\ x.ok
               /\ x.msg.cmd = "OKAY" /\ x.msg.arg1 = l
AckSent(l) == \E i \in 1..Len(bulk_out) : IsAck(bulk_out[i], l)
AckRead(l) == /\ \E c \in BulkOuts(cq) \cup BulkOuts(batch) : c.res = "ok"
              /\ bulk_out_buf # << >> /\ IsAck(bulk_out_buf[1], l)
Acked(l) == AckSent(l) \/ AckRead(l)

\* The host hears what is sent on stream l.
Listens(h, l) == h.st = "opening" \/ (h.st = "open" /\ h.local = l)

\* One WRTE at a time: it is on its way to the host, or with the host, or its
\* OKAY is on its way back, or it is lost.
AckOnce(l) ==
  /\ AckRead(l) => ~AckSent(l)
  /\ \A i, k \in 1..Len(bulk_out) : IsAck(bulk_out[i], l) /\ IsAck(bulk_out[k], l) => i = k

OneAck(l) == Acked(l) => streams[l].waiting_for_okay /\ Carries(l) = {}

OneWrte(l) ==
  /\ Carries(l) # {} => streams[l].waiting_for_okay
  /\ \A o \in Carries(l) : buffers[o.data].payload = streams[l].tx
  /\ \A o, p \in Carries(l) : o # p => o.after = p.data \/ p.after = o.data
  /\ Carries(l) \subseteq sq \/ Carries(l) \subseteq kern

Counted(l) ==
  LET s == streams[l]
      h == host[s.remote_id]
  IN Listens(h, l) =>
       /\ \/ h.got = h.acked
          \/ h.got = h.acked + 1 /\ h.got = s.tx /\ s.waiting_for_okay
               /\ ~Acked(l) /\ Carries(l) = {}
       /\ Carries(l) # {} => h.got = h.acked /\ s.tx = h.acked + 1
       /\ ~s.waiting_for_okay \/ Acked(l) => s.tx = h.acked
       /\ s.tx <= h.acked + 1

ReadsOf(l) == OnData(AllReads, l)

\* What Driven says of a stream that is read.
OneRead(l) ==
  IF streams[l].waiting_for_okay THEN ReadsOf(l) = {}
  ELSE ExactlyOne(OnData(Reads(sq), l), OnData(Reads(kern), l), OnData(Reads(cq), l),
                  OnData(Reads(batch), l))

Flows(l) == AckOnce(l) /\ OneAck(l) /\ OneWrte(l) /\ Counted(l) /\ OneRead(l)

\* The host does not both push files in pieces and pull files.
NoMix == ~({"send", "recv"} \subseteq Requests)

\* What Driven says of the other streams.
SyncDriven(l) ==
  LET s == streams[l]
  IN IF s.service = "sync"
     THEN NoMix => SyncWaits(s) /\ ("recv" \notin Requests => s.sync \notin {"Sending", "Sent"})
     ELSE ~s.waiting_for_okay

StreamsFlow == \A l \in DOMAIN streams :
                 IF streams[l].service \in {"shell", "forward"} THEN Flows(l)
                 ELSE SyncDriven(l)

Flowing == /\ Queued(order, sq) /\ Queued(bulk_in, kern)
           /\ PayloadsDue /\ WrtesKnown /\ ReadsKnown /\ HostsFresh /\ StreamsFlow

FlowInv == daemon = "running" => Flowing

-----------------------------------------------------------------------------
(* What pushing entries does to the queue and to the slots, if the loop goes *)
(* on after it.                                                             *)

Sound(io) == /\ Queued(io.order, io.sq)
             /\ \A o \in Writes(io.sq) : o.data \in Used(io.buffers)

\* From io to j the reads R and some writes of messages of M are pushed.
Adds(io, j, M, R) ==
  /\ j \in IoType
  /\ j.daemon = "running" =>
       /\ io.daemon = "running" /\ io.sq \subseteq j.sq
       /\ Reads(j.sq) = Reads(io.sq) \cup R
       /\ \A s \in Slots : \/ j.buffers[s] = io.buffers[s]
                           \/ s \notin Used(io.buffers) /\ j.buffers[s] \in M
       /\ \A o \in Writes(j.sq) \ io.sq :
            o.data \notin Used(io.buffers) /\ j.buffers[o.data] \in M
       /\ Sound(io) => Sound(j)

\* The messages a handler may send.
IsMessages(M) == \A m \in M : m \in DevMsgs /\ m.cmd # "none"

\* More entries do not disturb a queue.
LEMMA QueuedGrows ==
  ASSUME NEW q, NEW S, NEW T, Queued(q, S), Writes(S) \subseteq Writes(T)
  PROVE  Queued(q, T)
BY DEF Queued

\* Nothing is pushed.
LEMMA AddsNothing ==
  ASSUME NEW io \in IoType, NEW M
  PROVE  Adds(io, io, M, {})
<1>1. Writes(io.sq) \ io.sq = {}
  BY DEF Writes
<1> QED
  BY <1>1, Zenon DEF Adds

\* A panic ends it.
LEMMA AddsPanic ==
  ASSUME NEW io \in IoType, NEW M, NEW why \in Daemons \ {"running"}
  PROVE  Adds(io, Panic(io, why), M, {})
<1>1. CASE io.daemon = "running"
  <2>1. [io EXCEPT !.daemon = why] \in IoType /\ [io EXCEPT !.daemon = why].daemon = why
    BY DEF IoType
  <2> QED BY <1>1, <2>1 DEF Panic, Adds
<1>2. CASE io.daemon # "running"
  BY <1>2, AddsNothing DEF Panic
<1> QED
  BY <1>1, <1>2

\* One after the other.
LEMMA AddsMore ==
  ASSUME NEW io, NEW j, NEW k, NEW M, NEW R, NEW Q,
         Adds(io, j, M, R), Adds(j, k, M, Q), io \in IoType, IsMessages(M)
  PROVE  Adds(io, k, M, R \cup Q)
<1>1. k \in IoType /\ j \in IoType
  BY DEF Adds
<1> SUFFICES ASSUME k.daemon = "running"
             PROVE  Adds(io, k, M, R \cup Q)
  BY <1>1 DEF Adds
<1>2. j.daemon = "running" /\ io.daemon = "running" /\ io.sq \subseteq k.sq
  BY DEF Adds
<1>3. Reads(k.sq) = Reads(io.sq) \cup (R \cup Q)
  BY <1>2 DEF Adds
<1>4. \A s \in Slots : \/ k.buffers[s] = io.buffers[s]
                       \/ s \notin Used(io.buffers) /\ k.buffers[s] \in M
  BY <1>2 DEF Adds, Used
<1>5. ASSUME NEW o \in Writes(k.sq) \ io.sq
      PROVE  o.data \notin Used(io.buffers) /\ k.buffers[o.data] \in M
  <2>1. o.data \in Slots
    BY <1>1 DEF IoType, Ops, Writes
  <2>2. CASE o \in j.sq
    <3>1. o \in Writes(j.sq) \ io.sq
      BY <2>2 DEF Writes
    <3> QED BY <1>2, <2>1, <3>1 DEF Adds
  <2>3. CASE o \notin j.sq
    BY <1>2, <2>1, <2>3 DEF Adds, Used
  <2> QED BY <2>2, <2>3
<1>6. Sound(io) => Sound(k)
  BY <1>2 DEF Adds
<1> QED
  BY <1>1, <1>2, <1>3, <1>4, <1>5, <1>6 DEF Adds

\* An entry that is not a write.
LEMMA AddsPush ==
  ASSUME NEW io \in IoType, NEW M, NEW o \in Ops, o.op # "BulkInWrite"
  PROVE  Adds(io, Push(io, o), M, Reads({o}))
<1> DEFINE j == [io EXCEPT !.sq = io.sq \cup {o}]
<1>1. j \in IoType /\ j.sq = io.sq \cup {o} /\ j.buffers = io.buffers
        /\ j.order = io.order /\ j.daemon = io.daemon
  BY DEF IoType
<1> HIDE DEF j
<1>2. Writes(j.sq) = Writes(io.sq) /\ Reads(j.sq) = Reads(io.sq) \cup Reads({o})
  BY <1>1 DEF Writes, Reads
<1>3. Sound(io) => Sound(j)
  <2>1. Queued(io.order, io.sq) => Queued(j.order, j.sq)
    BY <1>1, <1>2, QueuedGrows
  <2> QED BY <1>1, <1>2, <2>1, Zenon DEF Sound
<1>4. Adds(io, j, M, Reads({o}))
  <2>1. Writes(j.sq) \ io.sq = {}
    BY <1>2 DEF Writes
  <2> QED BY <1>1, <1>2, <1>3, <2>1 DEF Adds
<1>5. "SQ full" \in Daemons \ {"running"}
  BY DEF Daemons, Panics
<1>6. Panic(io, "SQ full") \in IoType /\ Panic(io, "SQ full").daemon # "running"
  <2>1. [io EXCEPT !.daemon = "SQ full"] \in IoType /\ [io EXCEPT !.daemon = "SQ full"].daemon = "SQ full"
    BY <1>5 DEF IoType
  <2> QED BY <2>1 DEF Panic
<1>7. Push(io, o) \in {j, Panic(io, "SQ full")}
  BY DEF Push, j
<1> QED
  BY <1>4, <1>6, <1>7 DEF Adds

\* One transfer of a message.
LEMMA AddsPart ==
  ASSUME NEW io \in IoType, NEW M, IsMessages(M), NEW m \in M, NEW after \in {0} \cup Slots
  PROVE  LET j == SubmitPart(io, m, after)
         IN /\ Adds(io, j, M, {})
            /\ j.daemon = "running" =>
                 /\ HasFree(io.buffers)
                 /\ \A o \in Writes(j.sq) \ io.sq :
                      o.data = FirstFree(io.buffers) /\ o.after = after
<1> DEFINE s == FirstFree(io.buffers)
           o == Op("BulkInWrite", s, after)
           io1 == [io EXCEPT !.buffers = Alloc(@, s, m),
                             !.order = IF after = 0 THEN Append(@, s) ELSE @]
<1>0. \A x \in IoType, why \in Daemons \ {"running"} :
        Panic(x, why) \in IoType /\ Panic(x, why).daemon # "running"
  <2> SUFFICES ASSUME NEW x \in IoType, NEW why \in Daemons \ {"running"}
               PROVE  Panic(x, why) \in IoType /\ Panic(x, why).daemon # "running"
    OBVIOUS
  <2>1. [x EXCEPT !.daemon = why] \in IoType /\ [x EXCEPT !.daemon = why].daemon = why
    BY DEF IoType
  <2> QED BY <2>1 DEF Panic
<1>1. CASE ~HasFree(io.buffers)
  <2>1. "all write slots in use" \in Daemons \ {"running"}
    BY DEF Daemons, Panics
  <2>2. SubmitPart(io, m, after) = Panic(io, "all write slots in use")
    BY <1>1 DEF SubmitPart
  <2> QED BY <1>0, <2>1, <2>2 DEF Adds
<1>2. CASE HasFree(io.buffers)
  <2>1. s \in Slots \ Used(io.buffers)
    BY <1>2, FirstFreeIsFree
  <2>2. m \in DevMsgs /\ m.cmd # "none"
    BY DEF IsMessages
  <2>3. SubmitPart(io, m, after) = Push(io1, o)
    BY <1>2, Zenon DEF SubmitPart
  <2> HIDE DEF s
  <2>4. o \in Ops /\ o.op = "BulkInWrite" /\ o.data = s /\ o.after = after
    BY <2>1 DEF Op, Ops
  <2>5. /\ io1 \in IoType /\ io1.sq = io.sq /\ io1.daemon = io.daemon
        /\ io1.buffers = [io.buffers EXCEPT ![s] = m]
        /\ io1.order = IF after = 0 THEN Append(io.order, s) ELSE io.order
    <3> DEFINE q == IF after = 0 THEN Append(io.order, s) ELSE io.order
               b == [io.buffers EXCEPT ![s] = m]
    <3>1. q \in Seq(Slots)
      BY <2>1 DEF IoType
    <3>2. b \in [Slots -> DevMsgs]
      BY <2>1, <2>2 DEF IoType
    <3>3. io1 = [io EXCEPT !.buffers = b, !.order = q]
      BY DEF Alloc
    <3> HIDE DEF q, b, io1
    <3>4. io1 \in IoType /\ io1.sq = io.sq /\ io1.daemon = io.daemon
            /\ io1.buffers = b /\ io1.order = q
      BY <3>1, <3>2, <3>3 DEF IoType
    <3> QED BY <3>4 DEF q, b
  <2> HIDE DEF o, io1
  <2> DEFINE j == [io1 EXCEPT !.sq = io1.sq \cup {o}]
  <2>6. /\ j \in IoType /\ j.sq = io.sq \cup {o} /\ j.daemon = io.daemon
        /\ j.buffers = io1.buffers /\ j.order = io1.order
    BY <2>4, <2>5 DEF IoType
  <2>7. Push(io1, o) \in {j, Panic(io1, "SQ full")}
    BY DEF Push, j
  <2> HIDE DEF j
  <2>8. "SQ full" \in Daemons \ {"running"}
    BY DEF Daemons, Panics
  <2>9. /\ \A t \in Slots : t # s => j.buffers[t] = io.buffers[t]
        /\ j.buffers[s] = m
    BY <2>1, <2>5, <2>6 DEF IoType
  <2>10. /\ Reads(j.sq) = Reads(io.sq)
         /\ Writes(j.sq) = Writes(io.sq) \cup {o}
         /\ \A p \in Writes(j.sq) \ io.sq : p = o
    BY <2>4, <2>6 DEF Reads, Writes
  <2>11. ASSUME Sound(io) PROVE Sound(j)
    <3>1. \A p \in Writes(j.sq) : p.data \in Used(j.buffers)
      BY <2>1, <2>2, <2>4, <2>9, <2>10, <2>11 DEF Sound, Used
    <3>2. CASE after # 0
      <4>1. Queued(io.order, j.sq)
        BY <2>10, <2>11, QueuedGrows DEF Sound
      <4>2. j.order = io.order
        BY <2>5, <2>6, <3>2
      <4> QED BY <3>1, <4>1, <4>2 DEF Sound
    <3>3. CASE after = 0
      <4>1. j.order = Append(io.order, s) /\ io.order \in Seq(Slots) /\ Len(io.order) \in Nat
        BY <2>5, <2>6, <3>3 DEF IoType
      <4>2. /\ Len(j.order) = Len(io.order) + 1
            /\ \A i \in 1..Len(io.order) : j.order[i] = io.order[i]
            /\ j.order[Len(io.order) + 1] = s
        BY <4>1, <2>1, AppendProperties
      <4>3. \A i \in 1..Len(io.order) : io.order[i] # s
        BY <2>1, <2>11 DEF Sound, Queued
      <4>4. \A i \in 1..Len(j.order) : i \in 1..Len(io.order) \/ i = Len(io.order) + 1
        BY <4>1, <4>2
      <4>5. ASSUME NEW i \in 1..Len(j.order)
            PROVE  \E p \in Writes(j.sq) : p.data = j.order[i] /\ p.after = 0
        <5>1. CASE i \in 1..Len(io.order)
          BY <2>10, <2>11, <4>2, <5>1 DEF Sound, Queued
        <5>2. CASE i = Len(io.order) + 1
          BY <2>4, <2>10, <3>3, <4>2, <5>2
        <5> QED BY <4>4, <5>1, <5>2
      <4>6. ASSUME NEW i \in 1..Len(j.order), NEW k \in 1..Len(j.order), j.order[i] = j.order[k]
            PROVE  i = k
        BY <2>11, <4>2, <4>3, <4>4, <4>6 DEF Sound, Queued
      <4> QED BY <3>1, <4>5, <4>6 DEF Sound, Queued
    <3> QED BY <3>2, <3>3
  <2>12. Adds(io, j, M, {})
    BY <2>1, <2>4, <2>6, <2>9, <2>10, <2>11 DEF Adds
  <2>13. CASE SubmitPart(io, m, after) = j
    BY <1>2, <2>4, <2>10, <2>12, <2>13 DEF s
  <2>14. CASE SubmitPart(io, m, after) = Panic(io1, "SQ full")
    BY <1>0, <2>5, <2>8, <2>14 DEF Adds
  <2> QED BY <2>3, <2>7, <2>13, <2>14
<1> QED
  BY <1>1, <1>2

\* A message: its header, and its payload linked to the header.
LEMMA AddsMessage ==
  ASSUME NEW io \in IoType, NEW M, IsMessages(M), NEW m \in M
  PROVE  LET j == SubmitMessage(io, m)
         IN /\ Adds(io, j, M, {})
            /\ j.daemon = "running" =>
                 \A o, p \in Writes(j.sq) \ io.sq :
                   o # p => o.after = p.data \/ p.after = o.data
<1> DEFINE f == FirstFree(io.buffers)
           i == SubmitPart(io, m, 0)
           j == SubmitPart(i, m, f)
<1>1. /\ Adds(io, i, M, {})
      /\ i.daemon = "running" =>
           /\ HasFree(io.buffers)
           /\ \A o \in Writes(i.sq) \ io.sq : o.data = f /\ o.after = 0
  BY AddsPart
<1>2. i \in IoType
  BY <1>1 DEF Adds
<1>3. \A S \in SUBSET Ops : \A o, p \in Writes(S) :
        o.data = p.data /\ o.after = p.after => o = p
  <2> SUFFICES ASSUME NEW o \in Ops, NEW p \in Ops, o.op = "BulkInWrite", p.op = "BulkInWrite",
                      o.data = p.data, o.after = p.after
               PROVE  o = p
    BY DEF Writes
  <2> QED BY DEF Ops
<1>4. CASE m.payload = 0 \/ ~HasFree(io.buffers)
  <2>1. SubmitMessage(io, m) = i
    BY <1>4 DEF SubmitMessage
  <2>2. i.sq \in SUBSET Ops
    BY <1>2 DEF IoType
  <2>3. ASSUME NEW o \in Writes(i.sq) \ io.sq, NEW p \in Writes(i.sq) \ io.sq,
               i.daemon = "running"
        PROVE  o = p
    BY <1>1, <1>3, <2>2, <2>3
  <2> HIDE DEF i
  <2> QED BY <1>1, <2>1, <2>3
<1>5. CASE m.payload # 0 /\ HasFree(io.buffers)
  <2>1. SubmitMessage(io, m) = j
    BY <1>5 DEF SubmitMessage
  <2>2. f \in {0} \cup Slots
    BY <1>5, FirstFreeIsFree
  <2> HIDE DEF i, f
  <2>3. /\ Adds(i, j, M, {})
        /\ j.daemon = "running" =>
             /\ HasFree(i.buffers)
             /\ \A o \in Writes(j.sq) \ i.sq : o.data = FirstFree(i.buffers) /\ o.after = f
    BY <1>2, <2>2, AddsPart
  <2>4. Adds(io, j, M, {})
    <3> HIDE DEF j
    <3>1. Adds(io, j, M, {} \cup {})
      BY <1>1, <2>3, AddsMore
    <3> QED BY <3>1
  <2>5. j.sq \in SUBSET Ops
    <3>1. j \in IoType
      BY <2>3 DEF Adds
    <3> HIDE DEF j
    <3> QED BY <3>1 DEF IoType
  <2>6. ASSUME j.daemon = "running", NEW o \in Writes(j.sq) \ io.sq
        PROVE  \/ o.data = f /\ o.after = 0
               \/ o.data = FirstFree(i.buffers) /\ o.after = f
    <3>1. i.daemon = "running"
      BY <2>3, <2>6 DEF Adds
    <3>2. CASE o \in i.sq
      <4>1. o \in Writes(i.sq) \ io.sq
        BY <3>2 DEF Writes
      <4> QED BY <1>1, <3>1, <4>1
    <3>3. CASE o \notin i.sq
      BY <2>3, <2>6, <3>3
    <3> QED BY <3>2, <3>3
  <2>7. ASSUME j.daemon = "running", NEW o \in Writes(j.sq) \ io.sq,
               NEW p \in Writes(j.sq) \ io.sq, o # p
        PROVE  o.after = p.data \/ p.after = o.data
    <3> HIDE DEF j
    <3>1. ~(o.data = p.data /\ o.after = p.after)
      BY <1>3, <2>5, <2>7
    <3> QED BY <2>6, <2>7, <3>1
  <2> HIDE DEF j
  <2> QED BY <2>1, <2>4, <2>7
<1> QED
  BY <1>4, <1>5

\* The read that follows, and the one a shell or forward is driven by.
LEMMA AddsRead ==
  ASSUME NEW io \in IoType, NEW M, NEW l \in Nat, NEW kind
  PROVE  Adds(io, Push(io, StreamRead(kind, l)), M, {StreamRead(kind, l)})
<1>1. StreamRead(kind, l) \in Ops /\ StreamRead(kind, l).op \in {"PtyRead", "SocketRead"}
  BY DEF StreamRead, Op, Ops, OpTypes
<1>2. Reads({StreamRead(kind, l)}) = {StreamRead(kind, l)}
  BY <1>1 DEF Reads
<1> QED
  BY <1>1, <1>2, AddsPush

\* Every handler ends with the next read of bulk-out.
LEMMA AddsFinish ==
  ASSUME NEW io \in IoType, NEW j, NEW M, NEW R, IsMessages(M), Adds(io, j, M, R), Finish(j)
  PROVE  \E k : Commit(k) /\ Adds(io, k, M, R)
<1>1. ReadHeader \in Ops /\ ReadHeader.op = "BulkOutReadHeader"
  BY DEF ReadHeader, Op, Ops, OpTypes
<1>2. Reads({ReadHeader}) = {}
  BY <1>1 DEF Reads
<1>3. j \in IoType
  BY DEF Adds
<1>4. Adds(j, Push(j, ReadHeader), M, {})
  BY <1>1, <1>2, <1>3, AddsPush
<1>5. Adds(io, Push(j, ReadHeader), M, R \cup {})
  BY <1>4, AddsMore
<1> QED
  BY <1>5 DEF Finish

-----------------------------------------------------------------------------
(* What leaves the flow of a stream as it is.                               *)

\* What the flow of a stream depends on in its entry.
SameFlow(s, t) == /\ s.remote_id = t.remote_id /\ s.service = t.service
                  /\ s.waiting_for_okay = t.waiting_for_okay /\ s.tx = t.tx

\* What it depends on in the host's record.
SameHost(h, g, l) == /\ g.got = h.got /\ g.acked = h.acked
                     /\ Listens(g, l) => Listens(h, l)

\* WRTEs and OKAYs may be lost, none may appear.
LEMMA CountStays ==
  ASSUME NEW l, OneAck(l), Counted(l), SameFlow(streams[l], streams'[l]),
         SameHost(host[streams[l].remote_id], host'[streams[l].remote_id], l),
         Carries(l)' # {} => Carries(l) # {}, Acked(l)' => Acked(l)
  PROVE  OneAck(l)' /\ Counted(l)'
<1>1. OneAck(l)'
  BY DEF OneAck, SameFlow
<1>2. Counted(l)'
  <2> DEFINE h == host[streams[l].remote_id]
             g == host'[streams[l].remote_id]
  <2>1. Counted(l)' <=>
          (Listens(g, l) =>
             /\ \/ g.got = g.acked
                \/ g.got = g.acked + 1 /\ g.got = streams'[l].tx /\ streams'[l].waiting_for_okay
                     /\ ~Acked(l)' /\ Carries(l)' = {}
             /\ Carries(l)' # {} => g.got = g.acked /\ streams'[l].tx = g.acked + 1
             /\ ~streams'[l].waiting_for_okay \/ Acked(l)' => streams'[l].tx = g.acked
             /\ streams'[l].tx <= g.acked + 1)
    BY DEF Counted, SameFlow, Listens
  <2> QED BY <2>1 DEF Counted, SameFlow, SameHost
<1> QED
  BY <1>1, <1>2

\* The writes of a WRTE stay or are lost.
LEMMA WrteStays ==
  ASSUME NEW l, OneWrte(l), SameFlow(streams[l], streams'[l]),
         \A o \in Carries(l)' : o \in Carries(l) /\ buffers'[o.data] = buffers[o.data],
         Carries(l)' \subseteq sq' \/ Carries(l)' \subseteq kern'
  PROVE  OneWrte(l)'
BY DEF OneWrte, SameFlow

\* The reads of a stream are in one of four places.
LEMMA ReadsSplit ==
  ASSUME NEW l
  PROVE  /\ ReadsOf(l) = OnData(Reads(sq), l) \cup OnData(Reads(kern), l)
                           \cup OnData(Reads(cq), l) \cup OnData(Reads(batch), l)
         /\ ReadsOf(l)' = OnData(Reads(sq'), l) \cup OnData(Reads(kern'), l)
                           \cup OnData(Reads(cq'), l) \cup OnData(Reads(batch'), l)
<1>1. ReadsOf(l) = OnData(Reads(sq), l) \cup OnData(Reads(kern), l)
                     \cup OnData(Reads(cq), l) \cup OnData(Reads(batch), l)
  BY DEF ReadsOf, AllReads, OnData
<1>2. ReadsOf(l)' = OnData(Reads(sq'), l) \cup OnData(Reads(kern'), l)
                     \cup OnData(Reads(cq'), l) \cup OnData(Reads(batch'), l)
  BY DEF ReadsOf, AllReads, OnData
<1> QED
  BY <1>1, <1>2

\* Its read stays where it is.
LEMMA ReadStays ==
  ASSUME NEW l, OneRead(l), SameFlow(streams[l], streams'[l]),
         OnData(Reads(sq'), l) = OnData(Reads(sq), l),
         OnData(Reads(kern'), l) = OnData(Reads(kern), l),
         OnData(Reads(cq'), l) = OnData(Reads(cq), l),
         OnData(Reads(batch'), l) = OnData(Reads(batch), l)
  PROVE  OneRead(l)'
<1>1. ReadsOf(l)' = ReadsOf(l)
  BY ReadsSplit
<1> QED
  BY <1>1 DEF OneRead, SameFlow

\* OKAYs that are lost.
LEMMA AckStays ==
  ASSUME NEW l, AckOnce(l), bulk_out' = bulk_out, AckRead(l)' => AckRead(l)
  PROVE  AckOnce(l)' /\ (Acked(l)' => Acked(l))
BY DEF AckOnce, AckSent, Acked

\* Other streams than those that are read do not depend on anything else.
LEMMA SyncStays ==
  ASSUME NEW l, SyncDriven(l), streams'[l].service = streams[l].service,
         streams'[l].waiting_for_okay = streams[l].waiting_for_okay,
         streams'[l].sync = streams[l].sync
  PROVE  SyncDriven(l)'
BY DEF SyncDriven, SyncWaits

-----------------------------------------------------------------------------
(* The steps of the loop that handle a completion c.                        *)

Handles(c) == /\ daemon = "running" /\ daemon' = "running"
              /\ c \in batch /\ batch' = batch \ {c}
              /\ UNCHANGED <<cq, kern, bulk_in, bulk_out, bulk_out_buf, host>>

\* WRTEs that name both ends of a stream.
Known == {m \in DevMsgs : m.cmd # "none" /\ (m.cmd = "WRTE" => Knows(m.arg1, m.arg0))}

\* What handlers of commands send: no WRTE but on sync streams.
Quiet == {m \in Known : m.cmd = "WRTE" => m.arg0 \in DOMAIN streams
                                            /\ streams[m.arg0].service = "sync"}

\* The slots of writes that are not completed are in use.
LEMMA SlotsInUse ==
  ASSUME Inv
  PROVE  /\ \A o \in Writes(sq) \cup Writes(kern) : o.data \in Slots /\ o.data \in Used(buffers)
         /\ Io \in IoType /\ Io.sq = sq /\ Io.buffers = buffers /\ Io.order = order
         /\ Io.daemon = daemon
<1>1. \A o \in Writes(sq) \cup Writes(kern) : o.data \in Slots
  BY DEF Inv, TypeOK, Ops, Writes
<1>2. \A o \in Writes(sq) \cup Writes(kern) : o.data \in Used(buffers)
  BY DEF Inv, WritesOwnTheirSlot
<1>3. Io \in IoType
  BY IoNow DEF Inv, IoOwns
<1> QED
  BY <1>1, <1>2, <1>3 DEF Io

\* The bulk-out completions only become fewer.
LEMMA AckReadShrinks ==
  ASSUME NEW c, Handles(c), NEW l, AckRead(l)'
  PROVE  AckRead(l)
<1>1. BulkOuts(cq') = BulkOuts(cq) /\ BulkOuts(batch') \subseteq BulkOuts(batch)
  BY DEF Handles, BulkOuts
<1> QED
  BY <1>1 DEF Handles, AckRead

\* No WRTE of M is on stream l.
Silent(M, l) == \A m \in M : m.cmd = "WRTE" => m.arg0 # l

\* Handlers of commands are silent on the streams that are read.
LEMMA QuietIsSilent ==
  ASSUME NEW l \in DOMAIN streams', streams'[l].service \in {"shell", "forward"}
  PROVE  Silent(Quiet', l)
BY DEF Silent, Quiet

\* What is pushed adds no WRTE to a stream on which it is silent.
LEMMA CarriesShrinks ==
  ASSUME Inv, NEW c, Handles(c), NEW M, NEW R, NEW j, Commit(j), Adds(Io, j, M, R),
         NEW l, Silent(M, l)
  PROVE  /\ sq \subseteq sq' /\ Reads(sq') = Reads(sq) \cup R
         /\ \A o \in Carries(l)' : o \in Carries(l) /\ buffers'[o.data] = buffers[o.data]
<1>0. /\ j.daemon = "running" /\ sq' = j.sq /\ buffers' = j.buffers
      /\ UNCHANGED <<cq, kern, bulk_out, bulk_out_buf, host>>
  BY DEF Handles, Commit
<1>1. sq \subseteq sq' /\ Reads(sq') = Reads(sq) \cup R
  BY <1>0, SlotsInUse DEF Adds
<1>2. \A s \in Used(buffers) : buffers'[s] = buffers[s]
  BY <1>0, SlotsInUse DEF Adds, Used
<1>3. ASSUME NEW o \in Carries(l)'
      PROVE  o \in Carries(l) /\ buffers'[o.data] = buffers[o.data]
  <2>1. /\ o \in Writes(sq') \cup Writes(kern)
        /\ buffers'[o.data].cmd = "WRTE" /\ buffers'[o.data].arg0 = l
    BY <1>0, <1>3 DEF Carries
  <2>2. o \in Writes(sq) \cup Writes(kern)
    <3> SUFFICES ASSUME o \in Writes(sq') \ sq
                 PROVE  FALSE
      BY <2>1 DEF Writes
    <3>1. buffers'[o.data] \in M
      BY <1>0, SlotsInUse DEF Adds
    <3> QED BY <2>1, <3>1 DEF Silent
  <2>3. buffers'[o.data] = buffers[o.data]
    BY <1>2, <2>2, SlotsInUse
  <2> QED BY <2>1, <2>2, <2>3 DEF Carries
<1> QED
  BY <1>1, <1>3

\* What is pushed for other streams, or taken from them, leaves a stream alone.
LEMMA FlowsKept ==
  ASSUME Inv, NEW c, Handles(c), NEW M, NEW R, NEW j, Commit(j), Adds(Io, j, M, R),
         NEW l, Silent(M, l), Flows(l), SameFlow(streams[l], streams'[l]),
         OnData(R, l) = {}, c \notin OnData(Reads(batch), l)
  PROVE  Flows(l)'
<1>0. UNCHANGED <<cq, kern, bulk_out, bulk_out_buf, host>>
  BY DEF Handles
<1>1. /\ sq \subseteq sq' /\ Reads(sq') = Reads(sq) \cup R
      /\ \A o \in Carries(l)' : o \in Carries(l) /\ buffers'[o.data] = buffers[o.data]
  BY CarriesShrinks
<1>4. OneWrte(l)'
  <2>1. Carries(l)' \subseteq sq' \/ Carries(l)' \subseteq kern'
    BY <1>0, <1>1 DEF Flows, OneWrte
  <2> QED BY <1>1, <2>1, WrteStays DEF Flows
<1>5. AckOnce(l)' /\ (Acked(l)' => Acked(l))
  BY <1>0, AckReadShrinks, AckStays DEF Flows
<1>6. OneAck(l)' /\ Counted(l)'
  <2>1. SameHost(host[streams[l].remote_id], host'[streams[l].remote_id], l)
    BY <1>0 DEF SameHost
  <2> QED BY <1>1, <1>5, <2>1, CountStays DEF Flows
<1>7. OneRead(l)'
  <2>1. OnData(Reads(sq'), l) = OnData(Reads(sq), l)
    BY <1>1 DEF OnData
  <2>2. OnData(Reads(batch'), l) = OnData(Reads(batch), l)
    BY DEF Handles, OnData, Reads
  <2> QED BY <1>0, <2>1, <2>2, ReadStays DEF Flows
<1> QED
  BY <1>4, <1>5, <1>6, <1>7 DEF Flows

\* The parts of the invariant that are not about one stream.
Rest == /\ Queued(order, sq) /\ Queued(bulk_in, kern)
        /\ PayloadsDue /\ WrtesKnown /\ ReadsKnown /\ HostsFresh

\* They are kept by what a handler pushes.
LEMMA RestKept ==
  ASSUME Inv, Rest, NEW c, Handles(c), NEW M, NEW R, NEW j, Commit(j), Adds(Io, j, M, R),
         M \subseteq Known', Grows, PayloadsDue', \A o \in R : ReadKnown(o)'
  PROVE  Rest'
<1>0. /\ j.daemon = "running" /\ sq' = j.sq /\ buffers' = j.buffers /\ order' = j.order
      /\ UNCHANGED <<cq, kern, bulk_in, host>>
  BY DEF Handles, Commit
<1>1. Queued(order', sq') /\ Queued(bulk_in', kern')
  <2>1. Sound(Io)
    BY SlotsInUse DEF Sound, Rest
  <2>2. Sound(j)
    BY <1>0, <2>1 DEF Adds
  <2> QED BY <1>0, <2>2 DEF Sound, Rest
<1>2. WrtesKnown'
  <2> SUFFICES ASSUME NEW s \in Slots, buffers'[s].cmd = "WRTE"
               PROVE  Knows(buffers[s].arg1, buffers[s].arg0)'
    BY DEF WrtesKnown
  <2>1. CASE buffers'[s] = buffers[s]
    <3>1. PICK m \in DevMsgs : m = buffers[s]
      BY DEF Inv, TypeOK
    <3>2. m.arg0 \in Nat /\ Knows(m.arg1, m.arg0)
      BY <2>1, <3>1 DEF DevMsgs, Rest, WrtesKnown
    <3>3. Knows(m.arg1, m.arg0)'
      BY <3>2, KnowsStays
    <3> QED BY <2>1, <3>1, <3>3 DEF Knows
  <2>2. CASE buffers'[s] \in M
    <3>1. PICK m : m = buffers'[s]
      OBVIOUS
    <3>2. Knows(m.arg1, m.arg0)'
      BY <2>2, <3>1 DEF Known
    <3> QED BY <3>1, <3>2 DEF Knows
  <2> QED BY <1>0, <2>1, <2>2, SlotsInUse DEF Adds
<1>3. ReadsKnown'
  <2> SUFFICES ASSUME NEW o \in AllReads'
               PROVE  ReadKnown(o)'
    BY DEF ReadsKnown
  <2>1. Reads(sq') = Reads(sq) \cup R /\ Reads(batch') \subseteq Reads(batch)
    BY <1>0, SlotsInUse DEF Adds, Handles, Reads
  <2>2. o \in AllReads \/ o \in R
    BY <1>0, <2>1 DEF AllReads
  <2>3. CASE o \in AllReads
    <3>1. ReadKnown(o)
      BY <2>3 DEF Rest, ReadsKnown
    <3>2. o.data \in Nat
      BY <2>3 DEF AllReads, Reads, Inv, TypeOK, Ops, Cqes
    <3> QED BY <3>1, <3>2 DEF ReadKnown, Grows
  <2> QED BY <2>2, <2>3
<1>4. HostsFresh'
  BY <1>0 DEF Rest, HostsFresh
<1> QED
  BY <1>1, <1>2, <1>3, <1>4 DEF Rest

-----------------------------------------------------------------------------
(* What a command does to the table and which reads R it pushes.            *)

\* Stream k goes on as it was.
Stays(k, R) == /\ k \in DOMAIN streams /\ SameFlow(streams[k], streams'[k])
               /\ streams'[k].sync = streams[k].sync /\ OnData(R, k) = {}

\* It is not one that is read.
Syncs(k) == streams'[k].service \notin {"shell", "forward"} /\ SyncDriven(k)'

\* It is new, and read.
Fresh(k, R) == /\ k \in Nat /\ ~(k < next_id) /\ streams'[k].tx = 0
               /\ streams'[k].service \in {"shell", "forward"}
               /\ ~streams'[k].waiting_for_okay /\ \E x : OnData(R, k) = {x}

\* The OKAY m lets it be read again.
Resumed(k, R, m) ==
  /\ m.cmd = "OKAY" /\ m.arg1 = k /\ k \in DOMAIN streams
  /\ streams'[k].service \in {"shell", "forward"}
  /\ SameStream(streams[k], streams'[k]) /\ streams'[k].tx = streams[k].tx
  /\ ~streams'[k].waiting_for_okay /\ \E x : OnData(R, k) = {x}

TableFlows(R, m) == \A k \in DOMAIN streams' :
                      Stays(k, R) \/ Syncs(k) \/ Fresh(k, R) \/ Resumed(k, R, m)

\* What is true when the command m has been handled.
Effect(io, m) ==
  \E j, R : /\ Commit(j) /\ Adds(io, j, Quiet', R) /\ (\A o \in R : ReadKnown(o)')
            /\ TableFlows(R, m)

\* What a handler may rely on.
Begins(io) == Starts(io) /\ StreamsFlow

\* The io of a handler.
LEMMA BeginsTyped ==
  ASSUME NEW io, Begins(io)
  PROVE  io \in IoType /\ StreamsOK /\ IsMessages(Quiet')
BY DEF Begins, Starts, Ios, IoType, Good, IsMessages, Quiet, Known

\* Messages that are no WRTE.
LEMMA QuietMessages ==
  ASSUME NEW l \in Nat, NEW r \in Nat
  PROVE  /\ Okay(l, r) \in Quiet' /\ Clse(l, r) \in Quiet'
         /\ DevMsg("CNXN", 0, 0, 1, FALSE) \in Quiet'
BY DEF Okay, Clse, DevMsg, DevMsgs, Quiet, Known

\* A frame of a sync stream that is open.
LEMMA QuietFrame ==
  ASSUME NEW l \in Nat, l < next_id', l \in DOMAIN streams', streams'[l].service = "sync",
         NEW n \in Nat, NEW fin \in BOOLEAN, NEW r \in Nat, r = streams'[l].remote_id
  PROVE  DevMsg("WRTE", l, r, n, fin) \in Quiet'
<1>2. Knows(r, l)'
  BY DEF Knows
<1>3. DevMsg("WRTE", l, r, n, fin) \in DevMsgs
  BY MessagesTyped
<1> DEFINE m == DevMsg("WRTE", l, r, n, fin)
<1>4. m.cmd = "WRTE" /\ m.arg0 = l /\ m.arg1 = r
  BY DEF DevMsg
<1> HIDE DEF m
<1>5. m \in Known'
  BY <1>2, <1>3, <1>4 DEF Known, m
<1> QED
  BY <1>4, <1>5 DEF Quiet, m

\* A command that reads nothing: streams stay, are closed, or are sync streams.
LEMMA EffectQuiet ==
  ASSUME NEW io, Begins(io), NEW i, Adds(io, i, Quiet', {}), Finish(i), NEW m,
         \A k \in DOMAIN streams' : Stays(k, {}) \/ Syncs(k)
  PROVE  Effect(io, m)
<1>1. PICK j : Commit(j) /\ Adds(io, j, Quiet', {})
  BY BeginsTyped, AddsFinish
<1>2. TableFlows({}, m)
  BY DEF TableFlows
<1> QED
  BY <1>1, <1>2 DEF Effect

\* A table that stays, or from which a stream is removed.
LEMMA TableStays ==
  ASSUME NEW l, streams' = streams \/ streams' = Close(streams, l)
  PROVE  \A k \in DOMAIN streams' : Stays(k, {}) \/ Syncs(k)
BY DEF Stays, SameFlow, Close, OnData

\* CNXN.
LEMMA CnxnFlows ==
  ASSUME NEW io, Begins(io), NEW m, HandleCnxn(io, m)
  PROVE  Effect(io, m)
<1> DEFINE c == DevMsg("CNXN", 0, 0, 1, FALSE)
<1>1. Finish(SubmitMessage(io, c)) /\ streams' = streams
  BY DEF HandleCnxn
<1>2. c \in Quiet'
  BY QuietMessages
<1> HIDE DEF c
<1>3. Adds(io, SubmitMessage(io, c), Quiet', {})
  BY <1>2, AddsMessage, BeginsTyped
<1> QED
  BY <1>1, <1>3, TableStays, EffectQuiet

\* CLSE.
LEMMA ClseFlows ==
  ASSUME NEW io, Begins(io), NEW m \in HostMsgs, MsgAgrees(m), HandleClse(io, m)
  PROVE  Effect(io, m)
<1> DEFINE l == StreamOf(m)
<1>0. l \in Nat /\ m.cmd = "CLSE" /\ m.arg0 \in Nat
  BY DEF StreamOf, HostMsgs, HandleClse
<1>1. CASE l \notin DOMAIN streams
  <2>1. Finish(io) /\ streams' = streams
    BY <1>1 DEF HandleClse
  <2> QED
    BY <2>1, TableStays, EffectQuiet, AddsNothing, BeginsTyped
<1>2. CASE l \in DOMAIN streams
  <2> DEFINE s == streams[l]
  <2>1. s \in StreamRecords /\ s.remote_id = m.arg0
    BY <1>0, <1>2, StreamFacts DEF Begins
  <2>2. CASE Drains(s)
    <3> DEFINE t == [s EXCEPT !.remote_closed = TRUE]
    <3>1. streams' = [streams EXCEPT ![l] = t] /\ Finish(io)
      BY <1>2, <2>1, <2>2 DEF HandleClse
    <3>2. SameFlow(s, t) /\ t.sync = s.sync
      BY <2>1 DEF SameFlow, StreamRecords
    <3> HIDE DEF t
    <3>3. \A k \in DOMAIN streams' : Stays(k, {}) \/ Syncs(k)
      <4>1. \A k \in DOMAIN streams' :
              k \in DOMAIN streams /\ streams'[k] = IF k = l THEN t ELSE streams[k]
        BY <3>1
      <4> QED BY <3>2, <4>1 DEF Stays, SameFlow, OnData
    <3> QED
      BY <3>1, <3>3, EffectQuiet, AddsNothing, BeginsTyped
  <2>3. CASE ~Drains(s)
    <3>1. streams' = Close(streams, l) /\ Finish(SubmitMessage(io, Clse(l, m.arg0)))
      BY <1>2, <2>1, <2>3 DEF HandleClse
    <3>2. Adds(io, SubmitMessage(io, Clse(l, m.arg0)), Quiet', {})
      BY <1>0, QuietMessages, AddsMessage, BeginsTyped
    <3> QED
      BY <3>1, <3>2, TableStays, EffectQuiet
  <2> QED BY <2>2, <2>3
<1> QED
  BY <1>1, <1>2

\* OPEN.
LEMMA OpenFlows ==
  ASSUME NEW io, Begins(io), NEW m \in HostMsgs, MsgAgrees(m), HandleOpen(io, m)
  PROVE  Effect(io, m)
<1>0. m.arg0 \in Nat /\ next_id \in Nat /\ m.cmd = "OPEN"
        /\ DOMAIN streams \subseteq 1..(next_id - 1)
  BY DEF HostMsgs, Begins, Starts, StreamsOK, HandleOpen
<1>1. PICK fails \in OsFails :
        IF m.payload \notin Kinds \/ (fails /\ m.payload \in {"shell", "forward"})
        THEN /\ Finish(Refuse(io, m.arg0))
             /\ UNCHANGED <<streams, next_id>>
        ELSE LET s == NewStream(m.arg0, m.payload)
                 io1 == SubmitMessage(io, Okay(next_id, m.arg0))
             IN /\ streams' = Insert(streams, next_id, s)
                /\ next_id' = NextId(next_id)
                /\ Finish(IF s.service \in {"shell", "forward"}
                          THEN MaybeSubmitRead(io1, next_id, s) ELSE io1)
  BY DEF HandleOpen
<1>2. CASE m.payload \notin Kinds \/ (fails /\ m.payload \in {"shell", "forward"})
  <2>1. Adds(io, Refuse(io, m.arg0), Quiet', {})
    BY <1>0, QuietMessages, AddsMessage, BeginsTyped DEF Refuse
  <2> QED
    BY <1>1, <1>2, <2>1, TableStays, EffectQuiet
<1>3. CASE ~(m.payload \notin Kinds \/ (fails /\ m.payload \in {"shell", "forward"}))
  <2> DEFINE s == NewStream(m.arg0, m.payload)
  <2>0. PICK id \in Nat : id = next_id
    BY <1>0
  <2> DEFINE i == SubmitMessage(io, Okay(id, m.arg0))
             x == StreamRead(s.service, id)
  <2>1. /\ streams' = Insert(streams, id, s) /\ next_id' = id + 1
        /\ Finish(IF s.service \in {"shell", "forward"} THEN MaybeSubmitRead(i, id, s) ELSE i)
    BY <1>1, <1>3, <2>0 DEF NextId
  <2>2. /\ s.service = m.payload /\ s.tx = 0 /\ s.waiting_for_okay = FALSE /\ s.sync = "Idle"
        /\ s.service \in Kinds
    BY <1>3 DEF NewStream
  <2>3. MaybeSubmitRead(i, id, s) = Push(i, x)
    BY <2>2 DEF MaybeSubmitRead
  <2>4. Adds(io, i, Quiet', {})
    BY <1>0, QuietMessages, AddsMessage, BeginsTyped
  <2> HIDE DEF i, s
  <2>5. /\ id \notin DOMAIN streams /\ id \in DOMAIN streams' /\ streams'[id] = s
        /\ \A k \in DOMAIN streams' : k = id \/ (k \in DOMAIN streams /\ streams'[k] = streams[k])
    BY <1>0, <2>0, <2>1 DEF Insert
  <2>6. CASE s.service \in {"shell", "forward"}
    <3>1. Adds(i, Push(i, x), Quiet', {x})
      BY <2>4, AddsRead DEF Adds
    <3>2. Adds(io, Push(i, x), Quiet', {} \cup {x})
      BY <2>4, <3>1, AddsMore, BeginsTyped
    <3>3. Finish(Push(i, x)) /\ {} \cup {x} = {x}
      BY <2>1, <2>3, <2>6
    <3>4. PICK j : Commit(j) /\ Adds(io, j, Quiet', {x})
      BY <3>2, <3>3, AddsFinish, BeginsTyped
    <3>5. x.data = id /\ x.op = IF s.service = "shell" THEN "PtyRead" ELSE "SocketRead"
      BY DEF StreamRead, Op
    <3> HIDE DEF x
    <3>6. ReadKnown(x)'
      BY <2>0, <2>1, <2>5, <3>5 DEF ReadKnown
    <3>7. TableFlows({x}, m)
      <4>1. Fresh(id, {x})
        BY <2>0, <2>2, <2>5, <2>6, <3>5 DEF Fresh, OnData
      <4>2. \A k \in DOMAIN streams : streams'[k] = streams[k] => Stays(k, {x})
        BY <2>5, <3>5 DEF Stays, SameFlow, OnData
      <4> QED BY <2>5, <4>1, <4>2 DEF TableFlows
    <3> QED BY <3>4, <3>6, <3>7 DEF Effect, x
  <2>7. CASE s.service \notin {"shell", "forward"}
    <3>1. Finish(i)
      BY <2>1, <2>7
    <3>2. Syncs(id)
      BY <2>2, <2>5, <2>7 DEF Syncs, SyncDriven, SyncWaits
    <3>3. \A k \in DOMAIN streams : streams'[k] = streams[k] => Stays(k, {})
      BY DEF Stays, SameFlow, OnData
    <3> QED BY <2>4, <2>5, <3>1, <3>2, <3>3, EffectQuiet
  <2> QED BY <2>6, <2>7
<1> QED
  BY <1>2, <1>3

\* The next frame of a sync answer.
LEMMA FrameFlows ==
  ASSUME NEW io \in IoType, NEW l \in Nat, l < next_id', l \in DOMAIN streams', NEW s,
         NEW t \in StreamRecords, streams'[l] = t, t.service = "sync", IsMessages(Quiet')
  PROVE  Adds(io, SubmitFrame(io, l, s, t), Quiet', {})
<1>1. t.remote_id \in Nat /\ t.tx \in Nat
  BY DEF StreamRecords
<1> DEFINE f == t.sync # "Sending"
           m == DevMsg("WRTE", l, t.remote_id, t.tx, f)
<1>2. f \in BOOLEAN
  OBVIOUS
<1> HIDE DEF f
<1>3. m \in Quiet'
  BY <1>1, <1>2, QuietFrame
<1> HIDE DEF m
<1>4. Adds(io, SubmitMessage(io, m), Quiet', {})
  BY <1>3, AddsMessage
<1> QED
  BY <1>4, AddsNothing DEF SubmitFrame, m, f

\* A stream that is not read is updated and the others stay.
LEMMA TableUpdate ==
  ASSUME NEW l, NEW u, l \in DOMAIN streams, streams' = [streams EXCEPT ![l] = u]
  PROVE  /\ DOMAIN streams' = DOMAIN streams /\ streams'[l] = u
         /\ \A R : \A k \in DOMAIN streams : k # l /\ OnData(R, k) = {} => Stays(k, R)
BY DEF Stays, SameFlow

\* OKAY.
LEMMA OkayFlows ==
  ASSUME NEW io, Begins(io), NEW m \in HostMsgs, MsgAgrees(m), HandleOkay(io, m)
  PROVE  Effect(io, m)
<1> DEFINE l == StreamOf(m)
<1>0. l \in Nat /\ m.cmd = "OKAY" /\ next_id' = next_id /\ m.arg1 = l
  BY DEF StreamOf, HostMsgs, HandleOkay
<1>1. CASE l \notin DOMAIN streams
  <2>1. Finish(io) /\ streams' = streams
    BY <1>1 DEF HandleOkay
  <2> QED
    BY <2>1, TableStays, EffectQuiet, AddsNothing, BeginsTyped
<1>2. CASE l \in DOMAIN streams
  <2> DEFINE s == [streams[l] EXCEPT !.waiting_for_okay = FALSE]
  <2>1. PICK more \in MoreFrames(s) :
          LET t == IF s.service = "sync" THEN ContinueSync(s, more) ELSE s
          IN /\ streams' = [streams EXCEPT ![l] = t]
             /\ Finish(CASE s.service = "sync" -> SubmitFrame(io, l, s, t)
                         [] s.service = "reboot" -> Panic(io, "unreachable")
                         [] OTHER -> MaybeSubmitRead(io, l, s))
    BY <1>2 DEF HandleOkay
  <2>2. /\ streams[l] \in StreamRecords /\ l < next_id
        /\ streams[l].service = host[m.arg0].svc
        /\ host[m.arg0].svc # "reboot"
    BY <1>0, <1>2, StreamFacts DEF MsgAgrees, Begins, Starts, StreamsOK
  <2>3. /\ s \in StreamRecords /\ SameStream(streams[l], s) /\ s.waiting_for_okay = FALSE
        /\ s.sync = streams[l].sync /\ s.tx = streams[l].tx
    BY <2>2 DEF StreamRecords, SameStream
  <2>4. s.service \in {"sync", "shell", "forward"}
    BY <2>2, <2>3 DEF StreamRecords, Kinds, SameStream
  <2> HIDE DEF s, l
  <2>5. CASE s.service = "sync"
    <3> DEFINE t == ContinueSync(s, more)
    <3>1. streams' = [streams EXCEPT ![l] = t] /\ Finish(SubmitFrame(io, l, s, t))
      BY <2>1, <2>5
    <3>2. /\ t \in StreamRecords /\ SameStream(s, t) /\ SyncWaits(t)
          /\ s.sync \notin {"Sending", "Sent"} => t.sync \notin {"Sending", "Sent"}
      <4>1. s.sync \notin {"Sending", "Sent"} => t = s
        BY DEF ContinueSync
      <4> QED BY <2>3, <4>1, ContinueSyncTyped, ContinueSyncSame, ContinueSyncWaits
    <3> HIDE DEF t
    <3>3. /\ DOMAIN streams' = DOMAIN streams /\ streams'[l] = t
          /\ \A R : \A k \in DOMAIN streams : k # l /\ OnData(R, k) = {} => Stays(k, R)
      BY <1>2, <3>1, TableUpdate
    <3>4. t.service = "sync"
      BY <2>5, <3>2 DEF SameStream
    <3>5. Adds(io, SubmitFrame(io, l, s, t), Quiet', {})
      BY <1>0, <1>2, <2>2, <3>2, <3>3, <3>4, FrameFlows, BeginsTyped
    <3>6. Syncs(l)
      <4>1. SyncDriven(l)
        BY <1>2, <2>3, <2>5 DEF Begins, StreamsFlow, SameStream
      <4>2. NoMix /\ "recv" \notin Requests => t.sync \notin {"Sending", "Sent"}
        BY <2>3, <2>5, <3>2, <4>1 DEF SyncDriven, SameStream
      <4> QED BY <3>2, <3>3, <3>4, <4>2 DEF Syncs, SyncDriven
    <3>7. \A k \in DOMAIN streams' : Stays(k, {}) \/ Syncs(k)
      BY <3>3, <3>6 DEF OnData
    <3> QED BY <3>1, <3>5, <3>7, EffectQuiet
  <2>6. CASE s.service \in {"shell", "forward"}
    <3>0. PICK kind : kind = s.service
      OBVIOUS
    <3> DEFINE x == StreamRead(kind, l)
    <3>1. streams' = [streams EXCEPT ![l] = s] /\ Finish(MaybeSubmitRead(io, l, s))
      BY <2>1, <2>6
    <3>2. MaybeSubmitRead(io, l, s) = Push(io, x)
      BY <2>3, <3>0 DEF MaybeSubmitRead
    <3>3. /\ DOMAIN streams' = DOMAIN streams /\ streams'[l] = s
          /\ \A R : \A k \in DOMAIN streams : k # l /\ OnData(R, k) = {} => Stays(k, R)
      BY <1>2, <3>1, TableUpdate
    <3>4. PICK j : Commit(j) /\ Adds(io, j, Quiet', {x})
      BY <1>0, <3>1, <3>2, AddsRead, AddsFinish, BeginsTyped
    <3>5. x.data = l /\ x.op = IF s.service = "shell" THEN "PtyRead" ELSE "SocketRead"
      BY <3>0 DEF StreamRead, Op
    <3> HIDE DEF x
    <3>6. ReadKnown(x)'
      BY <1>0, <2>2, <3>3, <3>5 DEF ReadKnown
    <3>7. TableFlows({x}, m)
      <4>1. OnData({x}, l) = {x} /\ \A k : k # l => OnData({x}, k) = {}
        BY <3>5 DEF OnData
      <4>2. Resumed(l, {x}, m)
        BY <1>0, <1>2, <2>3, <2>6, <3>3, <4>1 DEF Resumed
      <4>3. \A k \in DOMAIN streams : k # l => Stays(k, {x})
        BY <3>3, <4>1
      <4> QED BY <3>3, <4>2, <4>3 DEF TableFlows
    <3> QED BY <3>4, <3>6, <3>7 DEF Effect, x
  <2> QED BY <2>4, <2>5, <2>6
<1> QED
  BY <1>1, <1>2

\* WRTE.
LEMMA WrteFlows ==
  ASSUME NEW io, Begins(io), NEW m \in HostMsgs, MsgAgrees(m), HandleWrte(io, m)
  PROVE  Effect(io, m)
<1> DEFINE l == StreamOf(m)
           i == Acknowledge(io, l, m.arg0)
<1>0. l \in Nat /\ m.cmd = "WRTE" /\ next_id' = next_id /\ m.arg0 \in Nat
  BY Zenon DEF StreamOf, HostMsgs, HandleWrte
<1>1. Adds(io, i, Quiet', {}) /\ i \in IoType
  BY <1>0, QuietMessages, AddsMessage, BeginsTyped DEF Acknowledge, Adds
<1>2. CASE l \notin DOMAIN streams
  <2>1. Finish(i) /\ streams' = streams
    BY <1>2 DEF HandleWrte
  <2> QED
    BY <1>1, <2>1, TableStays, EffectQuiet
<1>3. CASE l \in DOMAIN streams
  <2>1. /\ streams[l] \in StreamRecords /\ streams[l].remote_id = m.arg0 /\ l < next_id
        /\ streams[l].service = host[m.arg0].svc /\ host[m.arg0].svc # "reboot"
    BY <1>0, <1>3, StreamFacts DEF MsgAgrees, Begins, Starts, StreamsOK
  <2>2. PICK u \in StreamRecords :
          /\ SameStream(streams[l], u)
          /\ streams[l].service # "sync" => u = streams[l]
          /\ m.payload # "send" /\ SyncWaits(streams[l]) => SyncWaits(u)
          /\ m.payload # "recv" /\ IsQuiet(streams[l]) => IsQuiet(u)
          /\ WrteEffect(i, l, streams[l], u, m.payload)
    BY <1>3, <2>1, WrteCases
  <2> HIDE DEF i, l
  <2>3. ASSUME NEW k, Adds(i, k, Quiet', {})
        PROVE  Adds(io, k, Quiet', {})
    <3>1. Adds(io, k, Quiet', {} \cup {})
      BY <1>1, <2>3, AddsMore, BeginsTyped
    <3> QED BY <3>1
  <2>4. CASE /\ streams' = Close(streams, l)
             /\ Finish(SubmitMessage(i, Clse(l, streams[l].remote_id)))
    <3>1. Adds(i, SubmitMessage(i, Clse(l, m.arg0)), Quiet', {})
      BY <1>0, <1>1, QuietMessages, AddsMessage, BeginsTyped
    <3> QED BY <2>1, <2>3, <2>4, <3>1, TableStays, EffectQuiet
  <2>5. CASE /\ streams' = [streams EXCEPT ![l] = u]
             /\ \/ Finish(SubmitFrame(i, l, streams[l], u))
                \/ /\ m.payload = "stathuge"
                   /\ Finish(Panic(i, "File too large for 32-bits"))
    <3>1. /\ DOMAIN streams' = DOMAIN streams /\ streams'[l] = u
          /\ \A R : \A k \in DOMAIN streams : k # l /\ OnData(R, k) = {} => Stays(k, R)
      BY <1>3, <2>5, TableUpdate
    <3>2. Stays(l, {}) \/ Syncs(l)
      <4>1. CASE streams[l].service # "sync"
        BY <1>3, <2>2, <3>1, <4>1 DEF Stays, SameFlow, OnData
      <4>2. CASE streams[l].service = "sync"
        <5>1. SyncDriven(l)
          BY <1>3, <4>2 DEF Begins, StreamsFlow
        <5>2. NoMix => /\ SyncWaits(streams[l])
                       /\ "recv" \notin Requests => IsQuiet(streams[l])
          BY <4>2, <5>1 DEF SyncDriven, SyncWaits, IsQuiet
        <5>3. m.payload = "recv" => "recv" \in Requests
          BY <1>0 DEF MsgAgrees
        <5>4. NoMix /\ m.payload = "send" => "recv" \notin Requests
          BY <1>0 DEF MsgAgrees, NoMix
        <5>5. NoMix => SyncWaits(u) /\ ("recv" \notin Requests => IsQuiet(u))
          BY <2>2, <5>2, <5>3, <5>4 DEF SyncWaits, IsQuiet
        <5> QED BY <2>2, <3>1, <4>2, <5>5 DEF Syncs, SyncDriven, IsQuiet, SameStream
      <4> QED BY <4>1, <4>2
    <3>3. \A k \in DOMAIN streams' : Stays(k, {}) \/ Syncs(k)
      BY <3>1, <3>2 DEF OnData
    <3>4. Adds(i, SubmitFrame(i, l, streams[l], u), Quiet', {})
      <4>1. CASE streams[l].service # "sync"
        BY <1>1, <2>2, <4>1, AddsNothing DEF SubmitFrame
      <4>2. CASE streams[l].service = "sync"
        <5>1. u.service = "sync"
          BY <2>2, <4>2 DEF SameStream
        <5> QED BY <1>0, <1>1, <1>3, <2>1, <3>1, <5>1, FrameFlows, BeginsTyped
      <4> QED BY <4>1, <4>2
    <3>5. Adds(i, Panic(i, "File too large for 32-bits"), Quiet', {})
      <4>1. "File too large for 32-bits" \in Daemons \ {"running"}
        BY DEF Daemons, Panics
      <4> QED BY <1>1, <4>1, AddsPanic
    <3> QED BY <2>3, <2>5, <3>3, <3>4, <3>5, EffectQuiet
  <2> QED
    BY <2>2, <2>4, <2>5 DEF WrteEffect
<1> QED
  BY <1>2, <1>3

\* handle_command, whatever the command.
LEMMA CommandFlows ==
  ASSUME NEW io, Begins(io), NEW m \in HostMsgs, MsgAgrees(m), HandleCommand(io, m)
  PROVE  Effect(io, m)
<1>1. ~((m.cmd \in {"CNXN", "OPEN", "WRTE"} /\ m.payload = "none")
          \/ (m.cmd = "OKAY" /\ m.payload # "none"))
  BY DEF MsgAgrees
<1>2. \/ HandleCnxn(io, m) \/ HandleOpen(io, m) \/ HandleOkay(io, m)
      \/ HandleWrte(io, m) \/ HandleClse(io, m) \/ HandleOther(io, m)
  BY <1>1 DEF HandleCommand
<1>3. CASE HandleOther(io, m)
  BY <1>3, TableStays, EffectQuiet, AddsNothing, BeginsTyped DEF HandleOther
<1> QED
  BY <1>2, <1>3, CnxnFlows, OpenFlows, OkayFlows, WrteFlows, ClseFlows

-----------------------------------------------------------------------------
(* From the effect of a command on the table to the flow of its streams.    *)

\* A stream that was opened just now.
LEMMA FreshFlows ==
  ASSUME Inv, Agree, Agree', Rest, NEW c, Handles(c), NEW R, NEW j, Commit(j),
         Adds(Io, j, Quiet', R), NEW k \in DOMAIN streams',
         Fresh(k, R)
  PROVE  Flows(k)'
<1>0. /\ UNCHANGED <<cq, kern, bulk_out, bulk_out_buf, host>> /\ TypeOK
      /\ batch' \subseteq batch /\ next_id \in Nat
  BY DEF Handles, Inv, TypeOK
<1>1. /\ Reads(sq') = Reads(sq) \cup R
      /\ \A o \in Carries(k)' : o \in Carries(k) /\ buffers'[o.data] = buffers[o.data]
  BY QuietIsSilent, CarriesShrinks DEF Fresh
<1>2. Carries(k)' = {}
  <2>1. ASSUME NEW o \in Carries(k)
        PROVE  FALSE
    <3>1. o.data \in Slots
      BY <2>1, SlotsInUse DEF Carries
    <3>2. buffers[o.data].cmd = "WRTE" /\ buffers[o.data].arg0 = k
      BY <2>1 DEF Carries
    <3> QED BY <3>1, <3>2 DEF Rest, WrtesKnown, Knows, Fresh
  <2> QED BY <1>1, <2>1
<1>3. ~Acked(k)'
  <2>1. ASSUME NEW i \in 1..Len(bulk_out), IsAck(bulk_out[i], k)
        PROVE  FALSE
    <3>1. MsgAgrees(bulk_out[i].msg)
      BY DEF Agree, MsgsAgree
    <3> QED BY <2>1, <3>1 DEF IsAck, MsgAgrees, Knows, Fresh
  <2>2. ASSUME bulk_out_buf # << >>, IsAck(bulk_out_buf[1], k)
        PROVE  FALSE
    <3>1. 1 \in 1..Len(bulk_out_buf)
      BY <1>0, <2>2 DEF TypeOK
    <3>2. MsgAgrees(bulk_out_buf[1].msg)
      BY <3>1 DEF Agree, MsgsAgree
    <3> QED BY <2>2, <3>2 DEF IsAck, MsgAgrees, Knows, Fresh
  <2> QED BY <1>0, <2>1, <2>2 DEF Acked, AckSent, AckRead
<1>4. Counted(k)'
  <2>1. PICK r : r = streams'[k].remote_id
    OBVIOUS
  <2>2. r \in Remotes /\ host[r].st # "idle"
    BY <1>0, <2>1 DEF Agree, StreamsAgree, Opened
  <2>3. Listens(host[r], k) => host[r].got = 0 /\ host[r].acked = 0
    <3>1. host[r].local < next_id
      BY <2>2 DEF Agree, HostsAgree, Knows
    <3> QED BY <2>2, <3>1 DEF Listens, Rest, HostsFresh, Fresh
  <2> QED BY <1>0, <1>2, <1>3, <2>1, <2>3 DEF Counted, Fresh
<1>5. OneRead(k)'
  <2>1. ASSUME NEW S, S \subseteq AllReads
        PROVE  OnData(S, k) = {}
    <3>1. \A o \in S : o.data < next_id
      BY <2>1 DEF Rest, ReadsKnown, ReadKnown
    <3> QED BY <3>1 DEF OnData, Fresh
  <2>2. PICK x : OnData(R, k) = {x}
    BY DEF Fresh
  <2>3. OnData(Reads(sq'), k) = {x}
    <3>1. OnData(Reads(sq), k) = {}
      BY <2>1 DEF AllReads
    <3> QED BY <1>1, <2>2, <3>1 DEF OnData
  <2>4. OnData(Reads(kern'), k) = {} /\ OnData(Reads(cq'), k) = {}
    BY <1>0, <2>1 DEF AllReads
  <2>5. OnData(Reads(batch'), k) = {}
    <3>1. Reads(batch') \subseteq AllReads
      BY <1>0 DEF AllReads, Reads
    <3> QED BY <2>1, <3>1
  <2> QED BY <2>3, <2>4, <2>5 DEF OneRead, ExactlyOne, Fresh
<1>6. AckOnce(k)' /\ OneAck(k)'
  BY <1>3 DEF Acked, AckSent, AckOnce, OneAck
<1>7. OneWrte(k)'
  BY <1>2 DEF OneWrte
<1> QED
  BY <1>4, <1>5, <1>6, <1>7 DEF Flows

\* A stream that is read again.
LEMMA ResumedFlows ==
  ASSUME Inv, NEW c, Handles(c), NEW R, NEW j, Commit(j), Adds(Io, j, Quiet', R),
         c \in BulkOuts(batch), c.res = "ok", bulk_out_buf # << >>,
         NEW k \in DOMAIN streams', Flows(k),
         Resumed(k, R, bulk_out_buf[1].msg), IsAck(bulk_out_buf[1], k)
  PROVE  Flows(k)'
<1>0. /\ UNCHANGED <<cq, kern, bulk_out, bulk_out_buf, host>>
      /\ batch' = batch \ {c} /\ daemon = "running"
  BY DEF Handles
<1>1. /\ Reads(sq') = Reads(sq) \cup R
      /\ \A o \in Carries(k)' : o \in Carries(k) /\ buffers'[o.data] = buffers[o.data]
  BY QuietIsSilent, CarriesShrinks DEF Resumed
<1>2. AckRead(k) /\ Acked(k)
  BY DEF AckRead, Acked
<1>3. streams[k].waiting_for_okay /\ Carries(k) = {} /\ ~AckSent(k) /\ ReadsOf(k) = {}
  BY <1>2 DEF Flows, OneAck, AckOnce, OneRead
<1>4. Carries(k)' = {}
  BY <1>1, <1>3
<1>5. ~Acked(k)'
  <2>1. BulkOuts(cq) = {} /\ BulkOuts(batch) = {c}
    <3>1. ExactlyOne(BulkOuts(sq), BulkOuts(kern), BulkOuts(cq), BulkOuts(batch))
      BY <1>0 DEF Inv, LoopArmed
    <3>2. BulkOuts(sq) = {} /\ BulkOuts(kern) = {} /\ BulkOuts(cq) = {}
      BY <3>1, Zenon DEF ExactlyOne
    <3>3. PICK S \in {BulkOuts(sq), BulkOuts(kern), BulkOuts(cq), BulkOuts(batch)} :
            \E x \in S : S = {x}
      BY <3>1, Zenon DEF ExactlyOne
    <3>4. PICK x \in S : S = {x}
      BY <3>3
    <3> QED BY <3>2, <3>3, <3>4
  <2>2. BulkOuts(cq') \cup BulkOuts(batch') = {}
    BY <1>0, <2>1 DEF BulkOuts
  <2> QED BY <1>0, <1>3, <2>2 DEF Acked, AckRead, AckSent
<1>6. Counted(k)'
  <2>1. streams'[k].remote_id = streams[k].remote_id /\ streams'[k].tx = streams[k].tx
    BY DEF Resumed, SameStream
  <2>2. PICK r : r = streams[k].remote_id
    OBVIOUS
  <2>3. Listens(host[r], k) => /\ host[r].got = host[r].acked /\ streams[k].tx = host[r].acked
                               /\ streams[k].tx <= host[r].acked + 1
    BY <1>2, <2>2 DEF Flows, Counted
  <2> QED BY <1>0, <1>4, <1>5, <2>1, <2>2, <2>3 DEF Counted
<1>7. OneRead(k)'
  <2>1. PICK x : OnData(R, k) = {x}
    BY DEF Resumed
  <2>2. /\ OnData(Reads(sq), k) = {} /\ OnData(Reads(kern), k) = {}
        /\ OnData(Reads(cq), k) = {} /\ OnData(Reads(batch), k) = {}
    BY <1>3, ReadsSplit
  <2>3. OnData(Reads(sq'), k) = {x}
    BY <1>1, <2>1, <2>2 DEF OnData
  <2>4. OnData(Reads(batch'), k) = {}
    BY <1>0, <2>2 DEF OnData, Reads
  <2> QED BY <1>0, <2>2, <2>3, <2>4 DEF OneRead, ExactlyOne, Resumed
<1>8. AckOnce(k)' /\ OneAck(k)'
  BY <1>5 DEF Acked, AckSent, AckOnce, OneAck
<1>9. OneWrte(k)'
  BY <1>4 DEF OneWrte
<1> QED
  BY <1>6, <1>7, <1>8, <1>9 DEF Flows

\* Every stream flows after a command.
LEMMA EffectFlows ==
  ASSUME Inv, Agree, Agree', Flowing, Grows, NEW c, Handles(c), NEW m \in HostMsgs, Effect(Io, m),
         c \in BulkOuts(batch), c.res = "ok", PayloadsDue',
         m.cmd = "OKAY" => /\ bulk_out_buf # << >> /\ bulk_out_buf[1].msg = m
                           /\ bulk_out_buf[1].part = "header" /\ bulk_out_buf[1].ok
  PROVE  Flowing'
<1>1. PICK j, R : /\ Commit(j) /\ Adds(Io, j, Quiet', R) /\ (\A o \in R : ReadKnown(o)')
                  /\ TableFlows(R, m)
  BY Zenon DEF Effect
<1>2. Rest
  BY DEF Flowing, Rest
<1>3. Rest'
  <2>1. Quiet' \subseteq Known'
    BY DEF Quiet
  <2> QED BY <1>1, <1>2, <2>1, RestKept
<1>4. StreamsFlow'
  <2> SUFFICES ASSUME NEW k \in DOMAIN streams'
               PROVE  IF streams'[k].service \in {"shell", "forward"} THEN Flows(k)'
                      ELSE SyncDriven(k)'
    BY DEF StreamsFlow
  <2>1. CASE Stays(k, R)
    <3>1. k \in DOMAIN streams /\ SameFlow(streams[k], streams'[k])
      BY <2>1 DEF Stays
    <3>2. CASE streams[k].service \in {"shell", "forward"}
      <4>1. Flows(k) /\ streams'[k].service \in {"shell", "forward"}
        BY <3>1, <3>2 DEF Flowing, StreamsFlow, SameFlow
      <4>2. c \notin OnData(Reads(batch), k)
        BY DEF OnData, Reads, BulkOuts
      <4> QED BY <1>1, <2>1, <3>1, <4>1, <4>2, QuietIsSilent, FlowsKept DEF Stays
    <3>3. CASE streams[k].service \notin {"shell", "forward"}
      <4>1. SyncDriven(k)
        BY <3>1, <3>3 DEF Flowing, StreamsFlow
      <4> QED BY <2>1, <3>1, <3>3, <4>1, SyncStays DEF Stays, SameFlow
    <3> QED BY <3>2, <3>3
  <2>2. CASE Syncs(k)
    BY <2>2 DEF Syncs
  <2>3. CASE Fresh(k, R)
    BY <1>1, <1>2, <2>3, FreshFlows DEF Fresh
  <2>4. CASE Resumed(k, R, m)
    <3>1. /\ m.cmd = "OKAY" /\ m.arg1 = k /\ k \in DOMAIN streams
          /\ streams[k].service = streams'[k].service
      BY <2>4 DEF Resumed, SameStream
    <3>2. Flows(k)
      BY <2>4, <3>1 DEF Flowing, StreamsFlow, Resumed
    <3>3. IsAck(bulk_out_buf[1], k)
      BY <3>1, Zenon DEF IsAck
    <3>4. bulk_out_buf # << >> /\ Resumed(k, R, bulk_out_buf[1].msg)
      BY <2>4, <3>1
    <3>5. Flows(k)'
      BY <1>1, <3>2, <3>3, <3>4, ResumedFlows
    <3> QED BY <2>4, <3>5 DEF Resumed
  <2> QED BY <1>1, <2>1, <2>2, <2>3, <2>4 DEF TableFlows
<1> QED
  BY <1>3, <1>4 DEF Flowing, Rest

-----------------------------------------------------------------------------
(* The steps of the loop.                                                   *)

\* The one operation, and where it is.
LEMMA OneIsLast ==
  ASSUME NEW A, NEW B, NEW C, NEW D, ExactlyOne(A, B, C, D), NEW x \in D
  PROVE  A = {} /\ B = {} /\ C = {} /\ D = {x}
BY DEF ExactlyOne

\* The entry taken from the batch is one the loop handles.
LEMMA TakeHandles ==
  ASSUME NEW c, Take(c), daemon' = "running"
  PROVE  Handles(c)
BY DEF Take, Handles, kernVars, hostVars

\* A step that leaves the streams that go on as they are.
LEMMA LoopFlows ==
  ASSUME Inv, Flowing, NEW c, Handles(c), NEW M, NEW j, Commit(j), Adds(Io, j, M, {}),
         M \subseteq Known', Grows, PayloadsDue',
         \A l \in DOMAIN streams' :
           /\ l \in DOMAIN streams /\ streams'[l] = streams[l]
           /\ streams[l].service \in {"shell", "forward"} =>
                Silent(M, l) /\ c \notin OnData(Reads(batch), l)
  PROVE  Flowing'
<1>1. Rest'
  BY RestKept DEF Flowing, Rest
<1>2. StreamsFlow'
  <2> SUFFICES ASSUME NEW l \in DOMAIN streams'
               PROVE  IF streams'[l].service \in {"shell", "forward"} THEN Flows(l)'
                      ELSE SyncDriven(l)'
    BY DEF StreamsFlow
  <2>1. l \in DOMAIN streams /\ streams'[l] = streams[l] /\ SameFlow(streams[l], streams'[l])
    BY DEF SameFlow
  <2>2. CASE streams[l].service \in {"shell", "forward"}
    <3>1. Flows(l) /\ Silent(M, l) /\ c \notin OnData(Reads(batch), l)
      BY <2>1, <2>2 DEF Flowing, StreamsFlow
    <3>2. OnData({}, l) = {}
      BY DEF OnData
    <3> QED BY <2>1, <2>2, <3>1, <3>2, FlowsKept
  <2>3. CASE streams[l].service \notin {"shell", "forward"}
    <3>1. SyncDriven(l)
      BY <2>1, <2>3 DEF Flowing, StreamsFlow
    <3> QED BY <2>1, <2>3, <3>1, SyncStays
  <2> QED BY <2>2, <2>3
<1> QED
  BY <1>1, <1>2 DEF Flowing, Rest

\* Nothing is sent, and no stream changes.
LEMMA IdleFlows ==
  ASSUME Inv, Flowing, NEW c, Handles(c), NEW j, Commit(j), Adds(Io, j, {}, {}),
         PayloadsDue', UNCHANGED <<streams, next_id>>,
         \A l \in DOMAIN streams : streams[l].service \in {"shell", "forward"} =>
           c \notin OnData(Reads(batch), l)
  PROVE  Flowing'
<1>1. Grows
  BY DEF Inv, TypeOK, Grows
<1>2. \A l : Silent({}, l)
  BY DEF Silent
<1> QED
  BY <1>1, <1>2, LoopFlows

\* The pending header stays, or there is none any more.
LEMMA PendingDue ==
  ASSUME PayloadsDue, pending_header' \in {pending_header, << >>}
  PROVE  PayloadsDue'
<1>1. CASE pending_header' = pending_header
  BY <1>1 DEF PayloadsDue
<1>2. CASE pending_header' = << >>
  BY <1>2 DEF PayloadsDue
<1> QED
  BY <1>1, <1>2

\* A header from the host keeps the data flowing.
LEMMA BulkOutReadHeaderFlows ==
  ASSUME Inv, Agree, Flowing, NEW c \in batch, BulkOutReadHeader(c), daemon' = "running"
  PROVE  Flowing'
<1> DEFINE t == bulk_out_buf[1]
<1>1. /\ c \in BulkOuts(batch) /\ c.res = "ok" /\ Handles(c) /\ daemon = "running"
      /\ c \notin Reads(batch) /\ host' = host
  BY TakeHandles DEF BulkOutReadHeader, BulkOuts, Reads, Handles
<1>2. bulk_out_buf # << >> /\ t.msg \in HostMsgs /\ MsgAgrees(t.msg)
  <2>1. bulk_out_buf \in Seq(Xfers) /\ bulk_out_buf # << >>
    BY <1>1 DEF Inv, TypeOK, Fed
  <2>2. t \in Xfers /\ 1 \in 1..Len(bulk_out_buf)
    BY <2>1
  <2>3. MsgAgrees(t.msg)
    BY <2>2 DEF Agree, MsgsAgree
  <2> QED BY <2>1, <2>2, <2>3 DEF Xfers
<1>3. Io \in IoType /\ PayloadsDue /\ IsMessages({})
  BY SlotsInUse DEF Flowing, IsMessages
<1>4. \A l : c \notin OnData(Reads(batch), l)
  BY <1>1 DEF OnData
<1> HIDE DEF t
<1>5. CASE Finish(Io) /\ UNCHANGED devVars
  <2>1. UNCHANGED <<streams, next_id, pending_header>>
    BY <1>5 DEF devVars
  <2>2. PICK j : Commit(j) /\ Adds(Io, j, {}, {})
    BY <1>3, <1>5, AddsNothing, AddsFinish
  <2> QED BY <1>1, <1>3, <1>4, <2>1, <2>2, PendingDue, IdleFlows
<1>6. CASE /\ t.msg.payload # "none" /\ pending_header' = <<t.msg>>
           /\ Commit(Push(Io, ReadPayload)) /\ UNCHANGED <<streams, next_id, version>>
  <2>1. ReadPayload \in Ops /\ ReadPayload.op = "BulkOutReadPayload"
    BY DEF ReadPayload, Op, Ops, OpTypes
  <2>2. Reads({ReadPayload}) = {}
    BY <2>1 DEF Reads
  <2>3. Adds(Io, Push(Io, ReadPayload), {}, {})
    BY <1>3, <2>1, <2>2, AddsPush
  <2>4. PayloadsDue'
    BY <1>6 DEF PayloadsDue
  <2> QED BY <1>1, <1>4, <1>6, <2>3, <2>4, IdleFlows
<1>7. CASE /\ t.part = "header" /\ t.ok
           /\ HandleCommand(Io, t.msg) /\ UNCHANGED pending_header
  <2>1. PICK m \in HostMsgs : m = t.msg
    BY <1>2
  <2>2. Starts(Io) /\ Begins(Io)
    BY <1>1, LoopStarts DEF Begins, Flowing
  <2>3. Effect(Io, m)
    BY <1>2, <1>7, <2>1, <2>2, CommandFlows
  <2>4. Grows
    BY <1>2, <1>7, <2>1, <2>2, CommandAgrees DEF Agreed
  <2>5. Agree'
    BY BulkOutReadHeaderAgrees
  <2>6. PayloadsDue'
    BY <1>3, <1>7, PendingDue
  <2>7. m.cmd = "OKAY" => /\ bulk_out_buf # << >> /\ bulk_out_buf[1].msg = m
                          /\ bulk_out_buf[1].part = "header" /\ bulk_out_buf[1].ok
    BY <1>2, <1>7, <2>1, Zenon DEF t
  <2> QED BY <1>1, <2>3, <2>4, <2>5, <2>6, <2>7, EffectFlows
<1> QED
  BY <1>5, <1>6, <1>7, Zenon DEF BulkOutReadHeader, t

\* A payload from the host keeps the data flowing.
LEMMA BulkOutReadPayloadFlows ==
  ASSUME Inv, Agree, Flowing, NEW c \in batch, BulkOutReadPayload(c), daemon' = "running"
  PROVE  Flowing'
<1>1. /\ c \in BulkOuts(batch) /\ c.res = "ok" /\ Handles(c) /\ daemon = "running"
      /\ c \notin Reads(batch) /\ host' = host /\ pending_header' = << >>
  BY TakeHandles DEF BulkOutReadPayload, BulkOuts, Reads, Handles
<1>2. Io \in IoType /\ PayloadsDue /\ IsMessages({}) /\ PayloadsDue'
  BY <1>1, SlotsInUse, PendingDue DEF Flowing, IsMessages
<1>3. \A l : c \notin OnData(Reads(batch), l)
  BY <1>1 DEF OnData
<1>4. CASE Finish(Io) /\ UNCHANGED <<streams, next_id, version>>
  <2>1. PICK j : Commit(j) /\ Adds(Io, j, {}, {})
    BY <1>2, <1>4, AddsNothing, AddsFinish
  <2> QED BY <1>1, <1>2, <1>3, <1>4, <2>1, IdleFlows
<1>5. CASE pending_header # << >> /\ HandleCommand(Io, pending_header[1])
  <2>1. pending_header[1] \in HostMsgs /\ 1 \in 1..Len(pending_header)
    BY <1>5 DEF Inv, TypeOK
  <2>2. MsgAgrees(pending_header[1]) /\ pending_header[1].payload # "none"
    BY <1>2, <2>1 DEF Agree, MsgsAgree, PayloadsDue
  <2>3. PICK m \in HostMsgs : m = pending_header[1]
    BY <2>1
  <2>4. Starts(Io) /\ Begins(Io)
    BY <1>1, LoopStarts DEF Begins, Flowing
  <2>5. Effect(Io, m)
    BY <1>5, <2>2, <2>3, <2>4, CommandFlows
  <2>6. Grows
    BY <1>5, <2>2, <2>3, <2>4, CommandAgrees DEF Agreed
  <2>7. Agree'
    BY BulkOutReadPayloadAgrees
  <2>8. m.cmd # "OKAY"
    BY <2>2, <2>3 DEF MsgAgrees
  <2> QED BY <1>1, <1>2, <2>5, <2>6, <2>7, <2>8, EffectFlows
<1> QED
  BY <1>4, <1>5, Zenon DEF BulkOutReadPayload

\* An event of ep0 keeps the data flowing.
LEMMA Ep0EventFlows ==
  ASSUME Inv, Flowing, NEW c \in batch, Ep0Event(c), daemon' = "running"
  PROVE  Flowing'
<1>1. /\ Handles(c) /\ UNCHANGED <<streams, next_id, pending_header>> /\ c.op = "Ep0Poll"
  BY DEF Ep0Event, Handles, hostVars, devVars
<1>2. Commit(Push(Io, Ep0Poll))
  <2>1. [Io EXCEPT !.daemon = "stopped"].daemon = "stopped"
    BY DEF Io
  <2> QED BY <2>1 DEF Ep0Event, Commit
<1>3. Reads({Ep0Poll}) = {}
  BY PollIsPoll DEF Reads
<1>4. Adds(Io, Push(Io, Ep0Poll), {}, {})
  BY <1>3, PollIsPoll, SlotsInUse, AddsPush
<1>5. \A l : c \notin OnData(Reads(batch), l)
  BY <1>1 DEF OnData, Reads
<1>6. PayloadsDue'
  BY <1>1, PendingDue DEF Flowing
<1> QED
  BY <1>1, <1>2, <1>4, <1>5, <1>6, IdleFlows

\* The end of a PTY or socket closes its stream; the others flow on.
LEMMA ReadEndFlows ==
  ASSUME Inv, Agree, Flowing, NEW c \in batch, ReadEnd(c), daemon' = "running"
  PROVE  Flowing'
<1> DEFINE j == IF c.data \in DOMAIN streams
                THEN SubmitMessage(Io, Clse(c.data, streams[c.data].remote_id)) ELSE Io
<1>1. /\ daemon = "running" /\ Commit(j) /\ streams' = Close(streams, c.data)
      /\ Handles(c) /\ UNCHANGED <<next_id, pending_header, host>>
  BY TakeHandles DEF ReadEnd, Handles
<1>2. Starts(Io)
  BY <1>1, LoopStarts
<1>3. Grows
  BY <1>1, <1>2, TableCloses
<1>4. IsMessages(Quiet') /\ Quiet' \subseteq Known'
  BY DEF IsMessages, Quiet, Known
<1>5. Adds(Io, j, Quiet', {})
  <2>1. CASE c.data \in DOMAIN streams
    <3>1. PICK l \in Nat, r \in Nat : l = c.data /\ r = streams[c.data].remote_id
      BY <1>2, <2>1 DEF Starts, StreamsOK, StreamRecords
    <3>2. Clse(l, r) \in Quiet'
      BY QuietMessages
    <3>3. Adds(Io, SubmitMessage(Io, Clse(l, r)), Quiet', {})
      BY <1>4, <3>2, SlotsInUse, AddsMessage
    <3> QED BY <2>1, <3>1, <3>3
  <2>2. CASE c.data \notin DOMAIN streams
    BY <2>2, SlotsInUse, AddsNothing
  <2> QED BY <2>1, <2>2
<1> HIDE DEF j
<1>6. ASSUME NEW l \in DOMAIN streams'
      PROVE  /\ l \in DOMAIN streams /\ streams'[l] = streams[l]
             /\ streams[l].service \in {"shell", "forward"} =>
                  Silent(Quiet', l) /\ c \notin OnData(Reads(batch), l)
  <2>1. l \in DOMAIN streams /\ l # c.data /\ streams'[l] = streams[l]
    BY <1>1, <1>6 DEF Close
  <2> QED BY <2>1, QuietIsSilent DEF OnData
<1>7. PayloadsDue'
  BY <1>1, PendingDue DEF Flowing
<1> QED
  BY <1>1, <1>3, <1>4, <1>5, <1>6, <1>7, LoopFlows

\* The stream whose data is sent.
LEMMA DataFlows ==
  ASSUME Inv, NEW c, Handles(c), NEW l \in DOMAIN streams, Flows(l),
         c \in OnData(Reads(batch), l), NEW w, w = DevMsg("WRTE", l, streams[l].remote_id,
                                                           streams[l].tx + 1, FALSE),
         NEW j, Commit(j), Adds(Io, j, {w}, {}),
         \A o, p \in Writes(j.sq) \ sq : o # p => o.after = p.data \/ p.after = o.data,
         streams'[l] = [streams[l] EXCEPT !.waiting_for_okay = TRUE, !.tx = @ + 1]
  PROVE  Flows(l)'
<1>0. /\ j.daemon = "running" /\ sq' = j.sq /\ buffers' = j.buffers /\ batch' = batch \ {c}
      /\ UNCHANGED <<cq, kern, bulk_out, bulk_out_buf, host>>
  BY DEF Handles, Commit
<1>1. /\ streams[l] \in StreamRecords /\ streams'[l].waiting_for_okay
      /\ streams'[l].tx = streams[l].tx + 1 /\ streams'[l].remote_id = streams[l].remote_id
      /\ streams[l].tx \in Nat
  <2>1. streams[l] \in StreamRecords
    BY DEF Inv, TypeOK
  <2> QED BY <2>1 DEF StreamRecords
<1>2. /\ w.cmd = "WRTE" /\ w.arg0 = l /\ w.payload = streams[l].tx + 1
  BY DEF DevMsg
<1>3. ReadsOf(l) # {}
  BY ReadsSplit
<1>4. ~streams[l].waiting_for_okay /\ Carries(l) = {} /\ ~Acked(l)
  BY <1>3 DEF Flows, OneRead, OneWrte, OneAck
<1>5. Reads(sq') = Reads(sq)
  BY <1>0, SlotsInUse DEF Adds
<1>6. ReadsOf(l)' = {}
  <2>1. ExactlyOne(OnData(Reads(sq), l), OnData(Reads(kern), l), OnData(Reads(cq), l),
                   OnData(Reads(batch), l))
    BY <1>4 DEF Flows, OneRead
  <2>2. /\ OnData(Reads(sq), l) = {} /\ OnData(Reads(kern), l) = {}
        /\ OnData(Reads(cq), l) = {} /\ OnData(Reads(batch), l) = {c}
    BY <2>1, OneIsLast
  <2>3. OnData(Reads(batch'), l) = {}
    BY <1>0, <2>2 DEF OnData, Reads
  <2> QED BY <1>0, <1>5, <2>2, <2>3, ReadsSplit
<1>7. ASSUME NEW o \in Carries(l)'
      PROVE  o \in Writes(j.sq) \ sq /\ buffers'[o.data] = w
  <2>1. /\ o \in Writes(sq') \cup Writes(kern)
        /\ buffers'[o.data].cmd = "WRTE" /\ buffers'[o.data].arg0 = l
    BY <1>0, <1>7 DEF Carries
  <2>2. ASSUME o \in Writes(sq) \cup Writes(kern)
        PROVE  FALSE
    <3>1. o.data \in Slots /\ o.data \in Used(buffers)
      BY <2>2, SlotsInUse
    <3>2. buffers'[o.data] = buffers[o.data]
      BY <1>0, <3>1, SlotsInUse DEF Adds
    <3> QED BY <1>4, <2>1, <2>2, <3>2 DEF Carries
  <2>3. o \in Writes(j.sq) \ sq
    BY <1>0, <2>1, <2>2 DEF Writes
  <2>4. buffers'[o.data] \in {w}
    BY <1>0, <2>3, SlotsInUse DEF Adds
  <2> QED BY <2>3, <2>4
<1>8. OneWrte(l)'
  <2>1. Carries(l)' \subseteq sq'
    BY <1>0, <1>7 DEF Writes
  <2> QED BY <1>1, <1>2, <1>7, <2>1 DEF OneWrte
<1>9. ~Acked(l)'
  BY <1>0, <1>4, AckReadShrinks DEF Acked, AckSent
<1>10. AckOnce(l)' /\ OneAck(l)'
  BY <1>9 DEF Acked, AckSent, AckOnce, OneAck
<1>11. Counted(l)'
  <2>1. PICK r : r = streams[l].remote_id
    OBVIOUS
  <2>2. Listens(host[r], l) => host[r].got = host[r].acked /\ streams[l].tx = host[r].acked
    BY <1>4, <2>1 DEF Flows, Counted
  <2>3. Counted(l)' <=>
          (Listens(host[r], l) =>
             /\ \/ host[r].got = host[r].acked
                \/ host[r].got = host[r].acked + 1 /\ host[r].got = streams'[l].tx
                     /\ streams'[l].waiting_for_okay /\ ~Acked(l)' /\ Carries(l)' = {}
             /\ Carries(l)' # {} => host[r].got = host[r].acked
                                    /\ streams'[l].tx = host[r].acked + 1
             /\ ~streams'[l].waiting_for_okay \/ Acked(l)' => streams'[l].tx = host[r].acked
             /\ streams'[l].tx <= host[r].acked + 1)
    BY <1>0, <1>1, <2>1, Zenon DEF Counted, Listens
  <2> QED BY <1>1, <1>9, <2>2, <2>3
<1>12. OneRead(l)'
  BY <1>1, <1>6 DEF OneRead
<1> QED
  BY <1>8, <1>10, <1>11, <1>12 DEF Flows

\* Data from a PTY or socket makes its stream wait; the others flow on.
LEMMA ReadDataFlows ==
  ASSUME Inv, Agree, Flowing, NEW c \in batch, ReadData(c), daemon' = "running"
  PROVE  Flowing'
<1> DEFINE valid == /\ c.data \in DOMAIN streams
                    /\ streams[c.data].service = (IF c.op = "PtyRead" THEN "shell" ELSE "forward")
<1>1. /\ daemon = "running" /\ Handles(c) /\ c \in Reads(batch)
      /\ UNCHANGED <<next_id, pending_header, host>>
  BY TakeHandles DEF ReadData, Handles
<1>2. PayloadsDue'
  BY <1>1, PendingDue DEF Flowing
<1>3. CASE ~valid
  <2>1. UNCHANGED <<streams, buffers, sq, order, daemon>>
    BY <1>3 DEF ReadData, ioVars
  <2>2. Commit(Io) /\ Adds(Io, Io, {}, {})
    BY <2>1, SlotsInUse, AddsNothing DEF Commit, Io
  <2>3. ASSUME NEW l \in DOMAIN streams, streams[l].service \in {"shell", "forward"},
               c \in OnData(Reads(batch), l)
        PROVE  FALSE
    <3>1. c.data = l /\ c \in AllReads
      BY <2>3 DEF OnData, AllReads
    <3>2. c.op = IF streams[l].service = "shell" THEN "PtyRead" ELSE "SocketRead"
      BY <3>1 DEF Flowing, ReadsKnown, ReadKnown
    <3> QED BY <1>3, <2>3, <3>1, <3>2
  <2> QED BY <1>1, <1>2, <2>1, <2>2, <2>3, IdleFlows
<1>4. CASE valid
  <2>0. PICK l \in DOMAIN streams : l = c.data
    BY <1>4
  <2>1. PICK w : w = DevMsg("WRTE", l, streams[l].remote_id, streams[l].tx + 1, FALSE)
    OBVIOUS
  <2> DEFINE t == [streams[l] EXCEPT !.waiting_for_okay = TRUE, !.tx = @ + 1]
             j == SubmitMessage(Io, w)
  <2>2. streams' = [streams EXCEPT ![l] = t] /\ Commit(j)
    BY <1>4, <2>0, <2>1 DEF ReadData, SubmitData
  <2>3. /\ l \in Nat /\ streams[l] \in StreamRecords /\ l < next_id
        /\ streams[l].service \in {"shell", "forward"} /\ Flows(l)
    BY <1>4, <2>0 DEF Inv, TypeOK, Flowing, StreamsFlow
  <2>4. SameStream(streams[l], t) /\ streams[l].remote_id \in Nat /\ streams[l].tx + 1 \in Nat
    BY <2>3 DEF SameStream, StreamRecords
  <2>5. /\ w \in DevMsgs /\ w.cmd = "WRTE" /\ w.arg0 = l /\ w.arg1 = streams[l].remote_id
    BY <2>1, <2>3, <2>4 DEF DevMsg, DevMsgs
  <2>6. /\ DOMAIN streams' = DOMAIN streams /\ streams'[l] = t
        /\ \A k \in DOMAIN streams : k # l => streams'[k] = streams[k]
    BY <2>2
  <2>7. Grows
    BY <1>1, <2>2, <2>4, LoopStarts, TableUpdates
  <2>8. /\ Adds(Io, j, {w}, {})
        /\ j.daemon = "running" =>
             \A o, p \in Writes(j.sq) \ Io.sq : o # p => o.after = p.data \/ p.after = o.data
    <3>1. IsMessages({w})
      BY <2>5 DEF IsMessages
    <3> QED BY <3>1, SlotsInUse, AddsMessage
  <2> HIDE DEF j
  <2>9. \A o, p \in Writes(j.sq) \ sq : o # p => o.after = p.data \/ p.after = o.data
    BY <1>1, <2>2, <2>8, SlotsInUse DEF Handles, Commit
  <2>10. Rest'
    <3>1. w \in Known'
      <4>1. PICK r : r = streams[l].remote_id
        OBVIOUS
      <4>2. streams'[l].remote_id = r
        BY <2>4, <2>6, <4>1 DEF SameStream
      <4>3. Knows(r, l)'
        BY <1>1, <2>3, <4>2 DEF Knows
      <4> QED BY <2>5, <4>1, <4>3 DEF Known
    <3> QED BY <1>1, <1>2, <2>2, <2>7, <2>8, <3>1, RestKept DEF Flowing, Rest
  <2>11. StreamsFlow'
    <3> SUFFICES ASSUME NEW k \in DOMAIN streams
                 PROVE  IF streams'[k].service \in {"shell", "forward"} THEN Flows(k)'
                        ELSE SyncDriven(k)'
      BY <2>6 DEF StreamsFlow
    <3>1. CASE k = l
      <4>1. c \in OnData(Reads(batch), l)
        BY <1>1, <2>0 DEF OnData
      <4>2. Flows(l)'
        BY <1>1, <2>1, <2>2, <2>3, <2>6, <2>8, <2>9, <4>1, DataFlows
      <4> QED BY <2>3, <2>4, <2>6, <3>1, <4>2 DEF SameStream
    <3>2. CASE k # l /\ streams[k].service \in {"shell", "forward"}
      <4>1. Silent({w}, k) /\ c \notin OnData(Reads(batch), k) /\ OnData({}, k) = {}
        BY <2>0, <2>5, <3>2 DEF Silent, OnData
      <4>2. Flows(k) /\ streams'[k] = streams[k] /\ SameFlow(streams[k], streams'[k])
        BY <2>6, <3>2 DEF Flowing, StreamsFlow, SameFlow
      <4> QED BY <1>1, <2>2, <2>8, <3>2, <4>1, <4>2, FlowsKept
    <3>3. CASE k # l /\ streams[k].service \notin {"shell", "forward"}
      BY <2>6, <3>3, SyncStays DEF Flowing, StreamsFlow
    <3> QED BY <3>1, <3>2, <3>3
  <2> QED BY <2>10, <2>11 DEF Flowing, Rest
<1> QED
  BY <1>3, <1>4

-----------------------------------------------------------------------------
(* Entries that move on through the ring.                                   *)

\* The completion of an operation is about the same stream.
LEMMA CqeSame ==
  ASSUME NEW o, NEW res
  PROVE  Cqe(o, res).op = o.op /\ Cqe(o, res).data = o.data /\ Cqe(o, res).res = res
BY DEF Cqe

\* The streams that are read flow on if each of them does.
LEMMA FlowingMoves ==
  ASSUME Flowing, UNCHANGED <<streams, next_id, pending_header>>,
         Queued(order', sq'), Queued(bulk_in', kern'), WrtesKnown', HostsFresh',
         \A o \in AllReads' : \E p \in AllReads : p.op = o.op /\ p.data = o.data,
         \A l \in DOMAIN streams : Flows(l) => Flows(l)'
  PROVE  Flowing'
<1>1. ReadsKnown'
  BY DEF Flowing, ReadsKnown, ReadKnown
<1>2. StreamsFlow'
  BY DEF Flowing, StreamsFlow, SyncDriven, SyncWaits
<1>3. PayloadsDue'
  BY DEF Flowing, PayloadsDue
<1> QED
  BY <1>1, <1>2, <1>3 DEF Flowing

\* A stream flows on when its WRTE stays or is lost and its OKAY stays.
LEMMA FlowsMove ==
  ASSUME NEW l, Flows(l), UNCHANGED <<streams, host, bulk_out>>,
         \A o \in Carries(l)' : o \in Carries(l) /\ buffers'[o.data] = buffers[o.data],
         Carries(l)' \subseteq sq' \/ Carries(l)' \subseteq kern',
         AckRead(l)' => AckRead(l), OneRead(l) => OneRead(l)'
  PROVE  Flows(l)'
<1>1. SameFlow(streams[l], streams'[l])
        /\ SameHost(host[streams[l].remote_id], host'[streams[l].remote_id], l)
  BY DEF SameFlow, SameHost
<1>2. OneWrte(l)'
  BY <1>1, WrteStays DEF Flows
<1>3. AckOnce(l)' /\ (Acked(l)' => Acked(l))
  BY AckStays DEF Flows
<1>4. OneAck(l)' /\ Counted(l)'
  BY <1>1, <1>3, CountStays DEF Flows
<1> QED
  BY <1>2, <1>3, <1>4 DEF Flows

\* The messages in the slots and the host do not change.
LEMMA RestSame ==
  ASSUME Flowing, UNCHANGED <<streams, next_id, host, buffers>>
  PROVE  WrtesKnown' /\ HostsFresh'
BY DEF Flowing, WrtesKnown, HostsFresh, Knows

\* A read that moves on is still the only one.
LEMMA ReadMoves ==
  ASSUME NEW l, OneRead(l), UNCHANGED streams,
         ReadsOf(l) = {} => ReadsOf(l)' = {},
         ExactlyOne(OnData(Reads(sq), l), OnData(Reads(kern), l), OnData(Reads(cq), l),
                    OnData(Reads(batch), l)) =>
           ExactlyOne(OnData(Reads(sq'), l), OnData(Reads(kern'), l), OnData(Reads(cq'), l),
                      OnData(Reads(batch'), l))
  PROVE  OneRead(l)'
BY DEF OneRead

\* Handing the queue to the kernel keeps the data flowing.
LEMMA SubmitFlows ==
  ASSUME Inv, Flowing, Submit
  PROVE  Flowing'
<1>1. /\ kern' = kern \cup sq /\ bulk_in' = bulk_in \o order /\ sq' = {} /\ order' = << >>
      /\ bulk_out_buf' \in {bulk_out_buf, << >>}
      /\ UNCHANGED <<streams, next_id, pending_header, buffers, cq, batch, host, bulk_out>>
  BY DEF Submit, devVars, hostVars
<1>2. /\ Writes(kern') = Writes(kern) \cup Writes(sq) /\ Writes(sq') = {}
      /\ Reads(kern') = Reads(kern) \cup Reads(sq) /\ Reads(sq') = {}
  BY <1>1 DEF Writes, Reads
<1>3. Queued(order', sq')
  BY <1>1 DEF Queued
<1>4. Queued(bulk_in', kern')
  <2>1. bulk_in \in Seq(Slots) /\ order \in Seq(Slots)
    BY DEF Inv, TypeOK
  <2>2. /\ Len(bulk_in') = Len(bulk_in) + Len(order)
        /\ Len(bulk_in) \in Nat /\ Len(order) \in Nat
        /\ \A i \in 1..Len(bulk_in) : bulk_in'[i] = bulk_in[i]
        /\ \A i \in 1..Len(bulk_in') : i \in 1..Len(bulk_in) \/
             (i - Len(bulk_in) \in 1..Len(order) /\ bulk_in'[i] = order[i - Len(bulk_in)])
    BY <1>1, <2>1, ConcatProperties
  <2>3. /\ \A i \in 1..Len(bulk_in) : \E o \in Writes(kern) : o.data = bulk_in[i] /\ o.after = 0
        /\ \A i, k \in 1..Len(bulk_in) : bulk_in[i] = bulk_in[k] => i = k
        /\ \A i \in 1..Len(order) : \E o \in Writes(sq) : o.data = order[i] /\ o.after = 0
        /\ \A i, k \in 1..Len(order) : order[i] = order[k] => i = k
    BY DEF Flowing, Queued
  <2>4. \A i \in 1..Len(bulk_in), k \in 1..Len(order) : bulk_in[i] # order[k]
    <3>1. NoCommonSlot(sq, kern)
      BY DEF Inv, WritesOwnTheirSlot
    <3> QED BY <2>3, <3>1 DEF NoCommonSlot
  <2>5. \A i \in 1..Len(bulk_in') : \E o \in Writes(kern') : o.data = bulk_in'[i] /\ o.after = 0
    BY <1>2, <2>2, <2>3
  <2>6. ASSUME NEW i \in 1..Len(bulk_in'), NEW k \in 1..Len(bulk_in'), bulk_in'[i] = bulk_in'[k]
        PROVE  i = k
    <3>1. CASE i \in 1..Len(bulk_in) /\ k \in 1..Len(bulk_in)
      BY <2>2, <2>3, <2>6, <3>1
    <3>2. CASE i \notin 1..Len(bulk_in) /\ k \notin 1..Len(bulk_in)
      <4>1. i - Len(bulk_in) = k - Len(bulk_in)
        BY <2>2, <2>3, <2>6, <3>2
      <4> QED BY <2>2, <4>1
    <3>3. CASE (i \in 1..Len(bulk_in)) # (k \in 1..Len(bulk_in))
      BY <2>2, <2>4, <2>6, <3>3
    <3> QED BY <3>1, <3>2, <3>3
  <2> QED BY <2>5, <2>6 DEF Queued
<1>5. AllReads' = AllReads
  BY <1>1, <1>2 DEF AllReads
<1>6. ASSUME NEW l \in DOMAIN streams, Flows(l)
      PROVE  Flows(l)'
  <2>1. Carries(l)' = Carries(l) /\ Carries(l)' \subseteq kern'
    BY <1>1, <1>2 DEF Carries, Writes
  <2>2. AckRead(l)' => AckRead(l)
    BY <1>1 DEF AckRead
  <2>3. OneRead(l) => OneRead(l)'
    <3>1. ReadsOf(l)' = ReadsOf(l)
      BY <1>5 DEF ReadsOf
    <3>2. OnData(Reads(sq'), l) = {} /\ OnData(Reads(cq'), l) = OnData(Reads(cq), l)
            /\ OnData(Reads(batch'), l) = OnData(Reads(batch), l)
            /\ OnData(Reads(kern'), l) = OnData(Reads(kern), l) \cup OnData(Reads(sq), l)
      BY <1>1, <1>2 DEF OnData
    <3>3. ExactlyOne(OnData(Reads(sq), l), OnData(Reads(kern), l), OnData(Reads(cq), l),
                     OnData(Reads(batch), l)) =>
            ExactlyOne({}, OnData(Reads(kern), l) \cup OnData(Reads(sq), l),
                       OnData(Reads(cq), l), OnData(Reads(batch), l))
      BY OneMoves
    <3> QED BY <1>1, <3>1, <3>2, <3>3, ReadMoves
  <2> QED BY <1>1, <1>6, <2>1, <2>2, <2>3, FlowsMove
<1> QED
  BY <1>1, <1>3, <1>4, <1>5, <1>6, RestSame, FlowingMoves

\* Taking the completions keeps the data flowing.
LEMMA ReapFlows ==
  ASSUME Inv, Flowing, Reap
  PROVE  Flowing'
<1>1. /\ batch = {} /\ batch' = cq /\ cq' = {}
      /\ UNCHANGED <<streams, next_id, pending_header, buffers, sq, order, kern, bulk_in>>
      /\ UNCHANGED <<host, bulk_out, bulk_out_buf>>
  BY DEF Reap, devVars, ioVars, kernVars, hostVars
<1>2. /\ Reads(batch) = {} /\ Reads(cq') = {} /\ Reads(batch') = Reads(cq)
      /\ BulkOuts(batch) = {} /\ BulkOuts(cq') = {} /\ BulkOuts(batch') = BulkOuts(cq)
  BY <1>1 DEF Reads, BulkOuts
<1>3. AllReads' = AllReads
  BY <1>1, <1>2 DEF AllReads
<1>4. ASSUME NEW l \in DOMAIN streams, Flows(l)
      PROVE  Flows(l)'
  <2>1. Carries(l)' = Carries(l) /\ (Carries(l)' \subseteq sq' \/ Carries(l)' \subseteq kern')
    <3>1. Carries(l)' = Carries(l)
      BY <1>1 DEF Carries
    <3> QED BY <1>1, <1>4, <3>1 DEF Flows, OneWrte
  <2>2. AckRead(l)' => AckRead(l)
    BY <1>1, <1>2 DEF AckRead
  <2>3. OneRead(l) => OneRead(l)'
    <3>1. ReadsOf(l)' = ReadsOf(l)
      BY <1>3 DEF ReadsOf
    <3>2. /\ OnData(Reads(batch), l) = {} /\ OnData(Reads(cq'), l) = {}
          /\ OnData(Reads(batch'), l) = OnData(Reads(cq), l)
      BY <1>2 DEF OnData
    <3>3. \A A, B, C : ExactlyOne(A, B, C, {}) => ExactlyOne(A, B, {}, C)
      BY DEF ExactlyOne
    <3>4. ExactlyOne(OnData(Reads(sq), l), OnData(Reads(kern), l), OnData(Reads(cq), l), {}) =>
            ExactlyOne(OnData(Reads(sq), l), OnData(Reads(kern), l), {}, OnData(Reads(cq), l))
      BY <3>3
    <3> QED BY <1>1, <3>1, <3>2, <3>4, ReadMoves
  <2> QED BY <1>1, <1>4, <2>1, <2>2, <2>3, FlowsMove
<1>5. Queued(order', sq') /\ Queued(bulk_in', kern')
  BY <1>1 DEF Flowing
<1> QED
  BY <1>1, <1>3, <1>4, <1>5, RestSame, FlowingMoves

\* Writes that end without reaching the host, and steps about no stream.
LEMMA RingFlows ==
  ASSUME Inv, Flowing, UNCHANGED <<streams, next_id, pending_header, host, bulk_out, sq, order>>,
         Queued(bulk_in', kern'), WrtesKnown', Writes(kern') \subseteq Writes(kern),
         \A o \in Writes(sq) \cup Writes(kern') : buffers'[o.data] = buffers[o.data],
         Reads(kern') = Reads(kern), Reads(cq') = Reads(cq), Reads(batch') = Reads(batch),
         \A l : AckRead(l)' => AckRead(l)
  PROVE  Flowing'
<1>1. AllReads' = AllReads
  BY DEF AllReads
<1>2. ASSUME NEW l \in DOMAIN streams, Flows(l)
      PROVE  Flows(l)'
  <2>1. \A o \in Carries(l)' : o \in Carries(l) /\ buffers'[o.data] = buffers[o.data]
    BY DEF Carries
  <2>2. Carries(l)' \subseteq sq' \/ Carries(l)' \subseteq kern'
    <3>1. CASE Carries(l) \subseteq sq
      BY <2>1, <3>1
    <3>2. CASE Carries(l) \subseteq kern
      <4>1. ASSUME NEW o \in Carries(l)'
            PROVE  o \in kern'
        <5>1. o \in Writes(sq) \cup Writes(kern')
          BY DEF Carries
        <5>2. CASE o \in Writes(kern')
          BY <5>2 DEF Writes
        <5>3. CASE o \in Writes(sq)
          <6>1. o \in Writes(kern)
            BY <2>1, <3>2, <4>1, <5>3 DEF Writes
          <6> QED BY <5>3, <6>1 DEF Inv, WritesOwnTheirSlot, NoCommonSlot
        <5> QED BY <5>1, <5>2, <5>3
      <4> QED BY <4>1
    <3> QED BY <1>2, <3>1, <3>2 DEF Flows, OneWrte
  <2>3. OneRead(l) => OneRead(l)'
    <3>1. SameFlow(streams[l], streams'[l]) /\ sq' = sq
      BY DEF SameFlow
    <3> QED BY <3>1, ReadStays
  <2> QED BY <1>2, <2>1, <2>2, <2>3, FlowsMove
<1>3. HostsFresh' /\ Queued(order', sq')
  BY DEF Flowing, HostsFresh
<1> QED
  BY <1>1, <1>2, <1>3, FlowingMoves

\* A completed write frees its slot and keeps the data flowing.
LEMMA WriteDoneFlows ==
  ASSUME Inv, Flowing, NEW c \in batch, WriteDone(c)
  PROVE  Flowing'
<1>1. /\ buffers' = Free(buffers, c.data) /\ c \in Writes(batch) /\ batch' = batch \ {c}
      /\ UNCHANGED <<sq, order, kern, bulk_in, cq>>
      /\ UNCHANGED <<streams, next_id, pending_header, host, bulk_out, bulk_out_buf>>
  BY DEF WriteDone, Take, kernVars, hostVars, devVars
<1>2. /\ buffers \in [Slots -> DevMsgs]
      /\ buffers' = [buffers EXCEPT ![c.data] = NoMsg] /\ NoMsg.cmd = "none"
  BY <1>1 DEF Inv, TypeOK, Free, NoMsg
<1>3. \A o \in Writes(sq) \cup Writes(kern) : o.data # c.data
  BY <1>1 DEF Inv, WritesOwnTheirSlot, NoCommonSlot
<1>4. \A o \in Writes(sq) \cup Writes(kern) : buffers'[o.data] = buffers[o.data]
  BY <1>2, <1>3, SlotsInUse
<1>5. WrtesKnown'
  <2>1. ASSUME NEW s \in Slots, buffers'[s].cmd = "WRTE"
        PROVE  buffers'[s] = buffers[s]
    BY <1>2, <2>1
  <2> QED BY <1>1, <2>1 DEF Flowing, WrtesKnown, Knows
<1>6. Reads(batch') = Reads(batch) /\ BulkOuts(batch') = BulkOuts(batch)
  BY <1>1 DEF Reads, BulkOuts, Writes
<1>7. \A l : AckRead(l)' => AckRead(l)
  BY <1>1, <1>6 DEF AckRead
<1>8. Queued(bulk_in', kern')
  BY <1>1 DEF Flowing
<1> QED
  BY <1>1, <1>4, <1>5, <1>6, <1>7, <1>8, RingFlows

\* A poll of ep0 completes, or a bulk-out read fails.
LEMMA OtherCompletionFlows ==
  ASSUME Inv, Flowing, NEW o \in kern, NEW res, o.op \notin {"BulkInWrite", "PtyRead", "SocketRead"},
         o.op = "Ep0Poll" \/ res = "err", kern' = kern \ {o}, cq' = cq \cup {Cqe(o, res)},
         UNCHANGED <<streams, next_id, pending_header, host, bulk_out, bulk_out_buf>>,
         UNCHANGED <<buffers, sq, order, bulk_in, batch>>
  PROVE  Flowing'
<1>1. /\ Writes(kern') = Writes(kern) /\ Reads(kern') = Reads(kern)
      /\ Reads(cq') = Reads(cq)
  BY CqeSame DEF Writes, Reads
<1>2. \A c \in BulkOuts(cq') : c.res = "ok" => c \in BulkOuts(cq)
  BY CqeSame DEF BulkOuts
<1>3. \A l : AckRead(l)' => AckRead(l)
  BY <1>2 DEF AckRead
<1>4. Queued(bulk_in', kern')
  BY <1>1, QueuedGrows DEF Flowing
<1> QED
  BY <1>1, <1>3, <1>4, RestSame, RingFlows

\* A write that fails loses its message and keeps the data flowing.
LEMMA KernelWriteFailFlows ==
  ASSUME Inv, Flowing, KernelWriteFail
  PROVE  Flowing'
<1> DEFINE s == Head(bulk_in)
           G == {o \in Writes(kern) : s \in {o.data, o.after}}
<1>1. /\ bulk_in # << >> /\ kern' = kern \ G /\ cq' = cq \cup {Cqe(o, "err") : o \in G}
      /\ bulk_in' = Tail(bulk_in)
      /\ UNCHANGED <<streams, next_id, pending_header, host, bulk_out, bulk_out_buf>>
      /\ UNCHANGED <<buffers, sq, order, batch>>
  BY DEF KernelWriteFail, devVars, ioVars
<1>2. bulk_in \in Seq(Slots) /\ Len(bulk_in) \in Nat /\ s = bulk_in[1] /\ s \in Slots /\ s # 0
        /\ 1 \in 1..Len(bulk_in)
  BY <1>1, MaxSlotsAssumption DEF Inv, TypeOK, Slots
<1>3. \A i \in 1..Len(bulk_in') : i + 1 \in 1..Len(bulk_in) /\ bulk_in'[i] = bulk_in[i + 1]
                                    /\ i + 1 # 1
  BY <1>1, <1>2
<1> HIDE DEF s
<1>4. Queued(bulk_in', kern')
  <2>1. ASSUME NEW i \in 1..Len(bulk_in')
        PROVE  \E o \in Writes(kern') : o.data = bulk_in'[i] /\ o.after = 0
    <3>1. PICK o \in Writes(kern) : o.data = bulk_in[i + 1] /\ o.after = 0
      BY <1>3 DEF Flowing, Queued
    <3>2. bulk_in[i + 1] # s
      BY <1>2, <1>3 DEF Flowing, Queued
    <3>3. o \in Writes(kern')
      BY <1>1, <1>2, <3>1, <3>2 DEF Writes
    <3> QED BY <1>3, <3>1, <3>3
  <2>2. ASSUME NEW i \in 1..Len(bulk_in'), NEW k \in 1..Len(bulk_in'), bulk_in'[i] = bulk_in'[k]
        PROVE  i = k
    <3>1. i + 1 = k + 1
      BY <1>3, <2>2 DEF Flowing, Queued
    <3> QED BY <3>1
  <2> QED BY <2>1, <2>2 DEF Queued
<1>5. \A o \in G : Cqe(o, "err").op = "BulkInWrite"
  BY CqeSame DEF Writes
<1> HIDE DEF G
<1>6. Reads(cq') = Reads(cq) /\ BulkOuts(cq') = BulkOuts(cq)
  BY <1>1, <1>5 DEF Reads, BulkOuts
<1>7. Writes(kern') \subseteq Writes(kern) /\ Reads(kern') = Reads(kern)
  BY <1>1 DEF Writes, Reads, G
<1>8. \A l : AckRead(l)' => AckRead(l)
  BY <1>1, <1>6 DEF AckRead
<1> QED
  BY <1>1, <1>4, <1>6, <1>7, <1>8, RestSame, RingFlows

\* The completion of a PTY or socket read keeps the data flowing.
LEMMA KernelReadFlows ==
  ASSUME Inv, Flowing, NEW o \in kern, NEW res, KernelRead(o, res)
  PROVE  Flowing'
<1> DEFINE d == Cqe(o, res)
<1>1. /\ o \in Reads(kern) /\ kern' = kern \ {o} /\ cq' = cq \cup {d}
      /\ UNCHANGED <<streams, next_id, pending_header, host, bulk_out, bulk_out_buf>>
      /\ UNCHANGED <<buffers, sq, order, bulk_in, batch>>
  BY DEF KernelRead, devVars, ioVars, hostVars
<1>2. d.op = o.op /\ d.data = o.data
  BY CqeSame
<1> HIDE DEF d
<1>3. /\ Writes(kern') = Writes(kern) /\ BulkOuts(cq') = BulkOuts(cq)
      /\ Reads(kern') = Reads(kern) \ {o} /\ Reads(cq') = Reads(cq) \cup {d}
  BY <1>1, <1>2 DEF Writes, Reads, BulkOuts
<1>4. \A p \in AllReads' : \E q \in AllReads : q.op = p.op /\ q.data = p.data
  BY <1>1, <1>2, <1>3 DEF AllReads
<1>5. ASSUME NEW l \in DOMAIN streams, Flows(l)
      PROVE  Flows(l)'
  <2>1. Carries(l)' = Carries(l)
    BY <1>1, <1>3 DEF Carries
  <2>2. Carries(l)' \subseteq sq' \/ Carries(l)' \subseteq kern'
    <3>1. CASE Carries(l) \subseteq sq
      BY <1>1, <2>1, <3>1
    <3>2. CASE Carries(l) \subseteq kern
      <4>1. \A p \in Carries(l) : p # o
        BY <1>1 DEF Carries, Writes, Reads
      <4> QED BY <1>1, <2>1, <3>2, <4>1
    <3> QED BY <1>5, <3>1, <3>2 DEF Flows, OneWrte
  <2>3. AckRead(l)' => AckRead(l)
    BY <1>1, <1>3 DEF AckRead
  <2>4. OneRead(l) => OneRead(l)'
    <3>1. CASE o.data # l
      <4>1. /\ OnData(Reads(kern'), l) = OnData(Reads(kern), l)
            /\ OnData(Reads(cq'), l) = OnData(Reads(cq), l)
        BY <1>2, <1>3, <3>1 DEF OnData
      <4>2. SameFlow(streams[l], streams'[l])
        BY <1>1 DEF SameFlow
      <4> QED BY <1>1, <4>1, <4>2, ReadStays
    <3>2. CASE o.data = l
      <4>1. o \in OnData(Reads(kern), l)
        BY <1>1, <3>2 DEF OnData
      <4>2. ReadsOf(l) # {}
        BY <4>1, ReadsSplit
      <4>3. ASSUME ExactlyOne(OnData(Reads(sq), l), OnData(Reads(kern), l),
                              OnData(Reads(cq), l), OnData(Reads(batch), l))
            PROVE  ExactlyOne(OnData(Reads(sq'), l), OnData(Reads(kern'), l),
                              OnData(Reads(cq'), l), OnData(Reads(batch'), l))
        <5>1. /\ OnData(Reads(sq), l) = {} /\ OnData(Reads(kern), l) = {o}
              /\ OnData(Reads(cq), l) = {} /\ OnData(Reads(batch), l) = {}
          BY <4>1, <4>3 DEF ExactlyOne
        <5>2. OnData(Reads(kern'), l) = {} /\ OnData(Reads(cq'), l) = {d}
          BY <1>2, <1>3, <3>2, <5>1 DEF OnData
        <5> QED BY <1>1, <5>1, <5>2 DEF ExactlyOne
      <4> QED BY <1>1, <4>2, <4>3, ReadMoves
    <3> QED BY <3>1, <3>2
  <2> QED BY <1>1, <1>5, <2>1, <2>2, <2>3, <2>4, FlowsMove
<1>6. Queued(bulk_in', kern') /\ Queued(order', sq')
  BY <1>1, <1>3, QueuedGrows DEF Flowing
<1> QED
  BY <1>1, <1>4, <1>5, <1>6, RestSame, FlowingMoves

\* A transfer of the host that is read keeps the data flowing.
LEMMA KernelBulkOutFlows ==
  ASSUME Inv, Flowing, daemon = "running", NEW o \in kern, KernelBulkOut(o)
  PROVE  Flowing'
<1>1. /\ o \in BulkOuts(kern) /\ bulk_out # << >> /\ bulk_out_buf' = <<Head(bulk_out)>>
      /\ bulk_out' = Tail(bulk_out) /\ kern' = kern \ {o} /\ cq' = cq \cup {Cqe(o, "ok")}
      /\ UNCHANGED <<streams, next_id, pending_header, host, buffers, sq, order, bulk_in, batch>>
  BY DEF KernelBulkOut, devVars, ioVars
<1>2. /\ Writes(kern') = Writes(kern) /\ Reads(kern') = Reads(kern) /\ Reads(cq') = Reads(cq)
  BY <1>1, CqeSame DEF Writes, Reads, BulkOuts
<1>3. BulkOuts(cq) = {} /\ BulkOuts(batch) = {}
  <2>1. ExactlyOne(BulkOuts(sq), BulkOuts(kern), BulkOuts(cq), BulkOuts(batch))
    BY DEF Inv, LoopArmed
  <2> QED BY <1>1, <2>1, Zenon DEF ExactlyOne
<1>4. /\ bulk_out \in Seq(Xfers) /\ Len(bulk_out) \in Nat /\ 1 \in 1..Len(bulk_out)
      /\ bulk_out_buf'[1] = bulk_out[1]
      /\ \A i \in 1..Len(bulk_out') : i + 1 \in 1..Len(bulk_out) /\ i + 1 # 1
                                        /\ bulk_out'[i] = bulk_out[i + 1]
  BY <1>1 DEF Inv, TypeOK, HostTypeOK
<1>5. ASSUME NEW l \in DOMAIN streams, Flows(l)
      PROVE  Flows(l)'
  <2>1. Carries(l)' = Carries(l)
    BY <1>1, <1>2 DEF Carries
  <2>2. Carries(l)' \subseteq sq' \/ Carries(l)' \subseteq kern'
    <3>1. \A p \in Carries(l) : p # o
      BY <1>1 DEF Carries, Writes, BulkOuts
    <3> QED BY <1>1, <1>5, <2>1, <3>1 DEF Flows, OneWrte
  <2>3. SameFlow(streams[l], streams'[l])
          /\ SameHost(host[streams[l].remote_id], host'[streams[l].remote_id], l)
    BY <1>1 DEF SameFlow, SameHost
  <2>4. OneWrte(l)'
    BY <1>1, <1>5, <2>1, <2>2, <2>3, WrteStays DEF Flows
  <2>5. AckRead(l)' => IsAck(bulk_out[1], l)
    BY <1>4 DEF AckRead
  <2>6. AckOnce(l)'
    <3>1. \A i, k \in 1..Len(bulk_out) : IsAck(bulk_out[i], l) /\ IsAck(bulk_out[k], l) => i = k
      BY <1>5 DEF Flows, AckOnce
    <3>2. AckRead(l)' => ~AckSent(l)'
      BY <1>4, <2>5, <3>1 DEF AckSent
    <3>3. ASSUME NEW i \in 1..Len(bulk_out'), NEW k \in 1..Len(bulk_out'),
                 IsAck(bulk_out'[i], l), IsAck(bulk_out'[k], l)
          PROVE  i = k
      <4>1. i + 1 = k + 1
        BY <1>4, <3>1, <3>3
      <4> QED BY <4>1
    <3> QED BY <3>2, <3>3 DEF AckOnce, IsAck
  <2>7. Acked(l)' => Acked(l)
    <3>1. AckSent(l)' => AckSent(l)
      BY <1>4 DEF AckSent
    <3>2. AckRead(l)' => AckSent(l)
      BY <1>4, <2>5 DEF AckSent
    <3> QED BY <3>1, <3>2 DEF Acked
  <2>8. OneAck(l)' /\ Counted(l)'
    BY <1>5, <2>1, <2>3, <2>7, CountStays DEF Flows
  <2>9. OneRead(l)'
    BY <1>1, <1>2, <1>5, <2>3, ReadStays DEF Flows
  <2> QED BY <2>4, <2>6, <2>8, <2>9 DEF Flows
<1>6. Queued(bulk_in', kern') /\ Queued(order', sq')
  BY <1>1, <1>2, QueuedGrows DEF Flowing
<1>7. AllReads' = AllReads
  BY <1>1, <1>2 DEF AllReads
<1> QED
  BY <1>1, <1>5, <1>6, <1>7, RestSame, FlowingMoves

-----------------------------------------------------------------------------
(* A write that reaches the host.                                           *)

\* What the host makes of a message, as far as the flow of data goes.
LEMMA ReceivedFlows ==
  ASSUME NEW h \in HostRecords, NEW m \in DevMsgs
  PROVE  LET g == Received(h, m)
         IN /\ g.acked = h.acked
            /\ g.st \in {"idle", "opening"} => h.st = g.st /\ g.got = h.got
            /\ g.st = "open" => h.st = "opening" \/ (h.st = "open" /\ g.local = h.local)
            /\ \/ g.got = h.got
               \/ /\ m.cmd = "WRTE" /\ h.st = "open" /\ g.local = h.local
                  /\ m.arg0 = h.local /\ g.got = m.payload
<1> DEFINE g == Received(h, m)
<1>1. \/ g \in {h, [h EXCEPT !.st = "closed"], [h EXCEPT !.st = "closing"],
                [h EXCEPT !.unacked = FALSE], [h EXCEPT !.bad = TRUE]}
      \/ h.st = "opening" /\ g = [h EXCEPT !.st = "open", !.local = m.arg0]
      \/ /\ m.cmd = "WRTE" /\ h.st = "open" /\ m.arg0 = h.local
         /\ g = [h EXCEPT !.got = m.payload, !.mode = IF m.fin THEN "ready" ELSE @]
  BY DEF Received
<1> HIDE DEF g
<1>2. CASE g \in {h, [h EXCEPT !.st = "closed"], [h EXCEPT !.st = "closing"],
                  [h EXCEPT !.unacked = FALSE], [h EXCEPT !.bad = TRUE]}
  <2>1. /\ g.acked = h.acked /\ g.got = h.got /\ g.local = h.local
        /\ g.st \in {"idle", "opening", "open"} => h.st = g.st
    BY <1>2 DEF HostRecords
  <2> QED BY <2>1 DEF g
<1>3. CASE h.st = "opening" /\ g = [h EXCEPT !.st = "open", !.local = m.arg0]
  <2>1. g.acked = h.acked /\ g.got = h.got /\ g.st = "open"
    BY <1>3 DEF HostRecords
  <2> QED BY <1>3, <2>1 DEF g
<1>4. ASSUME NEW x, m.cmd = "WRTE", h.st = "open", m.arg0 = h.local,
             g = [h EXCEPT !.got = m.payload, !.mode = x]
      PROVE  g.acked = h.acked /\ g.local = h.local /\ g.st = "open" /\ g.got = m.payload
  BY <1>4 DEF HostRecords
<1> QED
  BY <1>1, <1>2, <1>3, <1>4 DEF g

\* What a message does to every record of the host.
Heard(m) ==
  \A r \in Remotes :
    LET h == host[r]
        g == host'[r]
    IN /\ g.acked = h.acked
       /\ g.st \in {"idle", "opening"} => h.st = g.st /\ g.got = h.got
       /\ g.st = "open" => h.st = "opening" \/ (h.st = "open" /\ g.local = h.local)
       /\ \/ g.got = h.got
          \/ /\ m.cmd = "WRTE" /\ h.st = "open" /\ g.local = h.local
             /\ m.arg0 = h.local /\ g.got = m.payload

\* A message that is delivered is heard.
LEMMA DeliverHeard ==
  ASSUME TypeOK, NEW m \in DevMsgs, Deliver(m)
  PROVE  Heard(m)
<1>1. \A r \in Remotes : host[r] \in HostRecords
  BY DEF TypeOK, HostTypeOK
<1>2. CASE host' = host
  BY <1>2 DEF Heard
<1>3. CASE host' = [r \in Remotes |-> IF r = m.arg1 THEN Received(host[r], m) ELSE host[r]]
  <2>1. \A r \in Remotes : host'[r] = host[r] \/ host'[r] = Received(host[r], m)
    BY <1>3
  <2> QED BY <1>1, <2>1, ReceivedFlows DEF Heard
<1> QED
  BY <1>2, <1>3 DEF Deliver

\* The write of slot s leaves the kernel; what was linked to it no longer is.
Relinked(s) ==
  /\ \A p \in Writes(kern') : \E o \in Writes(kern) :
       o.data = p.data /\ o.data # s /\ p.after = IF o.after = s THEN 0 ELSE o.after
  /\ \A o \in Writes(kern) : o.data # s => \E p \in Writes(kern') :
       p.data = o.data /\ p.after = IF o.after = s THEN 0 ELSE o.after

\* What the write of slot s, queued at i, does to the ring.
LEMMA WriteLeaves ==
  ASSUME Inv, NEW i \in DOMAIN bulk_in, KernelWrite(i), NEW s, s = bulk_in[i]
  PROVE  /\ Relinked(s) /\ Reads(kern') = Reads(kern)
         /\ Reads(cq') = Reads(cq) /\ BulkOuts(cq') = BulkOuts(cq)
<1> DEFINE G == OnData(Writes(kern), s)
           f(o) == IF o.after = s THEN [o EXCEPT !.after = 0] ELSE o
<1>1. kern' = {f(o) : o \in kern \ G} /\ cq' = cq \cup {Cqe(o, "ok") : o \in G}
  BY DEF KernelWrite
<1>2. s \in Slots /\ s # 0 /\ kern \subseteq Ops
  BY MaxSlotsAssumption DEF Inv, TypeOK, Slots
<1>3. \A o \in kern : /\ f(o).op = o.op /\ f(o).data = o.data
                      /\ f(o).after = IF o.after = s THEN 0 ELSE o.after
                      /\ o.op # "BulkInWrite" => f(o) = o
  BY <1>2 DEF Ops
<1>4. \A o \in G : o \in Writes(kern) /\ o.data = s /\ Cqe(o, "ok").op = "BulkInWrite"
  BY CqeSame DEF OnData, Writes
<1>5. \A o \in Writes(kern) : o.data = s => o \in G
  BY DEF OnData
<1> HIDE DEF G, f
<1>6. \A p \in kern' : \E o \in kern \ G : p = f(o)
  BY <1>1
<1>7. \A o \in kern \ G : f(o) \in kern'
  BY <1>1
<1>8. ASSUME NEW p \in Writes(kern')
      PROVE  \E o \in Writes(kern) :
               o.data = p.data /\ o.data # s /\ p.after = IF o.after = s THEN 0 ELSE o.after
  <2>1. p \in kern' /\ p.op = "BulkInWrite"
    BY <1>8 DEF Writes
  <2>2. PICK o \in kern \ G : p = f(o)
    BY <1>6, <2>1
  <2>3. o \in Writes(kern)
    BY <1>3, <2>1, <2>2 DEF Writes
  <2> QED BY <1>3, <1>5, <2>2, <2>3
<1>9. ASSUME NEW o \in Writes(kern), o.data # s
      PROVE  \E p \in Writes(kern') :
               p.data = o.data /\ p.after = IF o.after = s THEN 0 ELSE o.after
  <2>1. o \in kern \ G /\ o.op = "BulkInWrite"
    BY <1>4, <1>9 DEF Writes
  <2>2. f(o) \in Writes(kern')
    BY <1>3, <1>7, <2>1 DEF Writes
  <2> QED BY <1>3, <2>1, <2>2
<1>10. Reads(kern') = Reads(kern)
  <2>1. ASSUME NEW p \in Reads(kern')
        PROVE  p \in Reads(kern)
    <3>1. p \in kern' /\ p.op \in {"PtyRead", "SocketRead"}
      BY <2>1 DEF Reads
    <3>2. PICK o \in kern \ G : p = f(o)
      BY <1>6, <3>1
    <3> QED BY <1>3, <3>1, <3>2 DEF Reads
  <2>2. ASSUME NEW o \in Reads(kern)
        PROVE  o \in Reads(kern')
    <3>1. o \in kern \ G /\ o.op \in {"PtyRead", "SocketRead"}
      BY <1>4, <2>2 DEF Reads, Writes
    <3>2. f(o) = o
      BY <1>3, <3>1
    <3>3. o \in kern'
      BY <1>7, <3>1, <3>2
    <3> QED BY <3>1, <3>3 DEF Reads
  <2> QED BY <2>1, <2>2
<1>11. Reads(cq') = Reads(cq) /\ BulkOuts(cq') = BulkOuts(cq)
  BY <1>1, <1>4 DEF Reads, BulkOuts
<1> QED
  BY <1>8, <1>9, <1>10, <1>11 DEF Relinked

\* Where entry k of a queue was before that at i was removed.
Skip(k, i) == IF k < i THEN k ELSE k + 1

\* A queue without the entry at i.
Without(q, i) == SubSeq(q, 1, i - 1) \o SubSeq(q, i + 1, Len(q))

\* The entries that are left are those of the queue, in their order.
LEMMA RemoveOne ==
  ASSUME NEW S, NEW q \in Seq(S), NEW i \in DOMAIN q, NEW r, r = Without(q, i)
  PROVE  /\ r \in Seq(S) /\ Len(r) = Len(q) - 1
         /\ \A k \in 1..Len(r) :
              Skip(k, i) \in 1..Len(q) /\ Skip(k, i) # i /\ r[k] = q[Skip(k, i)]
<1>1. DOMAIN q = 1..Len(q) /\ Len(q) \in Nat /\ i \in 1..Len(q)
  OBVIOUS
<1> DEFINE a == SubSeq(q, 1, i - 1)
           b == SubSeq(q, i + 1, Len(q))
<1>2. /\ a \in Seq(S) /\ Len(a) = i - 1 /\ \A k \in 1..(i - 1) : a[k] = q[k]
  <2>1. \A k \in 1..(i - 1) : q[k] \in S
    BY <1>1
  <2> QED BY <1>1, <2>1, SubSeqProperties
<1>3. /\ b \in Seq(S) /\ Len(b) = Len(q) - i /\ \A k \in 1..(Len(q) - i) : b[k] = q[i + k]
  <2>1. \A k \in (i + 1)..Len(q) : q[k] \in S
    BY <1>1
  <2>2. b \in Seq(S) /\ Len(b) = IF i + 1 <= Len(q) THEN Len(q) - (i + 1) + 1 ELSE 0
    BY <1>1, <2>1, SubSeqProperties
  <2>3. Len(b) = Len(q) - i
    BY <1>1, <2>2
  <2>4. \A k \in 1..(Len(q) - i) : b[k] = q[i + k]
    <3> SUFFICES ASSUME NEW k \in 1..(Len(q) - i)
                 PROVE  b[k] = q[i + k]
      OBVIOUS
    <3>1. i + 1 \in Int /\ Len(q) \in Int /\ k \in 1..(Len(q) - (i + 1) + 1)
      BY <1>1
    <3>2. b[k] = q[i + 1 + k - 1]
      BY <2>1, <3>1, SubSeqProperties
    <3>3. i + 1 + k - 1 = i + k
      BY <1>1
    <3> QED BY <3>2, <3>3
  <2> QED BY <2>2, <2>3, <2>4
<1> HIDE DEF a, b
<1>4. /\ r = a \o b /\ r \in Seq(S) /\ Len(r) = Len(a) + Len(b)
      /\ \A k \in 1..Len(r) : r[k] = IF k <= Len(a) THEN a[k] ELSE b[k - Len(a)]
  BY <1>2, <1>3, ConcatProperties DEF Without, a, b
<1>5. Len(r) = Len(q) - 1
  BY <1>1, <1>2, <1>3, <1>4
<1>6. ASSUME NEW k \in 1..Len(r)
      PROVE  Skip(k, i) \in 1..Len(q) /\ Skip(k, i) # i /\ r[k] = q[Skip(k, i)]
  <2>0. k \in 1..(Len(q) - 1) /\ k \in Nat /\ i \in Nat /\ Len(q) \in Nat
    BY <1>1, <1>5
  <2>1. CASE k < i
    <3>1. k \in 1..(i - 1) /\ k <= i - 1
      BY <2>0, <2>1
    <3>2. r[k] = q[k]
      BY <1>2, <1>4, <3>1
    <3> QED BY <2>0, <2>1, <3>2 DEF Skip
  <2>2. CASE ~(k < i)
    <3>0. \A x, y, n \in Nat : x \in 1..(n - 1) /\ ~(x < y) =>
            x - (y - 1) \in 1..(n - y) /\ y + (x - (y - 1)) = x + 1 /\ ~(x <= y - 1)
      OBVIOUS
    <3>1. k - (i - 1) \in 1..(Len(q) - i) /\ i + (k - (i - 1)) = k + 1 /\ ~(k <= i - 1)
      BY <2>0, <2>2, <3>0
    <3>2. r[k] = b[k - (i - 1)]
      BY <1>2, <1>4, <3>1
    <3>3. r[k] = q[k + 1]
      BY <1>3, <3>1, <3>2
    <3> QED BY <2>0, <2>2, <3>3 DEF Skip
  <2> QED BY <2>1, <2>2
<1> QED
  BY <1>4, <1>5, <1>6

\* The queue holds the writes that are left, and the payload that was linked.
LEMMA QueueMoves ==
  ASSUME Inv, Flowing, NEW i \in DOMAIN bulk_in, KernelWrite(i), NEW s, s = bulk_in[i], Relinked(s)
  PROVE  Queued(bulk_in', kern')
<1>0. /\ bulk_in \in Seq(Slots) /\ DOMAIN bulk_in = 1..Len(bulk_in) /\ s # 0
      /\ OneWritePerSlot(kern)
  BY MaxSlotsAssumption DEF Inv, TypeOK, Slots, WritesOwnTheirSlot
<1>1. PICK rest : rest = Without(bulk_in, i)
  OBVIOUS
<1>2. bulk_in' = rest \/ \E p \in kern : p.after = s /\ bulk_in' = Append(rest, p.data)
  <2>1. \/ bulk_in' = rest
        \/ \E p \in {o \in kern : o.after = bulk_in[i]} : bulk_in' = Append(rest, p.data)
    BY <1>1, Zenon DEF KernelWrite, Without
  <2> QED BY <2>1
<1>3. /\ rest \in Seq(Slots) /\ Len(rest) \in Nat
      /\ \A k \in 1..Len(rest) : /\ Skip(k, i) \in 1..Len(bulk_in) /\ Skip(k, i) # i
                                 /\ rest[k] = bulk_in[Skip(k, i)]
  BY <1>0, <1>1, RemoveOne
<1>4. /\ \A k \in 1..Len(bulk_in) : \E o \in Writes(kern) : o.data = bulk_in[k] /\ o.after = 0
      /\ \A k, n \in 1..Len(bulk_in) : bulk_in[k] = bulk_in[n] => k = n
  BY DEF Flowing, Queued
<1>5. ASSUME NEW k \in 1..Len(rest)
      PROVE  /\ \E o \in Writes(kern) : o.data = rest[k] /\ o.after = 0
             /\ \E p \in Writes(kern') : p.data = rest[k] /\ p.after = 0
  <2>1. PICK n \in 1..Len(bulk_in) : n # i /\ rest[k] = bulk_in[n]
    BY <1>3
  <2>2. PICK o \in Writes(kern) : o.data = bulk_in[n] /\ o.after = 0
    BY <1>4
  <2>3. o.data # s
    BY <1>0, <1>4, <2>1, <2>2
  <2>4. \E p \in Writes(kern') : p.data = o.data /\ p.after = IF o.after = s THEN 0 ELSE o.after
    BY <2>2, <2>3 DEF Relinked
  <2> QED BY <2>1, <2>2, <2>4
<1>6. ASSUME NEW k \in 1..Len(rest), NEW n \in 1..Len(rest), rest[k] = rest[n]
      PROVE  k = n
  <2>1. Skip(k, i) = Skip(n, i)
    BY <1>3, <1>4, <1>6
  <2>2. k \in Nat /\ n \in Nat /\ i \in Nat
    BY <1>0, <1>3
  <2> QED BY <2>1, <2>2 DEF Skip
<1>7. Queued(rest, kern')
  BY <1>5, <1>6 DEF Queued
<1>8. ASSUME NEW p \in kern, p.after = s, bulk_in' = Append(rest, p.data)
      PROVE  Queued(bulk_in', kern')
  <2>1. p \in Writes(kern) /\ p.data \in Slots
    BY <1>0, <1>8 DEF Inv, TypeOK, Ops, Writes
  <2>2. p.data # s
    <3>1. PICK o \in Writes(kern) : o.data = s /\ o.after = 0
      BY <1>0, <1>4
    <3> QED BY <1>0, <1>8, <2>1, <3>1 DEF OneWritePerSlot
  <2>3. \E t \in Writes(kern') : t.data = p.data /\ t.after = 0
    BY <1>8, <2>1, <2>2 DEF Relinked
  <2>4. \A k \in 1..Len(rest) : rest[k] # p.data
    BY <1>0, <1>5, <1>8, <2>1 DEF OneWritePerSlot
  <2>5. /\ Len(bulk_in') = Len(rest) + 1 /\ bulk_in'[Len(rest) + 1] = p.data
        /\ \A k \in 1..Len(rest) : bulk_in'[k] = rest[k]
    BY <1>3, <1>8, <2>1, AppendProperties
  <2>6. \A k \in 1..Len(bulk_in') : k \in 1..Len(rest) \/ k = Len(rest) + 1
    BY <1>3, <2>5
  <2>7. ASSUME NEW k \in 1..Len(bulk_in')
        PROVE  \E t \in Writes(kern') : t.data = bulk_in'[k] /\ t.after = 0
    BY <1>5, <2>3, <2>5, <2>6
  <2>8. ASSUME NEW k \in 1..Len(bulk_in'), NEW n \in 1..Len(bulk_in'), bulk_in'[k] = bulk_in'[n]
        PROVE  k = n
    BY <1>6, <2>4, <2>5, <2>6, <2>8
  <2> QED BY <2>7, <2>8 DEF Queued
<1> QED
  BY <1>2, <1>7, <1>8

\* The writes of a WRTE are those that were there before.
LEMMA WrteRelinked ==
  ASSUME Inv, Inv', NEW s, s # 0, Relinked(s), UNCHANGED <<streams, buffers, sq>>, NEW l, OneWrte(l)
  PROVE  /\ OneWrte(l)'
         /\ \A p \in Carries(l)' : \E o \in Carries(l) : o.data = p.data /\ (o.data # s \/ o \in sq)
<1>0. NoCommonSlot(sq, kern)
  BY DEF Inv, WritesOwnTheirSlot
<1>1. ASSUME NEW p \in Carries(l)', p \in Writes(kern')
      PROVE  \E o \in Carries(l) : /\ o \in Writes(kern) /\ o.data = p.data /\ o.data # s
                                   /\ p.after = IF o.after = s THEN 0 ELSE o.after
  <2>1. PICK o \in Writes(kern) :
          o.data = p.data /\ o.data # s /\ p.after = IF o.after = s THEN 0 ELSE o.after
    BY <1>1 DEF Relinked
  <2>2. buffers[o.data].cmd = "WRTE" /\ buffers[o.data].arg0 = l
    BY <1>1, <2>1 DEF Carries
  <2> QED BY <2>1, <2>2 DEF Carries
<1>2. ASSUME NEW p \in Carries(l)', p \in Writes(sq)
      PROVE  p \in Carries(l)
  BY <1>2 DEF Carries
<1>3. \A p \in Carries(l)' : p \in Writes(sq) \/ p \in Writes(kern')
  BY DEF Carries
<1>4. ASSUME Carries(l) \subseteq sq, NEW p \in Carries(l)'
      PROVE  p \in Writes(sq) /\ p \in Carries(l)
  <2>1. ASSUME p \in Writes(kern')
        PROVE  FALSE
    <3>1. PICK o \in Carries(l) : o \in Writes(kern)
      BY <1>1, <2>1
    <3>2. o \in Writes(sq)
      BY <1>4, <3>1 DEF Writes
    <3> QED BY <1>0, <3>1, <3>2 DEF NoCommonSlot
  <2> QED BY <1>2, <1>3, <2>1
<1>5. ASSUME Carries(l) \subseteq kern, NEW p \in Carries(l)'
      PROVE  p \in Writes(kern')
  <2>1. ASSUME p \in Writes(sq)
        PROVE  FALSE
    <3>1. p \in Writes(kern)
      BY <1>2, <1>5, <2>1 DEF Writes
    <3> QED BY <1>0, <2>1, <3>1 DEF NoCommonSlot
  <2> QED BY <1>3, <2>1
<1>6. Carries(l)' \subseteq sq' \/ Carries(l)' \subseteq kern'
  BY <1>4, <1>5 DEF OneWrte, Writes
<1>7. \A p \in Carries(l)' : \E o \in Carries(l) : o.data = p.data /\ (o.data # s \/ o \in sq)
  BY <1>1, <1>2, <1>3 DEF Writes
<1>8. ASSUME NEW p \in Carries(l)', NEW q \in Carries(l)', p # q
      PROVE  p.after = q.data \/ q.after = p.data
  <2>1. CASE Carries(l) \subseteq sq
    BY <1>4, <1>8, <2>1 DEF OneWrte
  <2>2. CASE Carries(l) \subseteq kern
    <3>1. PICK o \in Carries(l) : /\ o \in Writes(kern) /\ o.data = p.data /\ o.data # s
                                  /\ p.after = IF o.after = s THEN 0 ELSE o.after
      BY <1>1, <1>5, <2>2
    <3>2. PICK t \in Carries(l) : /\ t \in Writes(kern) /\ t.data = q.data /\ t.data # s
                                  /\ q.after = IF t.after = s THEN 0 ELSE t.after
      BY <1>1, <1>5, <2>2
    <3>3. o # t
      <4>1. p \in Writes(kern') /\ q \in Writes(kern')
        BY <1>5, <2>2
      <4>2. p \in Ops /\ q \in Ops /\ p.op = q.op
        BY <4>1 DEF Inv, TypeOK, Writes
      <4>3. ~(p.data = q.data /\ p.after = q.after)
        BY <1>8, <4>2 DEF Ops
      <4> QED BY <3>1, <3>2, <4>3
    <3>4. o.after = t.data \/ t.after = o.data
      BY <3>1, <3>2, <3>3 DEF OneWrte
    <3> QED BY <3>1, <3>2, <3>4
  <2> QED BY <2>1, <2>2 DEF OneWrte
<1>9. OneWrte(l)'
  BY <1>6, <1>7, <1>8 DEF OneWrte
<1> QED
  BY <1>7, <1>9

\* The host has the last WRTE of stream l and has not acknowledged it.
LEMMA WrteArrives ==
  ASSUME Inv, NEW l, OneWrte(l), OneAck(l), Counted(l), NEW o \in Carries(l), o \in Writes(kern),
         o.after = 0, {p \in kern : p.after = o.data} = {}, o.data # 0,
         UNCHANGED streams, Acked(l)' => Acked(l),
         \A p \in Carries(l)' : \E q \in Carries(l) : q.data = p.data /\ (q.data # o.data \/ q \in sq),
         NEW h, h = host[streams[l].remote_id], NEW g, g = host'[streams[l].remote_id],
         Listens(h, l), g.acked = h.acked, g.got = buffers[o.data].payload
  PROVE  OneAck(l)' /\ Counted(l)'
<1>1. /\ streams[l].waiting_for_okay /\ g.got = streams[l].tx
      /\ h.got = h.acked /\ streams[l].tx = h.acked + 1 /\ ~Acked(l)
  BY DEF OneWrte, OneAck, Counted
<1>2. ASSUME NEW p \in Carries(l)'
      PROVE  FALSE
  <2>1. PICK q \in Carries(l) : q.data # o.data \/ q \in sq
    BY <1>2
  <2>2. CASE q \in sq
    <3>1. q \in Writes(sq) /\ (Carries(l) \subseteq sq \/ Carries(l) \subseteq kern)
      BY <2>2 DEF Carries, Writes, OneWrte
    <3>2. o \in sq \/ q \in kern
      BY <3>1
    <3>3. (o \in Writes(sq) /\ o \in Writes(kern)) \/ (q \in Writes(sq) /\ q \in Writes(kern))
      BY <3>1, <3>2 DEF Writes
    <3> QED BY <3>3 DEF Inv, WritesOwnTheirSlot, NoCommonSlot
  <2>3. CASE q \notin sq
    <3>1. q \in kern /\ q # o /\ q \in Writes(kern)
      BY <2>1, <2>3 DEF Carries, Writes
    <3>2. q.data # 0
      BY <3>1, MaxSlotsAssumption DEF Inv, TypeOK, Ops, Slots, Writes
    <3>3. q.after = o.data \/ o.after = q.data
      BY <3>1 DEF OneWrte
    <3> QED BY <3>1, <3>2, <3>3
  <2> QED BY <2>2, <2>3
<1>3. Carries(l)' = {}
  BY <1>2
<1>4. OneAck(l)'
  BY <1>1 DEF OneAck
<1>5. Counted(l)'
  <2>1. h.acked + 1 = g.acked + 1 /\ streams'[l] = streams[l]
    OBVIOUS
  <2> QED BY <1>1, <1>3, <2>1 DEF Counted
<1> QED
  BY <1>4, <1>5

\* A write that reaches the host keeps the data flowing.
LEMMA KernelWriteFlows ==
  ASSUME Inv, Inv', Agree, Flowing, NEW i \in DOMAIN bulk_in, KernelWrite(i)
  PROVE  Flowing'
<1>1. PICK s : s = bulk_in[i]
  OBVIOUS
<1>2. /\ UNCHANGED <<streams, next_id, pending_header, buffers, sq, order>>
      /\ UNCHANGED <<batch, bulk_out, bulk_out_buf>>
  BY DEF KernelWrite, devVars, ioVars
<1>3. /\ Relinked(s) /\ Reads(kern') = Reads(kern)
      /\ Reads(cq') = Reads(cq) /\ BulkOuts(cq') = BulkOuts(cq)
  BY <1>1, WriteLeaves
<1>4. Queued(bulk_in', kern') /\ Queued(order', sq')
  <2>1. Queued(bulk_in', kern')
    BY <1>1, <1>3, QueueMoves
  <2> QED BY <1>2, <2>1 DEF Flowing
<1>5. s \in Slots /\ s # 0 /\ buffers[s] \in DevMsgs /\ 0 \notin Slots /\ i \in 1..Len(bulk_in)
  <2>1. bulk_in \in Seq(Slots) /\ buffers \in [Slots -> DevMsgs]
    BY DEF Inv, TypeOK
  <2>2. 0 \notin Slots
    BY MaxSlotsAssumption DEF Slots
  <2> QED BY <1>1, <2>1, <2>2
<1>6. host' = host \/ ({p \in kern : p.after = s} = {} /\ Heard(buffers[s]))
  <2>1. host' = host \/ ({p \in kern : p.after = s} = {} /\ Deliver(buffers[s]))
    <3>1. ASSUME NEW p \in kern, p.after = s
          PROVE  p.data # 0
      BY <1>5, <3>1 DEF Inv, TypeOK, Ops
    <3>2. \/ {p \in kern : p.after = s} = {} /\ HostRead(s, 0, buffers[s])
          \/ \E p \in {q \in kern : q.after = s} : HostRead(s, p.data, buffers[s])
      BY <1>1, Zenon DEF KernelWrite
    <3>3. \A n : HostRead(s, n, buffers[s]) => host' = host \/ (n = 0 /\ Deliver(buffers[s]))
      BY DEF HostRead
    <3> QED BY <3>1, <3>2, <3>3
  <2> QED BY <1>5, <2>1, DeliverHeard DEF Inv
<1>7. PICK o \in Writes(kern) : o.data = s /\ o.after = 0
  BY <1>1, <1>5 DEF Flowing, Queued
<1>8. HostsFresh'
  BY <1>6 DEF Flowing, HostsFresh, Heard
<1>9. WrtesKnown'
  BY <1>2 DEF Flowing, WrtesKnown, Knows
<1>10. AllReads' = AllReads
  BY <1>2, <1>3 DEF AllReads
<1>11. ASSUME NEW l \in DOMAIN streams, Flows(l)
       PROVE  Flows(l)'
  <2>1. PICK r \in Remotes : r = streams[l].remote_id
    BY DEF Agree, StreamsAgree, Opened
  <2>2. SameFlow(streams[l], streams'[l])
    BY <1>2 DEF SameFlow
  <2>3. AckRead(l)' => AckRead(l)
    BY <1>2, <1>3 DEF AckRead
  <2>4. AckOnce(l)' /\ (Acked(l)' => Acked(l))
    BY <1>2, <1>11, <2>3, AckStays DEF Flows
  <2>5. /\ OneWrte(l)'
        /\ \A p \in Carries(l)' : \E q \in Carries(l) : q.data = p.data /\ (q.data # s \/ q \in sq)
    BY <1>2, <1>3, <1>5, <1>11, WrteRelinked DEF Flows
  <2>6. OneRead(l)'
    BY <1>2, <1>3, <1>11, <2>2, ReadStays DEF Flows
  <2>7. OneAck(l)' /\ Counted(l)'
    <3>1. PICK h : h = host[r]
      OBVIOUS
    <3>2. PICK g : g = host'[r]
      OBVIOUS
    <3>3. g.acked = h.acked /\ (Listens(g, l) => Listens(h, l))
      BY <1>6, <3>1, <3>2 DEF Heard, Listens
    <3>4. CASE g.got = h.got
      <4>1. SameHost(h, g, l)
        BY <3>3, <3>4 DEF SameHost
      <4> QED BY <1>11, <2>1, <2>2, <2>4, <2>5, <3>1, <3>2, <4>1, CountStays DEF Flows
    <3>5. CASE g.got # h.got
      <4>1. /\ buffers[s].cmd = "WRTE" /\ h.st = "open" /\ g.local = h.local
            /\ buffers[s].arg0 = h.local /\ g.got = buffers[s].payload
            /\ {p \in kern : p.after = s} = {}
        BY <1>6, <3>1, <3>2, <3>5 DEF Heard
      <4>2. CASE Listens(g, l)
        <5>1. h.local = l
          BY <3>3, <4>1, <4>2 DEF Listens
        <5>2. o \in Carries(l)
          BY <1>7, <4>1, <5>1 DEF Carries
        <5> QED BY <1>2, <1>5, <1>7, <1>11, <2>1, <2>4, <2>5, <3>1, <3>2, <3>3, <4>1, <4>2, <5>2,
                   WrteArrives DEF Flows
      <4>3. CASE ~Listens(g, l)
        <5>1. Counted(l)'
          BY <1>2, <2>1, <3>2, <4>3 DEF Counted
        <5>2. OneAck(l)'
          BY <1>2, <1>11, <2>4, <2>5 DEF Flows, OneAck
        <5> QED BY <5>1, <5>2
      <4> QED BY <4>2, <4>3
    <3> QED BY <3>4, <3>5
  <2> QED BY <2>4, <2>5, <2>6, <2>7 DEF Flows
<1> QED
  BY <1>2, <1>4, <1>8, <1>9, <1>10, <1>11, FlowingMoves

-----------------------------------------------------------------------------
(* Steps of the host.                                                       *)

\* The device does nothing.
Resting == /\ UNCHANGED <<streams, next_id, pending_header, buffers, sq, order>>
           /\ UNCHANGED <<kern, bulk_in, cq, batch, bulk_out_buf>>

\* The transfers of a message come after those that were sent before it.
LEMMA SendAppends ==
  ASSUME TypeOK, NEW m, NEW hok, NEW pok, bulk_out' = bulk_out \o Transfers(m, hok, pok)
  PROVE  /\ Len(bulk_out) \in Nat
         /\ \A k \in 1..Len(bulk_out') :
              \/ k \in 1..Len(bulk_out) /\ bulk_out'[k] = bulk_out[k]
              \/ bulk_out'[k].msg = m /\ (m.payload = "none" => k = Len(bulk_out) + 1)
<1> DEFINE t == Transfers(m, hok, pok)
<1>1. bulk_out \in Seq(Xfers) /\ Len(bulk_out) \in Nat
  BY DEF TypeOK, HostTypeOK
<1>2. PICK S : t \in Seq(S)
  BY TransfersAre
<1>3. \A k \in 1..Len(t) : t[k].msg = m
  BY TransfersAre
<1>4. m.payload = "none" => Len(t) = 1
  BY DEF Transfers
<1>5. bulk_out' = bulk_out \o t
  OBVIOUS
<1> HIDE DEF t
<1>6. bulk_out \in Seq(Xfers \cup S) /\ t \in Seq(Xfers \cup S)
  BY <1>1, <1>2
<1>7. \A k \in 1..Len(bulk_out') :
        \/ k \in 1..Len(bulk_out) /\ bulk_out'[k] = bulk_out[k]
        \/ k - Len(bulk_out) \in 1..Len(t) /\ bulk_out'[k] = t[k - Len(bulk_out)]
  BY <1>5, <1>6, ConcatProperties
<1>8. \A k \in 1..Len(bulk_out') : k - Len(bulk_out) \in 1..1 => k = Len(bulk_out) + 1
  BY <1>1
<1> QED
  BY <1>1, <1>3, <1>4, <1>7, <1>8

\* A stream flows on when the host sends no OKAY for it.
LEMMA FlowsRest ==
  ASSUME NEW l, Flows(l), Resting,
         \A k \in 1..Len(bulk_out') : IsAck(bulk_out'[k], l) =>
           k \in 1..Len(bulk_out) /\ IsAck(bulk_out[k], l),
         \/ SameHost(host[streams[l].remote_id], host'[streams[l].remote_id], l)
         \/ ~Listens(host'[streams[l].remote_id], l)
  PROVE  Flows(l)'
<1>1. SameFlow(streams[l], streams'[l])
  BY DEF Resting, SameFlow
<1>2. Carries(l)' = Carries(l) /\ (AckRead(l)' <=> AckRead(l))
  BY DEF Resting, Carries, AckRead
<1>3. AckSent(l)' => AckSent(l)
  BY DEF AckSent, IsAck
<1>4. Acked(l)' => Acked(l)
  BY <1>2, <1>3 DEF Acked
<1>5. AckOnce(l)'
  <2>1. \A i, k \in 1..Len(bulk_out') : IsAck(bulk_out'[i], l) /\ IsAck(bulk_out'[k], l) => i = k
    BY DEF Flows, AckOnce
  <2>2. AckRead(l)' => ~AckSent(l)'
    BY <1>2, <1>3 DEF Flows, AckOnce
  <2> QED BY <2>1, <2>2 DEF AckOnce, IsAck
<1>6. OneWrte(l)'
  <2>1. UNCHANGED <<buffers, sq, kern, streams>>
    BY DEF Resting
  <2> QED BY <1>2, <2>1 DEF Flows, OneWrte
<1>7. OneAck(l)' /\ Counted(l)'
  <2>1. CASE SameHost(host[streams[l].remote_id], host'[streams[l].remote_id], l)
    BY <1>1, <1>2, <1>4, <2>1, CountStays DEF Flows
  <2>2. CASE ~Listens(host'[streams[l].remote_id], l)
    <3>1. Counted(l)'
      BY <2>2 DEF Resting, Counted
    <3>2. OneAck(l)'
      BY <1>1, <1>2, <1>4 DEF Flows, OneAck, SameFlow
    <3> QED BY <3>1, <3>2
  <2> QED BY <2>1, <2>2
<1>8. OneRead(l)'
  <2>1. UNCHANGED <<sq, kern, cq, batch>>
    BY DEF Resting
  <2> QED BY <1>1, <2>1, ReadStays DEF Flows
<1> QED
  BY <1>5, <1>6, <1>7, <1>8 DEF Flows

\* The host's OKAY of the WRTE it has.
LEMMA FlowsAck ==
  ASSUME NEW l, Flows(l), Resting, NEW r, r = streams[l].remote_id,
         host[r].st = "open", host[r].local = l, host[r].acked \in Nat, host[r].got \in Nat,
         host[r].acked < host[r].got, host'[r].got = host[r].got,
         host'[r].acked = host[r].acked + 1, Len(bulk_out) \in Nat,
         \A k \in 1..Len(bulk_out') :
           \/ k \in 1..Len(bulk_out) /\ bulk_out'[k] = bulk_out[k]
           \/ k = Len(bulk_out) + 1
  PROVE  Flows(l)'
<1>0. PICK h : h = host[r]
  OBVIOUS
<1>1. SameFlow(streams[l], streams'[l]) /\ streams' = streams
  BY DEF Resting, SameFlow
<1>2. Carries(l)' = Carries(l) /\ (AckRead(l)' <=> AckRead(l))
  BY DEF Resting, Carries, AckRead
<1>3. /\ h.got = h.acked + 1 /\ h.got = streams[l].tx /\ streams[l].waiting_for_okay
      /\ ~Acked(l) /\ Carries(l) = {}
  BY <1>0 DEF Flows, Counted, Listens
<1>4. \A k \in 1..Len(bulk_out) : ~IsAck(bulk_out[k], l)
  BY <1>3 DEF Acked, AckSent
<1>5. AckOnce(l)'
  <2>1. ~AckRead(l)'
    BY <1>2, <1>3 DEF Acked
  <2>2. \A i, k \in 1..Len(bulk_out') : IsAck(bulk_out'[i], l) /\ IsAck(bulk_out'[k], l) => i = k
    BY <1>4
  <2> QED BY <2>1, <2>2 DEF AckOnce, IsAck
<1>6. OneAck(l)' /\ OneWrte(l)'
  BY <1>1, <1>2, <1>3 DEF OneAck, OneWrte
<1>7. Counted(l)'
  <2>1. /\ host'[r].got = host'[r].acked /\ streams'[l].tx = host'[r].acked
        /\ streams'[l].tx <= host'[r].acked + 1 /\ streams'[l].remote_id = r
    BY <1>0, <1>1, <1>3
  <2> QED BY <1>2, <1>3, <2>1 DEF Counted
<1>8. OneRead(l)'
  <2>1. UNCHANGED <<sq, kern, cq, batch>>
    BY DEF Resting
  <2> QED BY <1>1, <2>1, ReadStays DEF Flows
<1> QED
  BY <1>5, <1>6, <1>7, <1>8 DEF Flows

\* If every stream flows on, the data does.
LEMMA RestFlows ==
  ASSUME Flowing, Resting, HostsFresh', \A l \in DOMAIN streams : Flows(l) => Flows(l)'
  PROVE  Flowing'
<1>1. AllReads' = AllReads
  BY DEF Resting, AllReads
<1>2. Queued(order', sq') /\ Queued(bulk_in', kern')
  BY DEF Resting, Flowing
<1>3. WrtesKnown'
  BY DEF Resting, Flowing, WrtesKnown, Knows
<1>4. UNCHANGED <<streams, next_id, pending_header>>
  BY DEF Resting
<1> QED
  BY <1>1, <1>2, <1>3, <1>4, FlowingMoves

\* A message of the host that is no OKAY keeps the data flowing.
LEMMA HostSendFlows ==
  ASSUME Inv, Agree, Flowing, Resting, NEW m, m.cmd # "OKAY", NEW hok, NEW pok,
         bulk_out' = bulk_out \o Transfers(m, hok, pok), HostsFresh',
         \A r \in Remotes : host[r].st # "idle" =>
           /\ host'[r].got = host[r].got /\ host'[r].acked = host[r].acked
           /\ host'[r].local = host[r].local
           /\ host'[r].st \in {"opening", "open"} => host[r].st = host'[r].st
  PROVE  Flowing'
<1>1. ASSUME NEW l \in DOMAIN streams, Flows(l)
      PROVE  Flows(l)'
  <2>1. PICK r \in Remotes : r = streams[l].remote_id /\ host[r].st # "idle"
    BY DEF Agree, StreamsAgree, Opened
  <2>2. SameHost(host[r], host'[r], l)
    BY <2>1 DEF SameHost, Listens
  <2>3. \A k \in 1..Len(bulk_out') : IsAck(bulk_out'[k], l) =>
           k \in 1..Len(bulk_out) /\ IsAck(bulk_out[k], l)
    BY SendAppends DEF IsAck, Inv
  <2> QED BY <1>1, <2>1, <2>2, <2>3, FlowsRest
<1> QED
  BY <1>1, RestFlows

\* An OPEN keeps the data flowing.
LEMMA HostOpenFlows ==
  ASSUME Inv, Agree, Flowing, Resting, NEW r \in Remotes, NEW svc \in Services, HostOpen(r, svc)
  PROVE  Flowing'
<1>1. /\ host[r].st = "idle"
      /\ bulk_out' = bulk_out \o Transfers(Message("OPEN", r, 0, svc), TRUE, TRUE)
      /\ host' = [host EXCEPT ![r].st = "opening", ![r].svc = svc]
  BY DEF HostOpen, HostSend
<1>2. host \in [Remotes -> HostRecords]
  BY DEF Inv, TypeOK, HostTypeOK
<1>3. /\ \A q \in Remotes \ {r} : host'[q] = host[q]
      /\ host'[r].got = host[r].got /\ host'[r].acked = host[r].acked
  BY <1>1, <1>2 DEF HostRecords
<1>4. HostsFresh'
  BY <1>1, <1>3 DEF Flowing, HostsFresh
<1>5. Message("OPEN", r, 0, svc).cmd # "OKAY"
  BY DEF Message
<1> QED
  BY <1>1, <1>3, <1>4, <1>5, HostSendFlows

\* A step of the host on a stream it has opened, other than an OKAY, keeps the
\* data flowing.
LEMMA HostStreamFlows ==
  ASSUME Inv, Agree, Flowing, Resting, NEW r \in Remotes, NEW h, NEW m,
         host' = [host EXCEPT ![r] = h], m.cmd # "OKAY", HostSend(m), host[r].st # "idle",
         h.got = host[r].got, h.acked = host[r].acked, h.local = host[r].local,
         h.st \in {host[r].st, "closed"}
  PROVE  Flowing'
<1>1. bulk_out' = bulk_out \o Transfers(m, TRUE, TRUE)
  BY DEF HostSend
<1>2. host \in [Remotes -> HostRecords]
  BY DEF Inv, TypeOK, HostTypeOK
<1>3. (\A q \in Remotes \ {r} : host'[q] = host[q]) /\ host'[r] = h
  BY <1>2
<1>4. HostsFresh'
  BY <1>3 DEF Flowing, HostsFresh
<1>5. \A q \in Remotes : host[q].st # "idle" =>
        /\ host'[q].got = host[q].got /\ host'[q].acked = host[q].acked
        /\ host'[q].local = host[q].local
        /\ host'[q].st \in {"opening", "open"} => host[q].st = host'[q].st
  BY <1>3
<1> QED
  BY <1>1, <1>4, <1>5, HostSendFlows

\* A WRTE or a CLSE of the host keeps the data flowing.
LEMMA HostWriteFlows ==
  ASSUME Inv, Agree, Flowing, Resting, NEW r \in Remotes, HostWrite(r) \/ HostClose(r)
  PROVE  Flowing'
<1>0. \A cmd, l, p : Message(cmd, r, l, p).cmd = cmd
  BY DEF Message
<1>1. host[r].st # "idle"
  BY DEF HostWrite, HostClose
<1>2. host[r] \in HostRecords
  BY DEF Inv, TypeOK, HostTypeOK
<1>3. CASE /\ HostSend(Message("CLSE", r, host[r].local, "none"))
           /\ host' = [host EXCEPT ![r].st = "closed"]
  <2> DEFINE h == [host[r] EXCEPT !.st = "closed"]
  <2>1. /\ host' = [host EXCEPT ![r] = h] /\ h.st = "closed"
        /\ h.got = host[r].got /\ h.acked = host[r].acked /\ h.local = host[r].local
    BY <1>2, <1>3 DEF HostRecords
  <2> HIDE DEF h
  <2>2. PICK m : m = Message("CLSE", r, host[r].local, "none")
    OBVIOUS
  <2>3. m.cmd # "OKAY" /\ HostSend(m)
    BY <1>0, <1>3, <2>2
  <2>4. h.st \in {host[r].st, "closed"}
    BY <2>1
  <2> QED BY <1>1, <2>1, <2>3, <2>4, HostStreamFlows
<1>4. CASE /\ HostSend(Message("WRTE", r, host[r].local, "bytes"))
           /\ host' = [host EXCEPT ![r].unacked = TRUE, ![r].sent = @ + 1]
  <2> DEFINE h == [host[r] EXCEPT !.unacked = TRUE, !.sent = @ + 1]
  <2>1. /\ host' = [host EXCEPT ![r] = h] /\ h.st = host[r].st
        /\ h.got = host[r].got /\ h.acked = host[r].acked /\ h.local = host[r].local
    BY <1>2, <1>4 DEF HostRecords
  <2> HIDE DEF h
  <2>2. PICK m : m = Message("WRTE", r, host[r].local, "bytes")
    OBVIOUS
  <2>3. m.cmd # "OKAY" /\ HostSend(m)
    BY <1>0, <1>4, <2>2
  <2>4. h.st \in {host[r].st, "closed"}
    BY <2>1
  <2> QED BY <1>1, <2>1, <2>3, <2>4, HostStreamFlows
<1>5. ASSUME NEW req, HostSend(Message("WRTE", r, host[r].local, req)),
             host' = [host EXCEPT ![r].unacked = TRUE, ![r].sent = @ + 1, ![r].mode = Mode(req)]
      PROVE  Flowing'
  <2> DEFINE h == [host[r] EXCEPT !.unacked = TRUE, !.sent = @ + 1, !.mode = Mode(req)]
  <2>1. /\ host' = [host EXCEPT ![r] = h] /\ h.st = host[r].st
        /\ h.got = host[r].got /\ h.acked = host[r].acked /\ h.local = host[r].local
    BY <1>2, <1>5 DEF HostRecords
  <2> HIDE DEF h
  <2>2. PICK m : m = Message("WRTE", r, host[r].local, req)
    OBVIOUS
  <2>3. m.cmd # "OKAY" /\ HostSend(m)
    BY <1>0, <1>5, <2>2
  <2>4. h.st \in {host[r].st, "closed"}
    BY <2>1
  <2> QED BY <1>1, <2>1, <2>3, <2>4, HostStreamFlows
<1> QED
  BY <1>3, <1>4, <1>5, Zenon DEF HostWrite, HostClose

\* An OKAY of the host keeps the data flowing.
LEMMA HostAckFlows ==
  ASSUME Inv, Agree, Flowing, Resting, NEW r \in Remotes, HostAck(r)
  PROVE  Flowing'
<1> DEFINE m == Message("OKAY", r, host[r].local, "none")
<1>1. /\ host[r].st = "open" /\ host[r].acked < host[r].got
      /\ bulk_out' = bulk_out \o Transfers(m, TRUE, TRUE)
      /\ host' = [host EXCEPT ![r].acked = @ + 1]
  BY DEF HostAck, HostSend
<1>2. host \in [Remotes -> HostRecords] /\ TypeOK
  BY DEF Inv, TypeOK, HostTypeOK
<1>3. /\ \A q \in Remotes \ {r} : host'[q] = host[q]
      /\ host'[r].got = host[r].got /\ host'[r].acked = host[r].acked + 1
      /\ host'[r].st = "open" /\ host'[r].local = host[r].local
      /\ host[r].acked \in Nat /\ host[r].got \in Nat
  BY <1>1, <1>2 DEF HostRecords
<1>4. m.payload = "none" /\ m.arg1 = host[r].local
  BY DEF Message
<1> HIDE DEF m
<1>5. /\ Len(bulk_out) \in Nat
      /\ \A k \in 1..Len(bulk_out') :
           \/ k \in 1..Len(bulk_out) /\ bulk_out'[k] = bulk_out[k]
           \/ bulk_out'[k].msg = m /\ k = Len(bulk_out) + 1
  BY <1>1, <1>2, <1>4, SendAppends
<1>6. HostsFresh'
  BY <1>3 DEF Flowing, HostsFresh
<1>7. ASSUME NEW l \in DOMAIN streams, Flows(l)
      PROVE  Flows(l)'
  <2>1. PICK q \in Remotes : q = streams[l].remote_id
    BY DEF Agree, StreamsAgree, Opened
  <2>2. CASE l = host[r].local
    <3>1. q = r
      BY <2>1, <2>2 DEF Agree, HostsAgree, Knows
    <3> QED BY <1>1, <1>3, <1>5, <1>7, <2>1, <2>2, <3>1, FlowsAck
  <2>3. CASE l # host[r].local
    <3>1. \A k \in 1..Len(bulk_out') : IsAck(bulk_out'[k], l) =>
            k \in 1..Len(bulk_out) /\ IsAck(bulk_out[k], l)
      BY <1>4, <1>5, <2>3 DEF IsAck
    <3>2. SameHost(host[q], host'[q], l) \/ ~Listens(host'[q], l)
      BY <1>3, <2>3 DEF SameHost, Listens
    <3> QED BY <1>7, <2>1, <3>1, <3>2, FlowsRest
  <2> QED BY <2>2, <2>3
<1> QED
  BY <1>6, <1>7, RestFlows

\* CNXN, and what the device must survive, keep the data flowing.
LEMMA HostOtherFlows ==
  ASSUME Inv, Agree, Flowing, Resting, HostConnect \/ HostNoise
  PROVE  Flowing'
<1>0. host' = host
  BY DEF HostConnect, HostNoise
<1>1. HostsFresh'
  BY <1>0 DEF Flowing, HostsFresh
<1>2. \A a, b, p : Message("CNXN", a, b, p).cmd # "OKAY" /\ Message("OPEN", a, b, p).cmd # "OKAY"
                     /\ Message("STLS", a, b, p).cmd # "OKAY"
  BY DEF Message
<1>3. PICK m, hok, pok : m.cmd # "OKAY" /\ bulk_out' = bulk_out \o Transfers(m, hok, pok)
  BY <1>2 DEF HostConnect, HostNoise, HostSend
<1> QED
  BY <1>0, <1>1, <1>3, HostSendFlows

-----------------------------------------------------------------------------
(* Together.                                                                *)

\* Nothing that the flow of data depends on changes.
LEMMA SameFlows ==
  ASSUME Flowing, UNCHANGED <<streams, next_id, pending_header, buffers, sq, order>>,
         UNCHANGED <<kern, bulk_in, cq, batch, bulk_out_buf>>, UNCHANGED <<host, bulk_out>>
  PROVE  Flowing'
<1>1. Resting /\ HostsFresh'
  BY DEF Resting, Flowing, HostsFresh
<1>2. ASSUME NEW l, Flows(l)
      PROVE  Flows(l)'
  <2>1. SameHost(host[streams[l].remote_id], host'[streams[l].remote_id], l)
    BY DEF SameHost
  <2>2. \A k \in 1..Len(bulk_out') : IsAck(bulk_out'[k], l) =>
          k \in 1..Len(bulk_out) /\ IsAck(bulk_out[k], l)
    OBVIOUS
  <2> QED BY <1>1, <1>2, <2>1, <2>2, FlowsRest
<1> QED
  BY <1>1, <1>2, RestFlows

\* At the start no data flows.
LEMMA InitFlows ==
  ASSUME Init
  PROVE  FlowInv
<1>1. /\ streams = NoStreams /\ DOMAIN streams = {} /\ order = << >> /\ bulk_in = << >>
      /\ buffers = NoBuffers /\ pending_header = << >>
      /\ sq = {Ep0Poll, ReadHeader} /\ kern = {} /\ cq = {} /\ batch = {}
      /\ host = [r \in Remotes |-> NewHost]
  BY DEF Init, InitDev, InitKern, InitHost, NoStreams
<1>2. Queued(order, sq) /\ Queued(bulk_in, kern) /\ PayloadsDue
  BY <1>1 DEF Queued, PayloadsDue
<1>3. WrtesKnown
  BY <1>1 DEF WrtesKnown, NoBuffers, NoMsg
<1>4. Ep0Poll.op = "Ep0Poll" /\ ReadHeader.op = "BulkOutReadHeader"
  BY PollIsPoll, HeadersDiffer
<1>5. ReadsKnown
  BY <1>1, <1>4 DEF ReadsKnown, AllReads, Reads
<1>6. HostsFresh
  BY <1>1 DEF HostsFresh, NewHost
<1>7. StreamsFlow
  BY <1>1 DEF StreamsFlow
<1> QED
  BY <1>2, <1>3, <1>5, <1>6, <1>7 DEF FlowInv, Flowing

\* The device keeps the data flowing.
LEMMA DeviceFlows ==
  ASSUME Inv, Agree, FlowInv, Device
  PROVE  FlowInv'
<1> SUFFICES ASSUME daemon' = "running"
             PROVE  Flowing'
  BY DEF FlowInv
<1>1. daemon = "running"
  BY DEF Device, Submit, Reap, ReadEnd, ReadData, WriteDone, OpFailed, Take, Ep0Event,
         BulkOutReadHeader, BulkOutReadPayload
<1>2. Flowing
  BY <1>1 DEF FlowInv
<1>3. ASSUME NEW c \in batch, OpFailed(c)
      PROVE  FALSE
  BY <1>3 DEF OpFailed
<1> QED
  BY <1>2, <1>3, SubmitFlows, ReapFlows, ReadEndFlows, ReadDataFlows, WriteDoneFlows,
     Ep0EventFlows, BulkOutReadHeaderFlows, BulkOutReadPayloadFlows DEF Device

\* The kernel keeps the data flowing.
LEMMA KernelFlows ==
  ASSUME Inv, Inv', Agree, FlowInv, Kernel
  PROVE  FlowInv'
<1>1. daemon = "running" /\ Flowing
  BY DEF Kernel, FlowInv
<1>2. ASSUME NEW o \in kern, KernelBulkOutFail(o)
      PROVE  Flowing'
  <2>1. /\ o.op \notin {"BulkInWrite", "PtyRead", "SocketRead"}
        /\ kern' = kern \ {o} /\ cq' = cq \cup {Cqe(o, "err")}
        /\ UNCHANGED <<streams, next_id, pending_header, host, bulk_out, bulk_out_buf>>
        /\ UNCHANGED <<buffers, sq, order, bulk_in, batch>>
    BY <1>2 DEF KernelBulkOutFail, BulkOuts, devVars, ioVars, hostVars
  <2> QED BY <1>1, <2>1, OtherCompletionFlows
<1>3. ASSUME KernelEp0
      PROVE  Flowing'
  <2>1. /\ Ep0Poll \in kern /\ Ep0Poll.op = "Ep0Poll"
        /\ kern' = kern \ {Ep0Poll} /\ cq' = cq \cup {Cqe(Ep0Poll, "ok")}
        /\ UNCHANGED <<streams, next_id, pending_header, host, bulk_out, bulk_out_buf>>
        /\ UNCHANGED <<buffers, sq, order, bulk_in, batch>>
    BY <1>3, PollIsPoll DEF KernelEp0, devVars, ioVars, hostVars
  <2> QED BY <1>1, <2>1, OtherCompletionFlows
<1>4. ASSUME UsbEvent
      PROVE  Flowing'
  <2>1. /\ UNCHANGED <<streams, next_id, pending_header, buffers, sq, order>>
        /\ UNCHANGED <<kern, bulk_in, cq, batch, bulk_out_buf>> /\ UNCHANGED <<host, bulk_out>>
    BY <1>4 DEF UsbEvent, devVars, ioVars, hostVars
  <2> QED BY <1>1, <2>1, SameFlows
<1>5. Flowing'
  BY <1>1, <1>2, <1>3, <1>4, KernelWriteFlows, KernelWriteFailFlows, KernelBulkOutFlows,
     KernelReadFlows DEF Kernel, Transfer
<1> QED
  BY <1>5 DEF FlowInv

\* The host keeps the data flowing.
LEMMA HostFlows ==
  ASSUME ~Restarts, Inv, Agree, FlowInv, Host
  PROVE  FlowInv'
<1>1. Flowing /\ Resting
  BY DEF Host, HostStep, FlowInv, Resting, devVars, ioVars, kernVars
<1>2. \/ HostConnect \/ HostNoise
      \/ \E r \in Remotes : \/ \E svc \in Services : HostOpen(r, svc)
                            \/ HostWrite(r) \/ HostAck(r) \/ HostClose(r)
  BY DEF Host, HostStep, HostRestart
<1>3. Flowing'
  BY <1>1, <1>2, HostOtherFlows, HostOpenFlows, HostWriteFlows, HostAckFlows
<1> QED
  BY <1>3 DEF FlowInv

\* The inductive invariant of the flow of data.
THEOREM DataFlow ==
  ASSUME ~Restarts
  PROVE  Spec => [](Inv /\ Agree /\ FlowInv)
<1>1. Init => Inv /\ Agree /\ FlowInv
  BY InitInv, InitAgrees, InitFlows
<1>2. Inv /\ Agree /\ FlowInv /\ [Next]_vars => (Inv /\ Agree /\ FlowInv)'
  <2>1. ASSUME Inv, Agree, FlowInv, Next
        PROVE  Inv' /\ Agree' /\ FlowInv'
    <3>1. Inv' /\ Agree'
      BY <2>1, NextInv, NextAgrees
    <3> QED BY <2>1, <3>1, DeviceFlows, KernelFlows, HostFlows DEF Next
  <2>2. ASSUME Inv, Agree, FlowInv, UNCHANGED vars
        PROVE  Inv' /\ Agree' /\ FlowInv'
    <3>1. /\ UNCHANGED <<streams, next_id, pending_header, buffers, sq, order>>
          /\ UNCHANGED <<kern, bulk_in, cq, batch, bulk_out_buf>>
          /\ UNCHANGED <<host, bulk_out>> /\ daemon' = daemon
      BY <2>2 DEF vars, devVars, ioVars, kernVars, hostVars
    <3>2. Inv' /\ Agree'
      BY <2>2, <3>1, StutterInv, AgreeSame DEF Agree, AssertionsHold
    <3>3. FlowInv'
      BY <2>2, <3>1, SameFlows DEF FlowInv
    <3> QED BY <3>2, <3>3
  <2> QED BY <2>1, <2>2
<1> QED
  BY <1>1, <1>2, PTL DEF Spec

\* What Driven says of the streams that are read.
ReadsDriven ==
  daemon = "running" =>
    \A l \in DOMAIN streams : streams[l].service \in {"shell", "forward"} => OneRead(l)

\* For any number of streams and slots, in any order of completions and whatever
\* else the host asks for: while the daemon runs, a shell or forward stream has
\* exactly one PtyRead or SocketRead on its way through the ring if it may send,
\* and none while it waits for an OKAY, so it neither stalls nor reads twice into
\* its one read_buf.
THEOREM OneReadAtATime ==
  ASSUME ~Restarts
  PROVE  Spec => []ReadsDriven
<1>1. FlowInv => ReadsDriven
  BY DEF FlowInv, Flowing, StreamsFlow, Flows, ReadsDriven
<1> QED
  BY <1>1, DataFlow, PTL

\* For any number of streams and slots and in any order of completions: while the
\* daemon runs, a shell or forward stream has exactly one PtyRead or SocketRead on
\* its way through the ring if it may send, and none while it waits for an OKAY, so
\* it neither stalls nor reads twice into its one read_buf; and a sync stream waits
\* for an OKAY exactly while it sends a file.  The host is not started anew, and
\* does not mix pushes in pieces with pulls.
THEOREM StreamsAreDriven ==
  ASSUME ~Restarts, NoMix
  PROVE  Spec => []Driven
<1>1. FlowInv => Driven
  <2> SUFFICES ASSUME Flowing, NEW l \in DOMAIN streams
               PROVE  LET s == streams[l]
                          ReadsIn(S) == OnData(Reads(S), l)
                      IN CASE s.service \in {"shell", "forward"} ->
                                IF s.waiting_for_okay
                                THEN ReadsIn(sq) \cup ReadsIn(kern) \cup ReadsIn(cq)
                                       \cup ReadsIn(batch) = {}
                                ELSE ExactlyOne(ReadsIn(sq), ReadsIn(kern), ReadsIn(cq),
                                                ReadsIn(batch))
                           [] s.service = "sync" ->
                                s.sync \in {"Sending", "Sent"} <=> s.waiting_for_okay
                           [] OTHER -> ~s.waiting_for_okay
    BY DEF FlowInv, Driven
  <2>1. CASE streams[l].service \in {"shell", "forward"}
    <3>1. OneRead(l)
      BY <2>1 DEF Flowing, StreamsFlow, Flows
    <3> QED BY <2>1, <3>1, ReadsSplit DEF OneRead
  <2>2. CASE streams[l].service \notin {"shell", "forward"}
    BY <2>2 DEF Flowing, StreamsFlow, SyncDriven, SyncWaits
  <2> QED BY <2>1, <2>2
<1> QED
  BY <1>1, DataFlow, PTL
=============================================================================
