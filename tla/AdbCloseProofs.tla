--------------------------- MODULE AdbCloseProofs ---------------------------
(***************************************************************************)
(* Theorems about the end of a stream of AdbConnection, and about what the *)
(* host makes of the device's messages: a stream that one side has closed  *)
(* is not forgotten by the other, and no message finds the host in a state *)
(* that has no place for it.                                               *)
(***************************************************************************)
EXTENDS AdbConnectionProofs

-----------------------------------------------------------------------------
(* What is on its way.                                                      *)

\* The slots of the transfers to the host.
Out == {o.data : o \in Writes(sq) \cup Writes(kern)}

\* A bulk-out read has delivered a transfer that is not looked at yet.
Done == \E c \in BulkOuts(cq) \cup BulkOuts(batch) : c.res = "ok"

\* The transfers to the device, in the order it looks at them.
Line == IF Done THEN <<bulk_out_buf[1]>> \o bulk_out ELSE bulk_out

\* m is a message the device has not handled; its header is the i-th transfer
\* of Line, or (0) the header that waits for its payload.
Due(i, m) ==
  \/ i = 0 /\ pending_header # << >> /\ pending_header[1] = m
  \/ i \in 1..Len(Line) /\ Line[i].part = "header" /\ Line[i].ok /\ Line[i].msg = m

\* Stream l of the device is the host's stream r.
Has(r, l) == l \in DOMAIN streams /\ streams[l].remote_id = r

\* l is what the device or the host calls, or is about to call, the device's
\* end of the host's stream r.
Names(r, l) == \/ Has(r, l)
               \/ \E s \in Out : buffers[s].arg1 = r /\ buffers[s].arg0 = l
               \/ l # 0 /\ host[r].local = l

\* A message of kind cmd to the host's stream r is on its way in slot s.
Tells(s, r, cmd) == s \in Out /\ buffers[s].arg1 = r /\ buffers[s].cmd = cmd

\* A message of kind cmd from the host's stream r is due at place i.
Asks(i, r, cmd) == \E m \in HostMsgs : Due(i, m) /\ m.arg0 = r /\ m.cmd = cmd

-----------------------------------------------------------------------------
(* The inductive invariant.                                                 *)

\* The payload of a header is the transfer after it: the device never takes
\* the one for the other.
Framed ==
  /\ \A i \in 1..Len(Line) : Line[i].part = "header" /\ Line[i].msg.payload # "none" =>
       i + 1 \in 1..Len(Line) /\ Line[i + 1].part = "payload"
  /\ pending_header # << >> => 1 \in 1..Len(Line) /\ Line[1].part = "payload"

\* The host talks only on streams it knows the device's end of.
TalkKnown ==
  \A i \in Nat, m \in HostMsgs : Due(i, m) /\ m.cmd \in {"OKAY", "WRTE", "CLSE"} =>
    /\ m.arg0 \in Remotes /\ host[m.arg0].st \in {"open", "closing", "closed"}
    /\ m.arg1 = host[m.arg0].local /\ m.arg1 # 0
    /\ m.cmd = "CLSE" => m.payload = "none"

\* Both sides mean the same stream: there is one end on the device for r,
\* and none before its OPEN is handled.
OneEnd(r) ==
  /\ \A l, k \in Nat : Names(r, l) /\ Names(r, k) => l = k
  /\ host[r].st \in {"idle", "opening"} => host[r].local = 0 /\ ~host[r].unacked
  /\ host[r].st \in {"open", "closing"} => host[r].local # 0
  /\ host[r].st = "idle" => \A l \in Nat : ~Names(r, l)
  /\ \A i \in Nat : Asks(i, r, "OPEN") =>
       host[r].st = "opening" /\ \A l \in Nat : ~Names(r, l)
  /\ \A i, k \in Nat : Asks(i, r, "OPEN") /\ Asks(k, r, "OPEN") => i = k
  /\ \A s \in Slots : Tells(s, r, "OKAY") => buffers[s].arg0 # 0

\* A CLSE follows the close of the stream, and there is one.
OneClose(r) ==
  /\ \A s \in Slots, l \in Nat : Tells(s, r, "CLSE") => ~Has(r, l)
  /\ \A s, t \in Slots : Tells(s, r, "CLSE") /\ Tells(t, r, "CLSE") => s = t
  /\ host[r].st = "closing" =>
       /\ \A l \in Nat : ~Has(r, l)
       /\ \A s \in Slots : ~Tells(s, r, "CLSE")

\* An OKAY follows the WRTE it is for, and there is one.
OneOkay(r) ==
  /\ \A s, t \in Slots : Tells(s, r, "OKAY") /\ Tells(t, r, "OKAY") => s = t
  /\ \A i \in Nat : Asks(i, r, "WRTE") =>
       host[r].unacked /\ \A s \in Slots : ~Tells(s, r, "OKAY")
  /\ \A i, k \in Nat : Asks(i, r, "WRTE") /\ Asks(k, r, "WRTE") => i = k
  /\ \A s \in Slots : host[r].st = "open" /\ Tells(s, r, "OKAY") => host[r].unacked

\* The host's CLSE is due until the device has handled it.
Heeded(r) ==
  \A l \in Nat : Has(r, l) /\ host[r].st = "closed" =>
    \/ streams[l].remote_closed
    \/ \E i \in Nat, m \in HostMsgs : /\ Due(i, m) /\ m.cmd = "CLSE"
                                      /\ m.arg0 = r /\ m.arg1 = host[r].local

\* A linked payload waits for the header of its message.
Linked(S) ==
  \A o \in Writes(S) : o.after # 0 =>
    \E p \in Writes(S) : /\ p.data = o.after /\ p.after = 0
                         /\ buffers[p.data] = buffers[o.data] /\ buffers[o.data].payload # 0

\* Nothing has been lost on the way to the host.
Calm == ~wire.torn /\ usb /\ faults = 0

\* The device's CLSE is on its way until the host has it.
Answers(r) ==
  Calm =>
    /\ host[r].st = "open" /\ host[r].local \notin DOMAIN streams =>
         \E s \in Out : buffers[s] = Clse(host[r].local, r)
    /\ host[r].st = "opening" =>
         \A s \in Slots : Tells(s, r, "OKAY") /\ buffers[s].arg0 \notin DOMAIN streams =>
           \E t \in Out : buffers[t] = Clse(buffers[s].arg0, r)

\* Streams are opened once the link is up.
Online == \A r \in Remotes : host[r].st # "idle" => link = "online"

Ends(r) == OneEnd(r) /\ OneClose(r) /\ OneOkay(r) /\ Heeded(r) /\ Answers(r)

Closing == /\ Framed /\ TalkKnown /\ Online
           /\ Linked(sq) /\ Linked(kern)
           /\ \A r \in Remotes : Ends(r)

CloseInv == daemon = "running" => Closing

-----------------------------------------------------------------------------
(* What pushing messages does to the queue and to the slots, if the loop    *)
(* goes on after it: every message gets an unlinked write, in order, and at *)
(* most a payload linked to that.                                           *)

Pushed(io, j) == Writes(j.sq) \ io.sq

\* The slots of the writes in the queue are in use.
Owned(io) == \A o \in Writes(io.sq) : o.data \in Used(io.buffers)

\* From io to j the messages of M are handed to the ring, and nothing else.
Puts(io, j, M) ==
  /\ j \in IoType
  /\ j.daemon = "running" => io.daemon = "running"
  /\ j.daemon = "running" /\ Owned(io) =>
       /\ Owned(j) /\ io.sq \subseteq j.sq
       /\ \A s \in Used(io.buffers) : j.buffers[s] = io.buffers[s]
       /\ \A o \in Pushed(io, j) : /\ o.data \in Used(j.buffers) \ Used(io.buffers)
                                   /\ j.buffers[o.data] \in M
       /\ \A m \in M : \E o \in Pushed(io, j) : o.after = 0 /\ j.buffers[o.data] = m
       /\ \A o, p \in Pushed(io, j) : o # p /\ j.buffers[o.data] = j.buffers[p.data] =>
            o.after = p.data \/ p.after = o.data
       /\ \A o \in Pushed(io, j) : o.after # 0 =>
            \E p \in Pushed(io, j) :
              /\ p.data = o.after /\ p.after = 0
              /\ j.buffers[p.data] = j.buffers[o.data] /\ j.buffers[o.data].payload # 0
       /\ Len(io.order) <= Len(j.order)
       /\ \A i \in 1..Len(io.order) : j.order[i] = io.order[i]
       /\ \A i \in 1..Len(j.order) : i > Len(io.order) =>
            \E o \in Pushed(io, j) : o.after = 0 /\ o.data = j.order[i]
       /\ \A o \in Pushed(io, j) : o.after = 0 =>
            \E i \in 1..Len(j.order) : i > Len(io.order) /\ j.order[i] = o.data

\* Nothing is handed over.
LEMMA PutsNothing ==
  ASSUME NEW io \in IoType
  PROVE  Puts(io, io, {})
<1>1. Pushed(io, io) = {} /\ Len(io.order) \in Nat
  BY DEF Pushed, Writes, IoType
<1>2. Len(io.order) <= Len(io.order) /\ \A i \in 1..Len(io.order) : ~(i > Len(io.order))
  BY <1>1
<1> QED
  BY <1>1, <1>2, Zenon DEF Puts

\* After a panic nothing matters.
LEMMA PutsPanic ==
  ASSUME NEW io \in IoType, NEW why \in Daemons \ {"running"}
  PROVE  Puts(io, Panic(io, why), {})
<1>1. CASE io.daemon = "running"
  <2>1. [io EXCEPT !.daemon = why] \in IoType /\ [io EXCEPT !.daemon = why].daemon = why
    BY DEF IoType
  <2> QED BY <1>1, <2>1 DEF Panic, Puts
<1>2. CASE io.daemon # "running"
  BY <1>2, PutsNothing DEF Panic
<1> QED
  BY <1>1, <1>2

\* An entry that is not a write.
LEMMA PutsPush ==
  ASSUME NEW io \in IoType, NEW o \in Ops, o.op # "BulkInWrite"
  PROVE  Puts(io, Push(io, o), {})
<1> DEFINE j == [io EXCEPT !.sq = io.sq \cup {o}]
<1>1. j \in IoType /\ j.sq = io.sq \cup {o} /\ j.buffers = io.buffers
        /\ j.order = io.order /\ j.daemon = io.daemon
  BY DEF IoType
<1> HIDE DEF j
<1>2. Pushed(io, j) = {} /\ Len(io.order) \in Nat
  BY <1>1 DEF Pushed, Writes, IoType
<1>3. Puts(io, j, {})
  <2>1. Writes(j.sq) = Writes(io.sq)
    BY <1>1 DEF Writes
  <2>2. Len(io.order) <= Len(io.order) /\ \A i \in 1..Len(io.order) : ~(i > Len(io.order))
    BY <1>2
  <2> QED BY <1>1, <1>2, <2>1, <2>2 DEF Puts, Owned
<1>4. "SQ full" \in Daemons \ {"running"}
  BY DEF Daemons, Panics
<1>5. Push(io, o) \in {j, Panic(io, "SQ full")}
  BY DEF Push, j
<1> QED
  BY <1>3, <1>4, <1>5, PutsPanic

\* A transfer takes the first free slot; if it waits for none it is queued.
LEMMA PartIs ==
  ASSUME NEW io \in IoType, NEW m \in DevMsgs, NEW after \in {0} \cup Slots
  PROVE  LET j == SubmitPart(io, m, after)
             s == FirstFree(io.buffers)
         IN /\ j \in IoType
            /\ j.daemon = "running" =>
                 /\ io.daemon = "running" /\ s \in Slots \ Used(io.buffers)
                 /\ j.sq = io.sq \cup {Op("BulkInWrite", s, after)}
                 /\ j.buffers = [io.buffers EXCEPT ![s] = m]
                 /\ j.order = IF after = 0 THEN Append(io.order, s) ELSE io.order
<1> DEFINE s == FirstFree(io.buffers)
           o == Op("BulkInWrite", s, after)
           io1 == [io EXCEPT !.buffers = Alloc(@, s, m),
                             !.order = IF after = 0 THEN Append(@, s) ELSE @]
<1>0. \A x \in IoType, why \in Daemons \ {"running"} :
        Panic(x, why) \in IoType /\ Panic(x, why).daemon # "running"
  <2> SUFFICES ASSUME NEW x \in IoType, NEW why \in Daemons \ {"running"}
               PROVE  Panic(x, why) \in IoType /\ Panic(x, why).daemon # "running"
    OBVIOUS
  <2>1. [x EXCEPT !.daemon = why] \in IoType /\ [x EXCEPT !.daemon = why].daemon = why
    BY DEF IoType
  <2> QED BY <2>1 DEF Panic
<1>1. "all write slots in use" \in Daemons \ {"running"} /\ "SQ full" \in Daemons \ {"running"}
  BY DEF Daemons, Panics
<1>2. CASE ~HasFree(io.buffers)
  <2>2. SubmitPart(io, m, after) = Panic(io, "all write slots in use")
    BY <1>2 DEF SubmitPart
  <2> QED BY <1>0, <1>1, <2>2
<1>3. CASE HasFree(io.buffers)
  <2>1. s \in Slots \ Used(io.buffers)
    BY <1>3, FirstFreeIsFree
  <2>3. SubmitPart(io, m, after) = Push(io1, o)
    BY <1>3, Zenon DEF SubmitPart
  <2> HIDE DEF s
  <2>4. o \in Ops /\ o.op = "BulkInWrite" /\ o.data = s /\ o.after = after
    BY <2>1 DEF Op, Ops
  <2>5. /\ io1 \in IoType /\ io1.sq = io.sq /\ io1.daemon = io.daemon
        /\ io1.buffers = [io.buffers EXCEPT ![s] = m]
        /\ io1.order = IF after = 0 THEN Append(io.order, s) ELSE io.order
    <3> DEFINE q == IF after = 0 THEN Append(io.order, s) ELSE io.order
               b == [io.buffers EXCEPT ![s] = m]
    <3>1. q \in Seq(Slots)
      BY <2>1 DEF IoType
    <3>2. b \in [Slots -> DevMsgs]
      BY <2>1 DEF IoType
    <3>3. io1 = [io EXCEPT !.buffers = b, !.order = q]
      BY DEF Alloc
    <3> HIDE DEF q, b, io1
    <3>4. io1 \in IoType /\ io1.sq = io.sq /\ io1.daemon = io.daemon
            /\ io1.buffers = b /\ io1.order = q
      BY <3>1, <3>2, <3>3 DEF IoType
    <3> QED BY <3>4 DEF q, b
  <2> HIDE DEF o, io1
  <2> DEFINE j == [io1 EXCEPT !.sq = io1.sq \cup {o}]
  <2>6. /\ j \in IoType /\ j.sq = io.sq \cup {o} /\ j.daemon = io.daemon
        /\ j.buffers = io1.buffers /\ j.order = io1.order
    BY <2>4, <2>5 DEF IoType
  <2>7. Push(io1, o) \in {j, Panic(io1, "SQ full")}
    BY DEF Push, j
  <2> HIDE DEF j
  <2>8. CASE SubmitPart(io, m, after) = j
    BY <2>1, <2>5, <2>6, <2>8 DEF s, o
  <2>9. CASE SubmitPart(io, m, after) = Panic(io1, "SQ full")
    BY <1>0, <1>1, <2>5, <2>9
  <2> QED BY <2>3, <2>7, <2>8, <2>9
<1> QED
  BY <1>2, <1>3

\* A message takes one slot, or two of which the second waits for the first.
LEMMA MessageIs ==
  ASSUME NEW io \in IoType, NEW m \in DevMsgs, m.cmd # "none"
  PROVE  LET j == SubmitMessage(io, m)
         IN /\ j \in IoType
            /\ j.daemon = "running" =>
                 /\ io.daemon = "running"
                 /\ \E s \in Slots \ Used(io.buffers) :
                      /\ j.order = Append(io.order, s)
                      /\ \/ /\ j.sq = io.sq \cup {Op("BulkInWrite", s, 0)}
                            /\ j.buffers = [io.buffers EXCEPT ![s] = m]
                         \/ \E t \in Slots \ Used(io.buffers) :
                              /\ t # s /\ m.payload # 0
                              /\ j.sq = io.sq \cup {Op("BulkInWrite", s, 0)}
                                               \cup {Op("BulkInWrite", t, s)}
                              /\ j.buffers = [[io.buffers EXCEPT ![s] = m] EXCEPT ![t] = m]
<1> DEFINE f == FirstFree(io.buffers)
           i == SubmitPart(io, m, 0)
           t == FirstFree(i.buffers)
           j == SubmitPart(i, m, f)
<1>1. /\ i \in IoType
      /\ i.daemon = "running" =>
           /\ io.daemon = "running" /\ f \in Slots \ Used(io.buffers)
           /\ i.sq = io.sq \cup {Op("BulkInWrite", f, 0)}
           /\ i.buffers = [io.buffers EXCEPT ![f] = m]
           /\ i.order = Append(io.order, f)
  BY PartIs
<1>2. CASE m.payload = 0 \/ ~HasFree(io.buffers)
  <2>1. SubmitMessage(io, m) = i
    BY <1>2 DEF SubmitMessage
  <2> HIDE DEF i, f
  <2> QED BY <1>1, <2>1
<1>3. CASE m.payload # 0 /\ HasFree(io.buffers)
  <2>1. SubmitMessage(io, m) = j
    BY <1>3 DEF SubmitMessage
  <2>2. f \in Slots /\ f # 0
    BY <1>3, FirstFreeIsFree, MaxSlotsAssumption DEF Slots
  <2> HIDE DEF i, f
  <2>3. /\ j \in IoType
        /\ j.daemon = "running" =>
             /\ i.daemon = "running" /\ t \in Slots \ Used(i.buffers)
             /\ j.sq = i.sq \cup {Op("BulkInWrite", t, f)}
             /\ j.buffers = [i.buffers EXCEPT ![t] = m]
             /\ j.order = i.order
    <3>1. /\ j \in IoType
          /\ j.daemon = "running" =>
               /\ i.daemon = "running" /\ t \in Slots \ Used(i.buffers)
               /\ j.sq = i.sq \cup {Op("BulkInWrite", t, f)}
               /\ j.buffers = [i.buffers EXCEPT ![t] = m]
               /\ j.order = IF f = 0 THEN Append(i.order, t) ELSE i.order
      BY <1>1, <2>2, PartIs
    <3> HIDE DEF j, t
    <3> QED BY <2>2, <3>1
  <2> HIDE DEF j, t
  <2>4. ASSUME j.daemon = "running"
        PROVE  t \in Slots \ Used(io.buffers) /\ t # f
    <3>1. i.buffers = [io.buffers EXCEPT ![f] = m] /\ io.buffers \in [Slots -> DevMsgs]
      BY <1>1, <2>3, <2>4 DEF IoType
    <3>2. i.buffers[f] = m /\ \A x \in Slots : x # f => i.buffers[x] = io.buffers[x]
      BY <2>2, <3>1
    <3>3. t \in Slots /\ t \notin Used(i.buffers)
      BY <2>3, <2>4
    <3> QED BY <2>2, <3>2, <3>3 DEF Used
  <2>5. ASSUME j.daemon = "running"
        PROVE  /\ io.daemon = "running" /\ f \in Slots \ Used(io.buffers)
               /\ j.order = Append(io.order, f) /\ m.payload # 0
               /\ j.sq = io.sq \cup {Op("BulkInWrite", f, 0)} \cup {Op("BulkInWrite", t, f)}
               /\ j.buffers = [[io.buffers EXCEPT ![f] = m] EXCEPT ![t] = m]
    BY <1>1, <1>3, <2>3, <2>5, Zenon
  <2> QED BY <2>1, <2>3, <2>4, <2>5, Zenon
<1> QED
  BY <1>2, <1>3

\* A message that is handed over.
LEMMA PutsMessage ==
  ASSUME NEW io \in IoType, NEW m \in DevMsgs, m.cmd # "none"
  PROVE  Puts(io, SubmitMessage(io, m), {m})
<1> DEFINE j == SubmitMessage(io, m)
<1>1. /\ j \in IoType
      /\ j.daemon = "running" =>
           /\ io.daemon = "running"
           /\ \E s \in Slots \ Used(io.buffers) :
                /\ j.order = Append(io.order, s)
                /\ \/ /\ j.sq = io.sq \cup {Op("BulkInWrite", s, 0)}
                      /\ j.buffers = [io.buffers EXCEPT ![s] = m]
                   \/ \E t \in Slots \ Used(io.buffers) :
                        /\ t # s /\ m.payload # 0
                        /\ j.sq = io.sq \cup {Op("BulkInWrite", s, 0)}
                                         \cup {Op("BulkInWrite", t, s)}
                        /\ j.buffers = [[io.buffers EXCEPT ![s] = m] EXCEPT ![t] = m]
  BY MessageIs
<1> HIDE DEF j
<1> SUFFICES ASSUME j.daemon = "running", Owned(io)
             PROVE  Puts(io, j, {m})
  BY <1>1 DEF Puts, j
<1>2. PICK s \in Slots \ Used(io.buffers) :
                /\ j.order = Append(io.order, s)
                /\ \/ /\ j.sq = io.sq \cup {Op("BulkInWrite", s, 0)}
                      /\ j.buffers = [io.buffers EXCEPT ![s] = m]
                   \/ \E t \in Slots \ Used(io.buffers) :
                        /\ t # s /\ m.payload # 0
                        /\ j.sq = io.sq \cup {Op("BulkInWrite", s, 0)}
                                         \cup {Op("BulkInWrite", t, s)}
                        /\ j.buffers = [[io.buffers EXCEPT ![s] = m] EXCEPT ![t] = m]
  BY <1>1
<1> DEFINE o == Op("BulkInWrite", s, 0)
<1>3. /\ o.op = "BulkInWrite" /\ o.data = s /\ o.after = 0
      /\ o \notin io.sq
  BY <1>2 DEF Op, Owned, Writes
<1>4. /\ Len(j.order) = Len(io.order) + 1 /\ Len(io.order) \in Nat
      /\ \A i \in 1..Len(io.order) : j.order[i] = io.order[i]
      /\ j.order[Len(io.order) + 1] = s
  BY <1>2, AppendProperties DEF IoType
<1>5. /\ Len(io.order) <= Len(j.order)
      /\ \A i \in 1..Len(j.order) : i > Len(io.order) => j.order[i] = s
      /\ Len(io.order) + 1 \in 1..Len(j.order) /\ Len(io.order) + 1 > Len(io.order)
  BY <1>4
<1>6. io.buffers \in [Slots -> DevMsgs] /\ s # 0
  BY MaxSlotsAssumption DEF IoType, Slots
<1>7. CASE /\ j.sq = io.sq \cup {o}
           /\ j.buffers = [io.buffers EXCEPT ![s] = m]
  <2> HIDE DEF o
  <2>1. Pushed(io, j) = {o} /\ Writes(j.sq) = Writes(io.sq) \cup {o}
    BY <1>3, <1>7 DEF Pushed, Writes
  <2>2. j.buffers[s] = m /\ \A t \in Slots : t # s => j.buffers[t] = io.buffers[t]
    BY <1>6, <1>7
  <2>3. s \in Used(j.buffers) /\ Used(io.buffers) \subseteq Used(j.buffers)
    BY <2>2 DEF Used
  <2>4. Owned(j) /\ io.sq \subseteq j.sq
    BY <1>3, <1>7, <2>1, <2>3 DEF Owned
  <2>5. \A t \in Used(io.buffers) : j.buffers[t] = io.buffers[t]
    BY <2>2 DEF Used
  <2> QED BY <1>1, <1>3, <1>4, <1>5, <2>1, <2>2, <2>3, <2>4, <2>5 DEF Puts
<1>8. ASSUME NEW t \in Slots \ Used(io.buffers), t # s, m.payload # 0,
             j.sq = io.sq \cup {o} \cup {Op("BulkInWrite", t, s)},
             j.buffers = [[io.buffers EXCEPT ![s] = m] EXCEPT ![t] = m]
      PROVE  Puts(io, j, {m})
  <2> DEFINE p == Op("BulkInWrite", t, s)
  <2>0. /\ p.op = "BulkInWrite" /\ p.data = t /\ p.after = s
        /\ p \notin io.sq
    BY <1>8 DEF Op, Owned, Writes
  <2>00. j.sq = io.sq \cup {o} \cup {p}
    BY <1>8
  <2> HIDE DEF o, p
  <2>1. Pushed(io, j) = {o, p} /\ Writes(j.sq) = Writes(io.sq) \cup {o, p}
    BY <1>3, <2>0, <2>00 DEF Pushed, Writes
  <2>2. /\ j.buffers[s] = m /\ j.buffers[t] = m
        /\ \A x \in Slots : x # s /\ x # t => j.buffers[x] = io.buffers[x]
    BY <1>6, <1>8
  <2>3. s \in Used(j.buffers) /\ t \in Used(j.buffers) /\ Used(io.buffers) \subseteq Used(j.buffers)
    BY <2>2 DEF Used
  <2>4. Owned(j) /\ io.sq \subseteq j.sq
    BY <1>3, <2>0, <2>00, <2>1, <2>3 DEF Owned
  <2>5. \A x \in Used(io.buffers) : j.buffers[x] = io.buffers[x]
    BY <2>2 DEF Used
  <2> QED BY <1>1, <1>3, <1>4, <1>5, <1>6, <1>8, <2>0, <2>1, <2>2, <2>3, <2>4, <2>5 DEF Puts
<1> QED
  BY <1>2, <1>7, <1>8 DEF j

\* One after the other.
LEMMA PutsMore ==
  ASSUME NEW io \in IoType, NEW j, NEW k, NEW M, NEW N,
         Puts(io, j, M), Puts(j, k, N), M \cap N = {}
  PROVE  Puts(io, k, M \cup N)
<1>1. k \in IoType /\ j \in IoType /\ (k.daemon = "running" => io.daemon = "running")
  BY DEF Puts
<1> SUFFICES ASSUME k.daemon = "running", Owned(io)
             PROVE  Puts(io, k, M \cup N)
  BY <1>1 DEF Puts
<1>2. j.daemon = "running" /\ Owned(j) /\ Owned(k) /\ io.sq \subseteq j.sq /\ j.sq \subseteq k.sq
  BY DEF Puts
<1>3. Pushed(io, k) = Pushed(io, j) \cup Pushed(j, k)
  BY <1>2 DEF Pushed, Writes
<1>4. /\ \A s \in Used(io.buffers) : s \in Used(j.buffers) /\ j.buffers[s] = io.buffers[s]
      /\ \A s \in Used(j.buffers) : s \in Used(k.buffers) /\ k.buffers[s] = j.buffers[s]
  BY <1>2 DEF Puts, Used
<1>5. /\ \A o \in Pushed(io, j) : /\ o.data \in Used(j.buffers) \ Used(io.buffers)
                                  /\ j.buffers[o.data] \in M /\ k.buffers[o.data] = j.buffers[o.data]
      /\ \A o \in Pushed(j, k) : /\ o.data \in Used(k.buffers) \ Used(j.buffers)
                                 /\ k.buffers[o.data] \in N
  BY <1>2, <1>4 DEF Puts
<1>6. \A m \in M \cup N : \E o \in Pushed(io, k) : o.after = 0 /\ k.buffers[o.data] = m
  BY <1>2, <1>3, <1>5 DEF Puts
<1>7. ASSUME NEW o \in Pushed(io, k), NEW p \in Pushed(io, k), o # p,
             k.buffers[o.data] = k.buffers[p.data]
      PROVE  o.after = p.data \/ p.after = o.data
  <2>1. \/ o \in Pushed(io, j) /\ p \in Pushed(io, j)
        \/ o \in Pushed(j, k) /\ p \in Pushed(j, k)
    BY <1>3, <1>5, <1>7
  <2> QED BY <1>2, <1>5, <1>7, <2>1 DEF Puts
<1>8. ASSUME NEW o \in Pushed(io, k), o.after # 0
      PROVE  \E p \in Pushed(io, k) :
               /\ p.data = o.after /\ p.after = 0
               /\ k.buffers[p.data] = k.buffers[o.data] /\ k.buffers[o.data].payload # 0
  <2>1. CASE o \in Pushed(io, j)
    <3>1. PICK p \in Pushed(io, j) :
            /\ p.data = o.after /\ p.after = 0
            /\ j.buffers[p.data] = j.buffers[o.data] /\ j.buffers[o.data].payload # 0
      BY <1>2, <1>8, <2>1 DEF Puts
    <3> QED BY <1>3, <1>5, <2>1, <3>1
  <2>2. CASE o \in Pushed(j, k)
    BY <1>2, <1>3, <1>5, <1>8, <2>2 DEF Puts
  <2> QED BY <1>3, <2>1, <2>2
<1>9. /\ Len(io.order) \in Nat /\ Len(j.order) \in Nat /\ Len(k.order) \in Nat
      /\ Len(io.order) <= Len(j.order) /\ Len(j.order) <= Len(k.order)
      /\ \A i \in 1..Len(io.order) : j.order[i] = io.order[i]
      /\ \A i \in 1..Len(j.order) : k.order[i] = j.order[i]
  BY <1>1, <1>2 DEF Puts, IoType
<1>10. Len(io.order) <= Len(k.order) /\ \A i \in 1..Len(io.order) : k.order[i] = io.order[i]
  BY <1>9
<1>11. ASSUME NEW i \in 1..Len(k.order), i > Len(io.order)
       PROVE  \E o \in Pushed(io, k) : o.after = 0 /\ o.data = k.order[i]
  <2>1. CASE i > Len(j.order)
    BY <1>2, <1>3, <2>1 DEF Puts
  <2>2. CASE ~(i > Len(j.order))
    <3>1. i \in 1..Len(j.order)
      BY <1>9, <2>2
    <3> QED BY <1>2, <1>3, <1>9, <1>11, <3>1 DEF Puts
  <2> QED BY <2>1, <2>2
<1>12. ASSUME NEW o \in Pushed(io, k), o.after = 0
       PROVE  \E i \in 1..Len(k.order) : i > Len(io.order) /\ k.order[i] = o.data
  <2>1. CASE o \in Pushed(io, j)
    <3>1. PICK i \in 1..Len(j.order) : i > Len(io.order) /\ j.order[i] = o.data
      BY <1>2, <1>12, <2>1 DEF Puts
    <3> QED BY <1>9, <3>1
  <2>2. CASE o \in Pushed(j, k)
    <3>1. PICK i \in 1..Len(k.order) : i > Len(j.order) /\ k.order[i] = o.data
      BY <1>2, <1>12, <2>2 DEF Puts
    <3> QED BY <1>9, <3>1
  <2> QED BY <1>3, <2>1, <2>2
<1>13. /\ \A s \in Used(io.buffers) : k.buffers[s] = io.buffers[s]
       /\ \A o \in Pushed(io, k) : /\ o.data \in Used(k.buffers) \ Used(io.buffers)
                                   /\ k.buffers[o.data] \in M \cup N
  BY <1>3, <1>4, <1>5
<1> QED
  BY <1>1, <1>2, <1>6, <1>7, <1>8, <1>10, <1>11, <1>12, <1>13 DEF Puts

\* Every handler ends with the next read of bulk-out.
LEMMA PutsFinish ==
  ASSUME NEW io \in IoType, NEW j, NEW M, Puts(io, j, M), Finish(j)
  PROVE  \E k : Commit(k) /\ Puts(io, k, M)
<1>1. ReadHeader \in Ops /\ ReadHeader.op = "BulkOutReadHeader"
  BY DEF ReadHeader, Op, Ops, OpTypes
<1>2. Puts(j, Push(j, ReadHeader), {})
  BY <1>1, PutsPush DEF Puts
<1>3. Puts(io, Push(j, ReadHeader), M \cup {})
  BY <1>2, PutsMore
<1>4. M \cup {} = M
  OBVIOUS
<1> QED
  BY <1>3, <1>4 DEF Finish

-----------------------------------------------------------------------------
(* A step of the loop: it handles the messages of got (one or none), closes *)
(* or updates the stream they are about, and sends the messages of M.       *)

\* The messages of M, and no others, are new on the way to the host.
Sends(M) ==
  /\ \A s \in Out : s \in Out' /\ buffers'[s] = buffers[s]
  /\ \A s \in Out' : s \in Out \/ buffers'[s] \in M
  /\ \A m \in M : \E s \in Out' : s \notin Out /\ buffers'[s] = m
  /\ \A s, t \in Out' : s \notin Out /\ t \notin Out /\ buffers'[s] = buffers'[t]
                          /\ buffers'[s].payload = 0 => s = t

\* The messages of got, and no CLSE but those, are no longer due.
Consumes(got) ==
  /\ \E d \in {0, 1} : \A i \in Nat, m \in HostMsgs : Due(i, m)' =>
       Due(i + d, m) /\ (got # {} => i + d > 1)
  /\ \A m \in got : m \in HostMsgs /\ \E i \in {0, 1} : Due(i, m)
  /\ \A i \in Nat, m \in HostMsgs : Due(i, m) /\ m.cmd = "CLSE" =>
       m \in got \/ \E k \in Nat : Due(k, m)'

\* The device answers on its stream l, the host's stream r.
Talks(l, r, M, got) ==
  /\ l \in Nat /\ M \subseteq DevMsgs
  /\ \A x \in M : /\ x.arg0 = l /\ x.arg1 = r
                  /\ x.cmd # "WRTE" /\ r \in Remotes => x.payload = 0
                  /\ x.cmd = "OKAY" => \E m \in got : m.cmd = "WRTE"
                  /\ x.cmd = "CLSE" => l \in DOMAIN streams /\ l \notin DOMAIN streams'
                  /\ x.cmd = "WRTE" => /\ l \in DOMAIN streams'
                                       /\ x.payload = streams[l].tx + 1
                                       /\ x.payload = streams'[l].tx
                  /\ x.cmd = "CNXN" => r \notin Remotes
                  /\ x.cmd # "none"
  /\ \A x, y \in M : x.cmd = y.cmd => x = y
  /\ \A m \in got : m.cmd \in {"OKAY", "WRTE", "CLSE"} => m.arg0 = r /\ m.arg1 = l
  /\ l \in DOMAIN streams => streams[l].remote_id = r
  /\ l \in DOMAIN streams /\ l \notin DOMAIN streams' => Clse(l, r) \in M
  /\ l \in DOMAIN streams' =>
       /\ l \in DOMAIN streams /\ streams'[l].remote_id = r
       /\ (\A x \in M : x.cmd # "WRTE") => streams'[l].tx = streams[l].tx
       /\ streams[l].remote_closed \/ (\E m \in got : m.cmd = "CLSE") => streams'[l].remote_closed
  /\ \A k : k # l => /\ k \in DOMAIN streams <=> k \in DOMAIN streams'
                     /\ k \in DOMAIN streams => streams'[k] = streams[k]

\* The slots on their way are slots of the pool, in use.
LEMMA OutTyped ==
  ASSUME Inv
  PROVE  /\ \A s \in Out : s \in Slots /\ s \in Used(buffers) /\ s # 0
                           /\ buffers[s] \in DevMsgs /\ buffers[s].cmd # "none"
         /\ \A o \in Writes(sq) \cup Writes(kern) : o.data \in Out
<1>1. \A o \in Writes(sq) \cup Writes(kern) : o.data \in Slots /\ o.data \in Used(buffers)
  BY SlotsInUse
<1>2. \A s \in Slots : s # 0 /\ buffers[s] \in DevMsgs
  BY MaxSlotsAssumption DEF Slots, Inv, TypeOK
<1> QED
  BY <1>1, <1>2 DEF Out, Used

\* No new name comes up.
LEMMA TalkNames ==
  ASSUME Inv, TalkKnown, NEW l, NEW r, NEW M, NEW got, Talks(l, r, M, got), Sends(M),
         Consumes(got), host' = host, NEW q \in Remotes
  PROVE  /\ \A k : Has(q, k)' => Has(q, k)
         /\ \A s : s \in Out' /\ s \notin Out /\ buffers'[s].arg1 = q =>
              /\ buffers'[s] \in M /\ r = q /\ buffers'[s].arg0 = l /\ Names(q, l)
         /\ \A k : Names(q, k)' => Names(q, k)
<1>1. \A k : Has(q, k)' => Has(q, k)
  BY DEF Talks, Has
<1>2. ASSUME NEW s, s \in Out', s \notin Out, buffers'[s].arg1 = q
      PROVE  buffers'[s] \in M /\ r = q /\ buffers'[s].arg0 = l /\ Names(q, l)
  <2>1. buffers'[s] \in M
    BY <1>2 DEF Sends
  <2> DEFINE x == buffers'[s]
  <2>2. x \in DevMsgs /\ x.arg0 = l /\ x.arg1 = r /\ r = q
    BY <1>2, <2>1 DEF Talks
  <2>3. CASE l \in DOMAIN streams
    BY <2>1, <2>2, <2>3 DEF Talks, Names, Has
  <2>4. CASE l \notin DOMAIN streams
    <3>1. x.cmd \notin {"CLSE", "WRTE", "CNXN", "none"}
      BY <2>1, <2>2, <2>4 DEF Talks
    <3>2. x.cmd = "OKAY"
      BY <2>2, <3>1 DEF DevMsgs
    <3>3. PICK m \in got : m.cmd = "WRTE"
      BY <2>1, <3>2 DEF Talks
    <3>4. m \in HostMsgs /\ \E i \in {0, 1} : Due(i, m)
      BY DEF Consumes
    <3>5. m.arg0 = r /\ m.arg1 = l
      BY <3>3 DEF Talks
    <3>6. l = host[r].local /\ l # 0
      BY <3>3, <3>4, <3>5 DEF TalkKnown
    <3> QED BY <2>1, <2>2, <3>6 DEF Names
  <2> QED BY <2>3, <2>4
<1>3. ASSUME NEW k, Names(q, k)'
      PROVE  Names(q, k)
  <2>1. CASE Has(q, k)'
    BY <1>1, <2>1 DEF Names
  <2>2. CASE \E s \in Out' : buffers'[s].arg1 = q /\ buffers'[s].arg0 = k
    BY <1>2, <2>2 DEF Names, Sends
  <2>3. CASE k # 0 /\ host'[q].local = k
    BY <2>3 DEF Names
  <2> QED BY <1>3, <2>1, <2>2, <2>3 DEF Names
<1> QED
  BY <1>1, <1>2, <1>3

\* What is asked was asked before, at the same distance.
LEMMA AsksShift ==
  ASSUME NEW got, Consumes(got)
  PROVE  \E d \in {0, 1} : \A i \in Nat : \A q, cmd : Asks(i, q, cmd)' =>
           Asks(i + d, q, cmd) /\ (got # {} => i + d > 1)
BY DEF Consumes, Asks

\* What a handler sends keeps at most one end of each stream on its way.
LEMMA TalkOneEnd ==
  ASSUME Inv, Inv', TalkKnown, NEW l, NEW r, NEW M, NEW got, Talks(l, r, M, got), Sends(M),
         Consumes(got), host' = host, NEW q \in Remotes, OneEnd(q)
  PROVE  OneEnd(q)'
<1>1. \A k : Names(q, k)' => Names(q, k)
  BY TalkNames
<1>2. PICK d \in {0, 1} : \A i \in Nat : Asks(i, q, "OPEN")' => Asks(i + d, q, "OPEN")
  BY AsksShift
<1>3. \A i, k \in Nat : i + d \in Nat /\ (i + d = k + d => i = k)
  BY <1>2
<1>4. ASSUME NEW s \in Slots, Tells(s, q, "OKAY")'
      PROVE  buffers'[s].arg0 # 0
  <2>1. CASE s \in Out
    BY <1>4, <2>1 DEF Tells, Sends, OneEnd
  <2>2. CASE s \notin Out
    <3>1. buffers'[s] \in M /\ r = q /\ buffers'[s].arg0 = l /\ buffers'[s].cmd = "OKAY"
      BY <1>4, <2>2, TalkNames DEF Tells
    <3>2. PICK m \in got : m.cmd = "WRTE"
      BY <3>1 DEF Talks
    <3>3. m \in HostMsgs /\ (\E i \in {0, 1} : Due(i, m)) /\ m.arg1 = l
      BY <3>2 DEF Consumes, Talks
    <3> QED BY <3>1, <3>2, <3>3 DEF TalkKnown
  <2> QED BY <2>1, <2>2
<1> QED
  BY <1>1, <1>2, <1>3, <1>4 DEF OneEnd

\* A stream that a handler closes is told to the host once, and not again.
LEMMA TalkOneClose ==
  ASSUME Inv, Inv', TalkKnown, NEW l, NEW r, NEW M, NEW got, Talks(l, r, M, got), Sends(M),
         Consumes(got), host' = host, NEW q \in Remotes, OneEnd(q), OneClose(q)
  PROVE  OneClose(q)'
<1>1. \A k : Has(q, k)' => Has(q, k)
  BY TalkNames
<1>2. ASSUME NEW s, s \notin Out, Tells(s, q, "CLSE")'
      PROVE  /\ buffers'[s] \in M /\ r = q /\ buffers'[s].payload = 0 /\ Has(q, l) /\ ~Has(q, l)'
             /\ \A k \in Nat : Has(q, k) => k = l
  <2>1. buffers'[s] \in M /\ r = q /\ buffers'[s].arg0 = l /\ buffers'[s].cmd = "CLSE"
    BY <1>2, TalkNames DEF Tells
  <2>2. Has(q, l) /\ ~Has(q, l)' /\ buffers'[s].payload = 0 /\ l \in Nat
    BY <2>1 DEF Talks, Has
  <2> QED BY <2>1, <2>2 DEF OneEnd, Names
<1>3. \A s : Tells(s, q, "CLSE")' /\ s \in Out => Tells(s, q, "CLSE")
  BY DEF Tells, Sends
<1>4. \A s \in Slots, k \in Nat : Tells(s, q, "CLSE")' => ~Has(q, k)'
  BY <1>1, <1>2, <1>3 DEF OneClose
<1>5. ASSUME NEW s \in Slots, NEW t \in Slots, Tells(s, q, "CLSE")', Tells(t, q, "CLSE")'
      PROVE  s = t
  <2>1. CASE s \in Out /\ t \in Out
    BY <1>3, <1>5, <2>1 DEF OneClose
  <2>2. CASE s \notin Out /\ t \notin Out
    <3>1. buffers'[s] = buffers'[t]
      BY <1>2, <1>5, <2>2 DEF Talks, Tells
    <3> QED BY <1>2, <1>5, <2>2, <3>1 DEF Sends, Tells
  <2>3. CASE s \in Out /\ t \notin Out
    <3>1. l \in Nat
      BY DEF Talks
    <3> QED BY <1>2, <1>3, <1>5, <2>3, <3>1 DEF OneClose
  <2>4. CASE s \notin Out /\ t \in Out
    <3>1. l \in Nat
      BY DEF Talks
    <3> QED BY <1>2, <1>3, <1>5, <2>4, <3>1 DEF OneClose
  <2> QED BY <2>1, <2>2, <2>3, <2>4
<1>6. ASSUME host'[q].st = "closing", NEW s \in Slots
      PROVE  ~Tells(s, q, "CLSE")'
  <2>1. l \in Nat
    BY DEF Talks
  <2> QED BY <1>2, <1>3, <1>6, <2>1 DEF OneClose
<1> QED
  BY <1>1, <1>4, <1>5, <1>6 DEF OneClose

\* An OPEN is answered by one OKAY that names the new stream.
LEMMA TalkOneOkay ==
  ASSUME Inv, Inv', TalkKnown, NEW l, NEW r, NEW M, NEW got, Talks(l, r, M, got), Sends(M),
         Consumes(got), host' = host, NEW q \in Remotes, OneOkay(q)
  PROVE  OneOkay(q)'
<1>1. PICK d \in {0, 1} : \A i \in Nat : Asks(i, q, "WRTE")' =>
                            Asks(i + d, q, "WRTE") /\ (got # {} => i + d > 1)
  BY AsksShift
<1>2. \A i, k \in Nat : i + d \in Nat /\ (i + d = k + d => i = k)
  BY <1>1
<1>3. ASSUME NEW s, s \notin Out, Tells(s, q, "OKAY")'
      PROVE  /\ buffers'[s] \in M /\ buffers'[s].payload = 0 /\ got # {}
             /\ \E i \in {0, 1} : Asks(i, q, "WRTE")
  <2>1. buffers'[s] \in M /\ r = q /\ buffers'[s].cmd = "OKAY"
    BY <1>3, TalkNames DEF Tells
  <2>2. PICK m \in got : m.cmd = "WRTE"
    BY <2>1 DEF Talks
  <2>3. m \in HostMsgs /\ (\E i \in {0, 1} : Due(i, m)) /\ m.arg0 = r
    BY <2>2 DEF Consumes, Talks
  <2> QED BY <2>1, <2>2, <2>3 DEF Talks, Asks
<1>4. \A s : Tells(s, q, "OKAY")' /\ s \in Out => Tells(s, q, "OKAY")
  BY DEF Tells, Sends
<1>5. ASSUME NEW s \in Slots, NEW t \in Slots, Tells(s, q, "OKAY")', Tells(t, q, "OKAY")'
      PROVE  s = t
  <2>1. CASE s \in Out /\ t \in Out
    BY <1>4, <1>5, <2>1 DEF OneOkay
  <2>2. CASE s \notin Out /\ t \notin Out
    <3>1. buffers'[s] = buffers'[t]
      BY <1>3, <1>5, <2>2 DEF Talks, Tells
    <3> QED BY <1>3, <1>5, <2>2, <3>1 DEF Sends, Tells
  <2>3. CASE s \in Out /\ t \notin Out
    BY <1>3, <1>4, <1>5, <2>3 DEF OneOkay
  <2>4. CASE s \notin Out /\ t \in Out
    BY <1>3, <1>4, <1>5, <2>4 DEF OneOkay
  <2> QED BY <2>1, <2>2, <2>3, <2>4
<1>6. ASSUME NEW i \in Nat, Asks(i, q, "WRTE")', NEW s \in Slots, Tells(s, q, "OKAY")'
      PROVE  FALSE
  <2>1. CASE s \in Out
    BY <1>1, <1>2, <1>4, <1>6, <2>1 DEF OneOkay
  <2>2. CASE s \notin Out
    <3>1. PICK k \in {0, 1} : Asks(k, q, "WRTE") /\ got # {}
      BY <1>3, <1>6, <2>2
    <3>2. i + d = k /\ i + d > 1
      BY <1>1, <1>2, <1>6, <3>1 DEF OneOkay
    <3> QED BY <3>2
  <2> QED BY <2>1, <2>2
<1>7. ASSUME NEW s \in Slots, host'[q].st = "open", Tells(s, q, "OKAY")'
      PROVE  host'[q].unacked
  BY <1>3, <1>4, <1>7 DEF OneOkay
<1>8. \A i \in Nat : Asks(i, q, "WRTE")' => host'[q].unacked
  BY <1>1, <1>2 DEF OneOkay
<1>9. \A i, k \in Nat : Asks(i, q, "WRTE")' /\ Asks(k, q, "WRTE")' => i = k
  BY <1>1, <1>2 DEF OneOkay
<1> QED
  BY <1>5, <1>6, <1>7, <1>8, <1>9 DEF OneOkay

\* No handler sends on a stream behind its own CLSE.
LEMMA TalkHeeded ==
  ASSUME Inv, Inv', TalkKnown, NEW l, NEW r, NEW M, NEW got, Talks(l, r, M, got), Sends(M),
         Consumes(got), host' = host, NEW q \in Remotes, OneEnd(q), Heeded(q)
  PROVE  Heeded(q)'
<1> SUFFICES ASSUME NEW k \in Nat, Has(q, k)', host[q].st = "closed", ~streams'[k].remote_closed
             PROVE  \E i \in Nat, m \in HostMsgs : /\ Due(i, m)' /\ m.cmd = "CLSE"
                                                   /\ m.arg0 = q /\ m.arg1 = host[q].local
  BY DEF Heeded
<1>1. Has(q, k)
  BY TalkNames
<1>2. ~streams[k].remote_closed
  BY DEF Talks, Has
<1>3. PICK i \in Nat, m \in HostMsgs : /\ Due(i, m) /\ m.cmd = "CLSE"
                                       /\ m.arg0 = q /\ m.arg1 = host[q].local
  BY <1>1, <1>2 DEF Heeded
<1>4. CASE m \in got
  <2>1. r = q /\ l = host[q].local /\ l # 0 /\ l \in Nat
    BY <1>3, <1>4 DEF Talks, TalkKnown
  <2>2. k = l
    BY <1>1, <2>1 DEF OneEnd, Names
  <2>3. l \in DOMAIN streams'
    BY <2>2 DEF Has
  <2> QED BY <1>3, <1>4, <2>2, <2>3 DEF Talks
<1>5. CASE m \notin got
  BY <1>3, <1>5 DEF Consumes
<1> QED
  BY <1>4, <1>5

\* A handler that takes a message of the host keeps its answer on its way.
LEMMA TalkAnswers ==
  ASSUME Inv, Inv', Agree, TalkKnown, NEW l, NEW r, NEW M, NEW got, Talks(l, r, M, got), Sends(M),
         Consumes(got), UNCHANGED <<host, wire, usb, faults>>, NEW q \in Remotes, Answers(q)
  PROVE  Answers(q)'
<1> SUFFICES ASSUME Calm
             PROVE  Answers(q)'
  BY DEF Answers, Calm
<1>1. ASSUME NEW k, k \notin DOMAIN streams', Knows(q, k),
             k \notin DOMAIN streams => \E s \in Out : buffers[s] = Clse(k, q)
      PROVE  \E s \in Out' : buffers'[s] = Clse(k, q)
  <2>1. CASE k \notin DOMAIN streams
    BY <1>1, <2>1 DEF Sends
  <2>2. CASE k \in DOMAIN streams
    <3>1. k = l /\ r = q /\ Clse(l, r) \in M
      BY <1>1, <2>2 DEF Talks, Knows
    <3> QED BY <3>1 DEF Sends
  <2> QED BY <2>1, <2>2
<1>2. ASSUME host[q].st = "open", host[q].local \notin DOMAIN streams'
      PROVE  \E s \in Out' : buffers'[s] = Clse(host[q].local, q)
  <2>1. Knows(q, host[q].local)
    BY DEF Agree, HostsAgree
  <2> QED BY <1>1, <1>2, <2>1 DEF Answers
<1>3. ASSUME host[q].st = "opening", NEW s \in Slots, Tells(s, q, "OKAY")',
             buffers'[s].arg0 \notin DOMAIN streams'
      PROVE  \E t \in Out' : buffers'[t] = Clse(buffers'[s].arg0, q)
  <2>1. CASE s \in Out
    <3>1. Tells(s, q, "OKAY") /\ buffers'[s] = buffers[s]
      BY <1>3, <2>1 DEF Tells, Sends
    <3>2. Knows(q, buffers[s].arg0)
      BY <3>1 DEF Agree, AnswersAgree, AnswerAgrees, Tells
    <3> QED BY <1>1, <1>3, <3>1, <3>2 DEF Answers
  <2>2. CASE s \notin Out
    <3>1. buffers'[s] \in M /\ r = q /\ buffers'[s].cmd = "OKAY"
      BY <1>3, <2>2, TalkNames DEF Tells
    <3>2. PICK m \in got : m.cmd = "WRTE"
      BY <3>1 DEF Talks
    <3>3. m \in HostMsgs /\ (\E i \in {0, 1} : Due(i, m)) /\ m.arg0 = r
      BY <3>2 DEF Consumes, Talks
    <3> QED BY <1>3, <3>1, <3>2, <3>3 DEF TalkKnown
  <2> QED BY <2>1, <2>2
<1> QED
  BY <1>2, <1>3 DEF Answers

\* What is said on a stream leaves every stream as it should be.
LEMMA TalkEnds ==
  ASSUME Inv, Inv', Agree, TalkKnown, NEW l, NEW r, NEW M, NEW got, Talks(l, r, M, got), Sends(M),
         Consumes(got), UNCHANGED <<host, wire, usb, faults>>, \A q \in Remotes : Ends(q)
  PROVE  \A q \in Remotes : Ends(q)'
BY TalkOneEnd, TalkOneClose, TalkOneOkay, TalkHeeded, TalkAnswers DEF Ends

-----------------------------------------------------------------------------
(* An OPEN is handled: a stream and an OKAY, or a CLSE.                     *)

Opens(m, M) ==
  /\ m.cmd = "OPEN"
  /\ \/ /\ m.arg0 \in Remotes /\ next_id \in Nat \ {0} /\ next_id \notin DOMAIN streams
        /\ M = {Okay(next_id, m.arg0)}
        /\ \E kind : streams' = Insert(streams, next_id, NewStream(m.arg0, kind))
     \/ M = {Clse(0, m.arg0)} /\ streams' = streams

\* What an OPEN changes for the streams of the table.
LEMMA OpenHas ==
  ASSUME NEW m, NEW M, Opens(m, M)
  PROVE  /\ \A q, k : Has(q, k)' => \/ Has(q, k)
                                    \/ q = m.arg0 /\ k = next_id /\ M = {Okay(next_id, m.arg0)}
         /\ \A q, k : Has(q, k) => Has(q, k)' /\ streams'[k] = streams[k]
         /\ \A k \in DOMAIN streams : k \in DOMAIN streams'
         /\ M = {Okay(next_id, m.arg0)} => next_id \in DOMAIN streams'
<1>1. CASE M = {Clse(0, m.arg0)} /\ streams' = streams
  <2>1. Okay(next_id, m.arg0) # Clse(0, m.arg0)
    BY DEF Okay, Clse, DevMsg
  <2> QED BY <1>1, <2>1 DEF Has
<1>2. ASSUME NEW kind, next_id \notin DOMAIN streams, M = {Okay(next_id, m.arg0)},
             streams' = Insert(streams, next_id, NewStream(m.arg0, kind))
      PROVE  /\ \A q, k : Has(q, k)' => \/ Has(q, k)
                                        \/ q = m.arg0 /\ k = next_id /\ M = {Okay(next_id, m.arg0)}
             /\ \A q, k : Has(q, k) => Has(q, k)' /\ streams'[k] = streams[k]
             /\ \A k \in DOMAIN streams : k \in DOMAIN streams'
             /\ next_id \in DOMAIN streams'
  <2>1. /\ DOMAIN streams' = DOMAIN streams \cup {next_id}
        /\ streams'[next_id].remote_id = m.arg0
        /\ \A k \in DOMAIN streams : streams'[k] = streams[k]
    BY <1>2 DEF Insert, NewStream
  <2> QED BY <1>2, <2>1 DEF Has
<1> QED
  BY <1>1, <1>2 DEF Opens

\* The streams the OPEN is not about.
LEMMA OpenEndsOther ==
  ASSUME Inv, Inv', NEW m, NEW M, Opens(m, M), Sends(M), Consumes({m}),
         UNCHANGED <<host, wire, usb, faults>>, NEW q \in Remotes, q # m.arg0, Ends(q)
  PROVE  Ends(q)'
<1>1. \A x \in M : x.arg1 = m.arg0
  BY DEF Opens, Okay, Clse, DevMsg
<1>2. \A s \in Out' : buffers'[s].arg1 = q => s \in Out /\ buffers'[s] = buffers[s]
  BY <1>1 DEF Sends
<1>3. \A s, cmd : Tells(s, q, cmd)' => Tells(s, q, cmd) /\ buffers'[s] = buffers[s]
  BY <1>2 DEF Tells
<1>4. /\ \A k : Has(q, k)' => Has(q, k) /\ streams'[k] = streams[k]
      /\ \A k : k \notin DOMAIN streams' => k \notin DOMAIN streams
  BY OpenHas
<1>5. \A k : Names(q, k)' => Names(q, k)
  BY <1>2, <1>4 DEF Names
<1>6. PICK d \in {0, 1} : \A i \in Nat : \A cmd : Asks(i, q, cmd)' => Asks(i + d, q, cmd)
  BY AsksShift
<1>7. \A i, k \in Nat : i + d \in Nat /\ (i + d = k + d => i = k)
  BY <1>6
<1>8. OneEnd(q)'
  BY <1>3, <1>5, <1>6, <1>7 DEF Ends, OneEnd
<1>9. OneClose(q)'
  BY <1>3, <1>4 DEF Ends, OneClose
<1>10. OneOkay(q)'
  BY <1>3, <1>6, <1>7 DEF Ends, OneOkay
<1>11. Heeded(q)'
  BY <1>4 DEF Ends, Heeded, Consumes, Opens
<1>12. Answers(q)'
  BY <1>3, <1>4 DEF Ends, Answers, Sends, Calm
<1> QED
  BY <1>8, <1>9, <1>10, <1>11, <1>12 DEF Ends

\* The stream it is about: nothing was known of it.
LEMMA OpenEndsIt ==
  ASSUME Inv, Inv', TalkKnown, NEW m, NEW M, Opens(m, M), Sends(M), Consumes({m}),
         UNCHANGED <<host, wire, usb, faults>>, m.arg0 \in Remotes, Ends(m.arg0)
  PROVE  Ends(m.arg0)'
<1> DEFINE q == m.arg0
<1>1. PICK p \in {0, 1} : Asks(p, q, "OPEN")
  BY DEF Consumes, Opens, Asks
<1>2. /\ host[q].st = "opening" /\ host[q].local = 0 /\ ~host[q].unacked
      /\ \A k \in Nat : ~Names(q, k)
  BY <1>1 DEF Ends, OneEnd
<1>3. \A s \in Out : buffers[s].arg1 # q
  BY <1>2, OutTyped DEF Names, DevMsgs
<1>4. \A k \in Nat : ~Has(q, k)
  BY <1>2 DEF Names
<1>5. \A k \in Nat : Has(q, k)' => k = next_id /\ M = {Okay(next_id, q)}
  BY <1>4, OpenHas
<1>6. \A s \in Out' : buffers'[s].arg1 = q => s \notin Out /\ buffers'[s] \in M
  BY <1>3 DEF Sends
<1>7. PICK d \in {0, 1} : \A i \in Nat : \A cmd : Asks(i, q, cmd)' =>
                            Asks(i + d, q, cmd) /\ i + d > 1
  BY AsksShift
<1>8. \A i, k \in Nat : i + d \in Nat /\ (i + d = k + d => i = k)
  BY <1>7
<1>9. ASSUME NEW i \in Nat, Asks(i, q, "OPEN")'
      PROVE  FALSE
  <2>1. i + d = p /\ i + d > 1
    BY <1>1, <1>7, <1>8, <1>9 DEF Ends, OneEnd
  <2> QED BY <2>1
<1>10. ASSUME NEW i \in Nat, Asks(i, q, "WRTE")'
       PROVE  FALSE
  BY <1>2, <1>7, <1>8, <1>10 DEF TalkKnown, Asks
<1>11. /\ Okay(next_id, q).cmd = "OKAY" /\ Okay(next_id, q).arg0 = next_id
       /\ Okay(next_id, q).payload = 0
       /\ Clse(0, q).cmd = "CLSE" /\ Clse(0, q).arg0 = 0 /\ Clse(0, q).payload = 0
  BY DEF Okay, Clse, DevMsg
<1>12. \/ M = {Okay(next_id, q)} /\ next_id \in Nat \ {0}
       \/ M = {Clse(0, q)} /\ \A k \in Nat : ~Has(q, k)'
  <2>1. Okay(next_id, q) # Clse(0, q)
    BY <1>11
  <2> QED BY <1>5, <2>1 DEF Opens
<1>13. \A k \in Nat : Names(q, k)' =>
         \/ k = next_id /\ M = {Okay(next_id, q)}
         \/ k = 0 /\ M = {Clse(0, q)}
  BY <1>2, <1>5, <1>6, <1>11, <1>12 DEF Names
<1>14. \A s, t \in Out' : buffers'[s].arg1 = q /\ buffers'[t].arg1 = q => s = t
  BY <1>6, <1>11, <1>12 DEF Sends
<1>15. OneEnd(q)'
  <2>1. \A l, k \in Nat : Names(q, l)' /\ Names(q, k)' => l = k
    BY <1>11, <1>12, <1>13
  <2>2. \A s \in Slots : Tells(s, q, "OKAY")' => buffers'[s].arg0 # 0
    BY <1>6, <1>11, <1>12 DEF Tells
  <2> QED BY <1>2, <1>9, <2>1, <2>2 DEF OneEnd
<1>16. OneClose(q)'
  <2>1. \A s \in Slots : Tells(s, q, "CLSE")' => \A k \in Nat : ~Has(q, k)'
    BY <1>6, <1>11, <1>12 DEF Tells
  <2> QED BY <1>2, <1>14, <2>1 DEF OneClose, Tells
<1>17. OneOkay(q)'
  BY <1>2, <1>10, <1>14 DEF OneOkay, Tells
<1>18. Heeded(q)'
  BY <1>2 DEF Heeded
<1>19. Answers(q)'
  <2>1. \A s \in Slots : Tells(s, q, "OKAY")' => buffers'[s].arg0 \in DOMAIN streams'
    BY <1>6, <1>11, <1>12, OpenHas DEF Tells
  <2> QED BY <1>2, <2>1 DEF Answers
<1> QED
  BY <1>15, <1>16, <1>17, <1>18, <1>19 DEF Ends

\* An OPEN leaves every stream as it should be.
LEMMA OpenEnds ==
  ASSUME Inv, Inv', TalkKnown, NEW m, NEW M, Opens(m, M), Sends(M), Consumes({m}),
         UNCHANGED <<host, wire, usb, faults>>, \A q \in Remotes : Ends(q)
  PROVE  \A q \in Remotes : Ends(q)'
<1> SUFFICES ASSUME NEW q \in Remotes
             PROVE  Ends(q)'
  OBVIOUS
<1>1. CASE q = m.arg0
  BY <1>1, OpenEndsIt
<1>2. CASE q # m.arg0
  BY <1>2, OpenEndsOther
<1> QED
  BY <1>1, <1>2

-----------------------------------------------------------------------------
(* The handlers of commands.                                                *)

\* What a handler does with message m: it answers on a stream, or opens one.
Says(io, m) ==
  \E M, j : /\ Commit(j) /\ Puts(io, j, M)
            /\ Opens(m, M) \/ (m.cmd # "OPEN" /\ \E l, r : Talks(l, r, M, {m}))

\* The state a handler starts from.
LEMMA StartsTyped ==
  ASSUME NEW io, Starts(io)
  PROVE  /\ io \in IoType /\ 0 \notin DOMAIN streams /\ 0 \notin Remotes
         /\ DOMAIN streams \subseteq Nat /\ next_id \in Nat \ {0} /\ next_id \notin DOMAIN streams
<1>1. io \in IoType
  BY IosMonotone DEF Starts, Ios, IoType, Good, Daemons
<1> QED
  BY <1>1, HostAssumption DEF Starts, StreamsOK

\* handle_cnxn.
LEMMA CnxnSays ==
  ASSUME NEW io, Starts(io), NEW m \in HostMsgs, HandleCnxn(io, m)
  PROVE  Says(io, m)
<1> DEFINE x == DevMsg("CNXN", 0, 0, 1, FALSE)
<1>1. m.cmd = "CNXN" /\ Finish(SubmitMessage(io, x)) /\ streams' = streams
  BY DEF HandleCnxn
<1>2. x \in DevMsgs /\ x.cmd = "CNXN" /\ x.arg0 = 0 /\ x.arg1 = 0
  BY DEF DevMsg, DevMsgs
<1> HIDE DEF x
<1>3. \E j : Commit(j) /\ Puts(io, j, {x})
  BY <1>1, <1>2, StartsTyped, PutsMessage, PutsFinish
<1>4. Talks(0, 0, {x}, {m})
  BY <1>1, <1>2, StartsTyped DEF Talks
<1> QED
  BY <1>1, <1>3, <1>4 DEF Says

\* Nothing is said, and the table is as it was.
LEMMA SilentSays ==
  ASSUME NEW io, Starts(io), NEW m \in HostMsgs, Finish(io), streams' = streams, m.cmd # "OPEN",
         m.cmd \in {"OKAY", "WRTE", "CLSE"} => StreamOf(m) \notin DOMAIN streams
  PROVE  Says(io, m)
<1>1. \E j : Commit(j) /\ Puts(io, j, {})
  BY StartsTyped, PutsNothing, PutsFinish
<1>2. CASE m.cmd \in {"OKAY", "WRTE", "CLSE"}
  <2>1. Talks(m.arg1, m.arg0, {}, {m})
    BY <1>2 DEF Talks, HostMsgs, StreamOf
  <2> QED BY <1>1, <2>1 DEF Says
<1>3. CASE m.cmd \notin {"OKAY", "WRTE", "CLSE"}
  <2>1. Talks(0, 0, {}, {m})
    BY <1>3, StartsTyped DEF Talks
  <2> QED BY <1>1, <2>1 DEF Says
<1> QED
  BY <1>2, <1>3

\* handle_open: OKAY or CLSE, and the first read of a shell or forward.
LEMMA OpenSays ==
  ASSUME NEW io, Starts(io), NEW m \in HostMsgs, MsgAgrees(m), HandleOpen(io, m)
  PROVE  Says(io, m)
<1>0. m.cmd = "OPEN" /\ m.arg0 \in Nat
  BY DEF HandleOpen, HostMsgs
<1> DEFINE s == NewStream(m.arg0, m.payload)
           io1 == SubmitMessage(io, Okay(next_id, m.arg0))
           io2 == IF s.service \in {"shell", "forward"}
                  THEN MaybeSubmitRead(io1, next_id, s) ELSE io1
<1>1. CASE Finish(Refuse(io, m.arg0)) /\ streams' = streams
  <2>1. Clse(0, m.arg0) \in DevMsgs /\ Clse(0, m.arg0).cmd # "none"
    BY <1>0, MessagesTyped
  <2>2. \E j : Commit(j) /\ Puts(io, j, {Clse(0, m.arg0)})
    BY <1>1, <2>1, StartsTyped, PutsMessage, PutsFinish DEF Refuse
  <2> QED BY <1>0, <1>1, <2>2 DEF Says, Opens
<1>2. CASE /\ m.payload \in Kinds /\ streams' = Insert(streams, next_id, s)
           /\ Finish(io2)
  <2>1. m.arg0 \in Remotes
    BY <1>0, <1>2 DEF MsgAgrees, Opened
  <2>2. Okay(next_id, m.arg0) \in DevMsgs /\ Okay(next_id, m.arg0).cmd # "none"
    BY <1>0, StartsTyped, MessagesTyped
  <2>3. Puts(io, io1, {Okay(next_id, m.arg0)})
    BY <2>2, StartsTyped, PutsMessage
  <2> HIDE DEF io1, s
  <2>4. io1 \in IoType
    BY <2>3 DEF Puts
  <2>5. Puts(io1, io2, {})
    <3>1. StreamRead(s.service, next_id) \in Ops /\ StreamRead(s.service, next_id).op # "BulkInWrite"
      BY StartsTyped DEF StreamRead, Op, Ops, OpTypes
    <3>2. Puts(io1, Push(io1, StreamRead(s.service, next_id)), {}) /\ Puts(io1, io1, {})
      BY <2>4, <3>1, PutsPush, PutsNothing
    <3>3. io2 \in {io1, Push(io1, StreamRead(s.service, next_id))}
      BY DEF MaybeSubmitRead
    <3> HIDE DEF io2
    <3> QED BY <3>2, <3>3
  <2> HIDE DEF io2
  <2>6. Puts(io, io2, {Okay(next_id, m.arg0)} \cup {})
    BY <2>3, <2>5, StartsTyped, PutsMore
  <2>7. {Okay(next_id, m.arg0)} \cup {} = {Okay(next_id, m.arg0)}
    OBVIOUS
  <2>8. \E j : Commit(j) /\ Puts(io, j, {Okay(next_id, m.arg0)})
    BY <1>2, <2>6, <2>7, StartsTyped, PutsFinish
  <2>9. Opens(m, {Okay(next_id, m.arg0)})
    BY <1>0, <1>2, <2>1, StartsTyped DEF Opens, s
  <2> QED BY <2>8, <2>9 DEF Says
<1>3. PICK fails \in OsFails :
        IF m.payload \notin Kinds \/ (fails /\ m.payload \in {"shell", "forward"})
        THEN Finish(Refuse(io, m.arg0)) /\ UNCHANGED <<streams, next_id>>
        ELSE streams' = Insert(streams, next_id, s) /\ Finish(io2)
  BY Zenon DEF HandleOpen
<1> HIDE DEF s, io2
<1> QED
  BY <1>1, <1>2, <1>3

\* M is the WRTE of the frame that turned stream s into t, if any.
Frame(l, s, t, M) ==
  /\ \A x \in M : /\ x \in DevMsgs /\ x.cmd = "WRTE"
                  /\ x.arg0 = l /\ x.arg1 = t.remote_id
                  /\ x.payload = t.tx /\ t.tx # s.tx
  /\ \A x, z \in M : x = z
  /\ M = {} => t.tx = s.tx

\* A stream is updated and a frame may be sent.
LEMMA FramePuts ==
  ASSUME NEW io \in IoType, NEW l \in Nat, NEW s, NEW t \in StreamRecords
  PROVE  \E M : Puts(io, SubmitFrame(io, l, s, t), M) /\ Frame(l, s, t, M)
<1> DEFINE w == DevMsg("WRTE", l, t.remote_id, t.tx, t.sync # "Sending")
<1>1. CASE t.tx = s.tx
  BY <1>1, PutsNothing DEF SubmitFrame, Frame
<1>2. CASE t.tx # s.tx
  <2>1. w \in DevMsgs /\ w.cmd = "WRTE" /\ w.arg0 = l /\ w.arg1 = t.remote_id /\ w.payload = t.tx
    BY DEF DevMsg, DevMsgs, StreamRecords
  <2>2. SubmitFrame(io, l, s, t) = SubmitMessage(io, w)
    BY <1>2 DEF SubmitFrame
  <2> HIDE DEF w
  <2>3. Puts(io, SubmitMessage(io, w), {w})
    BY <2>1, PutsMessage
  <2> QED BY <1>2, <2>1, <2>2, <2>3 DEF Frame
<1> QED
  BY <1>1, <1>2

\* One entry of the table is replaced.
LEMMA Replaced ==
  ASSUME NEW l \in DOMAIN streams, NEW u, streams' = [streams EXCEPT ![l] = u]
  PROVE  /\ streams'[l] = u
         /\ \A k : k \in DOMAIN streams' <=> k \in DOMAIN streams
         /\ \A k \in DOMAIN streams : k # l => streams'[k] = streams[k]
OBVIOUS

\* One entry of the table is removed.
LEMMA Removed ==
  ASSUME NEW l, streams' = Close(streams, l)
  PROVE  \A k : /\ k \in DOMAIN streams' <=> k \in DOMAIN streams /\ k # l
                /\ k \in DOMAIN streams /\ k # l => streams'[k] = streams[k]
BY DEF Close

\* handle_okay: the next frame of a file, or the next read.
LEMMA OkaySays ==
  ASSUME NEW io, Starts(io), NEW m \in HostMsgs, MsgAgrees(m), HandleOkay(io, m)
  PROVE  Says(io, m)
<1> DEFINE l == StreamOf(m)
<1>0. l \in Nat /\ m.cmd = "OKAY" /\ l = m.arg1
  BY DEF StreamOf, HostMsgs, HandleOkay
<1>1. CASE l \notin DOMAIN streams
  <2>1. Finish(io) /\ streams' = streams
    BY <1>1 DEF HandleOkay
  <2> QED BY <1>0, <1>1, <2>1, SilentSays
<1>2. CASE l \in DOMAIN streams
  <2> DEFINE s == [streams[l] EXCEPT !.waiting_for_okay = FALSE]
             T(more) == IF s.service = "sync" THEN ContinueSync(s, more) ELSE s
             J(more) == CASE s.service = "sync" -> SubmitFrame(io, l, s, T(more))
                          [] s.service = "reboot" -> Panic(io, "unreachable")
                          [] OTHER -> MaybeSubmitRead(io, l, s)
  <2>1. PICK more \in MoreFrames(s) :
          streams' = [streams EXCEPT ![l] = T(more)] /\ Finish(J(more))
    BY <1>2, Zenon DEF HandleOkay
  <2> DEFINE t == T(more)
             j == J(more)
  <2>2. /\ streams[l] \in StreamRecords /\ streams[l].remote_id = m.arg0
        /\ streams[l].service = host[m.arg0].svc /\ host[m.arg0].svc # "reboot"
    BY <1>0, <1>2, StreamFacts DEF MsgAgrees
  <2>3. /\ s \in StreamRecords /\ s.remote_id = m.arg0 /\ s.service # "reboot"
        /\ s.remote_closed = streams[l].remote_closed /\ s.tx = streams[l].tx
    BY <2>2 DEF StreamRecords
  <2> HIDE DEF l, s
  <2>4. /\ t \in StreamRecords /\ t.remote_id = m.arg0 /\ t.remote_closed = streams[l].remote_closed
        /\ t.tx \in {s.tx, s.tx + 1} /\ (s.service # "sync" => t = s)
    BY <2>3, ContinueSyncTyped, ContinueSyncSame DEF SameStream
  <2>5. \E M : Puts(io, j, M) /\ Frame(l, s, t, M)
    <3>1. CASE s.service = "sync"
      <4>1. j = SubmitFrame(io, l, s, t)
        BY <3>1
      <4> HIDE DEF t, j
      <4>2. io \in IoType /\ l \in Nat /\ t \in StreamRecords /\ t.remote_id = m.arg0
        BY <1>0, <2>4, StartsTyped
      <4> QED BY <4>1, <4>2, FramePuts
    <3>2. CASE s.service # "sync"
      <4>1. j = MaybeSubmitRead(io, l, s)
        BY <2>3, <3>2
      <4>2. StreamRead(s.service, l) \in Ops /\ StreamRead(s.service, l).op # "BulkInWrite"
        BY <1>0 DEF StreamRead, Op, Ops, OpTypes
      <4>3. Puts(io, j, {})
        <5>1. Puts(io, Push(io, StreamRead(s.service, l)), {}) /\ Puts(io, io, {})
          BY <4>2, StartsTyped, PutsPush, PutsNothing
        <5>2. j \in {io, Push(io, StreamRead(s.service, l))}
          BY <4>1 DEF MaybeSubmitRead
        <5> HIDE DEF j
        <5> QED BY <5>1, <5>2
      <4> HIDE DEF j, t
      <4> QED BY <2>4, <3>2, <4>3 DEF Frame
    <3> QED BY <3>1, <3>2
  <2>6. streams' = [streams EXCEPT ![l] = t] /\ Finish(j)
    BY <2>1
  <2> HIDE DEF t, j
  <2>7. PICK M : Puts(io, j, M) /\ Frame(l, s, t, M)
    BY <2>5
  <2>8. \E k : Commit(k) /\ Puts(io, k, M)
    BY <2>6, <2>7, StartsTyped, PutsFinish
  <2>9. Talks(l, m.arg0, M, {m})
    <3>1. /\ streams'[l] = t
          /\ \A k : k \in DOMAIN streams' <=> k \in DOMAIN streams
          /\ \A k \in DOMAIN streams : k # l => streams'[k] = streams[k]
      BY <1>2, <2>6, Replaced
    <3> QED BY <1>0, <1>2, <2>2, <2>3, <2>4, <2>7, <3>1 DEF Talks, Frame
  <2> QED BY <1>0, <2>8, <2>9 DEF Says
<1> QED
  BY <1>1, <1>2

\* handle_clse: the stream goes, and the host is told if it was open here.
LEMMA ClseSays ==
  ASSUME NEW io, Starts(io), NEW m \in HostMsgs, MsgAgrees(m), HandleClse(io, m)
  PROVE  Says(io, m)
<1> DEFINE l == StreamOf(m)
<1>0. l \in Nat /\ m.cmd = "CLSE" /\ l = m.arg1 /\ m.arg0 \in Nat
  BY DEF StreamOf, HostMsgs, HandleClse
<1>1. CASE l \notin DOMAIN streams
  <2>1. Finish(io) /\ streams' = streams
    BY <1>1 DEF HandleClse
  <2> QED BY <1>0, <1>1, <2>1, SilentSays
<1>2. CASE l \in DOMAIN streams
  <2>1. streams[l] \in StreamRecords /\ streams[l].remote_id = m.arg0
    BY <1>0, <1>2, StreamFacts
  <2>2. \/ streams' = [streams EXCEPT ![l].remote_closed = TRUE] /\ Finish(io)
        \/ streams' = Close(streams, l) /\ Finish(SubmitMessage(io, Clse(l, m.arg0)))
    BY <1>2, <2>1 DEF HandleClse
  <2> HIDE DEF l
  <2>3. CASE streams' = [streams EXCEPT ![l].remote_closed = TRUE] /\ Finish(io)
    <3> DEFINE u == [streams[l] EXCEPT !.remote_closed = TRUE]
    <3>1. streams' = [streams EXCEPT ![l] = u]
      BY <2>3
    <3>2. u.remote_id = m.arg0 /\ u.remote_closed /\ u.tx = streams[l].tx
      BY <2>1 DEF StreamRecords
    <3> HIDE DEF u
    <3>3. \E j : Commit(j) /\ Puts(io, j, {})
      BY <2>3, StartsTyped, PutsNothing, PutsFinish
    <3>4. Talks(l, m.arg0, {}, {m})
      <4>1. /\ streams'[l] = u
            /\ \A k : k \in DOMAIN streams' <=> k \in DOMAIN streams
            /\ \A k \in DOMAIN streams : k # l => streams'[k] = streams[k]
        BY <1>2, <3>1, Replaced
      <4> QED BY <1>0, <1>2, <2>1, <3>2, <4>1 DEF Talks
    <3> QED BY <1>0, <3>3, <3>4 DEF Says
  <2>4. CASE streams' = Close(streams, l) /\ Finish(SubmitMessage(io, Clse(l, m.arg0)))
    <3>1. /\ Clse(l, m.arg0) \in DevMsgs /\ Clse(l, m.arg0).cmd = "CLSE"
          /\ Clse(l, m.arg0).arg0 = l /\ Clse(l, m.arg0).arg1 = m.arg0
          /\ Clse(l, m.arg0).payload = 0
      BY <1>0 DEF Clse, DevMsg, DevMsgs
    <3>2. \E j : Commit(j) /\ Puts(io, j, {Clse(l, m.arg0)})
      BY <2>4, <3>1, StartsTyped, PutsMessage, PutsFinish
    <3>3. Talks(l, m.arg0, {Clse(l, m.arg0)}, {m})
      BY <1>0, <1>2, <2>1, <2>4, <3>1, Removed DEF Talks
    <3> QED BY <1>0, <3>2, <3>3 DEF Says
  <2> QED BY <2>2, <2>3, <2>4
<1> QED
  BY <1>1, <1>2

\* handle_wrte: OKAY, the answers of a sync session, or CLSE.
LEMMA WrteSays ==
  ASSUME NEW io, Starts(io), NEW m \in HostMsgs, MsgAgrees(m), HandleWrte(io, m)
  PROVE  Says(io, m)
<1> DEFINE l == StreamOf(m)
           y == Okay(l, m.arg0)
           io1 == SubmitMessage(io, y)
<1>0. l \in Nat /\ m.cmd = "WRTE" /\ l = m.arg1 /\ m.arg0 \in Nat
  BY Zenon DEF StreamOf, HostMsgs, HandleWrte
<1>1. /\ y \in DevMsgs /\ y.cmd = "OKAY" /\ y.arg0 = l /\ y.arg1 = m.arg0 /\ y.payload = 0
  BY <1>0 DEF Okay, DevMsg, DevMsgs
<1>2. Acknowledge(io, l, m.arg0) = io1
  BY DEF Acknowledge
<1> HIDE DEF y
<1>3. Puts(io, io1, {y}) /\ io1 \in IoType
  BY <1>1, StartsTyped, PutsMessage DEF Puts
<1>4. CASE l \notin DOMAIN streams
  <2>1. Finish(io1) /\ streams' = streams
    BY <1>2, <1>4 DEF HandleWrte
  <2> HIDE DEF io1, l
  <2>2. \E j : Commit(j) /\ Puts(io, j, {y})
    BY <1>3, <2>1, StartsTyped, PutsFinish
  <2>3. Talks(l, m.arg0, {y}, {m})
    BY <1>0, <1>1, <1>4, <2>1 DEF Talks
  <2> QED BY <1>0, <2>2, <2>3 DEF Says
<1>5. CASE l \in DOMAIN streams
  <2>1. /\ streams[l] \in StreamRecords /\ streams[l].remote_id = m.arg0
        /\ streams[l].service # "reboot"
    BY <1>0, <1>5, StreamFacts DEF MsgAgrees
  <2>2. PICK u \in StreamRecords : /\ SameStream(streams[l], u)
                                  /\ u.remote_closed = streams[l].remote_closed
                                  /\ u.tx \in {streams[l].tx, streams[l].tx + 1}
                                  /\ WrteEffect(io1, l, streams[l], u, m.payload)
    BY <1>2, <1>5, <2>1, WrteCases
  <2> HIDE DEF io1, l
  <2>3. CASE streams' = Close(streams, l) /\ Finish(SubmitMessage(io1, Clse(l, streams[l].remote_id)))
    <3> DEFINE x == Clse(l, m.arg0)
    <3>1. x \in DevMsgs /\ x.cmd = "CLSE" /\ x.arg0 = l /\ x.arg1 = m.arg0 /\ x.payload = 0
      BY <1>0 DEF Clse, DevMsg, DevMsgs
    <3>2. Finish(SubmitMessage(io1, x))
      BY <2>1, <2>3
    <3>3. x = Clse(l, m.arg0)
      OBVIOUS
    <3> HIDE DEF x
    <3>4. Puts(io1, SubmitMessage(io1, x), {x})
      BY <1>3, <3>1, PutsMessage
    <3>5. {y} \cap {x} = {}
      BY <1>1, <3>1
    <3>6. Puts(io, SubmitMessage(io1, x), {y} \cup {x})
      BY <1>3, <3>4, <3>5, StartsTyped, PutsMore
    <3>7. \E j : Commit(j) /\ Puts(io, j, {y} \cup {x})
      BY <3>2, <3>6, StartsTyped, PutsFinish
    <3>8. Talks(l, m.arg0, {y} \cup {x}, {m})
      BY <1>0, <1>1, <1>5, <2>1, <2>3, <3>1, <3>3, Removed DEF Talks
    <3> QED BY <1>0, <3>7, <3>8 DEF Says
  <2>4. ASSUME streams' = [streams EXCEPT ![l] = u], NEW j, Finish(j), NEW N, Puts(io1, j, N),
               Frame(l, streams[l], u, N)
        PROVE  Says(io, m)
    <3>1. {y} \cap N = {}
      BY <1>1, <2>4 DEF Frame
    <3>2. Puts(io, j, {y} \cup N)
      BY <1>3, <2>4, <3>1, StartsTyped, PutsMore
    <3>3. \E k : Commit(k) /\ Puts(io, k, {y} \cup N)
      BY <2>4, <3>2, StartsTyped, PutsFinish
    <3>4. u.remote_id = m.arg0
      BY <2>1, <2>2 DEF SameStream
    <3>5. /\ streams'[l] = u
          /\ \A k : k \in DOMAIN streams' <=> k \in DOMAIN streams
          /\ \A k \in DOMAIN streams : k # l => streams'[k] = streams[k]
      BY <1>5, <2>4, Replaced
    <3>6. Talks(l, m.arg0, {y} \cup N, {m})
      BY <1>0, <1>1, <1>5, <2>1, <2>2, <2>4, <3>4, <3>5 DEF Talks, Frame
    <3> QED BY <1>0, <3>3, <3>6 DEF Says
  <2>5. CASE streams' = [streams EXCEPT ![l] = u] /\ Finish(SubmitFrame(io1, l, streams[l], u))
    <3> DEFINE s == streams[l]
               j == SubmitFrame(io1, l, s, u)
    <3>1. io1 \in IoType /\ l \in Nat /\ u \in StreamRecords
      BY <1>0, <1>3
    <3>2. Finish(j) /\ streams' = [streams EXCEPT ![l] = u]
      BY <2>5
    <3> HIDE DEF s
    <3>3. j = SubmitFrame(io1, l, s, u)
      OBVIOUS
    <3> HIDE DEF j
    <3>4. PICK N : Puts(io1, j, N) /\ Frame(l, s, u, N)
      BY <3>1, <3>3, FramePuts
    <3> QED BY <2>4, <3>2, <3>4 DEF s
  <2>6. CASE /\ streams' = [streams EXCEPT ![l] = u] /\ u.tx = streams[l].tx
             /\ Finish(Panic(io1, "File too large for 32-bits"))
    <3>1. "File too large for 32-bits" \in Daemons \ {"running"}
      BY DEF Daemons, Panics
    <3>2. Puts(io1, Panic(io1, "File too large for 32-bits"), {})
      BY <1>3, <3>1, PutsPanic
    <3> DEFINE j == Panic(io1, "File too large for 32-bits")
    <3>3. /\ Finish(j) /\ Puts(io1, j, {}) /\ streams' = [streams EXCEPT ![l] = u]
          /\ u.tx = streams[l].tx
      BY <2>6, <3>2
    <3> HIDE DEF j
    <3>4. Frame(l, streams[l], u, {})
      BY <3>3 DEF Frame
    <3> QED BY <2>4, <3>3, <3>4
  <2> QED BY <2>2, <2>3, <2>5, <2>6 DEF WrteEffect
<1> QED
  BY <1>4, <1>5

\* handle_command, whatever the command.
LEMMA CommandSays ==
  ASSUME NEW io, Starts(io), NEW m \in HostMsgs, MsgAgrees(m), HandleCommand(io, m)
  PROVE  Says(io, m)
<1>1. ~((m.cmd \in {"CNXN", "OPEN", "WRTE"} /\ m.payload = "none")
          \/ (m.cmd = "OKAY" /\ m.payload # "none"))
  BY DEF MsgAgrees
<1>2. \/ HandleCnxn(io, m) \/ HandleOpen(io, m) \/ HandleOkay(io, m)
      \/ HandleWrte(io, m) \/ HandleClse(io, m) \/ HandleOther(io, m)
  BY <1>1 DEF HandleCommand
<1>3. CASE HandleOther(io, m)
  BY <1>3, SilentSays DEF HandleOther
<1> QED
  BY <1>2, <1>3, CnxnSays, OpenSays, OkaySays, WrteSays, ClseSays

-----------------------------------------------------------------------------
(* The transfers on their way to the device.                                *)

\* What the loop pushes is what it sends.
LEMMA PutsSends ==
  ASSUME Inv, Linked(sq), Linked(kern), NEW j, NEW M, Puts(Io, j, M), Commit(j),
         daemon' = "running", kern' = kern
  PROVE  Sends(M) /\ Linked(sq)' /\ Linked(kern)'
<1>1. /\ \A o \in Writes(sq) \cup Writes(kern) : o.data \in Slots /\ o.data \in Used(buffers)
      /\ Io.sq = sq /\ Io.buffers = buffers
  BY SlotsInUse
<1>2. j.daemon = "running" /\ sq' = j.sq /\ buffers' = j.buffers /\ Owned(Io)
  BY <1>1 DEF Commit, Owned
<1> DEFINE P == Writes(sq') \ sq
<1>3. /\ sq \subseteq sq'
      /\ \A s \in Used(buffers) : buffers'[s] = buffers[s]
      /\ \A o \in P : o.data \in Used(buffers') \ Used(buffers) /\ buffers'[o.data] \in M
      /\ \A m \in M : \E o \in P : o.after = 0 /\ buffers'[o.data] = m
      /\ \A o, p \in P : o # p /\ buffers'[o.data] = buffers'[p.data] =>
           o.after = p.data \/ p.after = o.data
      /\ \A o \in P : o.after # 0 =>
           \E p \in P : /\ p.data = o.after /\ p.after = 0
                        /\ buffers'[p.data] = buffers'[o.data] /\ buffers'[o.data].payload # 0
  BY <1>1, <1>2 DEF Puts, Pushed
<1>4. \A o \in P : o.data # 0
  BY <1>3, MaxSlotsAssumption DEF Used, Slots
<1>5. /\ Writes(sq) \subseteq Writes(sq') /\ P \subseteq Writes(sq')
      /\ \A o \in Writes(sq') : o \in Writes(sq) \/ o \in P
  BY <1>3 DEF Writes
<1> HIDE DEF P
<1>6. \A s \in Out : s \in Out' /\ s \in Used(buffers) /\ buffers'[s] = buffers[s]
  BY <1>1, <1>3, <1>5 DEF Out
<1>7. \A s \in Out' : s \in Out \/ \E o \in P : o.data = s
  BY <1>5 DEF Out
<1>8. \A o \in P : o.data \in Out' /\ o.data \notin Out
  BY <1>3, <1>5, <1>6 DEF Out
<1>9. Sends(M)
  <2>1. ASSUME NEW s \in Out', NEW t \in Out', s \notin Out, t \notin Out,
               buffers'[s] = buffers'[t], buffers'[s].payload = 0
        PROVE  s = t
    BY <1>3, <1>4, <1>7, <2>1
  <2>2. \A s \in Out' : s \in Out \/ buffers'[s] \in M
    BY <1>3, <1>7
  <2>3. \A m \in M : \E s \in Out' : s \notin Out /\ buffers'[s] = m
    BY <1>3, <1>8
  <2> QED BY <1>6, <2>1, <2>2, <2>3 DEF Sends
<1>10. Linked(sq)'
  <2>1. ASSUME NEW o \in Writes(sq), o.after # 0
        PROVE  \E p \in Writes(sq') :
                 /\ p.data = o.after /\ p.after = 0
                 /\ buffers'[p.data] = buffers'[o.data] /\ buffers'[o.data].payload # 0
    BY <1>1, <1>3, <1>5, <2>1 DEF Linked
  <2> QED BY <1>3, <1>5, <2>1 DEF Linked
<1>11. Linked(kern)'
  BY <1>1, <1>3 DEF Linked
<1> QED
  BY <1>9, <1>10, <1>11

\* The transfer just read, if there is one, is the first of Line.
LEMMA LineIs ==
  ASSUME Inv, daemon = "running"
  PROVE  /\ Line \in Seq(Xfers) /\ Len(bulk_out) \in Nat
         /\ Done => /\ bulk_out_buf[1] \in Xfers /\ Line[1] = bulk_out_buf[1]
                    /\ Len(Line) = Len(bulk_out) + 1
                    /\ \A i \in 1..Len(bulk_out) : Line[i + 1] = bulk_out[i]
<1>1. /\ bulk_out \in Seq(Xfers) /\ bulk_out_buf \in Seq(Xfers)
      /\ Done => bulk_out_buf # << >>
  BY DEF Inv, TypeOK, HostTypeOK, Fed, Done
<1>2. CASE ~Done
  BY <1>1, <1>2 DEF Line
<1>3. CASE Done
  <2>1. bulk_out_buf[1] \in Xfers
    BY <1>1, <1>3
  <2> DEFINE x == <<bulk_out_buf[1]>>
  <2>2. x \in Seq(Xfers) /\ Len(x) = 1 /\ x[1] = bulk_out_buf[1]
    BY <2>1
  <2>3. Line = x \o bulk_out
    BY <1>3 DEF Line
  <2> HIDE DEF x
  <2>4. /\ Line \in Seq(Xfers) /\ Len(Line) = 1 + Len(bulk_out)
        /\ \A i \in 1..Len(Line) : Line[i] = IF i <= 1 THEN x[i] ELSE bulk_out[i - 1]
    <3>1. /\ x \o bulk_out \in Seq(Xfers) /\ Len(x \o bulk_out) = Len(x) + Len(bulk_out)
          /\ \A i \in 1..Len(x) + Len(bulk_out) :
               (x \o bulk_out)[i] = IF i <= Len(x) THEN x[i] ELSE bulk_out[i - Len(x)]
      BY <1>1, <2>2, ConcatProperties
    <3> HIDE DEF Line
    <3> QED BY <2>2, <2>3, <3>1
  <2>5. Len(bulk_out) \in Nat
    BY <1>1
  <2>6. Line[1] = bulk_out_buf[1]
    BY <2>2, <2>4, <2>5
  <2>7. ASSUME NEW i \in 1..Len(bulk_out)
        PROVE  Line[i + 1] = bulk_out[i]
    BY <2>4, <2>5
  <2> QED BY <2>1, <2>4, <2>5, <2>6, <2>7
<1> QED
  BY <1>2, <1>3

\* The line only depends on what is read and what is not.
LEMMA SameLine ==
  ASSUME bulk_out' = bulk_out, Done' <=> Done, Done => bulk_out_buf' = bulk_out_buf,
         pending_header' = pending_header
  PROVE  Line' = Line /\ (\A i, m : Due(i, m)' <=> Due(i, m)) /\ (Framed => Framed')
<1>1. Line' = Line
  BY DEF Line
<1> QED
  BY <1>1 DEF Due, Framed

\* A completion that is taken is the one the loop waited for: nothing is read
\* any more, and the second transfer of the line is the first.
LEMMA TakeLine ==
  ASSUME Inv, Inv', NEW c, Handles(c), c \in BulkOuts(batch), c.res = "ok"
  PROVE  /\ 1 \in 1..Len(Line) /\ Line[1] = bulk_out_buf[1] /\ Line[1] \in Xfers
         /\ Len(Line') \in Nat /\ Len(Line) = Len(Line') + 1
         /\ \A i \in 1..Len(Line') : i + 1 \in 1..Len(Line) /\ Line'[i] = Line[i + 1]
         /\ pending_header # << >> <=> c.op = "BulkOutReadPayload"
<1>1. /\ daemon = "running" /\ cq' = cq /\ batch' = batch \ {c} /\ bulk_out' = bulk_out
  BY DEF Handles, hostVars
<1>2. ExactlyOne(BulkOuts(sq), BulkOuts(kern), BulkOuts(cq), BulkOuts(batch))
  BY <1>1 DEF Inv, LoopArmed
<1>3. BulkOuts(sq) = {} /\ BulkOuts(kern) = {} /\ BulkOuts(cq) = {} /\ BulkOuts(batch) = {c}
  BY <1>2, OneIsLast
<1>4. Done
  BY DEF Done
<1>5. ~Done'
  BY <1>1, <1>3 DEF Done, BulkOuts
<1>6. Line' = bulk_out
  BY <1>1, <1>5 DEF Line
<1>7. /\ Len(bulk_out) \in Nat /\ bulk_out_buf[1] \in Xfers /\ Line[1] = bulk_out_buf[1]
      /\ Len(Line) = Len(bulk_out) + 1
      /\ \A i \in 1..Len(bulk_out) : Line[i + 1] = bulk_out[i]
  BY <1>1, <1>4, LineIs
<1>8. pending_header # << >> <=> c.op = "BulkOutReadPayload"
  <2>1. pending_header # << >> <=> \E o \in sq \cup kern \cup cq \cup batch : o.op = "BulkOutReadPayload"
    BY <1>1 DEF Inv, LoopArmed
  <2>2. \A o \in sq \cup kern \cup cq \cup batch : o.op = "BulkOutReadPayload" => o = c
    BY <1>3 DEF BulkOuts
  <2> QED BY <2>1, <2>2 DEF BulkOuts
<1> QED
  BY <1>6, <1>7, <1>8

-----------------------------------------------------------------------------
(* The steps of the loop.                                                   *)

\* What a step keeps when it handles nothing and the host's stream q stays as
\* it is: messages may go, but a CLSE that q needs only when the link is lost.
LEMMA SameEnds ==
  ASSUME UNCHANGED streams, NEW q, Ends(q),
         host'[q].st = host[q].st, host'[q].local = host[q].local,
         host'[q].unacked = host[q].unacked,
         \A s \in Out' : s \in Out /\ buffers'[s] = buffers[s],
         Calm' => Calm,
         Calm' /\ host[q].st \in {"open", "opening"} => \A l : \A s \in Out :
           buffers[s] = Clse(l, q) /\ (host[q].st = "open" => l = host[q].local) => s \in Out',
         \A i \in Nat : \A cmd \in {"OPEN", "WRTE"} : Asks(i, q, cmd)' => Asks(i, q, cmd),
         \A m \in HostMsgs : \A i \in Nat : Due(i, m) => Due(i, m)'
  PROVE  Ends(q)'
<1>1. \A k : Has(q, k)' <=> Has(q, k)
  BY DEF Has
<1>2. \A k : Names(q, k)' => Names(q, k)
  BY <1>1 DEF Names
<1>3. \A s, cmd : Tells(s, q, cmd)' => Tells(s, q, cmd) /\ buffers'[s] = buffers[s]
  BY DEF Tells
<1>4. OneEnd(q)'
  BY <1>1, <1>2, <1>3 DEF Ends, OneEnd
<1>5. OneClose(q)'
  BY <1>1, <1>3 DEF Ends, OneClose
<1>6. OneOkay(q)'
  BY <1>3 DEF Ends, OneOkay
<1>7. Heeded(q)'
  BY <1>1 DEF Ends, Heeded
<1>8. Answers(q)'
  BY <1>3 DEF Ends, Answers
<1> QED
  BY <1>4, <1>5, <1>6, <1>7, <1>8 DEF Ends

\* One turn of the loop: it hears the messages of got and answers with those of M.
Turn(M, got) ==
  /\ daemon' = "running" /\ UNCHANGED <<kern, bulk_in, host, wire, usb, faults, link>>
  /\ \E j : Commit(j) /\ Puts(Io, j, M)
  /\ Consumes(got) /\ Framed'
  /\ \/ \E l, r : Talks(l, r, M, got)
     \/ \E m : got = {m} /\ Opens(m, M)

\* What the handlers of completions have to show for one.
LEMMA IsTurn ==
  ASSUME NEW c, Handles(c), NEW j, NEW M, NEW got,
         Commit(j), Puts(Io, j, M), Consumes(got), Framed', UNCHANGED <<usb, faults, wire, link>>,
         \/ \E l, r : Talks(l, r, M, got)
         \/ \E m : got = {m} /\ Opens(m, M)
  PROVE  \E N, h : Turn(N, h)
<1>1. daemon' = "running" /\ UNCHANGED <<kern, bulk_in, host, wire, usb, faults, link>>
  BY DEF Handles
<1>2. Turn(M, got)
  BY <1>1 DEF Turn
<1> QED
  BY <1>2

\* A turn of the loop keeps the ends of the streams in order.
LEMMA TurnCloses ==
  ASSUME Inv, Inv', Agree, Closing, NEW M, NEW got, Turn(M, got)
  PROVE  Closing'
<1>1. /\ daemon' = "running" /\ kern' = kern /\ UNCHANGED <<host, wire, usb, faults, link>>
      /\ Consumes(got) /\ Framed'
      /\ \/ \E l, r : Talks(l, r, M, got)
         \/ \E m : got = {m} /\ Opens(m, M)
  BY DEF Turn
<1>2. Sends(M) /\ Linked(sq)' /\ Linked(kern)'
  BY <1>1, PutsSends DEF Closing, Turn
<1>3. TalkKnown /\ \A q \in Remotes : Ends(q)
  BY DEF Closing
<1>4. \A q \in Remotes : Ends(q)'
  BY <1>1, <1>2, <1>3, TalkEnds, OpenEnds
<1>5. TalkKnown'
  <2>1. PICK d \in {0, 1} : \A i \in Nat, m \in HostMsgs : Due(i, m)' => Due(i + d, m)
    BY <1>1 DEF Consumes
  <2>2. \A i \in Nat : i + d \in Nat
    OBVIOUS
  <2>3. \A m \in HostMsgs : \A i \in Nat : Due(i, m)' => \E k \in Nat : Due(k, m)
    BY <2>1, <2>2
  <2> QED BY <1>1, <1>3, <2>3 DEF TalkKnown
<1>6. Online'
  BY <1>1 DEF Closing, Online
<1> QED
  BY <1>1, <1>2, <1>4, <1>5, <1>6 DEF Closing

\* The loop says nothing.
LEMMA TalkNothing ==
  ASSUME Inv, streams' = streams
  PROVE  Talks(0, 0, {}, {})
<1>1. 0 \notin DOMAIN streams
  BY DEF Inv, TypeOK
<1> QED
  BY <1>1 DEF Talks

\* A transfer that is looked at leaves the line.
LEMMA TakeDue ==
  ASSUME Inv, Inv', Framed, NEW c, Handles(c), c \in BulkOuts(batch), c.res = "ok"
  PROVE  /\ \A m : \A i \in Nat : i # 0 /\ Due(i, m)' => Due(i + 1, m)
         /\ \A m : \A i \in Nat : i > 1 /\ Due(i, m) => i - 1 \in Nat /\ Due(i - 1, m)'
         /\ \A m : Due(1, m) <=> /\ bulk_out_buf[1].part = "header" /\ bulk_out_buf[1].ok
                                 /\ bulk_out_buf[1].msg = m
         /\ bulk_out_buf[1] \in Xfers
         /\ (pending_header' # << >> => 1 \in 1..Len(Line') /\ Line'[1].part = "payload")
              => Framed'
<1>1. /\ 1 \in 1..Len(Line) /\ Line[1] = bulk_out_buf[1] /\ Line[1] \in Xfers
      /\ Len(Line') \in Nat /\ Len(Line) = Len(Line') + 1
      /\ \A i \in 1..Len(Line') : i + 1 \in 1..Len(Line) /\ Line'[i] = Line[i + 1]
  BY TakeLine
<1>2. ASSUME NEW i \in Nat, NEW m, i # 0, Due(i, m)'
      PROVE  Due(i + 1, m)
  BY <1>1, <1>2 DEF Due
<1>3. ASSUME NEW i \in Nat, NEW m, i > 1, Due(i, m)
      PROVE  i - 1 \in Nat /\ Due(i - 1, m)'
  <2>1. i \in 1..Len(Line) /\ Line[i].part = "header" /\ Line[i].ok /\ Line[i].msg = m
    BY <1>3 DEF Due
  <2>2. i - 1 \in 1..Len(Line') /\ (i - 1) + 1 = i
    BY <1>1, <1>3, <2>1
  <2>3. Line'[i - 1] = Line[i]
    BY <1>1, <2>2
  <2> QED BY <2>1, <2>2, <2>3 DEF Due
<1>4. \A m : Due(1, m) <=> /\ bulk_out_buf[1].part = "header" /\ bulk_out_buf[1].ok
                           /\ bulk_out_buf[1].msg = m
  BY <1>1 DEF Due
<1>5. ASSUME pending_header' # << >> => 1 \in 1..Len(Line') /\ Line'[1].part = "payload"
      PROVE  Framed'
  <2>1. ASSUME NEW i \in 1..Len(Line'), Line'[i].part = "header", Line'[i].msg.payload # "none"
        PROVE  i + 1 \in 1..Len(Line') /\ Line'[i + 1].part = "payload"
    <3>1. i + 1 \in 1..Len(Line) /\ Line[i + 1] = Line'[i]
      BY <1>1
    <3>2. (i + 1) + 1 \in 1..Len(Line) /\ Line[(i + 1) + 1].part = "payload"
      BY <2>1, <3>1 DEF Framed
    <3>3. i + 1 \in 1..Len(Line')
      BY <1>1, <3>2
    <3> QED BY <1>1, <3>2, <3>3
  <2> QED BY <1>5, <2>1 DEF Framed
<1> QED
  BY <1>1, <1>2, <1>3, <1>4, <1>5

\* A header from the host.
LEMMA BulkOutReadHeaderTurns ==
  ASSUME Inv, Inv', Agree, Closing, NEW c \in batch, BulkOutReadHeader(c), daemon' = "running"
  PROVE  \E M, got : Turn(M, got)
<1> DEFINE t == bulk_out_buf[1]
<1>1. /\ c \in BulkOuts(batch) /\ c.res = "ok" /\ Handles(c) /\ daemon = "running"
      /\ host' = host /\ UNCHANGED <<usb, faults, wire, link>>
  BY TakeHandles DEF BulkOutReadHeader, BulkOuts, Handles, Take, kernVars, hostVars
<1>2. pending_header = << >> /\ Framed
  BY <1>1, TakeLine DEF BulkOutReadHeader, Closing
<1>3. /\ \A m : \A i \in Nat : i # 0 /\ Due(i, m)' => Due(i + 1, m)
      /\ \A m : \A i \in Nat : i > 1 /\ Due(i, m) => i - 1 \in Nat /\ Due(i - 1, m)'
      /\ \A m : Due(1, m) <=> t.part = "header" /\ t.ok /\ t.msg = m
      /\ t \in Xfers
      /\ (pending_header' # << >> => 1 \in 1..Len(Line') /\ Line'[1].part = "payload")
           => Framed'
  BY <1>1, <1>2, TakeDue
<1>4. \A m : ~Due(0, m)
  BY <1>2 DEF Due
<1>5. t.msg \in HostMsgs /\ Io \in IoType /\ Starts(Io) /\ MsgAgrees(t.msg)
  <2>1. bulk_out_buf \in Seq(Xfers) /\ bulk_out_buf # << >>
    BY <1>1 DEF Inv, TypeOK, Fed
  <2>2. 1 \in 1..Len(bulk_out_buf)
    BY <2>1
  <2> QED BY <1>1, <1>3, <2>2, SlotsInUse, LoopStarts DEF Agree, MsgsAgree, Xfers
<1> HIDE DEF t
<1>6. \A i \in Nat : i = 0 \/ i = 1 \/ i > 1
  OBVIOUS
<1>7. CASE Finish(Io) /\ UNCHANGED devVars /\ (t.part = "payload" \/ ~t.ok)
  <2>1. UNCHANGED <<streams, pending_header>>
    BY <1>7 DEF devVars
  <2>2. \A m : ~Due(0, m)' /\ ~Due(1, m)
    BY <1>2, <1>3, <1>7, <2>1 DEF Due
  <2>3. Consumes({})
    BY <1>3, <1>4, <1>6, <2>2 DEF Consumes
  <2>4. \E j : Commit(j) /\ Puts(Io, j, {})
    BY <1>5, <1>7, PutsNothing, PutsFinish
  <2> QED BY <1>1, <1>2, <1>3, <2>1, <2>3, <2>4, TalkNothing, IsTurn
<1>8. CASE /\ t.part = "header" /\ t.ok /\ t.msg.payload # "none" /\ pending_header' = <<t.msg>>
           /\ Commit(Push(Io, ReadPayload)) /\ UNCHANGED <<streams, next_id, version>>
  <2>1. \A m : Due(0, m)' <=> m = t.msg
    BY <1>8 DEF Due
  <2>2. \A m : Due(1, m) <=> m = t.msg
    BY <1>3, <1>8
  <2>3. Consumes({})
    <3>1. \A i \in Nat, m \in HostMsgs : Due(i, m)' => Due(i + 1, m)
      BY <1>3, <2>1, <2>2
    <3>2. \A i \in Nat, m \in HostMsgs : Due(i, m) => \E k \in Nat : Due(k, m)'
      BY <1>3, <1>4, <1>6, <2>1, <2>2
    <3> QED BY <3>1, <3>2 DEF Consumes
  <2>4. Framed'
    <3>1. /\ 1 \in 1..Len(Line) /\ Line[1] = t
          /\ Len(Line') \in Nat /\ Len(Line) = Len(Line') + 1
          /\ \A i \in 1..Len(Line') : i + 1 \in 1..Len(Line) /\ Line'[i] = Line[i + 1]
      BY <1>1, TakeLine DEF t
    <3>2. 1 + 1 \in 1..Len(Line) /\ Line[1 + 1].part = "payload"
      BY <1>2, <1>8, <3>1 DEF Framed
    <3>3. 1 \in 1..Len(Line') /\ Line'[1].part = "payload"
      BY <3>1, <3>2
    <3> QED BY <1>3, <3>3
  <2>5. ReadPayload \in Ops /\ ReadPayload.op = "BulkOutReadPayload"
    BY DEF ReadPayload, Op, Ops, OpTypes
  <2>6. Puts(Io, Push(Io, ReadPayload), {})
    BY <1>5, <2>5, PutsPush
  <2> QED BY <1>1, <1>8, <2>3, <2>4, <2>6, TalkNothing, IsTurn
<1>9. CASE /\ t.part = "header" /\ t.ok
           /\ HandleCommand(Io, t.msg) /\ UNCHANGED pending_header
  <2>1. PICK m \in HostMsgs : m = t.msg
    BY <1>5
  <2>2. Says(Io, m)
    BY <1>5, <1>9, <2>1, CommandSays
  <2>3. \A x : ~Due(0, x)' /\ (Due(1, x) <=> x = m)
    BY <1>2, <1>3, <1>9, <2>1 DEF Due
  <2>4. Consumes({m})
    <3>1. \A i \in Nat, x \in HostMsgs : Due(i, x)' => Due(i + 1, x) /\ i + 1 > 1
      BY <1>3, <2>3
    <3>2. \A i \in Nat, x \in HostMsgs : Due(i, x) => x = m \/ \E k \in Nat : Due(k, x)'
      BY <1>3, <1>4, <1>6, <2>3
    <3>3. Due(1, m)
      BY <2>3
    <3> QED BY <3>1, <3>2, <3>3 DEF Consumes
  <2>5. Framed'
    BY <1>2, <1>3, <1>9
  <2>6. PICK M, j : /\ Commit(j) /\ Puts(Io, j, M)
                    /\ Opens(m, M) \/ (m.cmd # "OPEN" /\ \E l, r : Talks(l, r, M, {m}))
    BY <2>2 DEF Says
  <2> QED BY <1>1, <2>4, <2>5, <2>6, IsTurn
<1> QED
  BY <1>7, <1>8, <1>9, Zenon DEF BulkOutReadHeader, t

\* A payload from the host.
LEMMA BulkOutReadPayloadTurns ==
  ASSUME Inv, Inv', Agree, Flowing, Closing, NEW c \in batch, BulkOutReadPayload(c),
         daemon' = "running"
  PROVE  \E M, got : Turn(M, got)
<1>1. /\ c \in BulkOuts(batch) /\ c.res = "ok" /\ Handles(c) /\ daemon = "running"
      /\ host' = host /\ UNCHANGED <<usb, faults, wire, link>> /\ pending_header' = << >>
  BY TakeHandles DEF BulkOutReadPayload, BulkOuts, Handles, Take, kernVars, hostVars
<1>2. pending_header # << >> /\ Framed /\ TalkKnown
  BY <1>1, TakeLine DEF BulkOutReadPayload, Closing
<1>3. /\ \A m : \A i \in Nat : i # 0 /\ Due(i, m)' => Due(i + 1, m)
      /\ \A m : \A i \in Nat : i > 1 /\ Due(i, m) => i - 1 \in Nat /\ Due(i - 1, m)'
      /\ Framed'
  BY <1>1, <1>2, TakeDue
<1>4. \A m : ~Due(0, m)' /\ ~Due(1, m) /\ (Due(0, m) <=> m = pending_header[1])
  BY <1>1, <1>2 DEF Due, Framed
<1>5. /\ pending_header[1] \in HostMsgs /\ MsgAgrees(pending_header[1])
      /\ pending_header[1].payload # "none"
  <2>1. pending_header[1] \in HostMsgs /\ 1 \in 1..Len(pending_header)
    BY <1>2 DEF Inv, TypeOK
  <2> QED BY <2>1 DEF Agree, MsgsAgree, Flowing, PayloadsDue
<1>6. Io \in IoType /\ Starts(Io) /\ \A i \in Nat : i = 0 \/ i = 1 \/ i > 1
  BY <1>1, SlotsInUse, LoopStarts
<1>7. CASE Finish(Io) /\ UNCHANGED <<streams, next_id, version>>
  <2>1. Consumes({})
    <3>1. \A i \in Nat, m \in HostMsgs : Due(i, m)' => Due(i + 1, m)
      BY <1>3, <1>4
    <3>2. ASSUME NEW i \in Nat, NEW m \in HostMsgs, Due(i, m), m.cmd = "CLSE"
          PROVE  \E k \in Nat : Due(k, m)'
      <4>1. i # 0
        BY <1>2, <1>4, <1>5, <3>2 DEF TalkKnown
      <4> QED BY <1>3, <1>4, <1>6, <3>2, <4>1
    <3> QED BY <3>1, <3>2 DEF Consumes
  <2>2. \E j : Commit(j) /\ Puts(Io, j, {})
    BY <1>6, <1>7, PutsNothing, PutsFinish
  <2> QED BY <1>1, <1>3, <1>7, <2>1, <2>2, TalkNothing, IsTurn
<1>8. CASE HandleCommand(Io, pending_header[1])
  <2>1. PICK m \in HostMsgs : m = pending_header[1]
    BY <1>5
  <2>2. Says(Io, m)
    BY <1>5, <1>6, <1>8, <2>1, CommandSays
  <2>3. Consumes({m})
    <3>1. \A i \in Nat, x \in HostMsgs : Due(i, x)' => Due(i + 1, x) /\ i + 1 > 1
      BY <1>3, <1>4
    <3>2. \A i \in Nat, x \in HostMsgs : Due(i, x) => x = m \/ \E k \in Nat : Due(k, x)'
      BY <1>3, <1>4, <1>6, <2>1
    <3>3. Due(0, m)
      BY <1>4, <2>1
    <3> QED BY <3>1, <3>2, <3>3 DEF Consumes
  <2>4. PICK M, j : /\ Commit(j) /\ Puts(Io, j, M)
                    /\ Opens(m, M) \/ (m.cmd # "OPEN" /\ \E l, r : Talks(l, r, M, {m}))
    BY <2>2 DEF Says
  <2> QED BY <1>1, <1>3, <2>3, <2>4, IsTurn
<1> QED
  BY <1>2, <1>7, <1>8, Zenon DEF BulkOutReadPayload

\* A line that stays consumes nothing.
LEMMA SameConsumes ==
  ASSUME \A i, m : Due(i, m)' <=> Due(i, m)
  PROVE  Consumes({})
<1>1. \A i \in Nat : i + 0 = i
  OBVIOUS
<1> QED
  BY <1>1 DEF Consumes

\* A completion that is not of the bulk-out endpoint leaves the line.
LEMMA OtherLine ==
  ASSUME NEW c, Handles(c), c \notin BulkOuts(batch), pending_header' = pending_header, Framed
  PROVE  Consumes({}) /\ Framed' /\ Line' = Line
<1>1. /\ bulk_out' = bulk_out /\ bulk_out_buf' = bulk_out_buf
      /\ cq' = cq /\ batch' = batch \ {c}
  BY DEF Handles
<1>2. Done' <=> Done
  BY <1>1 DEF Done, BulkOuts
<1> QED
  BY <1>1, <1>2, SameLine, SameConsumes

\* The end of a PTY or a socket is told the host.
LEMMA ReadEndTurns ==
  ASSUME Inv, Inv', Agree, Closing, NEW c \in batch, ReadEnd(c), daemon' = "running"
  PROVE  \E M, got : Turn(M, got)
<1> DEFINE l == c.data
           r == streams[l].remote_id
           x == Clse(l, r)
<1>1. /\ Handles(c) /\ c \notin BulkOuts(batch) /\ streams' = Close(streams, l)
      /\ UNCHANGED <<usb, faults, wire, link>> /\ pending_header' = pending_header
  BY TakeHandles DEF ReadEnd, Reads, BulkOuts, Take, kernVars, hostVars
<1>2. Consumes({}) /\ Framed'
  BY <1>1, OtherLine DEF Closing
<1>3. Io \in IoType /\ l \in Nat /\ 0 \notin DOMAIN streams
  <2>1. Io \in IoType
    BY SlotsInUse
  <2>2. c \in Cqes /\ 0 \notin DOMAIN streams
    BY DEF Inv, TypeOK
  <2> QED BY <2>1, <2>2 DEF Cqes
<1>4. \A k : /\ k \in DOMAIN streams' <=> k \in DOMAIN streams /\ k # l
             /\ k \in DOMAIN streams /\ k # l => streams'[k] = streams[k]
  BY <1>1, Removed
<1>5. CASE l \in DOMAIN streams
  <2>1. r \in Nat
    BY <1>5 DEF Inv, TypeOK, StreamRecords
  <2>2. /\ x \in DevMsgs /\ x.cmd = "CLSE" /\ x.arg0 = l /\ x.arg1 = r /\ x.payload = 0
    BY <1>3, <2>1 DEF Clse, DevMsg, DevMsgs
  <2>3. Commit(SubmitMessage(Io, x))
    BY <1>5 DEF ReadEnd
  <2>4. x = Clse(l, r)
    OBVIOUS
  <2> HIDE DEF x
  <2>5. Puts(Io, SubmitMessage(Io, x), {x})
    BY <1>3, <2>2, PutsMessage
  <2>6. Talks(l, r, {x}, {})
    BY <1>3, <1>4, <1>5, <2>2, <2>4 DEF Talks
  <2> QED BY <1>1, <1>2, <2>3, <2>5, <2>6, IsTurn
<1>6. CASE l \notin DOMAIN streams
  <2>1. Commit(Io) /\ Puts(Io, Io, {})
    BY <1>3, <1>6, PutsNothing DEF ReadEnd
  <2>2. Talks(0, 0, {}, {})
    BY <1>3, <1>4, <1>6 DEF Talks
  <2> QED BY <1>1, <1>2, <2>1, <2>2, IsTurn
<1> QED
  BY <1>5, <1>6

\* Data of a PTY or a socket is sent on its stream.
LEMMA ReadDataTurns ==
  ASSUME Inv, Inv', Agree, Closing, NEW c \in batch, ReadData(c), daemon' = "running"
  PROVE  \E M, got : Turn(M, got)
<1> DEFINE l == c.data
           s == streams[l]
           u == [s EXCEPT !.waiting_for_okay = TRUE, !.tx = @ + 1]
           x == DevMsg("WRTE", l, s.remote_id, s.tx + 1, FALSE)
<1>1. /\ Handles(c) /\ c \notin BulkOuts(batch)
      /\ UNCHANGED <<usb, faults, wire, link>> /\ pending_header' = pending_header
  BY TakeHandles DEF ReadData, Reads, BulkOuts, Take, kernVars, hostVars
<1>2. Consumes({}) /\ Framed'
  BY <1>1, OtherLine DEF Closing
<1>3. Io \in IoType /\ l \in Nat
  BY SlotsInUse DEF Inv, TypeOK, Cqes
<1>4. CASE UNCHANGED <<streams, ioVars>>
  <2>1. Commit(Io) /\ streams' = streams
    BY <1>4 DEF Commit, Io, ioVars
  <2> QED BY <1>1, <1>2, <1>3, <2>1, PutsNothing, TalkNothing, IsTurn
<1>5. CASE /\ l \in DOMAIN streams /\ Commit(SubmitData(Io, l, s))
           /\ streams' = [streams EXCEPT ![l] = u]
  <2>1. s \in StreamRecords
    BY <1>5 DEF Inv, TypeOK
  <2>2. u.remote_id = s.remote_id /\ u.remote_closed = s.remote_closed /\ u.tx = s.tx + 1
    BY <2>1 DEF StreamRecords
  <2>3. /\ x \in DevMsgs /\ x.cmd = "WRTE" /\ x.arg0 = l /\ x.arg1 = s.remote_id
        /\ x.payload = s.tx + 1
    BY <1>3, <2>1 DEF DevMsg, DevMsgs, StreamRecords
  <2>4. Commit(SubmitMessage(Io, x))
    BY <1>5 DEF SubmitData
  <2>5. /\ streams'[l] = u
        /\ \A k : k \in DOMAIN streams' <=> k \in DOMAIN streams
        /\ \A k \in DOMAIN streams : k # l => streams'[k] = streams[k]
    BY <1>5, Replaced
  <2> HIDE DEF x, u
  <2>6. Puts(Io, SubmitMessage(Io, x), {x})
    BY <1>3, <2>3, PutsMessage
  <2>7. Talks(l, s.remote_id, {x}, {})
    BY <1>3, <1>5, <2>2, <2>3, <2>5 DEF Talks
  <2> QED BY <1>1, <1>2, <2>4, <2>6, <2>7, IsTurn
<1>6. \/ UNCHANGED <<streams, ioVars>>
      \/ /\ l \in DOMAIN streams /\ Commit(SubmitData(Io, l, s))
         /\ streams' = [streams EXCEPT ![l].waiting_for_okay = TRUE, ![l].tx = @ + 1]
  BY Zenon DEF ReadData
<1>7. [streams EXCEPT ![l].waiting_for_okay = TRUE, ![l].tx = @ + 1] = [streams EXCEPT ![l] = u]
  OBVIOUS
<1> QED
  BY <1>4, <1>5, <1>6, <1>7

\* An event of ep0 is none of the streams'.
LEMMA Ep0EventTurns ==
  ASSUME Inv, Inv', Agree, Closing, NEW c \in batch, Ep0Event(c), daemon' = "running"
  PROVE  \E M, got : Turn(M, got)
<1>1. /\ Handles(c) /\ c \notin BulkOuts(batch) /\ streams' = streams
      /\ UNCHANGED <<usb, faults, wire, link>> /\ pending_header' = pending_header
  BY DEF Ep0Event, BulkOuts, Handles, hostVars, devVars
<1>2. Consumes({}) /\ Framed'
  BY <1>1, OtherLine DEF Closing
<1>3. Commit(Push(Io, Ep0Poll))
  <2>1. [Io EXCEPT !.daemon = "stopped"].daemon = "stopped"
    BY DEF Io
  <2> QED BY <2>1 DEF Ep0Event, Commit
<1>4. Puts(Io, Push(Io, Ep0Poll), {})
  BY PollIsPoll, SlotsInUse, PutsPush
<1> QED
  BY <1>1, <1>2, <1>3, <1>4, TalkNothing, IsTurn

-----------------------------------------------------------------------------
(* The steps that move what is on its way.                                  *)

\* A step that moves no message past the host or the device.
LEMMA Moves ==
  ASSUME Closing, UNCHANGED <<streams, host, link, pending_header>>, Line' = Line,
         \A s \in Out' : s \in Out /\ buffers'[s] = buffers[s],
         Calm' => Calm /\ \A s \in Out : s \in Out', Linked(sq)', Linked(kern)'
  PROVE  Closing'
<1>1. \A i, m : Due(i, m)' <=> Due(i, m)
  BY DEF Due
<1>2. \A q \in Remotes : Ends(q)'
  <2>1. \A i, q, cmd : Asks(i, q, cmd)' => Asks(i, q, cmd)
    BY <1>1 DEF Asks
  <2> QED BY <1>1, <2>1, SameEnds DEF Closing
<1>3. Framed' /\ TalkKnown' /\ Online'
  BY <1>1 DEF Closing, Framed, TalkKnown, Online
<1> QED
  BY <1>2, <1>3 DEF Closing

\* A write that has completed is no longer on its way.
LEMMA WriteDoneCloses ==
  ASSUME Inv, Closing, NEW c \in batch, WriteDone(c), daemon' = "running"
  PROVE  Closing'
<1>1. /\ Handles(c) /\ c \in Writes(batch) /\ buffers' = Free(buffers, c.data)
      /\ UNCHANGED <<usb, faults, wire, link, streams, host, pending_header, sq, kern>>
  BY TakeHandles DEF WriteDone, Take, kernVars, hostVars, devVars, Handles
<1>2. Line' = Line
  BY <1>1, OtherLine DEF Closing, Writes, BulkOuts
<1>3. \A o \in Writes(sq) \cup Writes(kern) : o.data # c.data /\ o.data \in Slots
  BY <1>1, SlotsInUse DEF Inv, WritesOwnTheirSlot, NoCommonSlot
<1>4. \A s \in Slots : s # c.data => buffers'[s] = buffers[s]
  BY <1>1 DEF Free, Inv, TypeOK
<1>5. \A o \in Writes(sq) \cup Writes(kern) : buffers'[o.data] = buffers[o.data]
  BY <1>3, <1>4
<1>6. Out' = Out /\ \A s \in Out : buffers'[s] = buffers[s]
  BY <1>1, <1>5 DEF Out
<1>7. Linked(sq)' /\ Linked(kern)'
  BY <1>1, <1>5 DEF Closing, Linked
<1> QED
  BY <1>1, <1>2, <1>6, <1>7, Moves DEF Calm

\* What is submitted is on its way.
LEMMA SubmitCloses ==
  ASSUME Inv, Closing, Submit
  PROVE  Closing'
<1>1. /\ daemon = "running" /\ sq' = {} /\ kern' = kern \cup sq
      /\ bulk_out_buf' = IF BulkOuts(sq) = {} THEN bulk_out_buf ELSE << >>
      /\ UNCHANGED <<usb, faults, wire, link, streams, host, pending_header, buffers>>
      /\ UNCHANGED <<cq, batch, bulk_out>>
  BY DEF Submit, hostVars, devVars
<1>2. Line' = Line
  <2>1. Done' <=> Done
    BY <1>1 DEF Done
  <2>2. Done => bulk_out_buf' = bulk_out_buf
    <3>1. ExactlyOne(BulkOuts(sq), BulkOuts(kern), BulkOuts(cq), BulkOuts(batch))
      BY <1>1 DEF Inv, LoopArmed
    <3>2. Done => BulkOuts(sq) = {}
      BY <3>1 DEF Done, ExactlyOne
    <3> QED BY <1>1, <3>2
  <2> QED BY <1>1, <2>1, <2>2, SameLine
<1>3. Writes(sq') = {} /\ Writes(kern') = Writes(sq) \cup Writes(kern)
  BY <1>1 DEF Writes
<1>4. Out' = Out
  BY <1>3 DEF Out
<1>5. Linked(sq)' /\ Linked(kern)'
  BY <1>1, <1>3 DEF Closing, Linked
<1> QED
  BY <1>1, <1>2, <1>4, <1>5, Moves DEF Calm

\* Taking the completions moves nothing.
LEMMA ReapCloses ==
  ASSUME Closing, Reap
  PROVE  Closing'
<1>1. /\ batch = {} /\ batch' = cq /\ cq' = {} /\ UNCHANGED <<bulk_out, bulk_out_buf>>
      /\ UNCHANGED <<usb, faults, wire, link, streams, host, pending_header, buffers, sq, kern>>
  BY DEF Reap, hostVars, devVars, ioVars, kernVars
<1>2. Line' = Line
  BY <1>1, SameLine DEF Done, BulkOuts
<1>3. Out' = Out /\ Linked(sq)' /\ Linked(kern)'
  BY <1>1 DEF Closing, Out, Linked
<1> QED
  BY <1>1, <1>2, <1>3, Moves DEF Calm

\* A poll, a PTY or socket read, or a bulk-out read that fails completes.
LEMMA OtherCompletionCloses ==
  ASSUME Closing, NEW o \in kern, NEW res, o.op # "BulkInWrite",
         o \notin BulkOuts(kern) \/ res = "err", kern' = kern \ {o}, cq' = cq \cup {Cqe(o, res)},
         UNCHANGED <<streams, pending_header, host, bulk_out, bulk_out_buf, link, wire>>,
         UNCHANGED <<buffers, sq, batch, usb, faults>>
  PROVE  Closing'
<1>1. Writes(kern') = Writes(kern) /\ Writes(sq') = Writes(sq)
  BY DEF Writes
<1>2. Out' = Out /\ Linked(sq)' /\ Linked(kern)'
  BY <1>1 DEF Closing, Out, Linked
<1>3. Done' <=> Done
  <2>1. Cqe(o, res) \in BulkOuts(cq') => Cqe(o, res).res # "ok"
    BY CqeSame DEF BulkOuts
  <2> QED BY <2>1 DEF Done, BulkOuts
<1>4. Line' = Line
  BY <1>3, SameLine
<1> QED
  BY <1>2, <1>4, Moves DEF Calm

\* A bulk-out read takes the first transfer of the line.
LEMMA KernelBulkOutCloses ==
  ASSUME Inv, Closing, daemon = "running", NEW o \in kern, KernelBulkOut(o)
  PROVE  Closing'
<1>1. /\ o \in BulkOuts(kern) /\ bulk_out # << >> /\ bulk_out_buf' = <<Head(bulk_out)>>
      /\ bulk_out' = Tail(bulk_out) /\ kern' = kern \ {o} /\ cq' = cq \cup {Cqe(o, "ok")}
      /\ UNCHANGED <<streams, pending_header, host, buffers, sq, batch, link, wire, usb, faults>>
  BY DEF KernelBulkOut, devVars, ioVars
<1>2. Writes(kern') = Writes(kern) /\ Writes(sq') = Writes(sq)
  BY <1>1 DEF Writes, BulkOuts
<1>3. Out' = Out /\ Linked(sq)' /\ Linked(kern)'
  BY <1>1, <1>2 DEF Closing, Out, Linked
<1>4. ~Done
  <2>1. ExactlyOne(BulkOuts(sq), BulkOuts(kern), BulkOuts(cq), BulkOuts(batch))
    BY DEF Inv, LoopArmed
  <2>2. BulkOuts(cq) = {} /\ BulkOuts(batch) = {}
    BY <1>1, <2>1, Zenon DEF ExactlyOne
  <2> QED BY <2>2 DEF Done
<1>5. Done'
  <2>1. Cqe(o, "ok") \in BulkOuts(cq') /\ Cqe(o, "ok").res = "ok"
    BY <1>1, CqeSame DEF BulkOuts
  <2> QED BY <2>1 DEF Done
<1>6. Line' = Line
  <2>1. bulk_out \in Seq(Xfers)
    BY DEF Inv, TypeOK, HostTypeOK
  <2>2. Line' = <<Head(bulk_out)>> \o Tail(bulk_out)
    BY <1>1, <1>5 DEF Line
  <2>3. <<Head(bulk_out)>> \o Tail(bulk_out) = bulk_out
    BY <1>1, <2>1
  <2> QED BY <1>4, <2>2, <2>3 DEF Line
<1> QED
  BY <1>1, <1>3, <1>6, Moves DEF Calm

\* A write that fails may lose a message: the link is no longer calm.
LEMMA KernelWriteFailCloses ==
  ASSUME Inv, Closing, KernelWriteFail
  PROVE  Closing'
<1> DEFINE s == Head(bulk_in)
           gone == {o \in Writes(kern) : s \in {o.data, o.after}}
<1>1. /\ kern' = kern \ gone /\ cq' = cq \cup {Cqe(o, "err") : o \in gone}
      /\ faults' = (IF usb THEN faults + 1 ELSE faults) /\ usb' = usb
      /\ UNCHANGED <<streams, pending_header, host, buffers, sq, batch, link, bulk_out, bulk_out_buf>>
  BY DEF KernelWriteFail, devVars, ioVars
<1>2. s \in Slots /\ s # 0 /\ faults \in Nat
  BY MaxSlotsAssumption DEF KernelWriteFail, Inv, TypeOK, Slots
<1>3. ~Calm'
  BY <1>1, <1>2 DEF Calm
<1>4. Writes(kern') = Writes(kern) \ gone /\ gone \subseteq Writes(kern)
  BY <1>1 DEF Writes
<1>5. \A x \in Out' : x \in Out /\ buffers'[x] = buffers[x]
  BY <1>1, <1>4 DEF Out
<1>6. Linked(sq)'
  BY <1>1 DEF Closing, Linked
<1>7. Linked(kern)'
  <2>1. ASSUME NEW o \in Writes(kern'), o.after # 0
        PROVE  \E p \in Writes(kern') :
                 /\ p.data = o.after /\ p.after = 0
                 /\ buffers[p.data] = buffers[o.data] /\ buffers[o.data].payload # 0
    <3>1. PICK p \in Writes(kern) :
            /\ p.data = o.after /\ p.after = 0
            /\ buffers[p.data] = buffers[o.data] /\ buffers[o.data].payload # 0
      BY <1>4, <2>1 DEF Closing, Linked
    <3>2. p \notin gone
      BY <1>2, <1>4, <2>1, <3>1
    <3> QED BY <1>4, <3>1, <3>2
  <2> QED BY <1>1, <2>1 DEF Linked
<1>8. Done' <=> Done
  <2>1. \A c \in cq' : c \in cq \/ c.op = "BulkInWrite"
    BY <1>1, CqeSame DEF Writes
  <2>2. cq \subseteq cq'
    BY <1>1
  <2> QED BY <1>1, <2>1, <2>2 DEF Done, BulkOuts
<1>9. Line' = Line
  BY <1>1, <1>8, SameLine
<1> QED
  BY <1>1, <1>3, <1>5, <1>6, <1>7, <1>9, Moves

-----------------------------------------------------------------------------
(* The steps of the host.                                                   *)

\* The transfers of a message.
LEMMA TransfersOf ==
  ASSUME NEW m, NEW hok, NEW pok, NEW t, t = Transfers(m, hok, pok)
  PROVE  /\ Len(t) \in {1, 2} /\ (Len(t) = 2 <=> m.payload # "none")
         /\ t[1].part = "header" /\ t[1].ok = hok /\ t[1].msg = m
         /\ Len(t) = 2 => t[2].part = "payload"
<1>1. CASE m.payload = "none"
  BY <1>1 DEF Transfers
<1>2. CASE m.payload # "none"
  BY <1>2 DEF Transfers
<1> QED
  BY <1>1, <1>2

\* Message m comes to be due at place k, after all others.
Appends(m, k) ==
  /\ \A x : \A i \in Nat : Due(i, x) => Due(i, x)' /\ i < k
  /\ \A x : \A i \in Nat : Due(i, x)' => Due(i, x) \/ (i = k /\ x = m)
  /\ Framed'

\* A message the host sends comes last.
LEMMA SendLine ==
  ASSUME Inv, daemon = "running", Framed, NEW m, NEW hok, NEW pok, Resting,
         bulk_out' = bulk_out \o Transfers(m, hok, pok)
  PROVE  \E k \in Nat : Appends(m, k) /\ (hok = TRUE => Due(k, m)')
<1> DEFINE t == Transfers(m, hok, pok)
           n == Len(Line)
<1>1. /\ Line \in Seq(Xfers) /\ bulk_out \in Seq(Xfers)
      /\ Done => bulk_out_buf[1] \in Xfers
  BY LineIs DEF Inv, TypeOK, HostTypeOK
<1>2. PICK S : t \in Seq(S)
  BY TransfersAre
<1>3. PICK T : T = Xfers \cup S
  OBVIOUS
<1>4. Line \in Seq(T) /\ bulk_out \in Seq(T) /\ t \in Seq(T) /\ n \in Nat
  BY <1>1, <1>2, <1>3
<1>5. /\ Len(t) \in {1, 2} /\ (Len(t) = 2 <=> m.payload # "none")
      /\ t[1].part = "header" /\ t[1].ok = hok /\ t[1].msg = m
      /\ Len(t) = 2 => t[2].part = "payload"
  BY TransfersOf
<1>6. bulk_out' = bulk_out \o t
  OBVIOUS
<1> HIDE DEF t
<1>7. Line' = Line \o t
  <2>1. (Done' <=> Done) /\ bulk_out_buf' = bulk_out_buf
    BY DEF Done, Resting
  <2>2. CASE ~Done
    BY <1>6, <2>1, <2>2 DEF Line
  <2>3. CASE Done
    <3>1. <<bulk_out_buf[1]>> \in Seq(T)
      BY <1>1, <1>3, <2>3
    <3>2. (<<bulk_out_buf[1]>> \o bulk_out) \o t = <<bulk_out_buf[1]>> \o (bulk_out \o t)
      BY <1>4, <3>1, ConcatAssociative
    <3> QED BY <1>6, <2>1, <2>3, <3>2 DEF Line
  <2> QED BY <2>2, <2>3
<1>8. /\ Len(Line') = n + Len(t)
      /\ \A i \in 1..n + Len(t) : Line'[i] = IF i <= n THEN Line[i] ELSE t[i - n]
  BY <1>4, <1>7, ConcatProperties
<1>9. /\ \A i \in 1..n : i \in 1..Len(Line') /\ Line'[i] = Line[i]
      /\ n + 1 \in 1..Len(Line') /\ Line'[n + 1] = t[1]
      /\ Len(t) = 2 => n + 2 \in 1..Len(Line') /\ Line'[n + 2] = t[2]
      /\ \A i \in 1..Len(Line') : i \in 1..n \/ i = n + 1 \/ (Len(t) = 2 /\ i = n + 2)
  <2> HIDE DEF n
  <2>1. CASE Len(t) = 1
    BY <1>4, <1>8, <2>1
  <2>2. CASE Len(t) = 2
    BY <1>4, <1>8, <2>2
  <2> QED BY <1>5, <2>1, <2>2
<1>10. pending_header' = pending_header
  BY DEF Resting
<1>0. PICK k \in Nat : k = n + 1
  BY <1>4
<1>11. \A x : \A i \in Nat : Due(i, x) => Due(i, x)' /\ i < k
  BY <1>0, <1>4, <1>9, <1>10 DEF Due
<1>12. ASSUME NEW x, NEW i \in Nat, Due(i, x)'
       PROVE  Due(i, x) \/ (i = k /\ x = m)
  <2>1. CASE i = 0 /\ pending_header' # << >> /\ pending_header'[1] = x
    BY <1>10, <2>1 DEF Due
  <2>2. CASE i \in 1..Len(Line') /\ Line'[i].part = "header" /\ Line'[i].ok /\ Line'[i].msg = x
    BY <1>0, <1>5, <1>9, <2>2 DEF Due
  <2> QED BY <1>12, <2>1, <2>2 DEF Due
<1>13. hok = TRUE => Due(k, m)'
  BY <1>0, <1>5, <1>9 DEF Due
<1>14. Framed'
  <2>1. ASSUME NEW i \in 1..Len(Line'), Line'[i].part = "header", Line'[i].msg.payload # "none"
        PROVE  i + 1 \in 1..Len(Line') /\ Line'[i + 1].part = "payload"
    <3>1. CASE i \in 1..n
      BY <1>9, <2>1, <3>1 DEF Framed
    <3>2. CASE i = n + 1
      <4>1. Len(t) = 2 /\ i + 1 = n + 2
        BY <1>4, <1>5, <1>9, <2>1, <3>2
      <4> QED BY <1>5, <1>9, <4>1
    <3>3. CASE Len(t) = 2 /\ i = n + 2
      BY <1>5, <1>9, <2>1, <3>3
    <3> QED BY <1>9, <3>1, <3>2, <3>3
  <2>2. pending_header' # << >> => 1 \in 1..Len(Line') /\ Line'[1].part = "payload"
    BY <1>9, <1>10 DEF Framed
  <2> QED BY <2>1, <2>2 DEF Framed
<1> QED
  BY <1>11, <1>12, <1>13, <1>14 DEF Appends

\* Nothing on the device's side moves.
LEMMA RestingOut ==
  ASSUME Resting, Closing
  PROVE  Out' = Out /\ buffers' = buffers /\ streams' = streams /\ Linked(sq)' /\ Linked(kern)'
BY DEF Resting, Out, Closing, Linked

\* The host sends what is not about a stream.
LEMMA HostOtherCloses ==
  ASSUME Inv, Closing, daemon = "running", Resting, UNCHANGED <<usb, faults>>,
         HostConnect \/ HostNoise
  PROVE  Closing'
<1>1. host' = host /\ wire' = wire /\ Online'
  BY DEF HostConnect, HostNoise, HostSend, Closing, Online
<1>2. PICK m, hok, pok :
        /\ bulk_out' = bulk_out \o Transfers(m, hok, pok)
        /\ m.cmd \in {"CNXN", "STLS"} \/ (m.cmd = "OPEN" /\ m.arg0 = 0)
  <2>1. \A a, b, p : /\ Message("CNXN", a, b, p).cmd = "CNXN"
                     /\ Message("OPEN", a, b, p).cmd = "OPEN" /\ Message("OPEN", a, b, p).arg0 = a
                     /\ Message("STLS", a, b, p).cmd = "STLS"
    BY DEF Message
  <2>2. CASE HostConnect
    <3>1. PICK v \in Versions : HostSend(Message("CNXN", v, 0, "system"))
      BY <2>2 DEF HostConnect
    <3>2. PICK m : m = Message("CNXN", v, 0, "system")
      OBVIOUS
    <3>3. bulk_out' = bulk_out \o Transfers(m, TRUE, TRUE) /\ m.cmd \in {"CNXN", "STLS"}
      BY <2>1, <3>1, <3>2 DEF HostSend
    <3> QED BY <3>3
  <2>3. CASE HostNoise
    <3>1. \/ \E hok, pok : bulk_out' = bulk_out \o Transfers(Message("OPEN", 0, 0, "unknown"), hok, pok)
          \/ bulk_out' = bulk_out \o Transfers(Message("STLS", 0, 0, "none"), TRUE, TRUE)
      BY <2>3 DEF HostNoise
    <3>2. PICK m, n : m = Message("OPEN", 0, 0, "unknown") /\ n = Message("STLS", 0, 0, "none")
      OBVIOUS
    <3>3. m.cmd = "OPEN" /\ m.arg0 = 0 /\ n.cmd \in {"CNXN", "STLS"}
      BY <2>1, <3>2
    <3>4. \/ \E hok, pok : bulk_out' = bulk_out \o Transfers(m, hok, pok)
          \/ bulk_out' = bulk_out \o Transfers(n, TRUE, TRUE)
      BY <3>1, <3>2
    <3> QED BY <3>3, <3>4
  <2> QED BY <2>2, <2>3
<1>3. /\ \A x : \A i \in Nat : Due(i, x) => Due(i, x)'
      /\ \A x : \A i \in Nat : Due(i, x)' => Due(i, x) \/ x = m
      /\ Framed'
  <2>1. \E k \in Nat : Appends(m, k)
    BY <1>2, SendLine DEF Closing
  <2> QED BY <2>1 DEF Appends
<1>4. /\ Out' = Out /\ buffers' = buffers /\ streams' = streams
      /\ Linked(sq)' /\ Linked(kern)' /\ Calm' = Calm
  BY <1>1, RestingOut DEF Calm
<1>5. TalkKnown'
  BY <1>1, <1>2, <1>3 DEF Closing, TalkKnown
<1>6. ASSUME NEW q \in Remotes
      PROVE  Ends(q)'
  <2>1. q # 0
    BY HostAssumption
  <2>2. \A i \in Nat : \A cmd \in {"OPEN", "WRTE"} : Asks(i, q, cmd)' => Asks(i, q, cmd)
    BY <1>2, <1>3, <2>1 DEF Asks
  <2> QED BY <1>1, <1>3, <1>4, <2>2, SameEnds DEF Closing
<1> QED
  BY <1>1, <1>3, <1>4, <1>5, <1>6 DEF Closing

\* A message on a stream is no request on another.
LEMMA OtherAsks ==
  ASSUME NEW m, NEW q, m.arg0 # q \/ m.cmd \notin {"OPEN", "WRTE"}, NEW n, Appends(m, n)
  PROVE  \A i \in Nat : \A cmd \in {"OPEN", "WRTE"} : Asks(i, q, cmd)' => Asks(i, q, cmd)
BY DEF Asks, Appends

\* A message of kind cmd is asked for again, or it is m that asks for it.
LEMMA NewAsks ==
  ASSUME NEW m, NEW q, NEW n, Appends(m, n)
  PROVE  \A i \in Nat : \A cmd : Asks(i, q, cmd)' => Asks(i, q, cmd) \/ (i = n /\ cmd = m.cmd)
BY DEF Asks, Appends

\* The host opens a stream: it had none of that id.
LEMMA HostOpenCloses ==
  ASSUME Inv, Closing, daemon = "running", Resting, UNCHANGED <<usb, faults>>,
         NEW r \in Remotes, NEW svc \in Services, HostOpen(r, svc)
  PROVE  Closing'
<1>1. PICK m : m = Message("OPEN", r, 0, svc)
  OBVIOUS
<1>2. m.cmd = "OPEN" /\ m.arg0 = r
  BY <1>1 DEF Message
<1>3. /\ bulk_out' = bulk_out \o Transfers(m, TRUE, TRUE) /\ wire' = wire
      /\ link = "online" /\ link' = link /\ host[r].st = "idle"
      /\ host' = [host EXCEPT ![r].st = "opening", ![r].svc = svc]
  BY <1>1 DEF HostOpen, HostSend
<1>0. PICK n \in Nat : Appends(m, n)
  BY <1>3, SendLine DEF Closing
<1>4. /\ \A x : \A i \in Nat : Due(i, x) => Due(i, x)'
      /\ \A x : \A i \in Nat : Due(i, x)' => Due(i, x) \/ (i = n /\ x = m)
      /\ Framed'
  BY <1>0 DEF Appends
<1>5. /\ Out' = Out /\ buffers' = buffers /\ streams' = streams
      /\ Linked(sq)' /\ Linked(kern)' /\ Calm' = Calm
  BY <1>3, RestingOut DEF Calm
<1>6. /\ host'[r].st = "opening" /\ host'[r].local = host[r].local
      /\ host'[r].unacked = host[r].unacked
      /\ \A q \in Remotes : q # r => host'[q] = host[q]
  BY <1>3 DEF Inv, TypeOK, HostTypeOK, HostRecords
<1>7. Ends(r) /\ TalkKnown
  BY DEF Closing
<1>8. TalkKnown'
  BY <1>2, <1>3, <1>4, <1>6, <1>7 DEF TalkKnown
<1>9. Online'
  BY <1>3 DEF Online
<1>10. ASSUME NEW q \in Remotes, q # r
       PROVE  Ends(q)'
  <2>1. \A i \in Nat : \A cmd \in {"OPEN", "WRTE"} : Asks(i, q, cmd)' => Asks(i, q, cmd)
    BY <1>0, <1>2, <1>10, OtherAsks
  <2> QED BY <1>4, <1>5, <1>6, <1>10, <2>1, SameEnds DEF Closing
<1>11. Ends(r)'
  <2>1. \A k : Has(r, k)' <=> Has(r, k)
    BY <1>5 DEF Has
  <2>2. \A k \in Nat : ~Names(r, k) /\ ~Has(r, k)
    BY <1>3, <1>7 DEF Ends, OneEnd, Names
  <2>3. \A k \in Nat : ~Names(r, k)'
    BY <1>5, <1>6, <2>1, <2>2 DEF Names
  <2>4. \A s, cmd : ~Tells(s, r, cmd)'
    <3>1. \A s \in Out : buffers[s].arg0 \in Nat
      BY OutTyped DEF DevMsgs
    <3> QED BY <1>5, <2>2, <3>1 DEF Names, Tells
  <2>5. \A i \in Nat : ~Asks(i, r, "OPEN") /\ ~Asks(i, r, "WRTE")
    BY <1>3, <1>7 DEF Ends, OneEnd, Asks, TalkKnown
  <2>6. \A i \in Nat : ~Asks(i, r, "WRTE")' /\ (Asks(i, r, "OPEN")' => i = n)
    <3>1. \A i \in Nat : \A cmd : Asks(i, r, cmd)' => Asks(i, r, cmd) \/ (i = n /\ cmd = m.cmd)
      BY <1>0, NewAsks
    <3> QED BY <1>2, <2>5, <3>1
  <2>7. OneEnd(r)'
    BY <1>3, <1>6, <1>7, <2>3, <2>4, <2>6 DEF Ends, OneEnd
  <2>8. OneClose(r)' /\ OneOkay(r)'
    BY <1>6, <2>4, <2>6 DEF OneClose, OneOkay
  <2>9. Heeded(r)' /\ Answers(r)'
    BY <1>6, <2>4 DEF Heeded, Answers
  <2> QED BY <2>7, <2>8, <2>9 DEF Ends
<1> QED
  BY <1>4, <1>5, <1>8, <1>9, <1>10, <1>11 DEF Closing

\* The host sends message m on its open stream r, which becomes h.
LEMMA HostTalks ==
  ASSUME Inv, Closing, daemon = "running", Resting, UNCHANGED <<usb, faults, link, wire>>,
         NEW r \in Remotes, NEW h, NEW m \in HostMsgs, host' = [host EXCEPT ![r] = h],
         bulk_out' = bulk_out \o Transfers(m, TRUE, TRUE),
         m.arg0 = r, m.arg1 = host[r].local, m.cmd \in {"OKAY", "WRTE", "CLSE"},
         m.cmd = "CLSE" => m.payload = "none" /\ h.st = "closed",
         host[r].st \in {"open", "closing"}, h.local = host[r].local,
         m.cmd # "CLSE" => h.st = host[r].st,
         m.cmd # "WRTE" => h.unacked = host[r].unacked,
         m.cmd = "WRTE" => host[r].st = "open" /\ ~host[r].unacked /\ h.unacked
  PROVE  Closing'
<1>0. PICK n \in Nat : Appends(m, n) /\ Due(n, m)'
  BY SendLine DEF Closing
<1>1. /\ \A x : \A i \in Nat : Due(i, x) => Due(i, x)'
      /\ \A x : \A i \in Nat : Due(i, x)' => Due(i, x) \/ (i = n /\ x = m)
      /\ Framed'
  BY <1>0 DEF Appends
<1>2. /\ Out' = Out /\ buffers' = buffers /\ streams' = streams
      /\ Linked(sq)' /\ Linked(kern)' /\ Calm' = Calm
  BY RestingOut DEF Calm
<1>3. host'[r] = h /\ \A q \in Remotes : q # r => host'[q] = host[q]
  BY DEF Inv, TypeOK, HostTypeOK
<1>4. Ends(r) /\ TalkKnown /\ host[r].local # 0
  BY DEF Closing, Ends, OneEnd
<1>5. TalkKnown'
  BY <1>1, <1>3, <1>4 DEF TalkKnown
<1>6. Online'
  BY <1>3 DEF Closing, Online
<1>7. ASSUME NEW q \in Remotes, q # r
      PROVE  Ends(q)'
  <2>1. \A i \in Nat : \A cmd \in {"OPEN", "WRTE"} : Asks(i, q, cmd)' => Asks(i, q, cmd)
    BY <1>0, <1>7, OtherAsks
  <2> QED BY <1>1, <1>2, <1>3, <1>7, <2>1, SameEnds DEF Closing
<1>8. CASE m.cmd = "OKAY"
  <2>1. \A i \in Nat : \A cmd \in {"OPEN", "WRTE"} : Asks(i, r, cmd)' => Asks(i, r, cmd)
    BY <1>0, <1>8, OtherAsks
  <2>2. Ends(r)'
    BY <1>1, <1>2, <1>3, <1>4, <1>8, <2>1, SameEnds
  <2> QED BY <1>1, <1>2, <1>5, <1>6, <1>7, <2>2 DEF Closing
<1>9. CASE m.cmd \in {"WRTE", "CLSE"}
  <2>1. \A k : (Has(r, k)' <=> Has(r, k)) /\ (Names(r, k)' <=> Names(r, k))
    BY <1>2, <1>3 DEF Has, Names
  <2>2. \A s, cmd : Tells(s, r, cmd)' <=> Tells(s, r, cmd)
    BY <1>2 DEF Tells
  <2>3. \A i \in Nat : /\ Asks(i, r, "OPEN")' => Asks(i, r, "OPEN")
                       /\ Asks(i, r, "WRTE")' => Asks(i, r, "WRTE")
                            \/ (m.cmd = "WRTE" /\ i = n)
    <3>1. \A i \in Nat : \A cmd : Asks(i, r, cmd)' => Asks(i, r, cmd) \/ (i = n /\ cmd = m.cmd)
      BY <1>0, NewAsks
    <3> QED BY <1>9, <3>1
  <2>4. OneEnd(r)'
    BY <1>2, <1>3, <1>4, <1>9, <2>1, <2>2, <2>3 DEF Ends, OneEnd
  <2>5. OneClose(r)'
    BY <1>3, <1>4, <1>9, <2>1, <2>2 DEF Ends, OneClose
  <2>6. OneOkay(r)'
    <3>1. CASE m.cmd = "CLSE"
      BY <1>3, <1>4, <2>2, <2>3, <3>1 DEF Ends, OneOkay
    <3>2. CASE m.cmd = "WRTE"
      <4>1. (\A i \in Nat : ~Asks(i, r, "WRTE")) /\ \A s \in Slots : ~Tells(s, r, "OKAY")
        BY <1>4, <3>2 DEF Ends, OneOkay
      <4> QED BY <1>3, <2>2, <2>3, <3>2, <4>1 DEF OneOkay
    <3> QED BY <1>9, <3>1, <3>2
  <2>7. Heeded(r)'
    BY <1>0, <1>1, <1>3, <1>9 DEF Heeded
  <2>8. Answers(r)'
    BY <1>2, <1>3, <1>4, <1>9 DEF Ends, Answers
  <2>9. Ends(r)'
    BY <2>4, <2>5, <2>6, <2>7, <2>8 DEF Ends
  <2> QED BY <1>1, <1>2, <1>5, <1>6, <1>7, <2>9 DEF Closing
<1> QED
  BY <1>8, <1>9

\* The host writes to, acknowledges or closes a stream.
LEMMA HostStreamCloses ==
  ASSUME Inv, Closing, daemon = "running", Resting, UNCHANGED <<usb, faults>>,
         NEW r \in Remotes, HostWrite(r) \/ HostAck(r) \/ HostClose(r)
  PROVE  Closing'
<1>1. /\ host[r] \in HostRecords /\ host[r].local \in Nat /\ r \in Nat
      /\ Requests \subseteq Payloads /\ "bytes" \in Payloads /\ "none" \in Payloads
  BY HostAssumption DEF Inv, TypeOK, HostTypeOK, HostRecords, Payloads
<1>2. ASSUME NEW cmd \in {"OKAY", "WRTE", "CLSE"}, NEW p \in Payloads, NEW m,
             m = Message(cmd, r, host[r].local, p)
      PROVE  m \in HostMsgs /\ m.arg0 = r /\ m.arg1 = host[r].local /\ m.cmd = cmd /\ m.payload = p
  BY <1>1, <1>2 DEF HostMsgs, Message
<1>3. CASE HostWrite(r)
  <2>1. /\ host[r].st = "open" /\ ~host[r].unacked /\ link' = link
    BY <1>3 DEF HostWrite
  <2>2. PICK p \in Payloads :
          /\ HostSend(Message("WRTE", r, host[r].local, p))
          /\ \E n, w : host' = [host EXCEPT ![r] =
                           [host[r] EXCEPT !.unacked = TRUE, !.sent = n, !.mode = w]]
    <3>1. CASE /\ HostSend(Message("WRTE", r, host[r].local, "bytes"))
               /\ host' = [host EXCEPT ![r].unacked = TRUE, ![r].sent = @ + 1]
      <4>1. [host[r] EXCEPT !.unacked = TRUE, !.sent = @ + 1] =
              [host[r] EXCEPT !.unacked = TRUE, !.sent = host[r].sent + 1, !.mode = host[r].mode]
        BY <1>1 DEF HostRecords
      <4>2. host' = [host EXCEPT ![r] = [host[r] EXCEPT !.unacked = TRUE, !.sent = @ + 1]]
        BY <3>1
      <4>3. host' = [host EXCEPT ![r] =
              [host[r] EXCEPT !.unacked = TRUE, !.sent = host[r].sent + 1, !.mode = host[r].mode]]
        BY <4>1, <4>2
      <4>4. \E n, w : host' = [host EXCEPT ![r] =
                        [host[r] EXCEPT !.unacked = TRUE, !.sent = n, !.mode = w]]
        BY <4>3, Zenon
      <4> QED BY <1>1, <3>1, <4>4, Zenon
    <3>2. ASSUME NEW req \in Requests, HostSend(Message("WRTE", r, host[r].local, req)),
                 host' = [host EXCEPT ![r].unacked = TRUE, ![r].sent = @ + 1, ![r].mode = Mode(req)]
          PROVE  \E p \in Payloads :
                   /\ HostSend(Message("WRTE", r, host[r].local, p))
                   /\ \E n, w : host' = [host EXCEPT ![r] =
                                    [host[r] EXCEPT !.unacked = TRUE, !.sent = n, !.mode = w]]
      <4>1. host' = [host EXCEPT ![r] =
              [host[r] EXCEPT !.unacked = TRUE, !.sent = host[r].sent + 1, !.mode = Mode(req)]]
        BY <3>2
      <4>2. \E n, w : host' = [host EXCEPT ![r] =
                        [host[r] EXCEPT !.unacked = TRUE, !.sent = n, !.mode = w]]
        BY <4>1, Zenon
      <4>3. req \in Payloads
        BY <1>1
      <4> QED BY <3>2, <4>2, <4>3, Zenon
    <3> QED BY <1>3, <3>1, <3>2, Zenon DEF HostWrite
  <2>3. PICK h, m : /\ host' = [host EXCEPT ![r] = h]
                    /\ h.st = "open" /\ h.unacked /\ h.local = host[r].local
                    /\ m = Message("WRTE", r, host[r].local, p)
    <3>1. PICK n, w : host' = [host EXCEPT ![r] =
                        [host[r] EXCEPT !.unacked = TRUE, !.sent = n, !.mode = w]]
      BY <2>2
    <3>2. PICK h : h = [host[r] EXCEPT !.unacked = TRUE, !.sent = n, !.mode = w]
      OBVIOUS
    <3>3. h.st = "open" /\ h.unacked /\ h.local = host[r].local
      BY <1>1, <2>1, <3>2 DEF HostRecords
    <3> QED BY <3>1, <3>2, <3>3
  <2>4. h.st = "open" /\ h.unacked /\ h.local = host[r].local
    BY <2>3
  <2>5. m \in HostMsgs /\ m.arg0 = r /\ m.arg1 = host[r].local /\ m.cmd = "WRTE"
    BY <1>2, <2>3
  <2>6. /\ host' = [host EXCEPT ![r] = h] /\ wire' = wire
        /\ bulk_out' = bulk_out \o Transfers(m, TRUE, TRUE)
    BY <2>2, <2>3 DEF HostSend
  <2> QED BY <2>1, <2>4, <2>5, <2>6, HostTalks
<1>4. CASE HostAck(r)
  <2>1. PICK h, m : /\ h = [host[r] EXCEPT !.acked = @ + 1]
                    /\ m = Message("OKAY", r, host[r].local, "none")
    OBVIOUS
  <2>2. /\ host[r].st = "open" /\ host' = [host EXCEPT ![r] = h] /\ wire' = wire /\ link' = link
        /\ bulk_out' = bulk_out \o Transfers(m, TRUE, TRUE)
    BY <1>4, <2>1 DEF HostAck, HostSend
  <2>3. h.st = "open" /\ h.unacked = host[r].unacked /\ h.local = host[r].local
    BY <1>1, <2>1, <2>2 DEF HostRecords
  <2>4. m \in HostMsgs /\ m.arg0 = r /\ m.arg1 = host[r].local /\ m.cmd = "OKAY"
    BY <1>1, <1>2, <2>1
  <2> QED BY <2>2, <2>3, <2>4, HostTalks
<1>5. CASE HostClose(r)
  <2>1. PICK h, m : /\ h = [host[r] EXCEPT !.st = "closed"]
                    /\ m = Message("CLSE", r, host[r].local, "none")
    OBVIOUS
  <2>2. /\ host[r].st \in {"open", "closing"} /\ host' = [host EXCEPT ![r] = h]
        /\ wire' = wire /\ link' = link /\ bulk_out' = bulk_out \o Transfers(m, TRUE, TRUE)
    BY <1>5, <2>1 DEF HostClose, HostSend
  <2>3. h.st = "closed" /\ h.unacked = host[r].unacked /\ h.local = host[r].local
    BY <1>1, <2>1 DEF HostRecords
  <2>4. /\ m \in HostMsgs /\ m.arg0 = r /\ m.arg1 = host[r].local /\ m.cmd = "CLSE"
        /\ m.payload = "none"
    BY <1>1, <1>2, <2>1
  <2> QED BY <2>2, <2>3, <2>4, HostTalks
<1> QED
  BY <1>3, <1>4, <1>5

-----------------------------------------------------------------------------
(* A write that reaches the host.                                           *)

\* What the host makes of a message: its stream stays as it is, or it opens,
\* is refused, is acknowledged or closes; or the message has no place.
LEMMA ReceivedIs ==
  ASSUME NEW h \in HostRecords, NEW m \in DevMsgs, NEW g, g = Received(h, m)
  PROVE  \/ /\ g.st = h.st /\ g.local = h.local /\ g.unacked = h.unacked
            /\ h.st = "open" /\ m.cmd = "CLSE" => m.arg0 # h.local
            /\ h.st = "opening" => m.cmd \notin {"OKAY", "CLSE"}
            /\ \/ g.bad = h.bad
               \/ /\ h.st # "closed" /\ ~(h.st = "closing" /\ m.cmd = "OKAY")
                  /\ h.st = "open" /\ m.arg0 = h.local =>
                       m.cmd \notin {"WRTE", "CLSE"} /\ (m.cmd = "OKAY" => ~h.unacked)
         \/ /\ h.st = "opening" /\ m.cmd = "OKAY" /\ g.st = "open" /\ g.local = m.arg0
            /\ g.unacked = h.unacked /\ g.bad = h.bad
         \/ /\ h.st = "opening" /\ m.cmd = "CLSE" /\ g.st = "closed" /\ g.local = h.local
            /\ g.unacked = h.unacked /\ g.bad = h.bad
         \/ /\ h.st = "open" /\ m.cmd = "OKAY" /\ m.arg0 = h.local /\ g.st = "open"
            /\ g.local = h.local /\ ~g.unacked /\ g.bad = h.bad
         \/ /\ h.st = "open" /\ m.cmd = "CLSE" /\ m.arg0 = h.local /\ g.st = "closing"
            /\ g.local = h.local /\ g.unacked = h.unacked /\ g.bad = h.bad
<1>1. CASE h.st = "closed" \/ (h.st = "closing" /\ m.cmd = "OKAY")
  BY <1>1 DEF Received
<1>2. CASE h.st = "opening" /\ m.cmd = "OKAY"
  <2>1. g = [h EXCEPT !.st = "open", !.local = m.arg0]
    BY <1>2 DEF Received
  <2> QED BY <1>2, <2>1 DEF HostRecords
<1>3. CASE h.st = "opening" /\ m.cmd = "CLSE"
  <2>1. g = [h EXCEPT !.st = "closed"]
    BY <1>3 DEF Received
  <2> QED BY <1>3, <2>1 DEF HostRecords
<1>4. CASE h.st = "open" /\ m.arg0 = h.local /\ m.cmd = "OKAY" /\ h.unacked
  <2>1. g = [h EXCEPT !.unacked = FALSE]
    BY <1>4 DEF Received
  <2> QED BY <1>4, <2>1 DEF HostRecords
<1>5. CASE h.st = "open" /\ m.arg0 = h.local /\ m.cmd = "WRTE"
  <2>1. \E w : g = [h EXCEPT !.got = m.payload, !.mode = w]
    BY <1>5 DEF Received
  <2>2. g.st = h.st /\ g.local = h.local /\ g.unacked = h.unacked /\ g.bad = h.bad
    BY <2>1 DEF HostRecords
  <2> QED BY <1>5, <2>2
<1>6. CASE h.st = "open" /\ m.arg0 = h.local /\ m.cmd = "CLSE"
  <2>1. g = [h EXCEPT !.st = "closing"]
    BY <1>6 DEF Received
  <2> QED BY <1>6, <2>1 DEF HostRecords
<1>7. CASE /\ h.st # "closed" /\ ~(h.st = "closing" /\ m.cmd = "OKAY")
           /\ ~(h.st = "opening" /\ m.cmd \in {"OKAY", "CLSE"})
           /\ h.st = "open" /\ m.arg0 = h.local =>
                m.cmd \notin {"WRTE", "CLSE"} /\ (m.cmd = "OKAY" => ~h.unacked)
  <2>1. g = [h EXCEPT !.bad = TRUE]
    BY <1>7 DEF Received
  <2>2. g.st = h.st /\ g.local = h.local /\ g.unacked = h.unacked
    BY <2>1 DEF HostRecords
  <2> QED BY <1>7, <2>2
<1> QED
  BY <1>1, <1>2, <1>3, <1>4, <1>5, <1>6, <1>7

\* The write of slot s is no longer on its way; the others are.
LEMMA WriteOut ==
  ASSUME Inv, Flowing, NEW i \in DOMAIN bulk_in, KernelWrite(i), NEW s, s = bulk_in[i]
  PROVE  /\ s \in Out /\ s # 0 /\ buffers' = buffers /\ sq' = sq /\ Relinked(s)
         /\ \A t : t \in Out' <=> t \in Out /\ t # s
<1>1. Relinked(s) /\ buffers' = buffers /\ sq' = sq
  BY WriteLeaves DEF KernelWrite, ioVars
<1>2. PICK o \in Writes(kern) : o.data = s
  <2>1. i \in 1..Len(bulk_in)
    BY DEF Inv, TypeOK
  <2> QED BY <2>1 DEF Flowing, Queued
<1>3. s \in Out /\ s # 0
  BY <1>2, OutTyped
<1>4. \A p \in Writes(sq) : p.data # s
  BY <1>2 DEF Inv, WritesOwnTheirSlot, NoCommonSlot
<1>5. \A t : t \in Out' <=> \E p \in Writes(sq) \cup Writes(kern') : p.data = t
  BY <1>1 DEF Out
<1>6. \A t : t \in Out <=> \E p \in Writes(sq) \cup Writes(kern) : p.data = t
  BY DEF Out
<1> QED
  BY <1>1, <1>3, <1>4, <1>5, <1>6 DEF Relinked

\* Payloads that wait still wait for the header of their message.
LEMMA LinkedStays ==
  ASSUME Linked(kern), Linked(sq), NEW s, Relinked(s), buffers' = buffers, sq' = sq, s # 0
  PROVE  Linked(kern)' /\ Linked(sq)'
<1>1. ASSUME NEW p \in Writes(kern'), p.after # 0
      PROVE  \E q \in Writes(kern') : /\ q.data = p.after /\ q.after = 0
                                      /\ buffers[q.data] = buffers[p.data]
                                      /\ buffers[p.data].payload # 0
  <2>1. PICK o \in Writes(kern) : /\ o.data = p.data /\ o.data # s
                                  /\ p.after = IF o.after = s THEN 0 ELSE o.after
    BY DEF Relinked
  <2>2. o.after # s /\ o.after = p.after
    BY <1>1, <2>1
  <2>3. PICK q \in Writes(kern) : /\ q.data = o.after /\ q.after = 0
                                  /\ buffers[q.data] = buffers[o.data]
                                  /\ buffers[o.data].payload # 0
    BY <1>1, <2>2 DEF Linked
  <2>4. PICK x \in Writes(kern') : x.data = q.data /\ x.after = IF q.after = s THEN 0 ELSE q.after
    BY <2>2, <2>3 DEF Relinked
  <2> QED BY <2>1, <2>2, <2>3, <2>4
<1> QED
  BY <1>1 DEF Linked

\* What is kept when message m, whose slot s it leaves, is delivered to q.
LEMMA DeliveredEnds ==
  ASSUME Inv, TalkKnown, NEW q \in Remotes, Ends(q), NEW s \in Out, NEW m, m = buffers[s], m.arg1 = q,
         host'[q] = Received(host[q], m), UNCHANGED <<streams, buffers>>,
         \A t : t \in Out' <=> t \in Out /\ t # s, Calm' => Calm,
         \A i, x : Due(i, x)' <=> Due(i, x)
  PROVE  /\ Ends(q)'
         /\ host[q].st = "idle" <=> host'[q].st = "idle"
         /\ host[q].st \in {"open", "closing", "closed"} =>
              host'[q].st \in {"open", "closing", "closed"} /\ host'[q].local = host[q].local
<1> DEFINE h == host[q]
           g == host'[q]
<1>1. h \in HostRecords /\ m \in DevMsgs /\ m.arg0 \in Nat /\ s \in Slots
  BY OutTyped DEF Inv, TypeOK, HostTypeOK, DevMsgs
<1>2. /\ \A k : Has(q, k)' <=> Has(q, k)
      /\ \A t, cmd : Tells(t, q, cmd)' => Tells(t, q, cmd) /\ t # s
      /\ \A i, cmd : Asks(i, q, cmd)' <=> Asks(i, q, cmd)
  BY DEF Has, Tells, Asks
<1>3. Names(q, m.arg0) /\ Tells(s, q, m.cmd)
  BY DEF Names, Tells
<1>4. \A k : k # 0 /\ Names(q, k)' => Names(q, k) \/ k = g.local
  BY <1>2 DEF Names
<1>5. g.local = h.local => \A k : Names(q, k)' => Names(q, k)
  BY <1>2 DEF Names
<1>6. h.st \in {"idle", "opening"} => \A i \in Nat : ~Asks(i, q, "WRTE")
  BY DEF TalkKnown, Asks
<1>7. \A i \in Nat : ~Asks(i, q, "OPEN")
  BY <1>1, <1>3 DEF Ends, OneEnd
<1>8. CASE /\ g.st = h.st /\ g.local = h.local /\ g.unacked = h.unacked
           /\ h.st = "open" /\ m.cmd = "CLSE" => m.arg0 # h.local
           /\ h.st = "opening" => m.cmd \notin {"OKAY", "CLSE"}
  <2>1. \A l : m = Clse(l, q) => m.cmd = "CLSE" /\ m.arg0 = l
    BY DEF Clse, DevMsg
  <2>2. Calm' /\ h.st \in {"open", "opening"} => \A l : \A t \in Out :
           buffers[t] = Clse(l, q) /\ (h.st = "open" => l = h.local) => t \in Out'
    BY <1>8, <2>1
  <2>3. \A x \in HostMsgs : \A i \in Nat : Due(i, x) => Due(i, x)'
    OBVIOUS
  <2>4. Ends(q)'
    BY <1>2, <1>8, <2>2, <2>3, SameEnds
  <2> QED BY <1>8, <2>4
<1>9. CASE /\ h.st = "opening" /\ m.cmd = "OKAY" /\ g.st = "open" /\ g.local = m.arg0
           /\ g.unacked = h.unacked
  <2>1. m.arg0 # 0
    BY <1>1, <1>3, <1>9 DEF Ends, OneEnd
  <2>2. \A k : Names(q, k)' => Names(q, k)
    BY <1>2, <1>3, <1>9 DEF Names
  <2>3. OneEnd(q)'
    BY <1>2, <1>7, <1>9, <2>1, <2>2 DEF Ends, OneEnd
  <2>4. OneClose(q)'
    BY <1>2, <1>9 DEF Ends, OneClose
  <2>5. OneOkay(q)'
    BY <1>1, <1>2, <1>3, <1>6, <1>9 DEF Ends, OneOkay
  <2>6. Heeded(q)'
    BY <1>9 DEF Heeded
  <2>7. Answers(q)'
    <3>1. \A t : buffers[t] = Clse(m.arg0, q) => t # s
      BY <1>9 DEF Clse, DevMsg
    <3>2. Calm /\ m.arg0 \notin DOMAIN streams => \E t \in Out : buffers[t] = Clse(m.arg0, q)
      BY <1>1, <1>3, <1>9 DEF Ends, Answers
    <3> QED BY <1>9, <3>1, <3>2 DEF Answers
  <2> QED BY <1>9, <2>3, <2>4, <2>5, <2>6, <2>7 DEF Ends
<1>10. CASE /\ h.st = "opening" /\ m.cmd = "CLSE" /\ g.st = "closed" /\ g.local = h.local
            /\ g.unacked = h.unacked
  <2>1. OneEnd(q)'
    BY <1>2, <1>5, <1>7, <1>10 DEF Ends, OneEnd
  <2>2. OneClose(q)' /\ OneOkay(q)'
    BY <1>2, <1>6, <1>10 DEF Ends, OneClose, OneOkay
  <2>3. Heeded(q)'
    BY <1>1, <1>2, <1>3, <1>10 DEF Ends, OneClose, Heeded
  <2>4. Answers(q)'
    BY <1>10 DEF Answers
  <2> QED BY <1>10, <2>1, <2>2, <2>3, <2>4 DEF Ends
<1>11. CASE /\ h.st = "open" /\ m.cmd = "OKAY" /\ m.arg0 = h.local /\ g.st = "open"
            /\ g.local = h.local /\ ~g.unacked
  <2>1. OneEnd(q)'
    BY <1>2, <1>5, <1>7, <1>11 DEF Ends, OneEnd
  <2>2. OneClose(q)'
    BY <1>2, <1>11 DEF Ends, OneClose
  <2>3. OneOkay(q)'
    BY <1>1, <1>2, <1>3, <1>11 DEF Ends, OneOkay
  <2>4. Heeded(q)'
    BY <1>11 DEF Heeded
  <2>5. Answers(q)'
    <3>1. \A t, l : buffers[t] = Clse(l, q) => t # s
      BY <1>11 DEF Clse, DevMsg
    <3> QED BY <1>11, <3>1 DEF Ends, Answers
  <2> QED BY <1>11, <2>1, <2>2, <2>3, <2>4, <2>5 DEF Ends
<1>12. CASE /\ h.st = "open" /\ m.cmd = "CLSE" /\ m.arg0 = h.local /\ g.st = "closing"
            /\ g.local = h.local /\ g.unacked = h.unacked
  <2>1. OneEnd(q)'
    BY <1>2, <1>5, <1>7, <1>12 DEF Ends, OneEnd
  <2>2. OneClose(q)'
    BY <1>1, <1>2, <1>3, <1>12 DEF Ends, OneClose
  <2>3. OneOkay(q)'
    BY <1>2, <1>12 DEF Ends, OneOkay
  <2>4. Heeded(q)' /\ Answers(q)'
    BY <1>12 DEF Heeded, Answers
  <2> QED BY <1>12, <2>1, <2>2, <2>3, <2>4 DEF Ends
<1>13. g = Received(h, m)
  OBVIOUS
<1> HIDE DEF h, g
<1> QED
  BY <1>1, <1>8, <1>9, <1>10, <1>11, <1>12, <1>13, ReceivedIs DEF h, g

\* What becomes of a transfer: it completes the message of slot s for the host,
\* or no stream of the host changes and what is told is not a CLSE that counts.
LEMMA HostReadIs ==
  ASSUME Inv, NEW s, NEW n, HostRead(s, n, buffers[s])
  PROVE  /\ wire.torn => wire'.torn
         /\ \/ /\ host' = host /\ (link' = link \/ link' = "online")
               /\ wire'.torn \/ n # 0 \/ buffers[s].cmd = "CNXN" \/ link # "online"
            \/ /\ link' = link /\ link = "online" /\ n = 0
               /\ host' = [r \in Remotes |-> IF r = buffers[s].arg1
                                             THEN Received(host[r], buffers[s]) ELSE host[r]]
<1>1. wire \in [expect : Nat, torn : BOOLEAN]
  BY DEF Inv, TypeOK, HostTypeOK
<1>2. CASE wire.torn /\ UNCHANGED <<host, link, wire>>
  BY <1>2
<1>3. CASE /\ ~wire.torn /\ wire' = [wire EXCEPT !.expect = n]
           /\ IF n = 0 THEN Deliver(buffers[s]) ELSE UNCHANGED <<host, link>>
  BY <1>1, <1>3 DEF Deliver
<1>4. CASE ~wire.torn /\ wire' = [wire EXCEPT !.torn = TRUE] /\ UNCHANGED <<host, link>>
  BY <1>1, <1>4
<1> QED
  BY <1>2, <1>3, <1>4, Zenon DEF HostRead

\* A write that reaches the host.
LEMMA KernelWriteCloses ==
  ASSUME Inv, Inv', Agree, Flowing, Closing, NEW i \in DOMAIN bulk_in, KernelWrite(i),
         daemon = "running"
  PROVE  Closing'
<1>1. PICK s : s = bulk_in[i]
  OBVIOUS
<1>2. /\ UNCHANGED <<streams, pending_header, buffers, sq, batch>>
      /\ UNCHANGED <<bulk_out, bulk_out_buf, usb, faults>>
  BY DEF KernelWrite, devVars, ioVars
<1>3. /\ s \in Out /\ s # 0 /\ Relinked(s) /\ \A t : t \in Out' <=> t \in Out /\ t # s
      /\ BulkOuts(cq') = BulkOuts(cq)
  BY <1>1, WriteOut, WriteLeaves
<1>4. Linked(kern)' /\ Linked(sq)'
  BY <1>2, <1>3, LinkedStays DEF Closing
<1>5. /\ \A k, m : Due(k, m)' <=> Due(k, m)
      /\ Framed'
  <2>1. Done' <=> Done
    BY <1>2, <1>3 DEF Done
  <2> QED BY <1>2, <2>1, SameLine DEF Closing
<1>6. \E n : /\ HostRead(s, n, buffers[s])
             /\ n # 0 => buffers[s].payload # 0
  <2>1. CASE HostRead(s, 0, buffers[s])
    BY <2>1
  <2>2. CASE \E p \in {o \in kern : o.after = s} : HostRead(s, p.data, buffers[s])
    <3>1. PICK p \in kern : p.after = s /\ HostRead(s, p.data, buffers[s])
      BY <2>2
    <3>2. p \in Writes(kern)
      BY <1>3, <3>1 DEF Inv, TypeOK, Ops, Writes
    <3>3. buffers[s].payload # 0
      BY <1>3, <3>1, <3>2 DEF Closing, Linked
    <3> QED BY <3>1, <3>3
  <2> QED BY <1>1, <2>1, <2>2, Zenon DEF KernelWrite
<1>7. /\ wire.torn => wire'.torn
      /\ \/ /\ host' = host /\ (link' = link \/ link' = "online")
            /\ \/ wire'.torn \/ buffers[s].payload # 0
               \/ buffers[s].cmd = "CNXN" \/ link # "online"
         \/ /\ link' = link /\ link = "online"
            /\ host' = [r \in Remotes |-> IF r = buffers[s].arg1
                                          THEN Received(host[r], buffers[s]) ELSE host[r]]
  BY <1>6, HostReadIs
<1>8. Calm' => Calm /\ ~wire'.torn
  BY <1>2, <1>7 DEF Calm
<1>9. \A l, q : /\ Clse(l, q).cmd = "CLSE" /\ Clse(l, q).payload = 0 /\ Clse(l, q).arg1 = q
  BY DEF Clse, DevMsg
<1>10. ASSUME NEW q \in Remotes, host'[q] = host[q],
              Calm' /\ host[q].st \in {"open", "opening"} => \A l : buffers[s] # Clse(l, q)
       PROVE  Ends(q)'
  <2>1. \A t \in Out' : t \in Out /\ buffers'[t] = buffers[t]
    BY <1>2, <1>3
  <2>2. Calm' /\ host[q].st \in {"open", "opening"} => \A l : \A t \in Out :
          buffers[t] = Clse(l, q) /\ (host[q].st = "open" => l = host[q].local) => t \in Out'
    BY <1>3, <1>10
  <2>3. \A k, cmd : Asks(k, q, cmd)' => Asks(k, q, cmd)
    BY <1>5 DEF Asks
  <2>4. Ends(q) /\ streams' = streams /\ (Calm' => Calm)
    BY <1>2, <1>8 DEF Closing
  <2> QED BY <1>5, <1>10, <2>1, <2>2, <2>3, <2>4, SameEnds
<1>11. CASE /\ host' = host /\ (link' = link \/ link' = "online")
            /\ \/ wire'.torn \/ buffers[s].payload # 0
               \/ buffers[s].cmd = "CNXN" \/ link # "online"
  <2>1. Online' /\ TalkKnown'
    BY <1>5, <1>11 DEF Closing, Online, TalkKnown
  <2>2. ASSUME NEW q \in Remotes
        PROVE  Ends(q)'
    <3>1. link # "online" => host[q].st = "idle"
      BY DEF Closing, Online
    <3>2. Calm' /\ host[q].st \in {"open", "opening"} => \A l : buffers[s] # Clse(l, q)
      BY <1>8, <1>9, <1>11, <3>1
    <3> QED BY <1>10, <1>11, <3>2
  <2> QED BY <1>4, <1>5, <2>1, <2>2 DEF Closing
<1>12. CASE /\ link' = link /\ link = "online"
            /\ host' = [r \in Remotes |-> IF r = buffers[s].arg1
                                          THEN Received(host[r], buffers[s]) ELSE host[r]]
  <2>1. ASSUME NEW q \in Remotes
        PROVE  /\ Ends(q)'
               /\ host[q].st = "idle" <=> host'[q].st = "idle"
               /\ host[q].st \in {"open", "closing", "closed"} =>
                    host'[q].st \in {"open", "closing", "closed"} /\ host'[q].local = host[q].local
    <3>1. CASE buffers[s].arg1 = q
      <4>1. host'[q] = Received(host[q], buffers[s])
        BY <1>12, <3>1
      <4>2. TalkKnown /\ Ends(q) /\ UNCHANGED <<streams, buffers>> /\ (Calm' => Calm)
        BY <1>2, <1>8 DEF Closing
      <4> QED BY <1>3, <1>5, <3>1, <4>1, <4>2, DeliveredEnds
    <3>2. CASE buffers[s].arg1 # q
      <4>1. host'[q] = host[q]
        BY <1>12, <3>2
      <4> QED BY <1>9, <1>10, <3>2, <4>1
    <3> QED BY <3>1, <3>2
  <2>2. Online'
    BY <1>12 DEF Online
  <2>3. TalkKnown'
    <3>1. \A k, m : Due(k, m)' => Due(k, m)
      BY <1>5
    <3> QED BY <2>1, <3>1 DEF Closing, TalkKnown
  <2> QED BY <1>4, <1>5, <2>1, <2>2, <2>3 DEF Closing
<1> QED
  BY <1>7, <1>11, <1>12

-----------------------------------------------------------------------------
(* Together.                                                                *)

\* At the start nothing is on its way and no stream is open.
LEMMA InitCloses ==
  ASSUME Init
  PROVE  CloseInv
<1>1. /\ DOMAIN streams = {} /\ pending_header = << >>
      /\ sq = {Ep0Poll, ReadHeader} /\ kern = {} /\ cq = {} /\ batch = {}
      /\ host = [r \in Remotes |-> NewHost] /\ bulk_out = << >>
  BY DEF Init, InitDev, InitKern, InitHost, NoStreams
<1>2. Ep0Poll.op = "Ep0Poll" /\ ReadHeader.op = "BulkOutReadHeader"
  BY PollIsPoll, HeadersDiffer
<1>3. Writes(sq) = {} /\ Writes(kern) = {} /\ Out = {}
  <2>1. Writes(sq) = {} /\ Writes(kern) = {}
    BY <1>1, <1>2 DEF Writes
  <2> QED BY <2>1 DEF Out
<1>4. Line = << >> /\ Len(Line) = 0
  BY <1>1 DEF Line, Done, BulkOuts
<1>5. \A i, m : ~Due(i, m)
  BY <1>1, <1>4 DEF Due
<1>6. Framed /\ TalkKnown /\ Linked(sq) /\ Linked(kern)
  <2>1. Framed
    <3>1. \A i : i \notin 1..Len(Line)
      BY <1>4
    <3> QED BY <1>1, <3>1 DEF Framed
  <2>2. TalkKnown
    BY <1>5 DEF TalkKnown
  <2>3. Linked(sq) /\ Linked(kern)
    BY <1>3 DEF Linked
  <2> QED BY <2>1, <2>2, <2>3
<1>7. \A r \in Remotes : /\ host[r].st = "idle" /\ host[r].local = 0 /\ ~host[r].unacked
  BY <1>1 DEF NewHost
<1>8. ASSUME NEW r \in Remotes
      PROVE  Ends(r)
  <2>1. \A l : ~Has(r, l) /\ ~Names(r, l)
    BY <1>1, <1>3, <1>7 DEF Has, Names
  <2>2. \A s, cmd : ~Tells(s, r, cmd) /\ ~Asks(s, r, cmd)
    BY <1>3, <1>5 DEF Tells, Asks
  <2>3. OneEnd(r) /\ OneClose(r) /\ OneOkay(r)
    BY <1>7, <2>1, <2>2 DEF OneEnd, OneClose, OneOkay
  <2>4. Heeded(r) /\ Answers(r)
    BY <1>7, <2>1 DEF Heeded, Answers
  <2> QED BY <2>3, <2>4 DEF Ends
<1> QED
  BY <1>6, <1>7, <1>8 DEF CloseInv, Closing, Online

\* Nothing that the ends of the streams depend on changes.
LEMMA SameCloses ==
  ASSUME Closing, UNCHANGED <<streams, pending_header, buffers, sq, kern, cq, batch>>,
         UNCHANGED <<bulk_out, bulk_out_buf, host, link>>, Calm' => Calm
  PROVE  Closing'
<1>1. Line' = Line /\ Out' = Out
  BY DEF Line, Done, Out
<1>2. Linked(sq)' /\ Linked(kern)'
  BY DEF Closing, Linked
<1> QED
  BY <1>1, <1>2, Moves

\* The steps of the loop that it survives.
LEMMA DeviceSteps ==
  ASSUME Inv, Inv', Agree, FlowInv, CloseInv, Device, daemon' = "running"
  PROVE  /\ daemon = "running" /\ Flowing /\ Closing
         /\ Submit \/ Reap \/ (\E c \in batch : WriteDone(c)) \/ (\E M, got : Turn(M, got))
<1>1. daemon = "running"
  BY DEF Device, Submit, Reap, ReadEnd, ReadData, WriteDone, OpFailed, Take, Ep0Event,
         BulkOutReadHeader, BulkOutReadPayload
<1>2. Flowing /\ Closing
  BY <1>1 DEF FlowInv, CloseInv
<1>3. ASSUME NEW c \in batch, OpFailed(c)
      PROVE  FALSE
  BY <1>3 DEF OpFailed
<1> QED
  BY <1>1, <1>2, <1>3, ReadEndTurns, ReadDataTurns, Ep0EventTurns, BulkOutReadHeaderTurns,
     BulkOutReadPayloadTurns DEF Device

\* The steps of the daemon.
LEMMA DeviceCloses ==
  ASSUME Inv, Inv', Agree, FlowInv, CloseInv, Device
  PROVE  CloseInv'
<1> SUFFICES ASSUME daemon' = "running"
             PROVE  Closing'
  BY DEF CloseInv
<1> QED
  BY DeviceSteps, SubmitCloses, ReapCloses, WriteDoneCloses, TurnCloses

\* The steps of the kernel.
LEMMA KernelCloses ==
  ASSUME Inv, Inv', Agree, FlowInv, CloseInv, Kernel
  PROVE  CloseInv'
<1>1. daemon = "running" /\ Flowing /\ Closing
  BY DEF Kernel, FlowInv, CloseInv
<1>2. ASSUME NEW o \in kern, KernelBulkOutFail(o)
      PROVE  Closing'
  <2>1. /\ o.op # "BulkInWrite" /\ kern' = kern \ {o} /\ cq' = cq \cup {Cqe(o, "err")}
        /\ UNCHANGED <<streams, pending_header, host, bulk_out, bulk_out_buf, link, wire>>
        /\ UNCHANGED <<buffers, sq, batch, usb, faults>>
    BY <1>2 DEF KernelBulkOutFail, BulkOuts, devVars, ioVars, hostVars
  <2> QED BY <1>1, <2>1, OtherCompletionCloses
<1>3. ASSUME KernelEp0
      PROVE  Closing'
  <2>1. /\ Ep0Poll \in kern /\ Ep0Poll.op = "Ep0Poll"
        /\ kern' = kern \ {Ep0Poll} /\ cq' = cq \cup {Cqe(Ep0Poll, "ok")}
        /\ UNCHANGED <<streams, pending_header, host, bulk_out, bulk_out_buf, link, wire>>
        /\ UNCHANGED <<buffers, sq, batch, usb, faults>>
    BY <1>3, PollIsPoll DEF KernelEp0, devVars, ioVars, hostVars
  <2>2. Ep0Poll \notin BulkOuts(kern)
    BY <2>1 DEF BulkOuts
  <2> QED BY <1>1, <2>1, <2>2, OtherCompletionCloses
<1>4. ASSUME NEW o \in kern, NEW res, KernelRead(o, res)
      PROVE  Closing'
  <2>1. /\ o.op # "BulkInWrite" /\ o \notin BulkOuts(kern)
        /\ kern' = kern \ {o} /\ cq' = cq \cup {Cqe(o, res)}
        /\ UNCHANGED <<streams, pending_header, host, bulk_out, bulk_out_buf, link, wire>>
        /\ UNCHANGED <<buffers, sq, batch, usb, faults>>
    BY <1>4 DEF KernelRead, Reads, BulkOuts, devVars, ioVars, hostVars
  <2> QED BY <1>1, <2>1, OtherCompletionCloses
<1>5. ASSUME UsbEvent
      PROVE  Closing'
  <2>1. /\ UNCHANGED <<streams, pending_header, buffers, sq, kern, cq, batch>>
        /\ UNCHANGED <<bulk_out, bulk_out_buf, host, link>> /\ UNCHANGED <<wire, faults>> /\ usb
    BY <1>5 DEF UsbEvent, devVars, ioVars, hostVars
  <2>2. Calm' => Calm
    BY <2>1 DEF Calm
  <2> QED BY <1>1, <2>1, <2>2, SameCloses
<1>6. Closing'
  BY <1>1, <1>2, <1>3, <1>4, <1>5, KernelWriteCloses, KernelWriteFailCloses,
     KernelBulkOutCloses DEF Kernel, Transfer
<1> QED
  BY <1>6 DEF CloseInv

\* The steps of a host that is not started anew.
LEMMA HostSteps ==
  ASSUME ~Restarts, Host
  PROVE  \/ HostConnect \/ HostNoise
         \/ \E r \in Remotes : \/ \E svc \in Services : HostOpen(r, svc)
                               \/ HostWrite(r) \/ HostAck(r) \/ HostClose(r)
BY DEF Host, HostStep, HostRestart

\* The steps of a host that is not started anew.
LEMMA HostCloses ==
  ASSUME ~Restarts, Inv, CloseInv, Host
  PROVE  CloseInv'
<1>1. daemon = "running" /\ Closing /\ Resting /\ UNCHANGED <<usb, faults>>
  BY DEF Host, HostStep, CloseInv, Resting, devVars, ioVars, kernVars
<1>3. Closing'
  BY <1>1, HostSteps, HostOtherCloses, HostOpenCloses, HostStreamCloses
<1> QED
  BY <1>3 DEF CloseInv

\* The inductive invariant of how streams end.
THEOREM StreamEnds ==
  ASSUME ~Restarts
  PROVE  Spec => [](Inv /\ Agree /\ FlowInv /\ CloseInv)
<1>1. Init => Inv /\ Agree /\ FlowInv /\ CloseInv
  BY InitInv, InitAgrees, InitFlows, InitCloses
<1>2. Inv /\ Agree /\ FlowInv /\ CloseInv /\ [Next]_vars => (Inv /\ Agree /\ FlowInv /\ CloseInv)'
  <2>1. ASSUME Inv, Agree, FlowInv, CloseInv, Next
        PROVE  Inv' /\ Agree' /\ FlowInv' /\ CloseInv'
    <3>1. Inv' /\ Agree'
      BY <2>1, NextInv, NextAgrees
    <3>2. FlowInv'
      BY <2>1, <3>1, DeviceFlows, KernelFlows, HostFlows DEF Next
    <3>3. CloseInv'
      BY <2>1, <3>1, DeviceCloses, KernelCloses, HostCloses DEF Next
    <3> QED BY <3>1, <3>2, <3>3
  <2>2. ASSUME Inv, Agree, FlowInv, CloseInv, UNCHANGED vars
        PROVE  Inv' /\ Agree' /\ FlowInv' /\ CloseInv'
    <3>1. /\ UNCHANGED <<streams, next_id, pending_header, buffers, sq, order>>
          /\ UNCHANGED <<kern, bulk_in, cq, batch, bulk_out_buf>>
          /\ UNCHANGED <<host, bulk_out>> /\ daemon' = daemon
          /\ UNCHANGED <<link, wire, usb, faults>>
      BY <2>2 DEF vars, devVars, ioVars, kernVars, hostVars
    <3>2. Inv' /\ Agree'
      BY <2>2, <3>1, StutterInv, AgreeSame DEF Agree, AssertionsHold
    <3>3. FlowInv'
      BY <2>2, <3>1, SameFlows DEF FlowInv
    <3>4. CloseInv'
      <4>1. Calm' => Calm
        BY <3>1 DEF Calm
      <4> QED BY <2>2, <3>1, <4>1, SameCloses DEF CloseInv
    <3> QED BY <3>2, <3>3, <3>4
  <2> QED BY <2>1, <2>2
<1> QED
  BY <1>1, <1>2, PTL DEF Spec

\* For any number of streams, slots and messages, in any order of completions:
\* as long as no write has failed or come out of place, a stream that the host
\* has open and the device has closed has its CLSE on its way.
THEOREM HostIsToldOfClose ==
  ASSUME ~Restarts
  PROVE  Spec => []HostLearnsOfClose
<1>1. CloseInv => HostLearnsOfClose
  <2> SUFFICES ASSUME CloseInv, ~wire.torn, usb, faults = 0, daemon = "running",
                      NEW r \in Remotes, host[r].st = "open", host[r].local \notin DOMAIN streams
               PROVE  InFlight(DevMsg("CLSE", host[r].local, r, 0, FALSE))
    BY DEF HostLearnsOfClose
  <2>1. PICK s \in Out : buffers[s] = Clse(host[r].local, r)
    BY DEF CloseInv, Closing, Ends, Answers, Calm
  <2>2. PICK o \in Writes(sq) \cup Writes(kern) : o.data = s
    BY DEF Out
  <2> QED BY <2>1, <2>2 DEF InFlight, Clse
<1> QED
  BY <1>1, StreamEnds, PTL

\* For any number of streams, slots and messages, in any order of completions
\* and whatever write fails: a stream that the host has closed and the device
\* has not is a forward that drains, or the host's CLSE is still due.
THEOREM DeviceIsToldOfClose ==
  ASSUME ~Restarts
  PROVE  Spec => []DeviceLearnsOfClose
<1>1. Inv /\ Agree /\ FlowInv /\ CloseInv => DeviceLearnsOfClose
  <2> SUFFICES ASSUME Inv, Agree, Flowing, Closing, daemon = "running",
                      NEW l \in DOMAIN streams, NEW r, r = streams[l].remote_id,
                      host[r].st = "closed", ~streams[l].remote_closed
               PROVE  \/ \E i \in DOMAIN bulk_out :
                           bulk_out[i].msg = Message("CLSE", r, host[r].local, "none")
                      \/ /\ bulk_out_buf # << >>
                         /\ bulk_out_buf[1].msg = Message("CLSE", r, host[r].local, "none")
                         /\ BulkOuts(cq) \cup BulkOuts(batch) # {}
    BY DEF DeviceLearnsOfClose, FlowInv, CloseInv
  <2>1. r \in Remotes /\ l \in Nat /\ Has(r, l)
    BY DEF Agree, StreamsAgree, Opened, Inv, TypeOK, Has
  <2>2. PICK i \in Nat, m \in HostMsgs : /\ Due(i, m) /\ m.cmd = "CLSE"
                                         /\ m.arg0 = r /\ m.arg1 = host[r].local
    BY <2>1 DEF Closing, Ends, Heeded
  <2>3. m = Message("CLSE", r, host[r].local, "none")
    <3>1. m.payload = "none"
      BY <2>2 DEF Closing, TalkKnown
    <3>2. m = [cmd |-> m.cmd, arg0 |-> m.arg0, arg1 |-> m.arg1, payload |-> m.payload]
      BY DEF HostMsgs
    <3> QED BY <2>2, <3>1, <3>2 DEF Message
  <2>4. i \in 1..Len(Line) /\ Line[i].msg = m
    <3>1. pending_header # << >> => pending_header[1].payload # "none"
      <4>1. pending_header \in Seq(HostMsgs) /\ PayloadsDue
        BY DEF Flowing, Inv, TypeOK
      <4>2. pending_header # << >> => 1 \in 1..Len(pending_header)
        BY <4>1
      <4> QED BY <4>1, <4>2 DEF PayloadsDue
    <3>2. m.payload = "none"
      BY <2>2 DEF Closing, TalkKnown
    <3> QED BY <2>2, <3>1, <3>2 DEF Due
  <2>5. bulk_out \in Seq(Xfers) /\ DOMAIN bulk_out = 1..Len(bulk_out)
    BY DEF Inv, TypeOK, HostTypeOK
  <2>6. CASE ~Done
    BY <2>3, <2>4, <2>5, <2>6 DEF Line
  <2>7. CASE Done
    <3>1. /\ Line[1] = bulk_out_buf[1] /\ Len(Line) = Len(bulk_out) + 1 /\ Len(bulk_out) \in Nat
          /\ \A k \in 1..Len(bulk_out) : Line[k + 1] = bulk_out[k]
      BY <2>7, LineIs
    <3>2. bulk_out_buf # << >> /\ BulkOuts(cq) \cup BulkOuts(batch) # {}
      BY <2>7 DEF Done, Inv, Fed
    <3>3. i = 1 \/ (i - 1 \in 1..Len(bulk_out) /\ Line[(i - 1) + 1] = Line[i])
      BY <2>4, <3>1
    <3> QED BY <2>3, <2>4, <2>5, <3>1, <3>2, <3>3
  <2> QED BY <2>6, <2>7
<1> QED
  BY <1>1, StreamEnds, PTL

-----------------------------------------------------------------------------
(* The order of the messages to the host, if the kernel keeps that of the   *)
(* writes.                                                                  *)

\* The slots of the transfers that wait for no other, first to last.
Queue == bulk_in \o order

Waits(s) == \E i \in 1..Len(Queue) : Queue[i] = s
Precedes(s, t) == \E i, k \in 1..Len(Queue) : i < k /\ Queue[i] = s /\ Queue[k] = t

\* Every unlinked write is in its queue, and a header has one payload.
Complete(q, S) == \A o \in Writes(S) : o.after = 0 => \E i \in 1..Len(q) : q[i] = o.data
OneLink(S) == \A o, p \in Writes(S) : o.after = p.after /\ o.after # 0 => o = p

\* Only a WRTE has a payload.
Plain == \A s \in Out : buffers[s].arg1 \in Remotes /\ buffers[s].cmd # "WRTE" =>
                          buffers[s].payload = 0

\* The OKAY of a stream comes before its WRTEs.
Introduced(r) ==
  host[r].st = "opening" =>
    /\ \A l \in Nat : Has(r, l) => \E s : Waits(s) /\ Tells(s, r, "OKAY")
    /\ \A t : Waits(t) /\ Tells(t, r, "WRTE") => \E s : Precedes(s, t) /\ Tells(s, r, "OKAY")

\* No WRTE comes after the CLSE, but for a payload whose header came before it:
\* that the host waits for, and takes the CLSE for it.
Last(r) ==
  /\ \A s, t : Precedes(s, t) /\ Tells(s, r, "CLSE") /\ Tells(t, r, "WRTE") => wire.expect = t
  /\ host[r].st = "closing" => \A t : ~Tells(t, r, "WRTE")

\* The WRTEs that wait are the ones after the last the host has, in their order,
\* but for such a payload.
Rising(r) ==
  \A s, t : Precedes(s, t) /\ Tells(s, r, "WRTE") /\ Tells(t, r, "WRTE") =>
    buffers[s].payload < buffers[t].payload \/ wire.expect = t
Dense(r) ==
  \A t : Waits(t) /\ Tells(t, r, "WRTE") =>
    /\ buffers[t].payload > host[r].got
    /\ buffers[t].payload > host[r].got + 1 =>
         \E s : Waits(s) /\ Tells(s, r, "WRTE") /\ buffers[s].payload = buffers[t].payload - 1
Numbers(r) ==
  \A l \in Nat : Has(r, l) =>
    /\ streams[l].tx >= host[r].got
    /\ streams[l].tx > host[r].got =>
         \E t : Waits(t) /\ Tells(t, r, "WRTE") /\ buffers[t].payload = streams[l].tx
    /\ \A t : Waits(t) /\ Tells(t, r, "WRTE") => buffers[t].payload <= streams[l].tx
Numbered(r) == host[r].st \in {"opening", "open"} => Rising(r) /\ Dense(r) /\ Numbers(r)

InTurn(r) == Introduced(r) /\ Last(r) /\ Numbered(r)

Ordered == /\ Complete(order, sq) /\ Complete(bulk_in, kern) /\ OneLink(sq) /\ OneLink(kern)
           /\ Plain
           /\ Calm => \A r \in Remotes : InTurn(r)

OrderInv == daemon = "running" => Ordered

-----------------------------------------------------------------------------
(* The queue.                                                               *)

\* c is one sequence after the other.
Joined(c, p, q) ==
  /\ Len(p) \in Nat /\ Len(q) \in Nat /\ Len(c) = Len(p) + Len(q)
  /\ \A i \in 1..Len(p) : i \in 1..Len(c) /\ c[i] = p[i]
  /\ \A i \in 1..Len(q) : i + Len(p) \in 1..Len(c) /\ c[i + Len(p)] = q[i]
  /\ \A i \in 1..Len(c) : \/ i \in 1..Len(p)
                          \/ i > Len(p) /\ i - Len(p) \in 1..Len(q) /\ c[i] = q[i - Len(p)]

\* What the operator for it gives.
LEMMA ConcatIs ==
  ASSUME NEW p \in Seq(Slots), NEW q \in Seq(Slots), NEW c, c = p \o q
  PROVE  Joined(c, p, q)
<1>1. Len(p) \in Nat /\ Len(q) \in Nat
  OBVIOUS
<1>2. /\ c \in Seq(Slots) /\ Len(c) = Len(p) + Len(q)
      /\ \A i \in 1..Len(p) + Len(q) : c[i] = IF i <= Len(p) THEN p[i] ELSE q[i - Len(p)]
  BY ConcatProperties
<1> HIDE DEF Slots
<1>3. \A i \in 1..Len(p) : i \in 1..Len(c) /\ c[i] = p[i]
  BY <1>1, <1>2
<1>4. ASSUME NEW i \in 1..Len(q)
      PROVE  i + Len(p) \in 1..Len(c) /\ c[i + Len(p)] = q[i]
  <2>1. i + Len(p) \in 1..Len(p) + Len(q) /\ ~(i + Len(p) <= Len(p)) /\ (i + Len(p)) - Len(p) = i
    BY <1>1
  <2> QED BY <1>2, <2>1
<1>5. ASSUME NEW i \in 1..Len(c), i \notin 1..Len(p)
      PROVE  i > Len(p) /\ i - Len(p) \in 1..Len(q) /\ c[i] = q[i - Len(p)]
  BY <1>1, <1>2, <1>5
<1> QED
  BY <1>1, <1>2, <1>3, <1>4, <1>5 DEF Joined

\* No slot is twice in two queues of different writes.
LEMMA OnceEach ==
  ASSUME NEW p, NEW q, NEW c, Joined(c, p, q), NEW S, NEW T, Queued(p, S), Queued(q, T), NoCommonSlot(T, S)
  PROVE  /\ \A i \in 1..Len(c) : \E o \in Writes(T) \cup Writes(S) : o.data = c[i]
         /\ \A i, k \in 1..Len(c) : c[i] = c[k] => i = k
<1> DEFINE n == Len(p)
<1>2. /\ n \in Nat /\ Len(q) \in Nat /\ Len(c) = n + Len(q)
      /\ \A i \in 1..n : c[i] = p[i]
      /\ \A i \in 1..Len(c) : \/ i \in 1..n
                              \/ i > n /\ i - n \in 1..Len(q) /\ c[i] = q[i - n]
  BY DEF Joined
<1>3. /\ \A i \in 1..n : \E o \in Writes(S) : o.data = p[i]
      /\ \A i \in 1..Len(q) : \E o \in Writes(T) : o.data = q[i]
      /\ \A i, k \in 1..n : p[i] = p[k] => i = k
      /\ \A i, k \in 1..Len(q) : q[i] = q[k] => i = k
  BY DEF Queued
<1> HIDE DEF n
<1>4. \A o \in Writes(T) : \A x \in Writes(S) : o.data # x.data
  BY DEF NoCommonSlot
<1>5. \A i \in 1..Len(c) : \E o \in Writes(T) \cup Writes(S) : o.data = c[i]
  <2> SUFFICES ASSUME NEW i \in 1..Len(c)
               PROVE  \E o \in Writes(T) \cup Writes(S) : o.data = c[i]
    OBVIOUS
  <2>1. CASE i \in 1..n
    BY <1>2, <1>3, <2>1
  <2>2. CASE i - n \in 1..Len(q) /\ c[i] = q[i - n]
    BY <1>3, <2>2
  <2> QED BY <1>2, <2>1, <2>2
<1>6. ASSUME NEW i \in 1..Len(c), NEW k \in 1..Len(c), c[i] = c[k]
      PROVE  i = k
  <2>1. CASE i \in 1..n
    BY <1>2, <1>3, <1>4, <1>6, <2>1
  <2>2. CASE i \notin 1..n
    <3>1. k \notin 1..n
      BY <1>2, <1>3, <1>4, <1>6, <2>2
    <3>2. i - n = k - n
      BY <1>2, <1>3, <1>6, <2>2, <3>1
    <3> QED BY <1>2, <3>2
  <2> QED BY <2>1, <2>2
<1> QED
  BY <1>5, <1>6

\* What waits is on its way, once.
LEMMA WaitsOut ==
  ASSUME Inv, Flowing
  PROVE  /\ \A s : Waits(s) => s \in Out /\ s \in Slots /\ s # 0
         /\ \A s, t : Precedes(s, t) => Waits(s) /\ Waits(t) /\ s # t
<1>1. /\ bulk_in \in Seq(Slots) /\ order \in Seq(Slots)
      /\ Queued(order, sq) /\ Queued(bulk_in, kern) /\ NoCommonSlot(sq, kern)
  BY DEF Inv, TypeOK, WritesOwnTheirSlot, Flowing
<1>2. /\ \A i \in 1..Len(Queue) : \E o \in Writes(sq) \cup Writes(kern) : o.data = Queue[i]
      /\ \A i, k \in 1..Len(Queue) : Queue[i] = Queue[k] => i = k
  <2>1. Joined(Queue, bulk_in, order)
    BY <1>1, ConcatIs DEF Queue
  <2> QED BY <1>1, <2>1, OnceEach
<1>3. \A s \in Out : s \in Slots /\ s # 0
  BY OutTyped
<1>4. \A s : Waits(s) => s \in Out
  BY <1>2 DEF Waits, Out
<1>5. \A s, t : Precedes(s, t) => s # t
  BY <1>2 DEF Precedes
<1> QED
  BY <1>3, <1>4, <1>5 DEF Waits, Precedes

\* The same after a step.
LEMMA WaitsOutAfter ==
  ASSUME Inv', Flowing'
  PROVE  /\ \A s : Waits(s)' => s \in Out'
         /\ \A s, t : Precedes(s, t)' => Waits(s)' /\ Waits(t)' /\ s # t
<1>1. /\ bulk_in' \in Seq(Slots) /\ order' \in Seq(Slots) /\ Queue' = bulk_in' \o order'
      /\ Queued(order', sq') /\ Queued(bulk_in', kern') /\ NoCommonSlot(sq', kern')
  BY DEF Inv, TypeOK, WritesOwnTheirSlot, Flowing, Queue
<1>2. /\ \A i \in 1..Len(Queue') : \E o \in Writes(sq') \cup Writes(kern') : o.data = Queue'[i]
      /\ \A i, k \in 1..Len(Queue') : Queue'[i] = Queue'[k] => i = k
  <2>1. PICK p, q, c, S, T : p = bulk_in' /\ q = order' /\ c = Queue' /\ S = kern' /\ T = sq'
    OBVIOUS
  <2>2. Joined(c, p, q) /\ Queued(p, S) /\ Queued(q, T) /\ NoCommonSlot(T, S)
    BY <1>1, <2>1, ConcatIs
  <2>3. /\ \A i \in 1..Len(c) : \E o \in Writes(T) \cup Writes(S) : o.data = c[i]
        /\ \A i, k \in 1..Len(c) : c[i] = c[k] => i = k
    BY <2>2, OnceEach
  <2> QED BY <2>1, <2>3
<1>3. \A s : Waits(s)' => s \in Out'
  BY <1>2 DEF Waits, Out
<1>4. \A s, t : Precedes(s, t)' => s # t
  BY <1>2 DEF Precedes
<1> QED
  BY <1>3, <1>4 DEF Waits, Precedes

\* The queue grows at its end, by the headers of the messages of M.
QueueGains(M) ==
  /\ \A s : Waits(s) => Waits(s)'
  /\ \A s, t : Precedes(s, t) => Precedes(s, t)'
  /\ \A s, t : Precedes(s, t)' => Waits(s)' /\ Waits(t)' /\ s # t
  /\ \A s : Waits(s)' => s \in Out'
  /\ \A s : Waits(s)' => Waits(s) \/ s \notin Out
  /\ \A s, t : Precedes(s, t)' => Precedes(s, t) \/ (Waits(t)' /\ t \notin Out)
  /\ \A s, t : Waits(s) /\ Waits(t)' /\ t \notin Out => Precedes(s, t)'
  /\ \A m \in M : \E s : Waits(s)' /\ s \notin Out /\ buffers'[s] = m
  /\ \A s, t : Waits(s)' /\ Waits(t)' /\ s \notin Out /\ t \notin Out
                 /\ buffers'[s] = buffers'[t] => s = t

\* What the loop pushes waits behind what waits already.
LEMMA QueueGrows ==
  ASSUME Inv, Inv', Flowing, Flowing', Linked(sq), NEW j, NEW M, Puts(Io, j, M), Commit(j),
         daemon' = "running", kern' = kern, bulk_in' = bulk_in
  PROVE  /\ QueueGains(M)
         /\ Complete(order, sq) => Complete(order', sq')
         /\ OneLink(sq) => OneLink(sq')
<1> DEFINE P == Writes(sq') \ sq
           n == Len(bulk_in)
<1>1. /\ \A o \in Writes(sq) \cup Writes(kern) : o.data \in Slots /\ o.data \in Used(buffers)
      /\ Io.sq = sq /\ Io.buffers = buffers /\ Io.order = order
  BY SlotsInUse DEF Io
<1>2. /\ j.daemon = "running" /\ sq' = j.sq /\ buffers' = j.buffers /\ order' = j.order
      /\ Owned(Io)
  BY <1>1 DEF Commit, Owned
<1>3. /\ sq \subseteq sq'
      /\ \A o \in P : o.data \in Used(buffers') \ Used(buffers)
      /\ \A m \in M : \E o \in P : o.after = 0 /\ buffers'[o.data] = m
      /\ \A o, p \in P : o # p /\ buffers'[o.data] = buffers'[p.data] =>
           o.after = p.data \/ p.after = o.data
      /\ \A o \in P : o.after # 0 =>
           \E p \in P : /\ p.data = o.after /\ p.after = 0
                        /\ buffers'[p.data] = buffers'[o.data]
  BY <1>1, <1>2 DEF Puts, Pushed
<1>4. /\ Len(order) <= Len(order') /\ \A i \in 1..Len(order) : order'[i] = order[i]
      /\ \A i \in 1..Len(order') : i > Len(order) => \E o \in P : o.after = 0 /\ o.data = order'[i]
      /\ \A o \in P : o.after = 0 =>
           \E i \in 1..Len(order') : i > Len(order) /\ order'[i] = o.data
  BY <1>1, <1>2 DEF Puts, Pushed
<1>5. \A o \in P : o.data # 0 /\ o.data \notin Out
  BY <1>1, <1>3, MaxSlotsAssumption DEF Used, Slots, Out
<1>6. \A o \in Writes(sq') : o \in Writes(sq) \/ o \in P
  BY DEF Writes
<1> HIDE DEF P
<1>7. bulk_in \in Seq(Slots) /\ order \in Seq(Slots) /\ order' \in Seq(Slots)
  BY DEF Inv, TypeOK
<1>8. /\ n \in Nat /\ Len(order) \in Nat /\ Len(Queue) = n + Len(order)
      /\ \A i \in 1..n : Queue[i] = bulk_in[i]
      /\ \A i \in 1..Len(Queue) : \/ i \in 1..n
                                  \/ i > n /\ i - n \in 1..Len(order) /\ Queue[i] = order[i - n]
  BY <1>7, ConcatIs DEF Queue, Joined
<1>9. /\ Len(order') \in Nat /\ Len(Queue') = n + Len(order')
      /\ \A i \in 1..n : Queue'[i] = bulk_in[i]
      /\ \A i \in 1..Len(order') : i + n \in 1..Len(Queue') /\ Queue'[i + n] = order'[i]
      /\ \A i \in 1..Len(Queue') : \/ i \in 1..n
                                   \/ i > n /\ i - n \in 1..Len(order') /\ Queue'[i] = order'[i - n]
  <2>1. Queue' = bulk_in \o order'
    BY DEF Queue
  <2> QED BY <1>7, <2>1, ConcatIs DEF Joined
<1> HIDE DEF n
<1>10. \A i \in 1..Len(Queue) : i \in 1..Len(Queue') /\ Queue'[i] = Queue[i]
  <2> SUFFICES ASSUME NEW i \in 1..Len(Queue)
               PROVE  i \in 1..Len(Queue') /\ Queue'[i] = Queue[i]
    OBVIOUS
  <2>1. i \in 1..Len(Queue') /\ (i > n => i - n \in 1..Len(order) /\ i - n \in 1..Len(order'))
    BY <1>4, <1>8, <1>9
  <2> QED BY <1>4, <1>8, <1>9, <2>1
<1>11. \A i \in 1..Len(Queue') : i > Len(Queue) => \E o \in P : o.after = 0 /\ o.data = Queue'[i]
  <2> SUFFICES ASSUME NEW i \in 1..Len(Queue'), i > Len(Queue)
               PROVE  \E o \in P : o.after = 0 /\ o.data = Queue'[i]
    OBVIOUS
  <2>1. i > n /\ i - n \in 1..Len(order') /\ i - n > Len(order) /\ Queue'[i] = order'[i - n]
    BY <1>8, <1>9
  <2> QED BY <1>4, <1>9, <2>1
<1>12. \A o \in P : o.after = 0 => \E i \in 1..Len(Queue') : i > Len(Queue) /\ Queue'[i] = o.data
  <2> SUFFICES ASSUME NEW o \in P, o.after = 0
               PROVE  \E i \in 1..Len(Queue') : i > Len(Queue) /\ Queue'[i] = o.data
    OBVIOUS
  <2>1. PICK i \in 1..Len(order') : i > Len(order) /\ order'[i] = o.data
    BY <1>4
  <2>2. i + n \in 1..Len(Queue') /\ Queue'[i + n] = order'[i] /\ i + n > Len(Queue)
    BY <1>8, <1>9, <2>1
  <2> QED BY <2>1, <2>2
<1>13. Len(Queue) \in Nat /\ Len(Queue') \in Nat
  BY <1>8, <1>9
<1>14. \A i \in 1..Len(Queue) : Queue[i] \in Out
  BY WaitsOut DEF Waits
<1>15. QueueGains(M)
  <2>1. \A s : Waits(s) => Waits(s)'
    BY <1>10 DEF Waits
  <2>2. \A s, t : Precedes(s, t) => Precedes(s, t)'
    BY <1>10 DEF Precedes
  <2>3. \A i \in 1..Len(Queue') : i \in 1..Len(Queue) \/ (i > Len(Queue) /\ Queue'[i] \notin Out)
    BY <1>5, <1>11, <1>13
  <2>4. \A s : Waits(s)' => Waits(s) \/ s \notin Out
    BY <1>10, <2>3 DEF Waits
  <2>5. \A s, t : Precedes(s, t)' => Precedes(s, t) \/ (Waits(t)' /\ t \notin Out)
    <3> SUFFICES ASSUME NEW i \in 1..Len(Queue'), NEW k \in 1..Len(Queue'), i < k
                 PROVE  Precedes(Queue'[i], Queue'[k]) \/ Queue'[k] \notin Out
      BY DEF Precedes, Waits
    <3>1. CASE k \in 1..Len(Queue)
      <4>1. i \in 1..Len(Queue)
        BY <1>13, <3>1
      <4> QED BY <1>10, <3>1, <4>1 DEF Precedes
    <3> QED BY <2>3, <3>1
  <2>6. \A s, t : Waits(s) /\ Waits(t)' /\ t \notin Out => Precedes(s, t)'
    <3> SUFFICES ASSUME NEW i \in 1..Len(Queue), NEW k \in 1..Len(Queue'), Queue'[k] \notin Out
                 PROVE  \E x \in 1..Len(Queue') : x < k /\ Queue'[x] = Queue[i]
      BY DEF Precedes, Waits
    <3>1. k \notin 1..Len(Queue)
      BY <1>10, <1>14
    <3>2. i < k
      BY <1>13, <3>1
    <3> QED BY <1>10, <3>2
  <2>7. \A m \in M : \E s : Waits(s)' /\ s \notin Out /\ buffers'[s] = m
    BY <1>3, <1>5, <1>12 DEF Waits
  <2>8. \A s : Waits(s)' /\ s \notin Out => \E o \in P : o.after = 0 /\ o.data = s
    BY <1>10, <1>11, <1>14, <2>3 DEF Waits
  <2>9. \A s, t : Waits(s)' /\ Waits(t)' /\ s \notin Out /\ t \notin Out
                    /\ buffers'[s] = buffers'[t] => s = t
    BY <1>3, <1>5, <2>8
  <2>10. /\ \A s, t : Precedes(s, t)' => Waits(s)' /\ Waits(t)' /\ s # t
         /\ \A s : Waits(s)' => s \in Out'
    BY WaitsOutAfter
  <2> QED BY <2>1, <2>2, <2>4, <2>5, <2>6, <2>7, <2>9, <2>10 DEF QueueGains
<1>16. ASSUME Complete(order, sq)
       PROVE  Complete(order', sq')
  <2>1. \A i \in 1..Len(order) : i \in 1..Len(order')
    BY <1>4, <1>8, <1>9
  <2> QED BY <1>4, <1>6, <1>16, <2>1 DEF Complete
<1>17. ASSUME OneLink(sq), NEW o \in Writes(sq'), NEW p \in Writes(sq'), o.after = p.after, o.after # 0
       PROVE  o = p
  <2>1. \A x, y \in Writes(sq') : x.data = y.data => x = y
    BY DEF Inv, WritesOwnTheirSlot, OneWritePerSlot
  <2>2. \A x \in P : x \in Writes(sq') /\ x.data \notin Used(buffers)
    BY <1>3 DEF P
  <2>3. ASSUME NEW x \in P, x.after # 0
        PROVE  x.after \notin Used(buffers)
    BY <1>3, <2>2, <2>3
  <2>4. ASSUME NEW x \in Writes(sq), x.after # 0
        PROVE  x.after \in Used(buffers)
    <3>1. PICK y \in Writes(sq) : y.data = x.after
      BY <2>4 DEF Linked
    <3> QED BY <1>1, <3>1
  <2>5. CASE o \in P /\ p \in P
    <3>1. PICK h \in P : h.data = o.after /\ h.after = 0 /\ buffers'[h.data] = buffers'[o.data]
      BY <1>3, <1>17, <2>5
    <3>2. PICK g \in P : g.data = p.after /\ g.after = 0 /\ buffers'[g.data] = buffers'[p.data]
      BY <1>3, <1>17, <2>5
    <3>3. h = g
      BY <1>17, <2>1, <2>2, <3>1, <3>2
    <3>4. o # p => o.after = p.data \/ p.after = o.data
      BY <1>3, <2>5, <3>1, <3>2, <3>3
    <3> QED BY <1>17, <2>1, <2>2, <3>1, <3>2, <3>3, <3>4
  <2>6. CASE o \in Writes(sq) /\ p \in Writes(sq)
    BY <1>17, <2>6 DEF OneLink
  <2> QED BY <1>6, <1>17, <2>3, <2>4, <2>5, <2>6
<1> QED
  BY <1>15, <1>16, <1>17 DEF OneLink

-----------------------------------------------------------------------------
(* The turns of the loop.                                                   *)

\* What is told stays told, and what is new is of M.
LEMMA NewTells ==
  ASSUME NEW M, Sends(M)
  PROVE  /\ \A s, q, cmd : Tells(s, q, cmd) => Tells(s, q, cmd)' /\ buffers'[s] = buffers[s]
         /\ \A s, q, cmd : Tells(s, q, cmd)' =>
              \/ Tells(s, q, cmd) /\ buffers'[s] = buffers[s]
              \/ s \notin Out /\ buffers'[s] \in M /\ buffers'[s].arg1 = q /\ buffers'[s].cmd = cmd
BY DEF Sends, Tells

\* The device answers on a stream.
LEMMA TalkInTurn ==
  ASSUME Inv, Flowing, TalkKnown, NEW l, NEW r, NEW M, NEW got, Talks(l, r, M, got),
         Sends(M), Consumes(got), QueueGains(M), UNCHANGED <<host, wire>>,
         NEW q \in Remotes, OneEnd(q), OneClose(q), InTurn(q)
  PROVE  InTurn(q)'
<1>1. /\ \A s, cmd : Tells(s, q, cmd) => Tells(s, q, cmd)' /\ buffers'[s] = buffers[s] /\ s \in Out
      /\ \A s, cmd : Tells(s, q, cmd)' =>
           \/ Tells(s, q, cmd) /\ buffers'[s] = buffers[s]
           \/ s \notin Out /\ buffers'[s] \in M /\ buffers'[s].arg1 = q /\ buffers'[s].cmd = cmd
  BY NewTells DEF Tells
<1>2. /\ \A s : Waits(s) => Waits(s)' /\ s \in Out /\ s \in Slots
      /\ \A s, t : Precedes(s, t) => Precedes(s, t)' /\ Waits(s) /\ Waits(t)
      /\ \A s, t : Precedes(s, t)' => Waits(s)' /\ Waits(t)' /\ s # t
      /\ \A s : Waits(s)' => Waits(s) \/ s \notin Out
      /\ \A s, t : Precedes(s, t)' => Precedes(s, t) \/ t \notin Out
      /\ \A s, t : Waits(s) /\ Waits(t)' /\ t \notin Out => Precedes(s, t)'
      /\ \A m \in M : \E s : Waits(s)' /\ s \notin Out /\ buffers'[s] = m
      /\ \A s, t : Waits(s)' /\ Waits(t)' /\ s \notin Out /\ t \notin Out
                     /\ buffers'[s] = buffers'[t] => s = t
  BY WaitsOut DEF QueueGains
<1>3. /\ \A k : Has(q, k)' => Has(q, k) /\ (k # l => streams'[k] = streams[k])
      /\ \A k : Has(q, k) => Names(q, k) /\ k \in Nat
      /\ \A s : s \in Out' /\ s \notin Out /\ buffers'[s].arg1 = q => r = q /\ Names(q, l)
      /\ l \in Nat
  <2>1. /\ \A k : Has(q, k)' => Has(q, k)
        /\ \A s : s \in Out' /\ s \notin Out /\ buffers'[s].arg1 = q => r = q /\ Names(q, l)
    BY TalkNames
  <2>2. DOMAIN streams \subseteq Nat
    BY DEF Inv, TypeOK
  <2>3. \A k : Has(q, k) => Names(q, k) /\ k \in Nat
    BY <2>2 DEF Names, Has
  <2>4. \A k : Has(q, k) /\ k # l => streams'[k] = streams[k]
    BY DEF Has, Talks
  <2> QED BY <2>1, <2>3, <2>4 DEF Talks
<1>4. \A x \in M : x.cmd = "WRTE" /\ x.arg1 = q =>
        /\ Has(q, l) /\ l \in DOMAIN streams' /\ r = q
        /\ x.payload = streams[l].tx + 1 /\ x.payload = streams'[l].tx
  BY DEF Talks, Has
<1>5. /\ \A x, y \in M : x.cmd = y.cmd => x = y
      /\ \A x \in M : x.cmd = "CLSE" => l \notin DOMAIN streams'
      /\ Has(q, l)' /\ (\A x \in M : x.cmd # "WRTE") => streams'[l].tx = streams[l].tx
      /\ Has(q, l)' => r = q
  BY DEF Talks, Has
<1>6. \A k : Has(q, k) => streams[k].tx \in Nat
  BY DEF Has, Inv, TypeOK, StreamRecords
<1>7. ASSUME NEW t, Tells(t, q, "WRTE")', t \notin Out
      PROVE  /\ Has(q, l) /\ l \in DOMAIN streams' /\ r = q /\ buffers'[t] \in M
             /\ buffers'[t].cmd = "WRTE"
             /\ buffers'[t].payload = streams[l].tx + 1 /\ buffers'[t].payload = streams'[l].tx
  <2>1. buffers'[t] \in M /\ buffers'[t].cmd = "WRTE" /\ buffers'[t].arg1 = q
    BY <1>1, <1>7
  <2> QED BY <1>4, <2>1
<1>8. Introduced(q)'
  <2> SUFFICES ASSUME host[q].st = "opening"
               PROVE  /\ \A k \in Nat : Has(q, k)' => \E s : Waits(s)' /\ Tells(s, q, "OKAY")'
                      /\ \A t : Waits(t)' /\ Tells(t, q, "WRTE")' =>
                           \E s : Precedes(s, t)' /\ Tells(s, q, "OKAY")'
    BY DEF Introduced
  <2>1. /\ \A k \in Nat : Has(q, k) => \E s : Waits(s) /\ Tells(s, q, "OKAY")
        /\ \A t : Waits(t) /\ Tells(t, q, "WRTE") => \E s : Precedes(s, t) /\ Tells(s, q, "OKAY")
    BY DEF InTurn, Introduced
  <2>2. ASSUME NEW t, Waits(t)', Tells(t, q, "WRTE")', t \notin Out
        PROVE  \E s : Precedes(s, t)' /\ Tells(s, q, "OKAY")'
    <3>1. PICK s : Waits(s) /\ Tells(s, q, "OKAY")
      BY <1>3, <1>7, <2>1, <2>2
    <3> QED BY <1>1, <1>2, <2>2, <3>1
  <2>3. ASSUME NEW t, Waits(t)', Tells(t, q, "WRTE")', t \in Out
        PROVE  \E s : Precedes(s, t)' /\ Tells(s, q, "OKAY")'
    <3>1. PICK s : Precedes(s, t) /\ Tells(s, q, "OKAY")
      BY <1>1, <1>2, <2>1, <2>3
    <3> QED BY <1>1, <1>2, <3>1
  <2> QED BY <1>1, <1>2, <1>3, <2>1, <2>2, <2>3
<1>9. Last(q)'
  <2>1. ASSUME NEW s, NEW t, Precedes(s, t)', Tells(s, q, "CLSE")', Tells(t, q, "WRTE")'
        PROVE  wire.expect = t
    <3>1. CASE t \in Out
      <4>1. Precedes(s, t) /\ Tells(t, q, "WRTE")
        BY <1>1, <1>2, <2>1, <3>1
      <4>2. Tells(s, q, "CLSE")
        BY <1>1, <1>2, <2>1, <4>1
      <4> QED BY <4>1, <4>2 DEF InTurn, Last
    <3>2. CASE t \notin Out
      <4>1. Has(q, l) /\ l \in DOMAIN streams'
        BY <1>7, <2>1, <3>2
      <4>2. Tells(s, q, "CLSE") /\ s \in Slots
        BY <1>1, <1>2, <1>5, <2>1, <4>1, OutTyped DEF Tells
      <4> QED BY <1>3, <4>1, <4>2 DEF OneClose
    <3> QED BY <3>1, <3>2
  <2>2. ASSUME host[q].st = "closing", NEW t, Tells(t, q, "WRTE")'
        PROVE  FALSE
    <3>1. t \notin Out
      BY <1>1, <2>2 DEF InTurn, Last
    <3> QED BY <1>3, <1>7, <2>2, <3>1 DEF OneClose
  <2> QED BY <2>1, <2>2 DEF Last
<1>10. ASSUME host[q].st \in {"opening", "open"}
       PROVE  Rising(q)' /\ Dense(q)' /\ Numbers(q)'
  <2>1. Rising(q) /\ Dense(q) /\ Numbers(q) /\ host[q].got \in Nat
    BY <1>10 DEF InTurn, Numbered, Inv, TypeOK, HostTypeOK, HostRecords
  <2>2. ASSUME NEW t, Waits(t)', Tells(t, q, "WRTE")'
        PROVE  \/ Waits(t) /\ Tells(t, q, "WRTE") /\ buffers'[t] = buffers[t] /\ t \in Out
               \/ t \notin Out
    BY <1>1, <1>2, <2>2
  <2>3. \A t : Waits(t) /\ Tells(t, q, "WRTE") =>
          Waits(t)' /\ Tells(t, q, "WRTE")' /\ buffers'[t] = buffers[t]
    BY <1>1, <1>2
  <2>4. \A t : Waits(t) => buffers[t].payload \in Nat
    BY <1>2, OutTyped DEF DevMsgs
  <2>5. Rising(q)'
    <3> SUFFICES ASSUME NEW s, NEW t, Precedes(s, t)', Tells(s, q, "WRTE")', Tells(t, q, "WRTE")'
                 PROVE  buffers'[s].payload < buffers'[t].payload \/ wire.expect = t
      BY DEF Rising
    <3>1. CASE t \in Out
      <4>1. Precedes(s, t) /\ Tells(t, q, "WRTE") /\ Tells(s, q, "WRTE")
            /\ buffers'[s] = buffers[s] /\ buffers'[t] = buffers[t]
        BY <1>1, <1>2, <3>1
      <4> QED BY <2>1, <4>1 DEF Rising
    <3>2. CASE t \notin Out
      <4>1. /\ Has(q, l) /\ buffers'[t] \in M /\ buffers'[t].cmd = "WRTE"
            /\ buffers'[t].payload = streams[l].tx + 1
        BY <1>7, <3>2
      <4>2. s \in Out
        BY <1>2, <1>5, <1>7, <3>2, <4>1
      <4>3. Waits(s) /\ Tells(s, q, "WRTE") /\ buffers'[s] = buffers[s]
        BY <1>2, <2>2, <4>2
      <4>4. buffers[s].payload <= streams[l].tx
        BY <1>3, <2>1, <4>1, <4>3 DEF Numbers
      <4> QED BY <1>6, <2>4, <4>1, <4>3, <4>4
    <3> QED BY <3>1, <3>2
  <2>6. Dense(q)'
    <3> SUFFICES ASSUME NEW t, Waits(t)', Tells(t, q, "WRTE")'
                 PROVE  /\ buffers'[t].payload > host[q].got
                        /\ buffers'[t].payload > host[q].got + 1 =>
                             \E s : Waits(s)' /\ Tells(s, q, "WRTE")'
                                    /\ buffers'[s].payload = buffers'[t].payload - 1
      BY DEF Dense
    <3>1. CASE t \in Out
      <4>1. Waits(t) /\ Tells(t, q, "WRTE") /\ buffers'[t] = buffers[t]
        BY <2>2, <3>1
      <4>2. /\ buffers[t].payload > host[q].got
            /\ buffers[t].payload > host[q].got + 1 =>
                 \E s : Waits(s) /\ Tells(s, q, "WRTE")
                          /\ buffers[s].payload = buffers[t].payload - 1
        BY <2>1, <4>1 DEF Dense
      <4> QED BY <2>3, <4>1, <4>2
    <3>2. CASE t \notin Out
      <4>1. Has(q, l) /\ buffers'[t].payload = streams[l].tx + 1 /\ streams[l].tx \in Nat
        BY <1>6, <1>7, <3>2
      <4>2. /\ streams[l].tx >= host[q].got
            /\ streams[l].tx > host[q].got =>
                 \E s : Waits(s) /\ Tells(s, q, "WRTE") /\ buffers[s].payload = streams[l].tx
        BY <1>3, <2>1, <4>1 DEF Numbers
      <4>3. buffers'[t].payload > host[q].got /\ buffers'[t].payload - 1 = streams[l].tx
            /\ (buffers'[t].payload > host[q].got + 1 => streams[l].tx > host[q].got)
        BY <2>1, <4>1, <4>2
      <4> QED BY <2>3, <4>2, <4>3
    <3> QED BY <3>1, <3>2
  <2>7. Numbers(q)'
    <3> SUFFICES ASSUME NEW k \in Nat, Has(q, k)'
                 PROVE  /\ streams'[k].tx >= host[q].got
                        /\ streams'[k].tx > host[q].got =>
                             \E t : Waits(t)' /\ Tells(t, q, "WRTE")'
                                    /\ buffers'[t].payload = streams'[k].tx
                        /\ \A t : Waits(t)' /\ Tells(t, q, "WRTE")' =>
                             buffers'[t].payload <= streams'[k].tx
      BY DEF Numbers
    <3>1. Has(q, k) /\ streams[k].tx \in Nat
      BY <1>3, <1>6
    <3>2. /\ streams[k].tx >= host[q].got
          /\ streams[k].tx > host[q].got =>
               \E t : Waits(t) /\ Tells(t, q, "WRTE") /\ buffers[t].payload = streams[k].tx
          /\ \A t : Waits(t) /\ Tells(t, q, "WRTE") => buffers[t].payload <= streams[k].tx
      BY <2>1, <3>1 DEF Numbers
    <3>3. \A t : Waits(t)' /\ Tells(t, q, "WRTE")' /\ t \notin Out => k = l
      BY <1>3, <1>7, <3>1 DEF OneEnd
    <3>4. CASE \E x \in M : x.cmd = "WRTE" /\ k = l
      <4>1. PICK x \in M : x.cmd = "WRTE" /\ k = l
        BY <3>4
      <4>2. x.arg1 = q
        BY <1>5, <4>1 DEF Talks
      <4>3. streams'[k].tx = streams[k].tx + 1 /\ x.payload = streams'[k].tx
        BY <1>4, <4>1, <4>2
      <4>4. PICK t : Waits(t)' /\ t \notin Out /\ buffers'[t] = x
        BY <1>2, <4>1
      <4>5. Tells(t, q, "WRTE")'
        <5>1. t \in Out'
          BY <4>4 DEF QueueGains
        <5> QED BY <4>1, <4>2, <4>4, <5>1 DEF Tells
      <4>6. \A s : Waits(s)' /\ Tells(s, q, "WRTE")' => buffers'[s].payload <= streams'[k].tx
        BY <1>7, <2>2, <2>4, <3>1, <3>2, <4>1, <4>3
      <4> QED BY <2>1, <3>1, <3>2, <4>3, <4>4, <4>5, <4>6
    <3>5. CASE \A x \in M : ~(x.cmd = "WRTE" /\ k = l)
      <4>1. streams'[k].tx = streams[k].tx
        BY <1>3, <1>5, <3>5
      <4>2. \A t : Waits(t)' /\ Tells(t, q, "WRTE")' => t \in Out
        BY <1>7, <3>3, <3>5
      <4> QED BY <2>2, <2>3, <3>2, <4>1, <4>2
    <3> QED BY <3>4, <3>5
  <2> QED BY <2>5, <2>6, <2>7
<1> QED
  BY <1>8, <1>9, <1>10 DEF InTurn, Numbered

\* The device handles an OPEN.
LEMMA OpenInTurn ==
  ASSUME Inv, Flowing, NEW m, NEW M, Opens(m, M), Sends(M), Consumes({m}), QueueGains(M),
         UNCHANGED <<host, wire>>, NEW q \in Remotes, OneEnd(q), InTurn(q)
  PROVE  InTurn(q)'
<1>1. /\ \A s, cmd : Tells(s, q, cmd) => Tells(s, q, cmd)' /\ buffers'[s] = buffers[s] /\ s \in Out
      /\ \A s, cmd : Tells(s, q, cmd)' =>
           \/ Tells(s, q, cmd) /\ buffers'[s] = buffers[s]
           \/ s \notin Out /\ buffers'[s] \in M /\ buffers'[s].arg1 = q /\ buffers'[s].cmd = cmd
  BY NewTells DEF Tells
<1>2. /\ \A s : Waits(s) => Waits(s)' /\ s \in Out
      /\ \A s, t : Precedes(s, t) => Precedes(s, t)' /\ Waits(s) /\ Waits(t)
      /\ \A s, t : Precedes(s, t)' => Waits(s)' /\ Waits(t)'
      /\ \A s : Waits(s)' => s \in Out' /\ (Waits(s) \/ s \notin Out)
      /\ \A s, t : Precedes(s, t)' => Precedes(s, t) \/ t \notin Out
      /\ \A x \in M : \E s : Waits(s)' /\ s \notin Out /\ buffers'[s] = x
  BY WaitsOut DEF QueueGains
<1>3. /\ \A x \in M : x.arg1 = m.arg0 /\ x.cmd # "WRTE"
      /\ \A x : x = Okay(next_id, m.arg0) => x.cmd = "OKAY" /\ x.arg1 = m.arg0
      /\ m.cmd = "OPEN"
  BY DEF Opens, Okay, Clse, DevMsg
<1>4. /\ \A k : Has(q, k)' => \/ Has(q, k) /\ streams'[k] = streams[k]
                              \/ q = m.arg0 /\ k = next_id /\ M = {Okay(next_id, m.arg0)}
      /\ \A k : Has(q, k) => k \in Nat /\ Names(q, k)
  <2>1. DOMAIN streams \subseteq Nat
    BY DEF Inv, TypeOK
  <2> QED BY <2>1, OpenHas DEF Has, Names
<1>5. \A t : Tells(t, q, "WRTE")' => Tells(t, q, "WRTE") /\ buffers'[t] = buffers[t] /\ t \in Out
  BY <1>1, <1>3
<1>6. CASE q # m.arg0
  <2>1. \A s, cmd : Tells(s, q, cmd)' => Tells(s, q, cmd) /\ buffers'[s] = buffers[s] /\ s \in Out
    BY <1>1, <1>3, <1>6
  <2>2. \A k : Has(q, k)' => Has(q, k) /\ streams'[k] = streams[k]
    BY <1>4, <1>6
  <2>3. \A s, cmd : Waits(s) /\ Tells(s, q, cmd) => Waits(s)' /\ Tells(s, q, cmd)' /\ buffers'[s] = buffers[s]
    BY <1>1, <1>2
  <2>4. \A s, cmd : Waits(s)' /\ Tells(s, q, cmd)' => Waits(s) /\ Tells(s, q, cmd) /\ buffers'[s] = buffers[s]
    BY <1>2, <2>1
  <2>5. \A s, t, cmd : Precedes(s, t)' /\ Tells(t, q, cmd)' => Precedes(s, t)
    BY <1>2, <2>1
  <2>6. Introduced(q)'
    <3>1. Introduced(q)
      BY DEF InTurn
    <3> QED BY <1>1, <1>2, <2>2, <2>3, <2>4, <3>1 DEF Introduced
  <2>7. Last(q)'
    BY <2>1, <2>5 DEF InTurn, Last
  <2>8. ASSUME host[q].st \in {"opening", "open"}
        PROVE  Rising(q)' /\ Dense(q)' /\ Numbers(q)'
    <3>1. Rising(q) /\ Dense(q) /\ Numbers(q)
      BY <2>8 DEF InTurn, Numbered
    <3>2. Rising(q)'
      BY <2>1, <2>5, <3>1 DEF Rising
    <3>3. Dense(q)'
      BY <2>3, <2>4, <3>1 DEF Dense
    <3>4. Numbers(q)'
      BY <2>2, <2>3, <2>4, <3>1 DEF Numbers
    <3> QED BY <3>2, <3>3, <3>4
  <2> QED BY <2>6, <2>7, <2>8 DEF InTurn, Numbered
<1>7. CASE q = m.arg0
  <2>1. host[q].st = "opening" /\ \A k \in Nat : ~Names(q, k)
    <3>1. PICK i \in {0, 1} : Due(i, m) /\ m \in HostMsgs
      BY DEF Consumes
    <3>2. i \in Nat /\ Asks(i, q, "OPEN")
      BY <1>3, <1>7, <3>1 DEF Asks
    <3> QED BY <3>2 DEF OneEnd
  <2>2. \A s, cmd : ~Tells(s, q, cmd)
    <3>1. \A s \in Out : buffers[s].arg0 \in Nat
      BY OutTyped DEF DevMsgs
    <3> QED BY <2>1, <3>1 DEF Tells, Names
  <2>3. \A t : ~Tells(t, q, "WRTE")'
    BY <1>5, <2>2
  <2>4. \A k : Has(q, k)' => k = next_id /\ M = {Okay(next_id, m.arg0)}
    BY <1>4, <2>1
  <2>5. ASSUME NEW k \in Nat, Has(q, k)'
        PROVE  \E s : Waits(s)' /\ Tells(s, q, "OKAY")'
    <3>1. PICK x \in M : x = Okay(next_id, m.arg0)
      BY <2>4, <2>5
    <3>2. PICK s : Waits(s)' /\ buffers'[s] = x
      BY <1>2
    <3>3. s \in Out' /\ x.cmd = "OKAY" /\ x.arg1 = q
      BY <1>2, <1>3, <1>7, <3>1, <3>2
    <3> QED BY <3>2, <3>3 DEF Tells
  <2>6. ASSUME NEW k \in Nat, Has(q, k)'
        PROVE  streams'[k].tx = 0 /\ host[q].got = 0
    <3>1. host[q].got = 0
      BY <2>1 DEF Flowing, HostsFresh
    <3>2. k = next_id /\ M = {Okay(next_id, m.arg0)}
      BY <2>4, <2>6
    <3>3. Okay(next_id, m.arg0) # Clse(0, m.arg0)
      BY DEF Okay, Clse, DevMsg
    <3>4. PICK kind : streams' = Insert(streams, next_id, NewStream(m.arg0, kind))
      BY <3>2, <3>3 DEF Opens
    <3>5. streams'[next_id].tx = 0
      BY <3>4 DEF Insert, NewStream
    <3> QED BY <3>1, <3>2, <3>5
  <2>7. Introduced(q)' /\ Last(q)'
    BY <2>3, <2>5 DEF Introduced, Last
  <2>8. Rising(q)' /\ Dense(q)'
    BY <2>3 DEF Rising, Dense
  <2>9. Numbers(q)'
    BY <2>3, <2>6 DEF Numbers
  <2> QED BY <2>7, <2>8, <2>9 DEF InTurn, Numbered
<1> QED
  BY <1>6, <1>7

\* A turn of the loop keeps the order.
LEMMA TurnOrders ==
  ASSUME Inv, Inv', Flowing, Flowing', Closing, Ordered, NEW M, NEW got, Turn(M, got)
  PROVE  Ordered'
<1>1. /\ daemon' = "running" /\ UNCHANGED <<kern, bulk_in, host, wire, usb, faults>>
      /\ Consumes(got)
      /\ \/ \E l, r : Talks(l, r, M, got)
         \/ \E m : got = {m} /\ Opens(m, M)
  BY DEF Turn
<1>2. PICK j : Commit(j) /\ Puts(Io, j, M)
  BY DEF Turn
<1>3. Sends(M) /\ Linked(sq) /\ Linked(kern)
  BY <1>1, <1>2, PutsSends DEF Closing
<1>4. QueueGains(M) /\ Complete(order, sq)' /\ OneLink(sq)'
  <2>1. Complete(order, sq) /\ OneLink(sq)
    BY DEF Ordered
  <2>2. QueueGains(M) /\ Complete(order', sq') /\ OneLink(sq')
    BY <1>1, <1>2, <1>3, <2>1, QueueGrows
  <2> QED BY <2>2 DEF Complete, OneLink
<1>5. Complete(bulk_in, kern)' /\ OneLink(kern)'
  BY <1>1 DEF Ordered, Complete, OneLink
<1>6. Plain'
  <2>1. \A x \in M : x.arg1 \in Remotes /\ x.cmd # "WRTE" => x.payload = 0
    <3>1. ASSUME NEW l, NEW r, Talks(l, r, M, got)
          PROVE  \A x \in M : x.arg1 \in Remotes /\ x.cmd # "WRTE" => x.payload = 0
      BY <3>1 DEF Talks
    <3>2. ASSUME NEW m, Opens(m, M)
          PROVE  \A x \in M : x.payload = 0
      BY <3>2 DEF Opens, Okay, Clse, DevMsg
    <3> QED BY <1>1, <3>1, <3>2
  <2> QED BY <1>3, <2>1 DEF Ordered, Plain, Sends
<1>7. ASSUME Calm', NEW q \in Remotes
      PROVE  InTurn(q)'
  <2>1. InTurn(q) /\ OneEnd(q) /\ OneClose(q) /\ TalkKnown
    BY <1>1, <1>7 DEF Ordered, Calm, Closing, Ends
  <2> QED BY <1>1, <1>3, <1>4, <2>1, TalkInTurn, OpenInTurn
<1> QED
  BY <1>4, <1>5, <1>6, <1>7 DEF Ordered

-----------------------------------------------------------------------------
(* The steps that leave the queue.                                          *)

\* A stream whose messages stay where they are.
LEMMA SameInTurn ==
  ASSUME NEW q, InTurn(q), Queue' = Queue, wire' = wire, streams' = streams,
         \A s : s \in Out' <=> s \in Out, \A s \in Out : buffers'[s] = buffers[s],
         \/ host'[q].st = host[q].st /\ host'[q].got = host[q].got
         \/ host'[q].st = "closed"
         \/ host'[q].st = "opening" /\ \A l \in Nat : ~Has(q, l) /\ \A s : ~Tells(s, q, "WRTE")
  PROVE  InTurn(q)'
<1>2. /\ \A s : Waits(s)' <=> Waits(s)
      /\ \A s, t : Precedes(s, t)' <=> Precedes(s, t)
  BY DEF Waits, Precedes
<1>3. /\ \A s, cmd : Tells(s, q, cmd)' <=> Tells(s, q, cmd)
      /\ \A s, cmd : Tells(s, q, cmd) => buffers'[s] = buffers[s]
      /\ \A l : Has(q, l)' <=> Has(q, l)
  BY DEF Tells, Has
<1>4. CASE host'[q].st = host[q].st /\ host'[q].got = host[q].got
  <2>1. Introduced(q)'
    BY <1>2, <1>3, <1>4 DEF InTurn, Introduced
  <2>2. Last(q)'
    BY <1>2, <1>3, <1>4 DEF InTurn, Last
  <2>3. Rising(q) => Rising(q)'
    BY <1>2, <1>3 DEF Rising
  <2>4. Dense(q) => Dense(q)'
    BY <1>2, <1>3, <1>4 DEF Dense
  <2>5. Numbers(q) => Numbers(q)'
    BY <1>2, <1>3, <1>4 DEF Numbers
  <2> QED BY <1>4, <2>1, <2>2, <2>3, <2>4, <2>5 DEF InTurn, Numbered
<1>5. CASE host'[q].st = "closed"
  <2>1. Introduced(q)' /\ Numbered(q)'
    BY <1>5 DEF Introduced, Numbered
  <2>2. Last(q)'
    BY <1>2, <1>3, <1>5 DEF InTurn, Last
  <2> QED BY <2>1, <2>2 DEF InTurn
<1>6. CASE host'[q].st = "opening" /\ \A l \in Nat : ~Has(q, l) /\ \A s : ~Tells(s, q, "WRTE")
  <2>1. (\A l \in Nat : ~Has(q, l)') /\ \A s : ~Tells(s, q, "WRTE")'
    BY <1>3, <1>6
  <2>2. Introduced(q)' /\ Last(q)'
    BY <2>1 DEF Introduced, Last
  <2>3. Rising(q)' /\ Dense(q)' /\ Numbers(q)'
    BY <2>1 DEF Rising, Dense, Numbers
  <2> QED BY <2>2, <2>3 DEF InTurn, Numbered
<1> QED
  BY <1>4, <1>5, <1>6

\* A step that no write takes part in.
LEMMA SameOrdered ==
  ASSUME Ordered, UNCHANGED <<bulk_in, order, wire, sq, streams, host>>, Writes(kern') = Writes(kern),
         \A s \in Out : buffers'[s] = buffers[s], Calm' => Calm
  PROVE  Ordered'
<1>1. \A s : s \in Out' <=> s \in Out
  BY DEF Out
<1>2. /\ Complete(order, sq)' /\ OneLink(sq)' /\ Complete(bulk_in, kern)' /\ OneLink(kern)'
  BY DEF Ordered, Complete, OneLink
<1>3. Plain'
  BY <1>1 DEF Ordered, Plain
<1>4. Calm' => \A q \in Remotes : InTurn(q)'
  BY <1>1, SameInTurn DEF Ordered, Queue
<1> QED
  BY <1>2, <1>3, <1>4 DEF Ordered

\* A completed write is not among those that wait.
LEMMA WriteDoneOrders ==
  ASSUME Inv, Ordered, NEW c \in batch, WriteDone(c), daemon' = "running"
  PROVE  Ordered'
<1>1. /\ c \in Writes(batch) /\ buffers' = Free(buffers, c.data)
      /\ UNCHANGED <<bulk_in, order, wire, sq, streams, host>> /\ UNCHANGED <<usb, faults, kern>>
  BY DEF WriteDone, Take, kernVars, hostVars, devVars
<1>2. \A o \in Writes(sq) \cup Writes(kern) : o.data # c.data /\ o.data \in Slots
  BY <1>1, SlotsInUse DEF Inv, WritesOwnTheirSlot, NoCommonSlot
<1>3. \A s \in Slots : s # c.data => buffers'[s] = buffers[s]
  BY <1>1 DEF Free, Inv, TypeOK
<1>4. \A s \in Out : buffers'[s] = buffers[s]
  BY <1>2, <1>3 DEF Out
<1> QED
  BY <1>1, <1>4, SameOrdered DEF Calm

\* What is submitted keeps its place.
LEMMA SubmitOrders ==
  ASSUME Inv, Closing, Ordered, Submit
  PROVE  Ordered'
<1>1. /\ sq' = {} /\ kern' = kern \cup sq /\ bulk_in' = bulk_in \o order /\ order' = << >>
      /\ UNCHANGED <<buffers, wire, streams, host>> /\ UNCHANGED <<usb, faults>>
  BY DEF Submit, hostVars, devVars
<1>2. Writes(sq') = {} /\ Writes(kern') = Writes(sq) \cup Writes(kern)
  BY <1>1 DEF Writes
<1>3. /\ bulk_in \in Seq(Slots) /\ order \in Seq(Slots)
      /\ Joined(bulk_in', bulk_in, order) /\ bulk_in' \in Seq(Slots)
  <2>1. bulk_in \in Seq(Slots) /\ order \in Seq(Slots)
    BY DEF Inv, TypeOK
  <2> QED BY <1>1, <2>1, ConcatIs, ConcatProperties
<1>4. Queue' = Queue
  BY <1>1, <1>3 DEF Queue
<1>5. Complete(order, sq)' /\ OneLink(sq)'
  BY <1>2 DEF Complete, OneLink
<1>6. Complete(bulk_in, kern)'
  <2>1. ASSUME NEW o \in Writes(kern'), o.after = 0
        PROVE  \E i \in 1..Len(bulk_in') : bulk_in'[i] = o.data
    <3>1. CASE o \in Writes(kern)
      <4>1. PICK i \in 1..Len(bulk_in) : bulk_in[i] = o.data
        BY <2>1, <3>1 DEF Ordered, Complete
      <4>2. i \in 1..Len(bulk_in') /\ bulk_in'[i] = bulk_in[i]
        BY <1>3 DEF Joined
      <4> QED BY <4>1, <4>2
    <3>2. CASE o \in Writes(sq)
      <4>1. PICK i \in 1..Len(order) : order[i] = o.data
        BY <2>1, <3>2 DEF Ordered, Complete
      <4>2. i + Len(bulk_in) \in 1..Len(bulk_in') /\ bulk_in'[i + Len(bulk_in)] = order[i]
        BY <1>3 DEF Joined
      <4> QED BY <4>1, <4>2
    <3> QED BY <1>2, <3>1, <3>2
  <2> QED BY <2>1 DEF Complete
<1>7. OneLink(kern)'
  <2>1. NoCommonSlot(sq, kern) /\ Linked(sq) /\ Linked(kern)
    BY DEF Inv, WritesOwnTheirSlot, Closing
  <2>2. ASSUME NEW o \in Writes(sq), NEW p \in Writes(kern), o.after = p.after, o.after # 0
        PROVE  FALSE
    <3>1. PICK g \in Writes(sq) : g.data = o.after
      BY <2>1, <2>2 DEF Linked
    <3>2. PICK h \in Writes(kern) : h.data = p.after
      BY <2>1, <2>2 DEF Linked
    <3> QED BY <2>1, <2>2, <3>1, <3>2 DEF NoCommonSlot
  <2> QED BY <1>2, <2>2 DEF Ordered, OneLink
<1>8. \A s : s \in Out' <=> s \in Out
  BY <1>2 DEF Out
<1>9. Plain'
  BY <1>1, <1>8 DEF Ordered, Plain
<1>10. ASSUME Calm', NEW q \in Remotes
       PROVE  InTurn(q)'
  <2>1. InTurn(q)
    BY <1>1, <1>10 DEF Ordered, Calm
  <2> QED BY <1>1, <1>4, <1>8, <2>1, SameInTurn
<1> QED
  BY <1>5, <1>6, <1>7, <1>9, <1>10 DEF Ordered

\* A write that fails: the link is no longer calm.
LEMMA KernelWriteFailOrders ==
  ASSUME Inv, Flowing, Ordered, KernelWriteFail
  PROVE  Ordered'
<1> DEFINE s == Head(bulk_in)
           gone == {o \in Writes(kern) : s \in {o.data, o.after}}
<1>1. /\ kern' = kern \ gone /\ bulk_in # << >> /\ bulk_in' = Tail(bulk_in)
      /\ faults' = (IF usb THEN faults + 1 ELSE faults) /\ usb' = usb
      /\ UNCHANGED <<buffers, sq, order>>
  BY DEF KernelWriteFail, ioVars
<1>2. bulk_in \in Seq(Slots) /\ faults \in Nat
  BY DEF Inv, TypeOK
<1>3. ~Calm'
  BY <1>1, <1>2 DEF Calm
<1>4. Writes(kern') = Writes(kern) \ gone
  BY <1>1 DEF Writes
<1>5. Complete(bulk_in, kern)'
  <2>1. ASSUME NEW o \in Writes(kern'), o.after = 0
        PROVE  \E i \in 1..Len(bulk_in') : bulk_in'[i] = o.data
    <3>1. o \in Writes(kern) /\ o.data # s
      BY <1>4, <2>1
    <3>2. PICK i \in 1..Len(bulk_in) : bulk_in[i] = o.data
      BY <2>1, <3>1 DEF Ordered, Complete
    <3>3. s = bulk_in[1]
      BY <1>1, <1>2
    <3>4. i # 1
      BY <3>1, <3>2, <3>3
    <3> HIDE DEF s
    <3>5. i - 1 \in 1..Len(bulk_in') /\ bulk_in'[i - 1] = bulk_in[i]
      BY <1>1, <1>2, <3>4
    <3> QED BY <3>2, <3>5
  <2> QED BY <2>1 DEF Complete
<1>6. OneLink(kern)' /\ Complete(order, sq)' /\ OneLink(sq)'
  BY <1>1, <1>4 DEF Ordered, OneLink, Complete
<1>7. Plain'
  <2>1. \A x \in Out' : x \in Out
    BY <1>1, <1>4 DEF Out
  <2> QED BY <1>1, <2>1 DEF Ordered, Plain
<1> QED
  BY <1>3, <1>5, <1>6, <1>7 DEF Ordered

\* The steps of the host.
LEMMA HostOrders ==
  ASSUME ~Restarts, Inv, CloseInv, OrderInv, Host
  PROVE  OrderInv'
<1>1. daemon = "running" /\ Closing /\ Ordered /\ Resting /\ UNCHANGED <<usb, faults>>
  BY DEF Host, HostStep, CloseInv, OrderInv, Resting, devVars, ioVars, kernVars
<1>2. \/ HostConnect \/ HostNoise
      \/ \E r \in Remotes : \/ \E svc \in Services : HostOpen(r, svc)
                            \/ HostWrite(r) \/ HostAck(r) \/ HostClose(r)
  BY HostSteps
<1>3. wire' = wire
  <2>1. CASE HostConnect \/ HostNoise
    BY <2>1 DEF HostConnect, HostNoise, HostSend
  <2>2. ASSUME NEW r \in Remotes, NEW svc \in Services, HostOpen(r, svc)
        PROVE  wire' = wire
    BY <2>2 DEF HostOpen, HostSend
  <2>3. ASSUME NEW r \in Remotes, HostWrite(r) \/ HostAck(r) \/ HostClose(r)
        PROVE  wire' = wire
    BY <2>3 DEF HostWrite, HostAck, HostClose, HostSend
  <2> QED BY <1>2, <2>1, <2>2, <2>3
<1>4. host \in [Remotes -> HostRecords]
  BY DEF Inv, TypeOK, HostTypeOK
<1>5. ASSUME NEW q \in Remotes
      PROVE  \/ host'[q].st = host[q].st /\ host'[q].got = host[q].got
             \/ host'[q].st = "closed"
             \/ host'[q].st = "opening" /\ host[q].st = "idle"
  <2>1. CASE HostConnect \/ HostNoise
    BY <2>1 DEF HostConnect, HostNoise
  <2>2. ASSUME NEW r \in Remotes, NEW svc \in Services, HostOpen(r, svc)
        PROVE  \/ host'[q].st = host[q].st /\ host'[q].got = host[q].got
               \/ host'[q].st = "opening" /\ host[q].st = "idle"
    BY <1>4, <2>2 DEF HostOpen, HostRecords
  <2>3. ASSUME NEW r \in Remotes, HostWrite(r)
        PROVE  host'[q].st = host[q].st /\ host'[q].got = host[q].got
    <3>1. CASE host' = [host EXCEPT ![r].unacked = TRUE, ![r].sent = @ + 1]
      BY <1>4, <3>1 DEF HostRecords
    <3>2. CASE \E req \in Requests :
                 host' = [host EXCEPT ![r].unacked = TRUE, ![r].sent = @ + 1,
                                      ![r].mode = Mode(req)]
      BY <1>4, <3>2 DEF HostRecords
    <3> QED BY <2>3, <3>1, <3>2 DEF HostWrite
  <2>4. ASSUME NEW r \in Remotes, HostAck(r)
        PROVE  host'[q].st = host[q].st /\ host'[q].got = host[q].got
    BY <1>4, <2>4 DEF HostAck, HostRecords
  <2>5. ASSUME NEW r \in Remotes, HostClose(r)
        PROVE  \/ host'[q].st = host[q].st /\ host'[q].got = host[q].got
               \/ host'[q].st = "closed"
    BY <1>4, <2>5 DEF HostClose, HostRecords
  <2> QED BY <1>2, <2>1, <2>2, <2>3, <2>4, <2>5
<1>6. ASSUME Calm', NEW q \in Remotes
      PROVE  InTurn(q)'
  <2>1. InTurn(q) /\ OneEnd(q)
    BY <1>1, <1>3, <1>6 DEF Ordered, Calm, Closing, Ends
  <2>2. host[q].st = "idle" =>
          (\A l \in Nat : ~Has(q, l)) /\ \A s : ~Tells(s, q, "WRTE")
    <3>1. \A s \in Out : buffers[s].arg0 \in Nat
      BY OutTyped DEF DevMsgs
    <3> QED BY <2>1, <3>1 DEF OneEnd, Names, Tells
  <2>3. Out' = Out /\ buffers' = buffers /\ streams' = streams /\ Queue' = Queue
    BY <1>1, RestingOut DEF Resting, Queue
  <2> QED BY <1>3, <1>5, <2>1, <2>2, <2>3, SameInTurn
<1>7. Ordered'
  <2>1. Out' = Out /\ UNCHANGED <<buffers, sq, kern, order, bulk_in>>
    BY <1>1, RestingOut DEF Resting
  <2> QED BY <1>1, <1>6, <2>1 DEF Ordered, Complete, OneLink, Plain
<1> QED
  BY <1>7 DEF OrderInv

\* At the start nothing waits.
LEMMA InitOrders ==
  ASSUME Init
  PROVE  OrderInv
<1>1. /\ sq = {Ep0Poll, ReadHeader} /\ order = << >> /\ kern = {} /\ bulk_in = << >>
      /\ streams = NoStreams /\ \A r \in Remotes : host[r] = NewHost
  BY DEF Init, InitDev, InitKern, InitHost
<1>2. Writes(sq) = {} /\ Writes(kern) = {}
  BY <1>1 DEF Writes, Ep0Poll, ReadHeader, Op
<1>3. Out = {}
  BY <1>2 DEF Out
<1>4. \A r, l : ~Has(r, l)
  BY <1>1 DEF Has, NoStreams
<1>5. \A s, r, cmd : ~Tells(s, r, cmd)
  BY <1>3 DEF Tells
<1>6. \A r \in Remotes : InTurn(r)
  BY <1>4, <1>5 DEF InTurn, Introduced, Last, Numbered, Rising, Dense, Numbers
<1> QED
  BY <1>2, <1>3, <1>6 DEF OrderInv, Ordered, Complete, OneLink, Plain

-----------------------------------------------------------------------------
(* A write that reaches the host, first come first served.                  *)

\* The first of queue q is gone in r, where p (if it is not 0) is new at place n.
Shifted(q, r, p, n) ==
  /\ Len(q) \in Nat /\ Len(r) \in Nat /\ n \in 1..Len(q)
  /\ \A k \in 1..Len(r) : \/ k < n /\ k + 1 \in 1..Len(q) /\ r[k] = q[k + 1]
                          \/ k > n /\ k \in 1..Len(q) /\ r[k] = q[k]
                          \/ k = n /\ p # 0 /\ r[k] = p
  /\ \A k \in 1..Len(q) : k # 1 => \/ k <= n /\ k - 1 \in 1..Len(r)
                                   \/ k > n /\ k \in 1..Len(r)
  /\ p # 0 => n \in 1..Len(r)

\* The write of slot s was the first that waited; the payload in slot p that
\* was linked to it (0: none) waits now.
Taken(s, p) ==
  /\ Waits(s) /\ \A a : ~Precedes(a, s)
  /\ \A b : Waits(b) => b = s \/ Precedes(s, b)
  /\ \A b : Waits(b)' => (p # 0 /\ b = p) \/ (Waits(b) /\ b # s)
  /\ \A b : Waits(b) /\ b # s => Waits(b)'
  /\ p # 0 => Waits(p)'
  /\ \A a, b : Precedes(a, b)' =>
       (a # s /\ Precedes(a, b)) \/ (p # 0 /\ b = p) \/ (p # 0 /\ a = p /\ Waits(b) /\ b # s)
  /\ \A a, b : Precedes(a, b) /\ a # s => Precedes(a, b)'

\* What a shift does to those that wait.
LEMMA ShiftTakes ==
  ASSUME NEW s, NEW p, NEW n, Shifted(Queue, Queue', p, n), s = Queue[1],
         \A i, k \in 1..Len(Queue) : Queue[i] = Queue[k] => i = k
  PROVE  Taken(s, p)
<1>1. /\ Len(Queue) \in Nat /\ Len(Queue') \in Nat /\ n \in 1..Len(Queue) /\ 1 \in 1..Len(Queue)
      /\ \A k \in 1..Len(Queue') : \/ k < n /\ k + 1 \in 1..Len(Queue) /\ Queue'[k] = Queue[k + 1]
                                   \/ k > n /\ k \in 1..Len(Queue) /\ Queue'[k] = Queue[k]
                                   \/ k = n /\ p # 0 /\ Queue'[k] = p
      /\ \A k \in 1..Len(Queue) : k # 1 => \/ k <= n /\ k - 1 \in 1..Len(Queue')
                                           \/ k > n /\ k \in 1..Len(Queue')
      /\ p # 0 => n \in 1..Len(Queue') /\ Queue'[n] = p
  BY DEF Shifted
<1>2. \A k \in 1..Len(Queue) : k # 1 => Queue[k] # s
  BY <1>1
<1>3. ASSUME NEW k \in 1..Len(Queue), k # 1
      PROVE  \E x \in 1..Len(Queue') : /\ Queue'[x] = Queue[k]
                                       /\ k <= n => x = k - 1
                                       /\ k > n => x = k
  <2>1. CASE k <= n
    <3>1. k - 1 \in 1..Len(Queue') /\ k - 1 < n /\ (k - 1) + 1 = k
      BY <1>1, <1>3, <2>1
    <3>2. Queue'[k - 1] = Queue[(k - 1) + 1]
      BY <1>1, <3>1
    <3> QED BY <1>1, <2>1, <3>1, <3>2
  <2>2. CASE k > n
    BY <1>1, <1>3, <2>2
  <2> QED BY <1>1, <2>1, <2>2
<1>4. ASSUME NEW x \in 1..Len(Queue'), x # n
      PROVE  \E k \in 1..Len(Queue) : /\ Queue'[x] = Queue[k] /\ k # 1
                                      /\ x < n => k = x + 1
                                      /\ x > n => k = x
  BY <1>1, <1>4
<1>5. Waits(s) /\ \A a : ~Precedes(a, s)
  BY <1>1, <1>2 DEF Waits, Precedes
<1>6. \A b : Waits(b) => b = s \/ Precedes(s, b)
  <2> SUFFICES ASSUME NEW k \in 1..Len(Queue), k # 1
               PROVE  Precedes(s, Queue[k])
    BY DEF Waits
  <2>1. 1 < k
    BY <1>1
  <2> QED BY <1>1, <2>1 DEF Precedes
<1>7. \A b : Waits(b)' => (p # 0 /\ b = p) \/ (Waits(b) /\ b # s)
  BY <1>1, <1>2, <1>4 DEF Waits
<1>8. \A b : Waits(b) /\ b # s => Waits(b)'
  BY <1>3 DEF Waits
<1>9. p # 0 => Waits(p)'
  BY <1>1 DEF Waits
<1>10. ASSUME NEW x \in 1..Len(Queue'), NEW y \in 1..Len(Queue'), x < y
       PROVE  \/ Queue'[x] # s /\ Precedes(Queue'[x], Queue'[y])
              \/ p # 0 /\ Queue'[y] = p
              \/ p # 0 /\ Queue'[x] = p /\ Waits(Queue'[y]) /\ Queue'[y] # s
  <2>1. CASE y = n
    BY <1>1, <2>1
  <2>2. CASE y # n
    <3>1. PICK k \in 1..Len(Queue) : /\ Queue'[y] = Queue[k] /\ k # 1
                                     /\ y < n => k = y + 1
                                     /\ y > n => k = y
      BY <1>4, <2>2
    <3>2. CASE x = n
      BY <1>1, <1>2, <3>1, <3>2 DEF Waits
    <3>3. CASE x # n
      <4>1. PICK j \in 1..Len(Queue) : /\ Queue'[x] = Queue[j] /\ j # 1
                                       /\ x < n => j = x + 1
                                       /\ x > n => j = x
        BY <1>4, <3>3
      <4>2. j < k
        BY <1>1, <1>10, <2>2, <3>1, <3>3, <4>1
      <4> QED BY <1>2, <3>1, <4>1, <4>2 DEF Precedes
    <3> QED BY <3>2, <3>3
  <2> QED BY <2>1, <2>2
<1>11. \A a, b : Precedes(a, b)' =>
         (a # s /\ Precedes(a, b)) \/ (p # 0 /\ b = p) \/ (p # 0 /\ a = p /\ Waits(b) /\ b # s)
  <2> SUFFICES ASSUME NEW x \in 1..Len(Queue'), NEW y \in 1..Len(Queue'), x < y,
                      NEW a, NEW b, a = Queue'[x], b = Queue'[y]
               PROVE  \/ a # s /\ Precedes(a, b)
                      \/ p # 0 /\ b = p
                      \/ p # 0 /\ a = p /\ Waits(b) /\ b # s
    BY DEF Precedes
  <2> QED BY <1>10
<1>12. ASSUME NEW j \in 1..Len(Queue), NEW k \in 1..Len(Queue), j < k, j # 1
       PROVE  \E x, y \in 1..Len(Queue') : x < y /\ Queue'[x] = Queue[j] /\ Queue'[y] = Queue[k]
  <2>1. k # 1
    BY <1>1, <1>12
  <2>2. PICK x \in 1..Len(Queue') : /\ Queue'[x] = Queue[j]
                                    /\ j <= n => x = j - 1
                                    /\ j > n => x = j
    BY <1>3, <1>12
  <2>3. PICK y \in 1..Len(Queue') : /\ Queue'[y] = Queue[k]
                                    /\ k <= n => y = k - 1
                                    /\ k > n => y = k
    BY <1>3, <2>1
  <2>4. x < y
    BY <1>1, <1>12, <2>2, <2>3
  <2> QED BY <2>2, <2>3, <2>4
<1>13. \A a, b : Precedes(a, b) /\ a # s => Precedes(a, b)'
  BY <1>12 DEF Precedes
<1> QED
  BY <1>5, <1>6, <1>7, <1>8, <1>9, <1>11, <1>13 DEF Taken

\* The write that is first leaves the queue of the endpoint.
LEMMA FirstOut ==
  ASSUME Inv, 1 \in DOMAIN bulk_in, KernelWrite(1), NEW s, s = bulk_in[1]
  PROVE  \E p : /\ HostRead(s, p, buffers[s])
                /\ \/ /\ p = 0 /\ bulk_in' = Without(bulk_in, 1)
                      /\ \A o \in kern : o.after # s
                   \/ /\ p # 0 /\ bulk_in' = Append(Without(bulk_in, 1), p)
                      /\ \E o \in Writes(kern) : o.after = s /\ o.data = p
<1>1. s # 0
  BY MaxSlotsAssumption DEF Inv, TypeOK, Slots
<1>2. CASE /\ {o \in kern : o.after = s} = {} /\ bulk_in' = Without(bulk_in, 1)
           /\ HostRead(s, 0, buffers[s])
  BY <1>2
<1>3. CASE \E p \in {o \in kern : o.after = s} :
             /\ bulk_in' = Append(Without(bulk_in, 1), p.data)
             /\ HostRead(s, p.data, buffers[s])
  <2>1. PICK p \in kern : /\ p.after = s /\ bulk_in' = Append(Without(bulk_in, 1), p.data)
                          /\ HostRead(s, p.data, buffers[s])
    BY <1>3
  <2>2. p \in Writes(kern)
    BY <1>1, <2>1 DEF Inv, TypeOK, Ops, Writes
  <2>3. p.data # 0
    BY <2>2, SlotsInUse, MaxSlotsAssumption DEF Slots
  <2> QED BY <2>1, <2>2, <2>3
<1> QED
  BY <1>2, <1>3, Zenon DEF KernelWrite, Without

\* So it leaves the queue of those that wait.
LEMMA QueueShifts ==
  ASSUME Inv, Inv', 1 \in DOMAIN bulk_in, order' = order, NEW p \in Slots \cup {0},
         \/ p = 0 /\ bulk_in' = Without(bulk_in, 1)
         \/ p # 0 /\ bulk_in' = Append(Without(bulk_in, 1), p)
  PROVE  /\ \E n : Shifted(Queue, Queue', p, n)
         /\ Queue[1] = bulk_in[1]
         /\ \A k \in 1..Len(bulk_in) : k # 1 =>
              k - 1 \in 1..Len(bulk_in') /\ bulk_in'[k - 1] = bulk_in[k]
         /\ p # 0 => \E k \in 1..Len(bulk_in') : bulk_in'[k] = p
<1>1. PICK rest, n, m : rest = Without(bulk_in, 1) /\ n = Len(bulk_in) /\ m = Len(order)
  OBVIOUS
<1>2. bulk_in \in Seq(Slots) /\ bulk_in' \in Seq(Slots) /\ order \in Seq(Slots)
  BY DEF Inv, TypeOK
<1>3. n \in Nat /\ m \in Nat /\ 1 \in 1..n
  BY <1>1, <1>2
<1>4. /\ rest \in Seq(Slots) /\ Len(rest) = n - 1
      /\ \A k \in 1..Len(rest) : k + 1 \in 1..n /\ rest[k] = bulk_in[k + 1]
  <2>1. /\ rest \in Seq(Slots) /\ Len(rest) = n - 1
        /\ \A k \in 1..Len(rest) : Skip(k, 1) \in 1..n /\ rest[k] = bulk_in[Skip(k, 1)]
    <3>1. PICK i \in DOMAIN bulk_in : i = 1
      OBVIOUS
    <3>2. rest = Without(bulk_in, i)
      BY <1>1, <3>1
    <3>3. /\ rest \in Seq(Slots) /\ Len(rest) = Len(bulk_in) - 1
          /\ \A k \in 1..Len(rest) : /\ Skip(k, i) \in 1..Len(bulk_in) /\ Skip(k, i) # i
                                     /\ rest[k] = bulk_in[Skip(k, i)]
      BY <1>2, <3>2, RemoveOne
    <3> QED BY <1>1, <3>1, <3>3
  <2>2. \A k \in 1..Len(rest) : Skip(k, 1) = k + 1
    BY <1>3, <2>1 DEF Skip
  <2> QED BY <2>1, <2>2
<1>5. Joined(Queue, bulk_in, order) /\ Joined(Queue', bulk_in', order)
  <2>1. Joined(Queue, bulk_in, order)
    BY <1>2, ConcatIs DEF Queue
  <2>2. Queue' = bulk_in' \o order
    BY DEF Queue
  <2> QED BY <1>2, <2>1, <2>2, ConcatIs
<1>6. /\ Len(Queue) = n + m /\ Queue[1] = bulk_in[1]
      /\ \A k \in 1..n : Queue[k] = bulk_in[k]
      /\ \A k \in 1..m : Queue[k + n] = order[k]
  BY <1>1, <1>3, <1>5 DEF Joined
<1>7. CASE p = 0 /\ bulk_in' = rest
  <2>1. /\ Len(Queue') = (n - 1) + m
        /\ \A k \in 1..(n - 1) : Queue'[k] = rest[k]
        /\ \A k \in 1..Len(Queue') : \/ k \in 1..(n - 1)
                                     \/ k > n - 1 /\ k - (n - 1) \in 1..m
                                          /\ Queue'[k] = order[k - (n - 1)]
    BY <1>1, <1>4, <1>5, <1>7 DEF Joined
  <2>2. ASSUME NEW k \in 1..Len(Queue')
        PROVE  k < n + m /\ k + 1 \in 1..(n + m) /\ Queue'[k] = Queue[k + 1]
    <3>1. k < n + m /\ k + 1 \in 1..(n + m)
      BY <1>3, <2>1
    <3>2. CASE k \in 1..(n - 1)
      <4>1. k \in 1..Len(rest) /\ k + 1 \in 1..n
        BY <1>3, <1>4, <3>2
      <4> QED BY <1>4, <1>6, <2>1, <3>1, <3>2, <4>1
    <3>3. CASE k > n - 1 /\ k - (n - 1) \in 1..m /\ Queue'[k] = order[k - (n - 1)]
      <4>1. (k - (n - 1)) + n = k + 1
        BY <1>3, <2>1
      <4>2. Queue[(k - (n - 1)) + n] = order[k - (n - 1)]
        BY <1>6, <3>3
      <4> QED BY <3>1, <3>3, <4>1, <4>2
    <3> QED BY <2>1, <3>2, <3>3
  <2>3. \A k \in 1..(n + m) : k # 1 => k <= n + m /\ k - 1 \in 1..Len(Queue')
    BY <1>3, <2>1
  <2>4. n + m \in 1..(n + m) /\ Len(Queue') \in Nat /\ n + m \in Nat
    BY <1>3, <2>1
  <2>5. Shifted(Queue, Queue', p, n + m)
    BY <1>6, <1>7, <2>2, <2>3, <2>4 DEF Shifted
  <2>6. ASSUME NEW k \in 1..n, k # 1
        PROVE  k - 1 \in 1..Len(rest) /\ rest[k - 1] = bulk_in[k]
    <3>1. k - 1 \in 1..Len(rest) /\ (k - 1) + 1 = k
      BY <1>3, <1>4, <2>6
    <3> QED BY <1>4, <3>1
  <2> QED BY <1>1, <1>6, <1>7, <2>5, <2>6
<1>8. CASE p # 0 /\ bulk_in' = Append(rest, p)
  <2>1. /\ Len(bulk_in') = n /\ n \in 1..n /\ bulk_in'[n] = p
        /\ \A k \in 1..(n - 1) : bulk_in'[k] = rest[k]
    BY <1>3, <1>4, <1>8, AppendProperties
  <2>2. /\ Len(Queue') = n + m
        /\ \A k \in 1..n : Queue'[k] = bulk_in'[k]
        /\ \A k \in 1..Len(Queue') : \/ k \in 1..n
                                     \/ k > n /\ k - n \in 1..m /\ Queue'[k] = order[k - n]
    BY <1>1, <1>5, <2>1 DEF Joined
  <2>3. ASSUME NEW k \in 1..Len(Queue')
        PROVE  \/ k < n /\ k + 1 \in 1..(n + m) /\ Queue'[k] = Queue[k + 1]
               \/ k > n /\ k \in 1..(n + m) /\ Queue'[k] = Queue[k]
               \/ k = n /\ p # 0 /\ Queue'[k] = p
    <3>1. CASE k \in 1..n /\ k # n
      <4>1. k < n /\ k \in 1..(n - 1) /\ k + 1 \in 1..n /\ k + 1 \in 1..(n + m) /\ k \in 1..Len(rest)
        BY <1>3, <1>4, <3>1
      <4> QED BY <1>4, <1>6, <2>1, <2>2, <3>1, <4>1
    <3>2. CASE k = n
      BY <1>8, <2>1, <2>2, <3>2
    <3>3. CASE k > n /\ k - n \in 1..m /\ Queue'[k] = order[k - n]
      <4>1. (k - n) + n = k
        BY <1>3
      <4>2. Queue[(k - n) + n] = order[k - n]
        BY <1>6, <3>3
      <4> QED BY <2>2, <3>3, <4>1, <4>2
    <3> QED BY <2>2, <3>1, <3>2, <3>3
  <2>4. \A k \in 1..(n + m) : k # 1 => (k <= n /\ k - 1 \in 1..(n + m)) \/ k > n
    BY <1>3
  <2>5. n \in 1..(n + m) /\ n + m \in Nat
    BY <1>3
  <2>6. Shifted(Queue, Queue', p, n)
    BY <1>6, <2>2, <2>3, <2>4, <2>5 DEF Shifted
  <2>7. ASSUME NEW k \in 1..n, k # 1
        PROVE  k - 1 \in 1..n /\ bulk_in'[k - 1] = bulk_in[k]
    <3>1. k - 1 \in 1..n /\ k - 1 \in 1..(n - 1) /\ k - 1 \in 1..Len(rest) /\ (k - 1) + 1 = k
      BY <1>3, <1>4, <2>7
    <3> QED BY <1>4, <2>1, <3>1
  <2> QED BY <1>1, <1>6, <2>1, <2>6, <2>7
<1> QED
  BY <1>1, <1>7, <1>8

\* What the host makes of the transfer of slot s, if it can still read what it
\* gets: it was due, and completes message buffers[s] unless p follows it.
LEMMA HostReads ==
  ASSUME Inv, NEW s, NEW p, HostRead(s, p, buffers[s]), ~wire'.torn
  PROVE  /\ ~wire.torn /\ wire.expect \in {0, s} /\ wire'.expect = p
         /\ p # 0 => host' = host
         /\ p = 0 => \/ host' = host /\ (buffers[s].cmd = "CNXN" \/ link # "online")
                     \/ /\ buffers[s].cmd # "CNXN"
                        /\ host' = [r \in Remotes |-> IF r = buffers[s].arg1
                                                      THEN Received(host[r], buffers[s])
                                                      ELSE host[r]]
<1>1. wire \in [expect : Nat, torn : BOOLEAN]
  BY DEF Inv, TypeOK, HostTypeOK
<1>2. CASE wire.torn /\ UNCHANGED <<host, link, wire>>
  BY <1>2
<1>3. CASE /\ ~wire.torn /\ wire.expect \in {0, s} /\ wire' = [wire EXCEPT !.expect = p]
           /\ IF p = 0 THEN Deliver(buffers[s]) ELSE UNCHANGED <<host, link>>
  <2>1. wire'.expect = p
    BY <1>1, <1>3
  <2>2. p # 0 => host' = host
    BY <1>3
  <2>3. p = 0 => Deliver(buffers[s])
    BY <1>3
  <2> QED BY <1>3, <2>1, <2>2, <2>3 DEF Deliver
<1>4. CASE ~wire.torn /\ wire' = [wire EXCEPT !.torn = TRUE] /\ UNCHANGED <<host, link>>
  BY <1>1, <1>4
<1> QED
  BY <1>2, <1>3, <1>4, Zenon DEF HostRead

\* What the queue says is what is on its way: a payload is preceded by its header.
LEMMA SomeWaits ==
  ASSUME Inv, Linked(sq), Linked(kern), Complete(order, sq), Complete(bulk_in, kern), NEW t \in Out
  PROVE  \E w : Waits(w) /\ w \in Out /\ buffers[w] = buffers[t]
<1>1. \A o \in Writes(sq) \cup Writes(kern) : o.after = 0 => Waits(o.data)
  <2>1. Joined(Queue, bulk_in, order)
    BY ConcatIs DEF Inv, TypeOK, Queue
  <2>2. ASSUME NEW o \in Writes(sq), o.after = 0
        PROVE  Waits(o.data)
    <3>1. PICK i \in 1..Len(order) : order[i] = o.data
      BY <2>2 DEF Complete
    <3>2. i + Len(bulk_in) \in 1..Len(Queue) /\ Queue[i + Len(bulk_in)] = order[i]
      BY <2>1 DEF Joined
    <3> QED BY <3>1, <3>2 DEF Waits
  <2>3. ASSUME NEW o \in Writes(kern), o.after = 0
        PROVE  Waits(o.data)
    <3>1. PICK i \in 1..Len(bulk_in) : bulk_in[i] = o.data
      BY <2>3 DEF Complete
    <3>2. i \in 1..Len(Queue) /\ Queue[i] = bulk_in[i]
      BY <2>1 DEF Joined
    <3> QED BY <3>1, <3>2 DEF Waits
  <2> QED BY <2>2, <2>3
<1>2. PICK o \in Writes(sq) \cup Writes(kern) : o.data = t
  BY DEF Out
<1>3. CASE o.after = 0
  BY <1>1, <1>2, <1>3
<1>4. CASE o.after # 0
  <2>1. PICK h \in Writes(sq) \cup Writes(kern) :
          h.data = o.after /\ h.after = 0 /\ buffers[h.data] = buffers[o.data]
    BY <1>2, <1>4 DEF Linked
  <2> QED BY <1>1, <1>2, <2>1 DEF Out
<1> QED
  BY <1>3, <1>4

\* The writes that are left are complete, and one payload waits for a header.
LEMMA LeftComplete ==
  ASSUME Inv, Inv', Flowing, Ordered, 1 \in DOMAIN bulk_in, NEW s, s = bulk_in[1], s # 0,
         Relinked(s), UNCHANGED <<sq, order>>, NEW p \in Slots \cup {0},
         \/ p = 0 /\ bulk_in' = Without(bulk_in, 1) /\ \A o \in kern : o.after # s
         \/ /\ p # 0 /\ bulk_in' = Append(Without(bulk_in, 1), p)
            /\ \E o \in Writes(kern) : o.after = s /\ o.data = p
  PROVE  /\ Complete(order, sq)' /\ OneLink(sq)' /\ Complete(bulk_in, kern)' /\ OneLink(kern)'
<1>1. Complete(order, sq)' /\ OneLink(sq)'
  BY DEF Ordered, Complete, OneLink
<1>2. /\ \A k \in 1..Len(bulk_in) : k # 1 =>
           k - 1 \in 1..Len(bulk_in') /\ bulk_in'[k - 1] = bulk_in[k]
      /\ p # 0 => \E k \in 1..Len(bulk_in') : bulk_in'[k] = p
  BY QueueShifts
<1>3. ASSUME NEW x \in Writes(kern'), x.after = 0
      PROVE  \E k \in 1..Len(bulk_in') : bulk_in'[k] = x.data
  <2>1. PICK o \in Writes(kern) : /\ o.data = x.data /\ o.data # s
                                  /\ x.after = IF o.after = s THEN 0 ELSE o.after
    BY DEF Relinked
  <2>2. CASE o.after = s
    <3>1. o \in kern
      BY DEF Writes
    <3>2. PICK y \in Writes(kern) : y.after = s /\ y.data = p /\ p # 0
      BY <2>2, <3>1
    <3>3. o = y
      BY <2>2, <3>2 DEF Ordered, OneLink
    <3> QED BY <1>2, <2>1, <3>2, <3>3
  <2>3. CASE o.after # s
    <3>1. PICK k \in 1..Len(bulk_in) : bulk_in[k] = o.data
      BY <1>3, <2>1, <2>3 DEF Ordered, Complete
    <3>2. k # 1
      BY <2>1, <3>1
    <3> QED BY <1>2, <2>1, <3>1, <3>2
  <2> QED BY <2>2, <2>3
<1>4. ASSUME NEW x \in Writes(kern'), NEW y \in Writes(kern'), x.after = y.after, x.after # 0
      PROVE  x = y
  <2>1. PICK o \in Writes(kern) : /\ o.data = x.data /\ o.data # s
                                  /\ x.after = IF o.after = s THEN 0 ELSE o.after
    BY DEF Relinked
  <2>2. PICK u \in Writes(kern) : /\ u.data = y.data /\ u.data # s
                                  /\ y.after = IF u.after = s THEN 0 ELSE u.after
    BY DEF Relinked
  <2>3. o = u
    BY <1>4, <2>1, <2>2 DEF Ordered, OneLink
  <2>4. OneWritePerSlot(kern')
    BY DEF Inv, WritesOwnTheirSlot
  <2> QED BY <2>1, <2>2, <2>3, <2>4 DEF OneWritePerSlot
<1> QED
  BY <1>1, <1>3, <1>4 DEF Complete, OneLink

-----------------------------------------------------------------------------
(* What a stream makes of a write that reaches the host.                    *)

\* The write of slot s is gone, the other writes and the streams are the same.
Left(s) == /\ \A t : t \in Out' <=> t \in Out /\ t # s
           /\ buffers' = buffers /\ streams' = streams

\* What is gone is told no more; the rest is.
LEMMA LeftTells ==
  ASSUME NEW s, Left(s)
  PROVE  /\ \A t, r, cmd : Tells(t, r, cmd)' <=> Tells(t, r, cmd) /\ t # s
         /\ \A r, l : Has(r, l)' <=> Has(r, l)
BY DEF Left, Tells, Has

\* The host waits for no transfer that another precedes.
LEMMA NoneExpected ==
  ASSUME Inv, Flowing, NEW s, NEW p, Taken(s, p), wire.expect \in {0, s}
  PROVE  \A a, b : Precedes(a, b) => wire.expect # b
<1>1. \A a, b : Precedes(a, b) => b # 0
  BY WaitsOut
<1>2. \A a : ~Precedes(a, s)
  BY DEF Taken
<1> QED
  BY <1>1, <1>2

\* The header of a WRTE: its payload takes its place.
LEMMA HeaderInTurn ==
  ASSUME Inv, Flowing, Plain, NEW q \in Remotes, InTurn(q), NEW s \in Out, NEW p, p # 0, Taken(s, p),
         p \in Out', buffers[p] = buffers[s], buffers[s].payload # 0, Left(s),
         wire.expect \in {0, s}, wire'.expect = p, host'[q] = host[q]
  PROVE  InTurn(q)'
<1>1. /\ \A t, cmd : Tells(t, q, cmd)' <=> Tells(t, q, cmd) /\ t # s
      /\ \A l : Has(q, l)' <=> Has(q, l)
      /\ buffers' = buffers /\ streams' = streams
  BY LeftTells DEF Left
<1>2. \A a, b : Precedes(a, b) => wire.expect # b
  BY NoneExpected
<1>3. /\ Waits(s) /\ \A a : ~Precedes(a, s)
      /\ \A b : Waits(b) => b = s \/ Precedes(s, b)
      /\ \A b : Waits(b)' => b = p \/ (Waits(b) /\ b # s)
      /\ \A b : Waits(b) /\ b # s => Waits(b)'
      /\ Waits(p)'
      /\ \A a, b : Precedes(a, b)' => \/ a # s /\ Precedes(a, b)
                                      \/ b = p
                                      \/ a = p /\ Waits(b) /\ b # s
      /\ \A a, b : Precedes(a, b) /\ a # s => Precedes(a, b)'
  BY DEF Taken
<1>4. /\ buffers[s].arg1 = q => buffers[s].cmd = "WRTE"
      /\ \A cmd : Tells(p, q, cmd)' <=> Tells(s, q, cmd)
      /\ \A cmd : Tells(s, q, cmd) => cmd = "WRTE"
  <2>1. buffers[s].arg1 = q => buffers[s].cmd = "WRTE"
    BY DEF Plain
  <2> QED BY <1>1, <2>1 DEF Tells
<1>5. \A a, b : Precedes(a, b) => a # b /\ Waits(a) /\ Waits(b)
  BY WaitsOut
<1>6. ASSUME NEW b, b # p, Waits(b)'
      PROVE  Waits(b) /\ b # s /\ Precedes(s, b)
  BY <1>3, <1>6
<1>7. Introduced(q)'
  <2> SUFFICES ASSUME host[q].st = "opening"
               PROVE  /\ \A l \in Nat : Has(q, l)' => \E t : Waits(t)' /\ Tells(t, q, "OKAY")'
                      /\ \A t : Waits(t)' /\ Tells(t, q, "WRTE")' =>
                           \E a : Precedes(a, t)' /\ Tells(a, q, "OKAY")'
    BY DEF Introduced
  <2>1. ~Tells(s, q, "WRTE") /\ ~Tells(s, q, "OKAY")
    BY <1>3, <1>4 DEF InTurn, Introduced
  <2>2. ~Tells(p, q, "WRTE")'
    BY <1>4, <2>1
  <2>3. \A l \in Nat : Has(q, l) => \E t : Waits(t) /\ Tells(t, q, "OKAY")
    BY DEF InTurn, Introduced
  <2>4. ASSUME NEW l \in Nat, Has(q, l)'
        PROVE  \E t : Waits(t)' /\ Tells(t, q, "OKAY")'
    <3>1. PICK t : Waits(t) /\ Tells(t, q, "OKAY")
      BY <1>1, <2>3, <2>4
    <3> QED BY <1>1, <1>3, <2>1, <3>1
  <2>5. ASSUME NEW t, Waits(t)', Tells(t, q, "WRTE")'
        PROVE  \E a : Precedes(a, t)' /\ Tells(a, q, "OKAY")'
    <3>1. Waits(t) /\ Tells(t, q, "WRTE")
      BY <1>1, <1>6, <2>2, <2>5
    <3>2. PICK a : Precedes(a, t) /\ Tells(a, q, "OKAY")
      BY <3>1 DEF InTurn, Introduced
    <3> QED BY <1>1, <1>3, <2>1, <3>2
  <2> QED BY <2>4, <2>5
<1>8. Last(q)'
  <2>1. ASSUME NEW a, NEW b, Precedes(a, b)', Tells(a, q, "CLSE")', Tells(b, q, "WRTE")', b # p
        PROVE  FALSE
    <3>1. a # p
      BY <1>4, <2>1
    <3>2. Precedes(a, b) /\ Tells(a, q, "CLSE") /\ Tells(b, q, "WRTE")
      BY <1>1, <1>3, <2>1, <3>1
    <3> QED BY <1>2, <3>2 DEF InTurn, Last
  <2>2. ASSUME host[q].st = "closing", NEW t, Tells(t, q, "WRTE")'
        PROVE  FALSE
    BY <1>1, <2>2 DEF InTurn, Last
  <2> QED BY <2>1, <2>2 DEF Last
<1>9. Rising(q) => Rising(q)'
  <2> SUFFICES ASSUME Rising(q), NEW a, NEW b, Precedes(a, b)', Tells(a, q, "WRTE")',
                      Tells(b, q, "WRTE")', b # p
               PROVE  buffers[a].payload < buffers[b].payload
    BY <1>1 DEF Rising
  <2>1. Tells(b, q, "WRTE") /\ b # s
    BY <1>1
  <2>2. CASE a = p
    <3>1. Precedes(s, b) /\ Tells(s, q, "WRTE")
      BY <1>3, <1>4, <1>5, <2>2
    <3> QED BY <1>2, <2>1, <2>2, <3>1 DEF Rising
  <2>3. CASE a # p
    <3>1. Precedes(a, b) /\ Tells(a, q, "WRTE")
      BY <1>1, <1>3, <2>3
    <3> QED BY <1>2, <2>1, <3>1 DEF Rising
  <2> QED BY <2>2, <2>3
<1>10. ASSUME NEW t, Waits(t)', Tells(t, q, "WRTE")'
       PROVE  \E x : Waits(x) /\ Tells(x, q, "WRTE") /\ buffers[x] = buffers[t]
  BY <1>1, <1>3, <1>4, <1>10
<1>11. ASSUME NEW t, Waits(t), Tells(t, q, "WRTE")
       PROVE  \E x : Waits(x)' /\ Tells(x, q, "WRTE")' /\ buffers[x] = buffers[t]
  BY <1>1, <1>3, <1>4, <1>11
<1>12. Dense(q) => Dense(q)'
  <2> SUFFICES ASSUME Dense(q), NEW t, Waits(t)', Tells(t, q, "WRTE")'
               PROVE  /\ buffers[t].payload > host[q].got
                      /\ buffers[t].payload > host[q].got + 1 =>
                           \E a : /\ Waits(a)' /\ Tells(a, q, "WRTE")'
                                  /\ buffers[a].payload = buffers[t].payload - 1
    BY <1>1 DEF Dense
  <2>1. PICK x : Waits(x) /\ Tells(x, q, "WRTE") /\ buffers[x] = buffers[t]
    BY <1>10
  <2>2. /\ buffers[x].payload > host[q].got
        /\ buffers[x].payload > host[q].got + 1 =>
             \E a : Waits(a) /\ Tells(a, q, "WRTE") /\ buffers[a].payload = buffers[x].payload - 1
    BY <2>1 DEF Dense
  <2> QED BY <1>11, <2>1, <2>2
<1>13. Numbers(q) => Numbers(q)'
  <2> SUFFICES ASSUME Numbers(q), NEW l \in Nat, Has(q, l)
               PROVE  /\ streams[l].tx >= host[q].got
                      /\ streams[l].tx > host[q].got =>
                           \E t : /\ Waits(t)' /\ Tells(t, q, "WRTE")'
                                  /\ buffers[t].payload = streams[l].tx
                      /\ \A t : Waits(t)' /\ Tells(t, q, "WRTE")' =>
                           buffers[t].payload <= streams[l].tx
    BY <1>1 DEF Numbers
  <2>1. /\ streams[l].tx >= host[q].got
        /\ streams[l].tx > host[q].got =>
             \E t : Waits(t) /\ Tells(t, q, "WRTE") /\ buffers[t].payload = streams[l].tx
        /\ \A t : Waits(t) /\ Tells(t, q, "WRTE") => buffers[t].payload <= streams[l].tx
    BY DEF Numbers
  <2> QED BY <1>10, <1>11, <2>1
<1> QED
  BY <1>7, <1>8, <1>9, <1>12, <1>13 DEF InTurn, Numbered

\* What the queue and the messages are once the write of slot s has left.
LEMMA LeftWaits ==
  ASSUME Inv, Flowing, NEW s, Taken(s, 0), Left(s), NEW q
  PROVE  /\ \A b : Waits(b)' <=> Waits(b) /\ b # s
         /\ \A a, b : Precedes(a, b)' => Precedes(a, b) /\ a # s
         /\ \A a, b : Precedes(a, b) /\ a # s => Precedes(a, b)'
         /\ \A b : Waits(b) => b = s \/ Precedes(s, b)
         /\ \A a : ~Precedes(a, s)
         /\ \A t, cmd : Tells(t, q, cmd)' <=> Tells(t, q, cmd) /\ t # s
         /\ \A l : Has(q, l)' <=> Has(q, l)
         /\ buffers' = buffers /\ streams' = streams
<1>1. /\ \A t, cmd : Tells(t, q, cmd)' <=> Tells(t, q, cmd) /\ t # s
      /\ \A l : Has(q, l)' <=> Has(q, l)
      /\ buffers' = buffers /\ streams' = streams
  BY LeftTells DEF Left
<1>2. /\ \A b : Waits(b)' <=> Waits(b) /\ b # s
      /\ \A a, b : Precedes(a, b)' => Precedes(a, b) /\ a # s
      /\ \A a, b : Precedes(a, b) /\ a # s => Precedes(a, b)'
      /\ \A b : Waits(b) => b = s \/ Precedes(s, b)
      /\ \A a : ~Precedes(a, s)
  BY DEF Taken
<1> QED
  BY <1>1, <1>2

\* A message that is not a WRTE of stream q.
LEMMA OtherInTurn ==
  ASSUME Inv, Flowing, NEW q \in Remotes, InTurn(q), NEW s, Taken(s, 0), Left(s),
         wire.expect \in {0, s}, ~Tells(s, q, "WRTE"),
         \/ host'[q].st = host[q].st /\ (host[q].st = "opening" => ~Tells(s, q, "OKAY"))
         \/ host'[q].st = "open" /\ host[q].st = "opening"
         \/ host'[q].st = "closed"
         \/ host'[q].st = "closing" /\ \A t : ~Tells(t, q, "WRTE"),
         host'[q].got = host[q].got
  PROVE  InTurn(q)'
<1>1. /\ \A b : Waits(b)' <=> Waits(b) /\ b # s
      /\ \A a, b : Precedes(a, b)' => Precedes(a, b) /\ a # s
      /\ \A a, b : Precedes(a, b) /\ a # s => Precedes(a, b)'
      /\ \A t, cmd : Tells(t, q, cmd)' <=> Tells(t, q, cmd) /\ t # s
      /\ \A l : Has(q, l)' <=> Has(q, l)
      /\ buffers' = buffers /\ streams' = streams
  BY LeftWaits
<1>2. \A a, b : Precedes(a, b) => wire.expect # b
  BY NoneExpected
<1>3. Introduced(q)'
  <2> SUFFICES ASSUME host'[q].st = "opening"
               PROVE  Introduced(q)'
    BY DEF Introduced
  <2>1. host[q].st = "opening" /\ ~Tells(s, q, "OKAY")
    OBVIOUS
  <2>2. /\ \A l \in Nat : Has(q, l) => \E t : Waits(t) /\ Tells(t, q, "OKAY")
        /\ \A t : Waits(t) /\ Tells(t, q, "WRTE") => \E a : Precedes(a, t) /\ Tells(a, q, "OKAY")
    BY <2>1 DEF InTurn, Introduced
  <2>3. \A l \in Nat : Has(q, l)' => \E t : Waits(t)' /\ Tells(t, q, "OKAY")'
    BY <1>1, <2>1, <2>2
  <2>4. ASSUME NEW t, Waits(t)', Tells(t, q, "WRTE")'
        PROVE  \E a : Precedes(a, t)' /\ Tells(a, q, "OKAY")'
    <3>1. PICK a : Precedes(a, t) /\ Tells(a, q, "OKAY")
      BY <1>1, <2>2, <2>4
    <3> QED BY <1>1, <2>1, <3>1
  <2> QED BY <2>3, <2>4 DEF Introduced
<1>4. Last(q)'
  <2>1. \A a, b : ~(Precedes(a, b)' /\ Tells(a, q, "CLSE")' /\ Tells(b, q, "WRTE")')
    BY <1>1, <1>2 DEF InTurn, Last
  <2>2. host'[q].st = "closing" => \A t : ~Tells(t, q, "WRTE")'
    BY <1>1 DEF InTurn, Last
  <2> QED BY <2>1, <2>2 DEF Last
<1>5. Rising(q) => Rising(q)'
  BY <1>1, <1>2 DEF Rising
<1>6. \A t : Waits(t) /\ Tells(t, q, "WRTE") <=> Waits(t)' /\ Tells(t, q, "WRTE")'
  BY <1>1
<1>7. Dense(q) => Dense(q)'
  BY <1>1, <1>6 DEF Dense
<1>8. Numbers(q) => Numbers(q)'
  BY <1>1, <1>6 DEF Numbers
<1>9. Numbered(q)'
  BY <1>5, <1>7, <1>8 DEF InTurn, Numbered
<1> QED
  BY <1>3, <1>4, <1>9 DEF InTurn

\* The first WRTE that waits is the one after the last the host has.
LEMMA NextWrte ==
  ASSUME Inv, Flowing, NEW q \in Remotes, InTurn(q), NEW s, Taken(s, 0), wire.expect \in {0, s},
         Tells(s, q, "WRTE"), host[q].st = "open"
  PROVE  /\ buffers[s].payload = host[q].got + 1
         /\ \A t : Waits(t) /\ Tells(t, q, "WRTE") /\ t # s => buffers[s].payload < buffers[t].payload
<1>1. /\ Waits(s) /\ \A b : Waits(b) => b = s \/ Precedes(s, b)
      /\ \A a, b : Precedes(a, b) => wire.expect # b
  BY NoneExpected DEF Taken
<1>2. \A t : Waits(t) /\ Tells(t, q, "WRTE") /\ t # s => buffers[s].payload < buffers[t].payload
  BY <1>1 DEF InTurn, Numbered, Rising
<1>3. /\ buffers[s].payload > host[q].got
      /\ buffers[s].payload > host[q].got + 1 =>
           \E x : Waits(x) /\ Tells(x, q, "WRTE") /\ buffers[x].payload = buffers[s].payload - 1
  BY <1>1 DEF InTurn, Numbered, Dense
<1>4. buffers[s].payload \in Nat /\ host[q].got \in Nat
  BY OutTyped DEF Tells, DevMsgs, Inv, TypeOK, HostTypeOK, HostRecords
<1>5. ~(buffers[s].payload > host[q].got + 1)
  <2> SUFFICES ASSUME buffers[s].payload > host[q].got + 1
               PROVE  FALSE
    OBVIOUS
  <2>1. PICK x : Waits(x) /\ Tells(x, q, "WRTE") /\ buffers[x].payload = buffers[s].payload - 1
    BY <1>3
  <2>2. x # s
    BY <1>4, <2>1
  <2>3. buffers[s].payload < buffers[x].payload
    BY <1>2, <2>1, <2>2
  <2> QED BY <1>4, <2>1, <2>3
<1> QED
  BY <1>2, <1>3, <1>4, <1>5

\* It is what the host gets next.
LEMMA DataInTurn ==
  ASSUME Inv, Flowing, NEW q \in Remotes, InTurn(q), NEW s, Taken(s, 0), Left(s),
         wire.expect \in {0, s}, Tells(s, q, "WRTE"), host[q].st = "open",
         host'[q].st = "open", host'[q].got = buffers[s].payload
  PROVE  InTurn(q)'
<1>1. /\ \A b : Waits(b)' <=> Waits(b) /\ b # s
      /\ \A a, b : Precedes(a, b)' => Precedes(a, b) /\ a # s
      /\ \A t, cmd : Tells(t, q, cmd)' <=> Tells(t, q, cmd) /\ t # s
      /\ \A l : Has(q, l)' <=> Has(q, l)
      /\ buffers' = buffers /\ streams' = streams
  BY LeftWaits
<1>2. /\ \A a, b : Precedes(a, b) => wire.expect # b
      /\ Waits(s)
  BY NoneExpected DEF Taken
<1>3. /\ host'[q].got = host[q].got + 1 /\ buffers[s].payload = host[q].got + 1
      /\ \A t : Waits(t) /\ Tells(t, q, "WRTE") /\ t # s => buffers[s].payload < buffers[t].payload
  BY NextWrte
<1>4. \A t : Tells(t, q, "WRTE") => buffers[t].payload \in Nat
  BY OutTyped DEF Tells, DevMsgs
<1>5. host[q].got \in Nat /\ \A l \in DOMAIN streams : streams[l].tx \in Nat
  BY DEF Inv, TypeOK, HostTypeOK, HostRecords, StreamRecords
<1>6. Introduced(q)'
  BY DEF Introduced
<1>7. Last(q)'
  BY <1>1, <1>2 DEF InTurn, Last
<1>8. Rising(q)'
  BY <1>1, <1>2 DEF InTurn, Numbered, Rising
<1>9. Dense(q)'
  <2> SUFFICES ASSUME NEW t, Waits(t)', Tells(t, q, "WRTE")'
               PROVE  /\ buffers[t].payload > host[q].got + 1
                      /\ buffers[t].payload > (host[q].got + 1) + 1 =>
                           \E a : /\ Waits(a)' /\ Tells(a, q, "WRTE")'
                                  /\ buffers[a].payload = buffers[t].payload - 1
    BY <1>1, <1>3 DEF Dense
  <2>1. Waits(t) /\ Tells(t, q, "WRTE") /\ t # s
    BY <1>1
  <2>2. buffers[t].payload > host[q].got + 1
    BY <1>3, <1>4, <1>5, <2>1
  <2>3. ASSUME buffers[t].payload > (host[q].got + 1) + 1
        PROVE  \E a : Waits(a)' /\ Tells(a, q, "WRTE")' /\ buffers[a].payload = buffers[t].payload - 1
    <3>1. PICK a : Waits(a) /\ Tells(a, q, "WRTE") /\ buffers[a].payload = buffers[t].payload - 1
      BY <2>1, <2>2 DEF InTurn, Numbered, Dense
    <3>2. a # s
      BY <1>3, <1>4, <1>5, <2>1, <2>3, <3>1
    <3> QED BY <1>1, <3>1, <3>2
  <2> QED BY <2>2, <2>3
<1>10. Numbers(q)'
  <2> SUFFICES ASSUME NEW l \in Nat, Has(q, l)
               PROVE  /\ streams[l].tx >= host[q].got + 1
                      /\ streams[l].tx > host[q].got + 1 =>
                           \E t : /\ Waits(t)' /\ Tells(t, q, "WRTE")'
                                  /\ buffers[t].payload = streams[l].tx
                      /\ \A t : Waits(t)' /\ Tells(t, q, "WRTE")' =>
                           buffers[t].payload <= streams[l].tx
    BY <1>1, <1>3 DEF Numbers
  <2>1. /\ streams[l].tx >= host[q].got
        /\ streams[l].tx > host[q].got =>
             \E t : Waits(t) /\ Tells(t, q, "WRTE") /\ buffers[t].payload = streams[l].tx
        /\ \A t : Waits(t) /\ Tells(t, q, "WRTE") => buffers[t].payload <= streams[l].tx
    BY DEF InTurn, Numbered, Numbers
  <2>2. streams[l].tx \in Nat
    BY <1>5 DEF Has
  <2>3. streams[l].tx >= host[q].got + 1
    BY <1>2, <1>3, <2>1
  <2>4. ASSUME streams[l].tx > host[q].got + 1
        PROVE  \E t : Waits(t)' /\ Tells(t, q, "WRTE")' /\ buffers[t].payload = streams[l].tx
    <3>1. PICK t : Waits(t) /\ Tells(t, q, "WRTE") /\ buffers[t].payload = streams[l].tx
      BY <1>5, <2>1, <2>2, <2>4
    <3>2. t # s
      BY <1>3, <1>5, <2>2, <2>4, <3>1
    <3> QED BY <1>1, <3>1, <3>2
  <2> QED BY <1>1, <2>1, <2>3, <2>4
<1> QED
  BY <1>6, <1>7, <1>8, <1>9, <1>10 DEF InTurn, Numbered

\* The host has a place for what it gets, and misses no WRTE.
Accepts(q) == /\ host'[q].bad = host[q].bad
            /\ host'[q].got \in {host[q].got, host[q].got + 1}

\* A message that is delivered to its stream.
LEMMA DeliveredInTurn ==
  ASSUME Inv, Flowing, Closing, Ordered, NEW q \in Remotes, InTurn(q), NEW s, Taken(s, 0), Left(s),
         wire.expect \in {0, s}, buffers[s].arg1 = q, buffers[s].cmd # "CNXN",
         host'[q] = Received(host[q], buffers[s])
  PROVE  InTurn(q)' /\ Accepts(q)
<1>1. PICK h, g, m : h = host[q] /\ g = host'[q] /\ m = buffers[s]
  OBVIOUS
<1>2. /\ h \in HostRecords /\ g = Received(h, m) /\ m.arg1 = q /\ h.got \in Nat
  BY <1>1 DEF Inv, TypeOK, HostTypeOK, HostRecords
<1>3. Waits(s) /\ s \in Out /\ s \in Slots /\ \A a : ~Precedes(a, s)
  BY WaitsOut DEF Taken
<1>4. m.cmd \in {"OKAY", "WRTE", "CLSE"} /\ m.arg0 \in Nat /\ Tells(s, q, m.cmd)
  BY <1>1, <1>3, OutTyped DEF DevMsgs, Tells
<1>5. OneEnd(q) /\ OneClose(q) /\ OneOkay(q)
  BY DEF Closing, Ends
<1>6. Names(q, m.arg0) /\ \A cmd : Tells(s, q, cmd) => cmd = m.cmd
  BY <1>1, <1>3 DEF Names, Tells
<1>7. h.st # "idle"
  BY <1>1, <1>4, <1>5, <1>6 DEF OneEnd
<1>8. h.st \in {"open", "closing"} => m.arg0 = h.local
  <2>1. h.st \in {"open", "closing"} => h.local # 0 /\ h.local \in Nat
    BY <1>1, <1>2, <1>5 DEF OneEnd, HostRecords
  <2>2. h.st \in {"open", "closing"} => Names(q, h.local)
    BY <1>1, <2>1 DEF Names
  <2> QED BY <1>4, <1>5, <1>6, <2>1, <2>2 DEF OneEnd
<1>9. CASE h.st = "closed"
  <2>1. g = h
    BY <1>2, <1>9 DEF Received
  <2>2. ~Tells(s, q, "WRTE") => InTurn(q)'
    BY <1>1, <1>9, <2>1, OtherInTurn
  <2>3. InTurn(q)'
    <3>1. /\ \A a, b : Precedes(a, b)' => Precedes(a, b) /\ a # s
          /\ \A t, cmd : Tells(t, q, cmd)' <=> Tells(t, q, cmd) /\ t # s
          /\ \A a, b : Precedes(a, b) => wire.expect # b
      BY LeftWaits, NoneExpected
    <3>2. Last(q)'
      BY <1>1, <1>9, <2>1, <3>1 DEF InTurn, Last
    <3> QED BY <1>1, <1>9, <2>1, <3>2 DEF InTurn, Introduced, Numbered
  <2> QED BY <1>1, <2>1, <2>3 DEF Accepts
<1>10. CASE h.st = "opening"
  <2>1. m.cmd # "WRTE"
    BY <1>1, <1>3, <1>4, <1>10 DEF InTurn, Introduced
  <2>2. CASE m.cmd = "OKAY"
    <3>1. g = [h EXCEPT !.st = "open", !.local = m.arg0]
      BY <1>2, <1>10, <2>2 DEF Received
    <3>2. g.st = "open" /\ g.got = h.got /\ g.bad = h.bad
      BY <1>2, <3>1 DEF HostRecords
    <3>3. InTurn(q)'
      BY <1>1, <1>6, <1>10, <2>2, <3>2, OtherInTurn
    <3> QED BY <1>1, <3>2, <3>3 DEF Accepts
  <2>3. CASE m.cmd = "CLSE"
    <3>1. g = [h EXCEPT !.st = "closed"]
      BY <1>2, <1>10, <2>3 DEF Received
    <3>2. g.st = "closed" /\ g.got = h.got /\ g.bad = h.bad
      BY <1>2, <3>1 DEF HostRecords
    <3>3. InTurn(q)'
      BY <1>1, <1>6, <2>3, <3>2, OtherInTurn
    <3> QED BY <1>1, <3>2, <3>3 DEF Accepts
  <2> QED BY <1>4, <2>1, <2>2, <2>3
<1>11. CASE h.st = "open"
  <2>1. CASE m.cmd = "OKAY"
    <3>1. h.unacked
      BY <1>1, <1>3, <1>4, <1>5, <1>11, <2>1 DEF OneOkay
    <3>2. g = [h EXCEPT !.unacked = FALSE]
      BY <1>2, <1>8, <1>11, <2>1, <3>1 DEF Received
    <3>3. g.st = h.st /\ g.got = h.got /\ g.bad = h.bad
      BY <1>2, <3>2 DEF HostRecords
    <3>4. InTurn(q)'
      BY <1>1, <1>6, <1>11, <2>1, <3>3, OtherInTurn
    <3> QED BY <1>1, <3>3, <3>4 DEF Accepts
  <2>2. CASE m.cmd = "WRTE"
    <3>1. g = [h EXCEPT !.got = m.payload, !.mode = IF m.fin THEN "ready" ELSE @]
      BY <1>2, <1>8, <1>11, <2>2 DEF Received
    <3>2. g.st = h.st /\ g.got = m.payload /\ g.bad = h.bad
      BY <1>2, <3>1 DEF HostRecords
    <3>3. buffers[s].payload = host[q].got + 1
      BY <1>1, <1>4, <1>11, <2>2, NextWrte
    <3>4. InTurn(q)'
      BY <1>1, <1>4, <1>11, <2>2, <3>2, DataInTurn
    <3> QED BY <1>1, <3>2, <3>3, <3>4 DEF Accepts
  <2>3. CASE m.cmd = "CLSE"
    <3>1. g = [h EXCEPT !.st = "closing"]
      BY <1>2, <1>8, <1>11, <2>3 DEF Received
    <3>2. g.st = "closing" /\ g.got = h.got /\ g.bad = h.bad
      BY <1>2, <3>1 DEF HostRecords
    <3>3. ASSUME NEW t, Tells(t, q, "WRTE")
          PROVE  FALSE
      <4>1. t \in Out /\ buffers[t].arg1 = q /\ buffers[t].cmd = "WRTE"
        BY <3>3 DEF Tells
      <4>2. PICK w : Waits(w) /\ w \in Out /\ buffers[w] = buffers[t]
        BY <4>1, SomeWaits DEF Closing, Ordered
      <4>3. Tells(w, q, "WRTE") /\ w # s
        BY <1>1, <2>3, <4>1, <4>2 DEF Tells
      <4>4. Precedes(s, w) /\ wire.expect # w
        BY <4>2, <4>3, NoneExpected DEF Taken
      <4> QED BY <1>4, <2>3, <4>3, <4>4 DEF InTurn, Last
    <3>4. InTurn(q)'
      BY <1>1, <1>6, <2>3, <3>2, <3>3, OtherInTurn
    <3> QED BY <1>1, <3>2, <3>4 DEF Accepts
  <2> QED BY <1>4, <2>1, <2>2, <2>3
<1>12. CASE h.st = "closing"
  <2>1. m.cmd # "WRTE"
    BY <1>1, <1>4, <1>12 DEF InTurn, Last
  <2>2. m.cmd # "CLSE"
    BY <1>1, <1>3, <1>4, <1>5, <1>12 DEF OneClose
  <2>3. g = h
    BY <1>2, <1>4, <1>12, <2>1, <2>2 DEF Received
  <2>4. InTurn(q)'
    BY <1>1, <1>6, <1>12, <2>1, <2>3, OtherInTurn
  <2> QED BY <1>1, <2>3, <2>4 DEF Accepts
<1> QED
  BY <1>2, <1>7, <1>9, <1>10, <1>11, <1>12 DEF HostRecords

\* A write that reaches the host, first come first served.
LEMMA KernelWriteOrders ==
  ASSUME ~Reorder, Inv, Inv', Flowing, Closing, Ordered, NEW i \in DOMAIN bulk_in, KernelWrite(i)
  PROVE  Ordered' /\ (Calm' => \A q \in Remotes : Accepts(q))
<1>1. i = 1 /\ 1 \in DOMAIN bulk_in /\ KernelWrite(1)
  <2>1. i = 1
    BY DEF KernelWrite
  <2> QED BY <2>1
<1>2. /\ UNCHANGED <<streams, buffers, sq, order>> /\ UNCHANGED <<usb, faults>>
  BY DEF KernelWrite, devVars, ioVars
<1>3. PICK s : s = bulk_in[1]
  OBVIOUS
<1>4. PICK p : /\ HostRead(s, p, buffers[s])
               /\ \/ /\ p = 0 /\ bulk_in' = Without(bulk_in, 1)
                     /\ \A o \in kern : o.after # s
                  \/ /\ p # 0 /\ bulk_in' = Append(Without(bulk_in, 1), p)
                     /\ \E o \in Writes(kern) : o.after = s /\ o.data = p
  BY <1>1, <1>3, FirstOut
<1>5. p \in Slots \cup {0}
  BY <1>4, SlotsInUse
<1>6. /\ s \in Out /\ s # 0 /\ Relinked(s) /\ Left(s)
  BY <1>1, <1>2, <1>3, WriteOut DEF Left
<1>7. Taken(s, p)
  <2>1. /\ \E n : Shifted(Queue, Queue', p, n)
        /\ Queue[1] = bulk_in[1]
    BY <1>1, <1>2, <1>4, <1>5, QueueShifts
  <2>2. \A k, j \in 1..Len(Queue) : Queue[k] = Queue[j] => k = j
    <3>1. /\ bulk_in \in Seq(Slots) /\ order \in Seq(Slots)
          /\ Queued(order, sq) /\ Queued(bulk_in, kern) /\ NoCommonSlot(sq, kern)
      BY DEF Inv, TypeOK, WritesOwnTheirSlot, Flowing
    <3>2. Joined(Queue, bulk_in, order)
      BY <3>1, ConcatIs DEF Queue
    <3> QED BY <3>1, <3>2, OnceEach
  <2> QED BY <1>3, <2>1, <2>2, ShiftTakes
<1>8. /\ Complete(order, sq)' /\ OneLink(sq)' /\ Complete(bulk_in, kern)' /\ OneLink(kern)'
  BY <1>1, <1>2, <1>3, <1>4, <1>5, <1>6, LeftComplete
<1>9. Plain'
  BY <1>6 DEF Ordered, Plain, Left
<1>10. ASSUME Calm', NEW q \in Remotes
       PROVE  InTurn(q)' /\ Accepts(q)
  <2>1. /\ ~wire.torn /\ wire.expect \in {0, s} /\ wire'.expect = p
        /\ p # 0 => host' = host
        /\ p = 0 => \/ host' = host /\ (buffers[s].cmd = "CNXN" \/ link # "online")
                    \/ /\ buffers[s].cmd # "CNXN"
                       /\ host' = [r \in Remotes |-> IF r = buffers[s].arg1
                                                     THEN Received(host[r], buffers[s])
                                                     ELSE host[r]]
    BY <1>4, <1>10, HostReads DEF Calm
  <2>2. InTurn(q) /\ Plain
    BY <1>2, <1>10, <2>1 DEF Ordered, Calm
  <2>3. host[q].got \in Nat
    BY DEF Inv, TypeOK, HostTypeOK, HostRecords
  <2>4. CASE p # 0
    <3>1. PICK o \in Writes(kern) : o.after = s /\ o.data = p
      BY <1>4, <2>4
    <3>2. buffers[p] = buffers[s] /\ buffers[s].payload # 0
      BY <1>6, <3>1 DEF Closing, Linked
    <3>3. p # s
      BY <1>6, <3>1 DEF Inv, WritesOwnTheirSlot, OneWritePerSlot, Closing, Linked
    <3>4. p \in Out'
      BY <1>6, <3>1, <3>3 DEF Left, Out
    <3>5. InTurn(q)'
      BY <1>6, <1>7, <2>1, <2>2, <2>4, <3>2, <3>4, HeaderInTurn
    <3> QED BY <2>1, <2>4, <3>5 DEF Accepts
  <2>5. CASE p = 0 /\ host' = host /\ (buffers[s].cmd = "CNXN" \/ link # "online")
    <3>1. link # "online" => host[q].st = "idle"
      BY DEF Closing, Online
    <3>2. host[q].st = "idle" => ~Tells(s, q, "WRTE")
      <4>1. buffers[s].arg0 \in Nat
        BY <1>6, OutTyped DEF DevMsgs
      <4> QED BY <4>1 DEF Closing, Ends, OneEnd, Names, Tells
    <3>3. ~Tells(s, q, "WRTE") /\ (host[q].st = "opening" => ~Tells(s, q, "OKAY"))
      BY <2>5, <3>1, <3>2 DEF Tells
    <3>4. InTurn(q)'
      BY <1>6, <1>7, <2>1, <2>2, <2>5, <3>3, OtherInTurn
    <3> QED BY <2>5, <3>4 DEF Accepts
  <2>6. CASE /\ p = 0 /\ buffers[s].cmd # "CNXN" /\ buffers[s].arg1 # q
             /\ host' = [r \in Remotes |-> IF r = buffers[s].arg1
                                           THEN Received(host[r], buffers[s]) ELSE host[r]]
    <3>1. host'[q] = host[q]
      BY <2>6
    <3>2. \A cmd : ~Tells(s, q, cmd)
      BY <2>6 DEF Tells
    <3>3. InTurn(q)'
      BY <1>6, <1>7, <2>1, <2>2, <2>6, <3>1, <3>2, OtherInTurn
    <3> QED BY <3>1, <3>3 DEF Accepts
  <2>7. CASE /\ p = 0 /\ buffers[s].cmd # "CNXN" /\ buffers[s].arg1 = q
             /\ host' = [r \in Remotes |-> IF r = buffers[s].arg1
                                           THEN Received(host[r], buffers[s]) ELSE host[r]]
    <3>1. host'[q] = Received(host[q], buffers[s])
      BY <2>7
    <3> QED BY <1>6, <1>7, <2>1, <2>2, <2>7, <3>1, DeliveredInTurn
  <2> QED BY <2>1, <2>4, <2>5, <2>6, <2>7
<1> QED
  BY <1>8, <1>9, <1>10 DEF Ordered

-----------------------------------------------------------------------------
(* Together.                                                                *)

\* The steps of the loop.
LEMMA DeviceOrders ==
  ASSUME Inv, Inv', Agree, FlowInv, FlowInv', CloseInv, OrderInv, Device
  PROVE  OrderInv'
<1> SUFFICES ASSUME daemon' = "running"
             PROVE  Ordered'
  BY DEF OrderInv
<1>1. /\ daemon = "running" /\ Flowing /\ Flowing' /\ Closing /\ Ordered
      /\ Submit \/ Reap \/ (\E c \in batch : WriteDone(c)) \/ (\E M, got : Turn(M, got))
  BY DeviceSteps DEF OrderInv, FlowInv
<1>2. ASSUME Reap
      PROVE  Ordered'
  <2>1. /\ UNCHANGED <<bulk_in, order, wire, sq, streams, host>> /\ UNCHANGED <<kern, buffers>>
        /\ UNCHANGED <<usb, faults>>
    BY <1>2 DEF Reap, devVars, ioVars, kernVars, hostVars
  <2> QED BY <1>1, <2>1, SameOrdered DEF Calm
<1> QED
  BY <1>1, <1>2, SubmitOrders, WriteDoneOrders, TurnOrders

\* The steps of the kernel.
LEMMA KernelOrders ==
  ASSUME ~Reorder, Inv, Inv', FlowInv, CloseInv, OrderInv, Kernel
  PROVE  OrderInv'
<1>1. daemon = "running" /\ Flowing /\ Closing /\ Ordered
  BY DEF Kernel, FlowInv, CloseInv, OrderInv
<1>2. ASSUME NEW o \in kern, o.op # "BulkInWrite", kern' = kern \ {o},
             UNCHANGED <<bulk_in, order, wire, sq, streams, host>>, UNCHANGED <<buffers, usb, faults>>
      PROVE  Ordered'
  <2>1. Writes(kern') = Writes(kern)
    BY <1>2 DEF Writes
  <2> QED BY <1>1, <1>2, <2>1, SameOrdered DEF Calm
<1>3. ASSUME NEW o \in kern, KernelBulkOut(o) \/ KernelBulkOutFail(o)
      PROVE  Ordered'
  <2>1. /\ o.op # "BulkInWrite" /\ kern' = kern \ {o}
        /\ UNCHANGED <<bulk_in, order, wire, sq, streams, host>> /\ UNCHANGED <<buffers, usb, faults>>
    BY <1>3 DEF KernelBulkOut, KernelBulkOutFail, BulkOuts, devVars, ioVars, hostVars
  <2> QED BY <1>2, <2>1
<1>4. ASSUME NEW o \in kern, NEW res, KernelRead(o, res)
      PROVE  Ordered'
  <2>1. /\ o.op # "BulkInWrite" /\ kern' = kern \ {o}
        /\ UNCHANGED <<bulk_in, order, wire, sq, streams, host>> /\ UNCHANGED <<buffers, usb, faults>>
    BY <1>4 DEF KernelRead, Reads, devVars, ioVars, hostVars
  <2> QED BY <1>2, <2>1
<1>5. ASSUME KernelEp0
      PROVE  Ordered'
  <2>1. /\ Ep0Poll \in kern /\ Ep0Poll.op # "BulkInWrite" /\ kern' = kern \ {Ep0Poll}
        /\ UNCHANGED <<bulk_in, order, wire, sq, streams, host>> /\ UNCHANGED <<buffers, usb, faults>>
    BY <1>5, PollIsPoll DEF KernelEp0, devVars, ioVars, hostVars
  <2> QED BY <1>2, <2>1
<1>6. ASSUME UsbEvent
      PROVE  Ordered'
  <2>1. /\ UNCHANGED <<bulk_in, order, wire, sq, streams, host>> /\ UNCHANGED <<buffers, kern, faults>>
        /\ usb
    BY <1>6 DEF UsbEvent, devVars, ioVars, hostVars
  <2> QED BY <1>1, <2>1, SameOrdered DEF Calm
<1>7. Ordered'
  BY <1>1, <1>3, <1>4, <1>5, <1>6, KernelWriteOrders, KernelWriteFailOrders DEF Kernel, Transfer
<1> QED
  BY <1>7 DEF OrderInv

\* The inductive invariant of the order of the device's messages.
MessagesInv == Inv /\ Agree /\ FlowInv /\ CloseInv /\ OrderInv

\* Every step keeps the messages in order.
LEMMA NextMessages ==
  ASSUME ~Restarts, ~Reorder, MessagesInv, [Next]_vars
  PROVE  MessagesInv'
<1>1. ASSUME Next
      PROVE  MessagesInv'
  <2>1. Inv' /\ Agree'
    BY <1>1, NextInv, NextAgrees DEF MessagesInv
  <2>2. FlowInv'
    BY <1>1, <2>1, DeviceFlows, KernelFlows, HostFlows DEF Next, MessagesInv
  <2>3. CloseInv'
    BY <1>1, <2>1, DeviceCloses, KernelCloses, HostCloses DEF Next, MessagesInv
  <2>4. OrderInv'
    BY <1>1, <2>1, <2>2, DeviceOrders, KernelOrders, HostOrders DEF Next, MessagesInv
  <2> QED BY <2>1, <2>2, <2>3, <2>4 DEF MessagesInv
<1>2. ASSUME UNCHANGED vars
      PROVE  MessagesInv'
  <2>1. /\ UNCHANGED <<streams, next_id, pending_header, buffers, sq, order>>
        /\ UNCHANGED <<kern, bulk_in, cq, batch, bulk_out_buf>>
        /\ UNCHANGED <<host, bulk_out>> /\ daemon' = daemon
        /\ UNCHANGED <<link, wire, usb, faults>>
    BY <1>2 DEF vars, devVars, ioVars, kernVars, hostVars
  <2>2. Inv' /\ Agree'
    BY <1>2, <2>1, StutterInv, AgreeSame DEF Agree, AssertionsHold, MessagesInv
  <2>3. FlowInv'
    BY <2>1, SameFlows DEF FlowInv, MessagesInv
  <2>4. Calm' => Calm
    BY <2>1 DEF Calm
  <2>5. CloseInv'
    BY <2>1, <2>4, SameCloses DEF CloseInv, MessagesInv
  <2>6. OrderInv'
    BY <2>1, <2>4, SameOrdered DEF OrderInv, MessagesInv
  <2> QED BY <2>2, <2>3, <2>5, <2>6 DEF MessagesInv
<1> QED
  BY <1>1, <1>2

\* The loop changes neither the host nor the count of failed writes.
LEMMA DeviceKeeps ==
  ASSUME Device
  PROVE  host' = host /\ faults' = faults
<1>1. ASSUME NEW c, Take(c)
      PROVE  host' = host /\ faults' = faults
  BY <1>1 DEF Take, kernVars, hostVars
<1>2. ASSUME NEW c, Ep0Event(c)
      PROVE  host' = host /\ faults' = faults
  BY <1>2 DEF Ep0Event, hostVars
<1>3. ASSUME NEW c, ReadEnd(c) \/ ReadData(c) \/ WriteDone(c) \/ OpFailed(c)
      PROVE  Take(c)
  BY <1>3 DEF ReadEnd, ReadData, WriteDone, OpFailed
<1>4. ASSUME NEW c, BulkOutReadHeader(c) \/ BulkOutReadPayload(c)
      PROVE  Take(c)
  BY <1>4 DEF BulkOutReadHeader, BulkOutReadPayload
<1>5. Submit \/ Reap => host' = host /\ faults' = faults
  BY DEF Submit, Reap, kernVars, hostVars
<1> QED
  BY <1>1, <1>2, <1>3, <1>4, <1>5 DEF Device

\* What a step tells the host has its place there, if no write has failed.
LEMMA NextAccepts ==
  ASSUME ~Restarts, ~Reorder, MessagesInv, MessagesInv', [Next]_vars, faults' = 0, NEW q \in Remotes
  PROVE  Accepts(q)
<1>1. /\ host \in [Remotes -> HostRecords] /\ faults \in Nat /\ Inv
  BY DEF MessagesInv, Inv, TypeOK, HostTypeOK
<1>2. CASE host' = host
  BY <1>2 DEF Accepts
<1>3. ASSUME NEW i \in DOMAIN bulk_in, KernelWrite(i), daemon = "running"
      PROVE  Accepts(q)
  <2>1. Inv' /\ Flowing /\ Closing /\ Ordered /\ usb' = usb /\ usb /\ faults' = faults
    BY <1>3 DEF MessagesInv, FlowInv, CloseInv, OrderInv, KernelWrite
  <2>2. CASE ~wire'.torn
    BY <1>1, <1>3, <2>1, <2>2, KernelWriteOrders DEF Calm
  <2>3. CASE wire'.torn
    <3>1. \E s, n : HostRead(s, n, buffers[s])
      BY <1>3, Zenon DEF KernelWrite
    <3>2. PICK s, n : HostRead(s, n, buffers[s])
      BY <3>1
    <3>3. wire \in [expect : Nat, torn : BOOLEAN]
      BY <1>1 DEF Inv, TypeOK, HostTypeOK
    <3>4. CASE wire.torn /\ UNCHANGED <<host, link, wire>>
      BY <1>2, <3>4
    <3>5. CASE ~wire.torn /\ wire' = [wire EXCEPT !.expect = n]
      BY <2>3, <3>3, <3>5
    <3>6. CASE ~wire.torn /\ wire' = [wire EXCEPT !.torn = TRUE] /\ UNCHANGED <<host, link>>
      BY <1>2, <3>6
    <3> QED BY <3>2, <3>4, <3>5, <3>6, Zenon DEF HostRead
  <2> QED BY <2>2, <2>3
<1>4. CASE Device
  <2>1. host' = host
    BY <1>4, DeviceKeeps
  <2> QED BY <1>2, <2>1
<1>5. CASE Kernel
  <2>1. \/ daemon = "running" /\ \E i \in DOMAIN bulk_in : KernelWrite(i)
        \/ host' = host
    BY <1>5 DEF Kernel, Transfer, KernelWriteFail, KernelBulkOut, KernelBulkOutFail, KernelEp0,
                KernelRead, UsbEvent, hostVars
  <2> QED BY <1>2, <1>3, <2>1
<1>6. CASE Host
  <2>1. CASE HostConnect \/ HostNoise
    BY <1>2, <2>1 DEF HostConnect, HostNoise
  <2>2. ASSUME NEW r \in Remotes, NEW svc \in Services, HostOpen(r, svc)
        PROVE  host'[q].got = host[q].got /\ host'[q].bad = host[q].bad
    BY <1>1, <2>2 DEF HostOpen, HostRecords
  <2>3. ASSUME NEW r \in Remotes, HostWrite(r)
        PROVE  host'[q].got = host[q].got /\ host'[q].bad = host[q].bad
    <3>1. CASE host' = [host EXCEPT ![r].unacked = TRUE, ![r].sent = @ + 1]
      BY <1>1, <3>1 DEF HostRecords
    <3>2. CASE \E req \in Requests :
                 host' = [host EXCEPT ![r].unacked = TRUE, ![r].sent = @ + 1,
                                      ![r].mode = Mode(req)]
      BY <1>1, <3>2 DEF HostRecords
    <3> QED BY <2>3, <3>1, <3>2 DEF HostWrite
  <2>4. ASSUME NEW r \in Remotes, HostAck(r) \/ HostClose(r)
        PROVE  host'[q].got = host[q].got /\ host'[q].bad = host[q].bad
    BY <1>1, <2>4 DEF HostAck, HostClose, HostRecords
  <2> QED BY <1>6, <2>1, <2>2, <2>3, <2>4, HostSteps DEF Accepts
<1>7. CASE UNCHANGED vars
  BY <1>2, <1>7 DEF vars, hostVars
<1> QED
  BY <1>4, <1>5, <1>6, <1>7 DEF Next

\* A failed write stays counted.
LEMMA FaultsStay ==
  ASSUME Inv, [Next]_vars
  PROVE  /\ faults' = 0 => faults = 0
         /\ MaxFaults = 0 /\ faults = 0 => faults' = 0
<1>1. faults \in Nat
  BY DEF Inv, TypeOK
<1>2. faults' = faults \/ (faults' = faults + 1 /\ faults < MaxFaults)
  <2>1. CASE Device
    BY <2>1, DeviceKeeps
  <2>2. CASE Kernel
    <3>1. KernelWriteFail => faults' = faults \/ (faults' = faults + 1 /\ faults < MaxFaults)
      BY DEF KernelWriteFail
    <3>2. KernelWriteFail \/ faults' = faults
      BY <2>2 DEF Kernel, Transfer, KernelWrite, KernelBulkOut, KernelBulkOutFail, KernelEp0,
                  KernelRead, UsbEvent
    <3> QED BY <3>1, <3>2
  <2>3. CASE Host
    BY <2>3 DEF Host, HostStep, kernVars
  <2>4. CASE UNCHANGED vars
    BY <2>4 DEF vars, kernVars
  <2> QED BY <2>1, <2>2, <2>3, <2>4 DEF Next
<1> QED
  BY <1>1, <1>2, ConnectionAssumption

\* The messages to the host are in order, whatever completes when.
THEOREM MessagesInOrder ==
  ASSUME ~Restarts, ~Reorder
  PROVE  Spec => []MessagesInv
<1>1. Init => MessagesInv
  BY InitInv, InitAgrees, InitFlows, InitCloses, InitOrders DEF MessagesInv
<1>2. MessagesInv /\ [Next]_vars => MessagesInv'
  BY NextMessages
<1> QED
  BY <1>1, <1>2, PTL DEF Spec

\* For any number of streams, slots and messages and any order of completions, if
\* the kernel runs the writes in the order of their submission: as long as no
\* write has failed, every message of the device has its place in the host's
\* stream, no OKAY without a WRTE, no WRTE before the stream is open or after its
\* CLSE, no second CLSE and no id the host does not know.
THEOREM DeviceObeysProtocol ==
  ASSUME ~Restarts, ~Reorder
  PROVE  Spec => [](faults = 0 => ProtocolObeyed)
<1> DEFINE Obeyed == faults = 0 => ProtocolObeyed
<1>1. Init => Obeyed
  BY DEF Init, InitHost, NewHost, ProtocolObeyed
<1>2. MessagesInv /\ MessagesInv' /\ Obeyed /\ [Next]_vars => Obeyed'
  <2> SUFFICES ASSUME MessagesInv, MessagesInv', Obeyed, [Next]_vars, faults' = 0, NEW q \in Remotes
               PROVE  ~host'[q].bad
    BY DEF ProtocolObeyed
  <2>1. faults = 0
    BY FaultsStay DEF MessagesInv
  <2>2. host'[q].bad = host[q].bad
    BY NextAccepts DEF Accepts
  <2> QED BY <2>1, <2>2 DEF ProtocolObeyed
<1> QED
  BY <1>1, <1>2, MessagesInOrder, PTL DEF Spec

\* For any number of streams, slots and messages and any order of completions, if
\* the kernel runs the writes in the order of their submission and none fails:
\* the host gets the WRTEs of every stream, sync answers included, one after the
\* other.
THEOREM WritesArriveInOrder ==
  ASSUME ~Restarts, ~Reorder, MaxFaults = 0
  PROVE  Spec => InOrderDelivery
<1> DEFINE Unfailed == faults = 0
<1>1. Init => Unfailed
  BY DEF Init, InitKern
<1>2. MessagesInv /\ Unfailed /\ [Next]_vars => Unfailed'
  BY FaultsStay DEF MessagesInv
<1>3. MessagesInv /\ MessagesInv' /\ Unfailed /\ [Next]_vars =>
        [\A r \in Remotes : host'[r].got \in {host[r].got, host[r].got + 1}]_vars
  <2> SUFFICES ASSUME MessagesInv, MessagesInv', Unfailed, [Next]_vars, NEW r \in Remotes
               PROVE  host'[r].got \in {host[r].got, host[r].got + 1}
    OBVIOUS
  <2>1. faults' = 0
    BY <1>2
  <2> QED BY <2>1, NextAccepts DEF Accepts
<1>4. Spec => []MessagesInv
  BY MessagesInOrder
<1> HIDE DEF Unfailed
<1> QED
  BY <1>1, <1>2, <1>3, <1>4, PTL DEF Spec, InOrderDelivery

-----------------------------------------------------------------------------
(* Flow control, while the daemon runs and in the state it stops in.        *)

\* The host has acknowledged all but the last WRTE of stream l.
Controlled(l) ==
  LET h == host[streams[l].remote_id]
  IN h.st = "open" => streams[l].tx <= h.acked + 1

\* Only a sync stream may have more than one WRTE unacknowledged (after a push
\* that failed).
OthersControlled == \A l \in DOMAIN streams : streams[l].service # "sync" => Controlled(l)

\* Nothing is sent on the stream of a reboot.
Unsent == \A l \in DOMAIN streams : streams[l].service = "reboot" => streams[l].tx = 0

\* An entry t of the new table: a stream it was before, which is the same to the
\* host, is a sync stream, or was read; or one that has just been opened.
Kept(l) == /\ l \in DOMAIN streams /\ SameStream(streams[l], streams'[l])
           /\ \/ streams'[l].tx = streams[l].tx
              \/ streams[l].service = "sync"
              \/ /\ streams'[l].tx = streams[l].tx + 1
                 /\ streams[l].service \in {"shell", "forward"}
                 /\ OnData(Reads(batch), l) # {}
Entry(l) == Kept(l) \/ streams'[l].tx = 0

\* A command leaves each stream's count alone but that of a sync stream.
LEMMA CommandEntries ==
  ASSUME StreamsOK, NEW io, NEW m, HandleCommand(io, m), NEW l \in DOMAIN streams'
  PROVE  Entry(l)
<1>0. \A k \in DOMAIN streams : streams[k] \in StreamRecords
  BY DEF StreamsOK
<1>1. CASE UNCHANGED streams
  BY <1>1 DEF Entry, Kept, SameStream
<1>2. ASSUME NEW j, HandleOpen(j, m)
      PROVE  Entry(l)
  <2>1. UNCHANGED streams \/ streams' = Insert(streams, next_id, NewStream(m.arg0, m.payload))
    BY <1>2 DEF HandleOpen
  <2>2. CASE streams' = Insert(streams, next_id, NewStream(m.arg0, m.payload))
    BY <2>2 DEF Insert, NewStream, Entry, Kept, SameStream
  <2> QED BY <1>1, <2>1, <2>2
<1>3. ASSUME NEW k \in DOMAIN streams, streams' = Close(streams, k)
      PROVE  Entry(l)
  BY <1>3 DEF Close, Entry, Kept, SameStream
<1>4. ASSUME NEW k \in DOMAIN streams, NEW t, streams' = [streams EXCEPT ![k] = t],
             SameStream(streams[k], t), t.tx = streams[k].tx \/ streams[k].service = "sync"
      PROVE  Entry(l)
  BY <1>4 DEF Entry, Kept, SameStream
<1>5. ASSUME NEW s \in StreamRecords, NEW more
      PROVE  SameStream(s, ContinueSync(s, more))
  BY DEF ContinueSync, SameStream, StreamRecords
<1>6. ASSUME NEW j, HandleOkay(j, m), StreamOf(m) \in DOMAIN streams
      PROVE  Entry(l)
  <2> DEFINE k == StreamOf(m)
             s == [streams[k] EXCEPT !.waiting_for_okay = FALSE]
  <2>1. PICK more : streams' = [streams EXCEPT ![k] = IF s.service = "sync"
                                                      THEN ContinueSync(s, more) ELSE s]
    BY <1>6, Zenon DEF HandleOkay
  <2>2. /\ s \in StreamRecords /\ SameStream(streams[k], s) /\ s.tx = streams[k].tx
    BY <1>0, <1>6 DEF StreamRecords, SameStream
  <2>3. SameStream(streams[k], ContinueSync(s, more))
    BY <1>5, <2>2 DEF SameStream
  <2> HIDE DEF s
  <2> QED BY <1>4, <1>6, <2>1, <2>2, <2>3 DEF SameStream
<1>7. ASSUME NEW j, HandleWrte(j, m), StreamOf(m) \in DOMAIN streams
      PROVE  Entry(l)
  <2> DEFINE k == StreamOf(m)
             s == streams[k]
             t(fails) == [s EXCEPT !.sync = SyncHandle(s.sync, m.payload, fails).sync]
             u(fails, more) == IF s.service # "sync" THEN s
                               ELSE CASE SyncHandle(s.sync, m.payload, fails).result = "Data" ->
                                           [t(fails) EXCEPT !.tx = @ + 1]
                                      [] SyncHandle(s.sync, m.payload, fails).result = "Continue" ->
                                           ContinueSync(t(fails), more)
                                      [] OTHER -> t(fails)
  <2>1. PICK fails, more : streams' = Close(streams, k)
                             \/ streams' = [streams EXCEPT ![k] = u(fails, more)]
    BY <1>7, Zenon DEF HandleWrte
  <2>2. SyncHandle(s.sync, m.payload, fails).sync \in SyncStates
    BY <1>0, <1>7 DEF SyncHandle, StreamRecords, SyncStates
  <2>3. t(fails) \in StreamRecords /\ SameStream(s, t(fails))
    BY <1>0, <1>7, <2>2 DEF StreamRecords, SameStream
  <2>4. /\ SameStream(s, ContinueSync(t(fails), more))
        /\ SameStream(s, [t(fails) EXCEPT !.tx = @ + 1])
    BY <1>5, <2>3 DEF SameStream, StreamRecords
  <2>5. SameStream(s, u(fails, more))
    BY <2>3, <2>4 DEF SameStream
  <2>6. s.service # "sync" => u(fails, more) = s
    OBVIOUS
  <2> HIDE DEF u
  <2> QED BY <1>3, <1>4, <1>7, <2>1, <2>5, <2>6
<1>8. ASSUME NEW j, HandleClse(j, m), StreamOf(m) \in DOMAIN streams
      PROVE  Entry(l)
  <2> DEFINE k == StreamOf(m)
  <2>1. \/ streams' = [streams EXCEPT ![k].remote_closed = TRUE]
        \/ streams' = Close(streams, k)
    BY <1>8, Zenon DEF HandleClse
  <2>2. CASE streams' = [streams EXCEPT ![k].remote_closed = TRUE]
    BY <1>0, <1>8, <2>2 DEF Entry, Kept, SameStream, StreamRecords
  <2> QED BY <1>3, <1>8, <2>1, <2>2
<1>9. ASSUME NEW j, HandleCnxn(j, m) \/ HandleOther(j, m)
      PROVE  UNCHANGED streams
  BY <1>9 DEF HandleCnxn, HandleOther
<1>10. ASSUME NEW j, HandleOkay(j, m) \/ HandleWrte(j, m), StreamOf(m) \notin DOMAIN streams
       PROVE  UNCHANGED streams
  BY <1>10 DEF HandleOkay, HandleWrte
<1>11. ASSUME NEW j, HandleClse(j, m), StreamOf(m) \notin DOMAIN streams
       PROVE  UNCHANGED streams
  BY <1>11, Zenon DEF HandleClse
<1> QED
  BY <1>1, <1>2, <1>6, <1>7, <1>8, <1>9, <1>10, <1>11, Zenon DEF HandleCommand

\* So does every other step of the loop, but for the stream a read was for.
LEMMA DeviceEntries ==
  ASSUME Inv, Device, NEW l \in DOMAIN streams'
  PROVE  Entry(l)
<1>0. StreamsOK /\ \A k \in DOMAIN streams : streams[k] \in StreamRecords
  BY DEF Inv, TypeOK, StreamsOK
<1>1. CASE UNCHANGED streams
  BY <1>1 DEF Entry, Kept, SameStream
<1>2. CASE Submit \/ Reap \/ \E c \in batch : WriteDone(c) \/ OpFailed(c) \/ Ep0Event(c)
  BY <1>1, <1>2 DEF Submit, Reap, WriteDone, OpFailed, Ep0Event, devVars
<1>3. ASSUME NEW c \in batch, ReadEnd(c)
      PROVE  Entry(l)
  BY <1>3 DEF ReadEnd, Close, Entry, Kept, SameStream
<1>4. ASSUME NEW c \in batch, ReadData(c)
      PROVE  Entry(l)
  <2>1. CASE UNCHANGED streams
    BY <1>1, <2>1
  <2>2. CASE /\ c.data \in DOMAIN streams /\ streams[c.data].service \in {"shell", "forward"}
             /\ streams' = [streams EXCEPT ![c.data].waiting_for_okay = TRUE,
                                           ![c.data].tx = @ + 1]
    <3>1. c \in OnData(Reads(batch), c.data)
      BY <1>4 DEF ReadData, OnData
    <3>2. CASE l = c.data
      BY <1>0, <2>2, <3>1, <3>2 DEF Entry, Kept, SameStream, StreamRecords
    <3>3. CASE l # c.data
      BY <2>2, <3>3 DEF Entry, Kept, SameStream
    <3> QED BY <3>2, <3>3
  <2> QED BY <1>4, <2>1, <2>2 DEF ReadData
<1>5. ASSUME NEW c \in batch, BulkOutReadHeader(c) \/ BulkOutReadPayload(c)
      PROVE  Entry(l)
  <2>1. UNCHANGED streams \/ \E m : HandleCommand(Io, m)
    BY <1>5, Zenon DEF BulkOutReadHeader, BulkOutReadPayload, devVars
  <2> QED BY <1>0, <1>1, <2>1, CommandEntries
<1> QED
  BY <1>2, <1>3, <1>4, <1>5 DEF Device

\* The stream of an entry the host has open is the host's.
LEMMA OpenIsMine ==
  ASSUME Inv, Agree, Closing, NEW l \in DOMAIN streams, host[streams[l].remote_id].st = "open"
  PROVE  streams[l].remote_id \in Remotes /\ host[streams[l].remote_id].local = l
<1> DEFINE r == streams[l].remote_id
<1>1. r \in Remotes /\ l \in Nat /\ host \in [Remotes -> HostRecords]
  BY DEF Agree, StreamsAgree, Opened, Inv, TypeOK, HostTypeOK
<1>2. host[r].local \in Nat /\ OneEnd(r)
  BY <1>1 DEF Closing, Ends, HostRecords
<1>3. Names(r, l) /\ Names(r, host[r].local)
  BY <1>2 DEF Names, Has, OneEnd
<1> QED BY <1>1, <1>2, <1>3 DEF OneEnd

\* What the running daemon's invariants say of a stream that is not sync.
LEMMA FlowControls ==
  ASSUME Inv, Agree, Flowing, Closing, Unsent
  PROVE  OthersControlled
<1> SUFFICES ASSUME NEW l \in DOMAIN streams, streams[l].service # "sync",
                    host[streams[l].remote_id].st = "open"
             PROVE  streams[l].tx <= host[streams[l].remote_id].acked + 1
  BY DEF OthersControlled, Controlled
<1> DEFINE r == streams[l].remote_id
<1>1. /\ r \in Remotes /\ host[r].local = l /\ host[r].acked \in Nat
      /\ streams[l] \in StreamRecords
  BY OpenIsMine DEF Inv, TypeOK, HostTypeOK, HostRecords
<1>2. CASE streams[l].service \in {"shell", "forward"}
  BY <1>1, <1>2 DEF Flowing, StreamsFlow, Flows, Counted, Listens
<1>3. CASE streams[l].service = "reboot"
  BY <1>1, <1>3 DEF Unsent
<1> QED BY <1>1, <1>2, <1>3 DEF StreamRecords, Kinds

\* What a step of the loop counts, it counts within the limit, also the step
\* after which the daemon no longer runs.
LEMMA DeviceControls ==
  ASSUME Inv, Agree, Flowing, Closing, Unsent, Device, Inv', Agree'
  PROVE  OthersControlled'
<1> SUFFICES ASSUME NEW l \in DOMAIN streams', streams'[l].service # "sync",
                    host'[streams'[l].remote_id].st = "open"
             PROVE  streams'[l].tx <= host'[streams'[l].remote_id].acked + 1
  BY DEF OthersControlled, Controlled
<1> DEFINE r == streams'[l].remote_id
<1>1. host' = host /\ Entry(l) /\ OthersControlled
  BY DeviceKeeps, DeviceEntries, FlowControls
<1>2. r \in Remotes /\ host[r].acked \in Nat
  BY <1>1 DEF Agree, StreamsAgree, Opened, Inv, TypeOK, HostTypeOK, HostRecords
<1>3. CASE streams'[l].tx = 0
  BY <1>1, <1>2, <1>3
<1>4. CASE Kept(l)
  <2>1. l \in DOMAIN streams /\ streams[l].remote_id = r /\ streams[l].service # "sync"
    BY <1>4 DEF Kept, SameStream
  <2>2. CASE streams'[l].tx = streams[l].tx
    BY <1>1, <2>1, <2>2 DEF OthersControlled, Controlled
  <2>3. CASE /\ streams'[l].tx = streams[l].tx + 1
             /\ streams[l].service \in {"shell", "forward"}
             /\ OnData(Reads(batch), l) # {}
    <3>1. host[r].local = l
      BY <1>1, <2>1, OpenIsMine
    <3>2. Flows(l)
      BY <2>1, <2>3 DEF Flowing, StreamsFlow
    <3>3. ~streams[l].waiting_for_okay
      BY <2>3, <3>2, ReadsSplit DEF Flows, OneRead
    <3>4. streams[l].tx = host[r].acked
      BY <1>1, <2>1, <3>1, <3>2, <3>3 DEF Flows, Counted, Listens
    <3> QED BY <1>1, <1>2, <2>3, <3>4
  <2> QED BY <1>4, <2>1, <2>2, <2>3 DEF Kept
<1> QED
  BY <1>1, <1>3, <1>4 DEF Entry

\* The kernel and the host act while the daemon runs, and change neither it nor
\* its streams.
LEMMA OthersKeep ==
  ASSUME Kernel \/ Host
  PROVE  daemon = "running" /\ daemon' = daemon /\ streams' = streams
<1>1. CASE Kernel
  BY <1>1 DEF Kernel, Transfer, KernelWrite, KernelWriteFail, KernelBulkOut, KernelBulkOutFail,
              KernelEp0, KernelRead, UsbEvent, devVars, ioVars
<1>2. CASE Host
  BY <1>2 DEF Host, HostStep, devVars, ioVars
<1> QED
  BY <1>1, <1>2

\* The loop acts while the daemon runs.
LEMMA DeviceRuns ==
  ASSUME Device
  PROVE  daemon = "running"
<1>1. ASSUME NEW c, ReadEnd(c) \/ ReadData(c) \/ WriteDone(c) \/ OpFailed(c) \/ Ep0Event(c)
      PROVE  daemon = "running"
  BY <1>1 DEF ReadEnd, ReadData, WriteDone, OpFailed, Ep0Event, Take
<1>2. ASSUME NEW c, BulkOutReadHeader(c) \/ BulkOutReadPayload(c)
      PROVE  daemon = "running"
  BY <1>2 DEF BulkOutReadHeader, BulkOutReadPayload, Take
<1>3. Submit \/ Reap => daemon = "running"
  BY DEF Submit, Reap
<1> QED
  BY <1>1, <1>2, <1>3 DEF Device

\* For any number of streams and slots and in any order of completions, also when
\* the daemon has stopped: on every stream but a sync one the host has
\* acknowledged all but the last WRTE sent, the flow control that
\* Stream::waiting_for_okay documents.
THEOREM FlowIsControlled ==
  ASSUME ~Restarts
  PROVE  Spec => []OthersControlled
<1> DEFINE EndInv == Inv /\ Agree /\ FlowInv /\ CloseInv
           Stopped == Unsent /\ (daemon # "running" => OthersControlled)
<1>1. Init => Stopped
  BY DEF Init, InitDev, NoStreams, Unsent
<1>2. EndInv /\ EndInv' /\ Stopped /\ [Next]_vars => Stopped'
  <2> SUFFICES ASSUME EndInv, EndInv', Stopped, [Next]_vars
               PROVE  Stopped'
    OBVIOUS
  <2>1. CASE Device
    <3>1. Flowing /\ Closing
      BY <2>1, DeviceRuns DEF FlowInv, CloseInv
    <3>2. OthersControlled'
      BY <2>1, <3>1, DeviceControls
    <3>3. Unsent'
      <4> SUFFICES ASSUME NEW l \in DOMAIN streams', streams'[l].service = "reboot"
                   PROVE  streams'[l].tx = 0
        BY DEF Unsent
      <4>1. Entry(l)
        BY <2>1, DeviceEntries
      <4> QED BY <4>1 DEF Entry, Kept, SameStream, Unsent
    <3> QED BY <3>2, <3>3
  <2>2. CASE Kernel \/ Host
    BY <2>2, OthersKeep DEF Unsent
  <2>3. CASE UNCHANGED vars
    BY <2>3 DEF vars, devVars, ioVars, hostVars, Unsent, OthersControlled, Controlled
  <2> QED BY <2>1, <2>2, <2>3 DEF Next
<1>3. EndInv /\ Stopped => OthersControlled
  BY FlowControls DEF FlowInv, CloseInv
<1>4. Spec => []EndInv
  BY StreamEnds
<1> HIDE DEF EndInv, Stopped
<1> QED
  BY <1>1, <1>2, <1>3, <1>4, PTL DEF Spec

\* The services the host asks for.
Asked == \A r \in Remotes : host[r].svc \in Services \cup {"unknown"}

\* The same for every stream, if the host opens no sync stream.
THEOREM FlowIsControlledWithoutSync ==
  ASSUME ~Restarts, "sync" \notin Services
  PROVE  Spec => []FlowControl
<1>1. Init => Asked
  BY DEF Init, InitHost, NewHost, Asked
<1>2. Inv /\ Asked /\ [Next]_vars => Asked'
  <2> SUFFICES ASSUME Inv, Asked, [Next]_vars, NEW q \in Remotes
               PROVE  host'[q].svc \in Services \cup {"unknown"}
    BY DEF Asked
  <2>1. host \in [Remotes -> HostRecords] /\ host[q].svc \in Services \cup {"unknown"}
    BY DEF Inv, TypeOK, HostTypeOK, Asked
  <2>2. CASE host' = host
    BY <2>1, <2>2
  <2>3. CASE Device
    BY <2>2, <2>3, DeviceKeeps
  <2>4. CASE Kernel
    <3>1. ASSUME NEW h \in HostRecords, NEW m
          PROVE  Received(h, m).svc = h.svc
      BY DEF Received, HostRecords
    <3>2. ASSUME NEW m, Deliver(m)
          PROVE  host'[q].svc = host[q].svc
      BY <2>1, <3>1, <3>2 DEF Deliver
    <3>3. ASSUME NEW i, KernelWrite(i)
          PROVE  host' = host \/ \E m : Deliver(m)
      BY <3>3, Zenon DEF KernelWrite, HostRead
    <3>4. host' = host \/ \E i \in DOMAIN bulk_in : KernelWrite(i)
      BY <2>4 DEF Kernel, Transfer, KernelWriteFail, KernelBulkOut, KernelBulkOutFail, KernelEp0,
                  KernelRead, UsbEvent, hostVars
    <3> QED BY <2>1, <2>2, <3>2, <3>3, <3>4
  <2>5. CASE Host
    <3>1. CASE HostConnect \/ HostNoise
      BY <2>2, <3>1 DEF HostConnect, HostNoise
    <3>2. ASSUME NEW r \in Remotes, NEW svc \in Services, HostOpen(r, svc)
          PROVE  host'[q].svc \in Services \cup {"unknown"}
      BY <2>1, <3>2 DEF HostOpen, HostRecords
    <3>3. ASSUME NEW r \in Remotes, HostWrite(r)
          PROVE  host'[q].svc = host[q].svc
      <4>1. CASE host' = [host EXCEPT ![r].unacked = TRUE, ![r].sent = @ + 1]
        BY <2>1, <4>1 DEF HostRecords
      <4>2. CASE \E req \in Requests :
                   host' = [host EXCEPT ![r].unacked = TRUE, ![r].sent = @ + 1,
                                        ![r].mode = Mode(req)]
        BY <2>1, <4>2 DEF HostRecords
      <4> QED BY <3>3, <4>1, <4>2 DEF HostWrite
    <3>4. ASSUME NEW r \in Remotes, HostAck(r) \/ HostClose(r)
          PROVE  host'[q].svc = host[q].svc
      BY <2>1, <3>4 DEF HostAck, HostClose, HostRecords
    <3> QED BY <2>1, <2>5, <3>1, <3>2, <3>3, <3>4, HostSteps
  <2>6. CASE UNCHANGED vars
    BY <2>2, <2>6 DEF vars, hostVars
  <2> QED BY <2>3, <2>4, <2>5, <2>6 DEF Next
<1>3. Agree /\ Asked /\ OthersControlled => FlowControl
  <2> SUFFICES ASSUME Agree, Asked, OthersControlled, NEW l \in DOMAIN streams
               PROVE  Controlled(l)
    BY DEF FlowControl, Controlled
  <2>1. streams[l].service \in Services \cup {"unknown"}
    BY DEF Agree, StreamsAgree, Opened, Asked
  <2> QED BY <2>1 DEF OthersControlled
<1>4. Spec => [](Inv /\ Agree /\ FlowInv /\ CloseInv)
  BY StreamEnds
<1>5. Spec => []OthersControlled
  BY FlowIsControlled
<1> QED
  BY <1>1, <1>2, <1>3, <1>4, <1>5, PTL DEF Spec
=============================================================================
