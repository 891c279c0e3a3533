--------------------------- MODULE AdbConnection ---------------------------
(***************************************************************************)
(* One ADB session: the single-threaded io_uring event loop of             *)
(* src/src/main.rs (AdbConnection::run and the handlers it calls), the     *)
(* kernel side of the ring and of the USB endpoints (external), and the    *)
(* host of module AdbHost.                                                 *)
(*                                                                         *)
(* The loop submits what it pushed (Submit), waits, takes the completions  *)
(* that are there (Reap) and handles them one by one (the actions that     *)
(* take an entry out of batch).  The kernel completes operations at any    *)
(* time in between.                                                        *)
(*                                                                         *)
(* The entries of the submission queue are a set: at most one of them is   *)
(* ever about a given slot or stream, and only the writes to the bulk-in   *)
(* endpoint have an order that matters, which is kept in order.            *)
(* The completions are sets too, handled in any order: the completion of a *)
(* write may be posted after the host has reacted to the write (doc of     *)
(* Stream::waiting_for_okay).                                              *)
(***************************************************************************)
EXTENDS AdbHost, BufferManager

CONSTANTS SqSize,    \* entries of the submission queue, 32 in the code
          MaxTx,     \* bound: WRTEs of data the device sends per stream
          Reorder,   \* whether the kernel may run unlinked writes in any order
          OsFails,   \* which outcomes calls to the OS have: TRUE is failure
          MaxFaults, \* bound: failed USB writes
          MaxEvents  \* bound: events on ep0

ASSUME ConnectionAssumption ==
  /\ SqSize \in Nat /\ SqSize >= MaxSlots + 3
  /\ MaxTx \in Nat /\ MaxFaults \in Nat /\ MaxEvents \in Nat
  /\ Reorder \in BOOLEAN /\ OsFails \in SUBSET BOOLEAN

VARIABLES
  streams, next_id,  \* StreamManager
  buffers,           \* BufferManager
  version,           \* V0 before CNXN, then what the host speaks
  pending_header,    \* << >> or the header whose payload is being read
  bulk_out_buf,      \* the transfer last read from bulk-out
  sq, order,         \* entries pushed and not submitted; slots of the headers
  batch,             \* completions taken and not handled yet
  daemon,            \* "running", how run() returned, or the panic
  kern,              \* operations the kernel has
  bulk_in,           \* slots whose writes are queued on the endpoint
  cq,                \* completions posted and not taken
  ep0, usb,          \* events not read yet; whether the interface is enabled
  faults, events     \* how much of the bounds is spent

devVars  == <<streams, next_id, version, pending_header>>
ioVars   == <<buffers, sq, order, daemon>>
kernVars == <<kern, bulk_in, bulk_out_buf, ep0, usb, faults, events>>
vars     == <<devVars, ioVars, batch, cq, kernVars, hostVars>>

-----------------------------------------------------------------------------
(* Operations and completions, UserData: the type, the slot or stream, and *)
(* for a linked payload the slot of the header it waits for.               *)

OpTypes == {"Ep0Poll", "BulkOutReadHeader", "BulkOutReadPayload", "BulkInWrite",
            "PtyRead", "SocketRead"}

Op(type, data, after) == [op |-> type, data |-> data, after |-> after]
Cqe(o, res) == [op |-> o.op, data |-> o.data, res |-> res]

Ep0Poll == Op("Ep0Poll", 0, 0)
ReadHeader == Op("BulkOutReadHeader", 0, 0)
ReadPayload == Op("BulkOutReadPayload", 0, 0)
StreamRead(kind, l) == Op(IF kind = "shell" THEN "PtyRead" ELSE "SocketRead", l, 0)

Writes(S) == {o \in S : o.op = "BulkInWrite"}
BulkOuts(S) == {o \in S : o.op \in {"BulkOutReadHeader", "BulkOutReadPayload"}}
Reads(S) == {o \in S : o.op \in {"PtyRead", "SocketRead"}}
OnData(S, d) == {o \in S : o.data = d}

\* A message of the device; payload numbers the WRTEs of a stream from 1 and
\* is 0 where the message has none; fin marks the end of a sync answer.
DevMsg(cmd, arg0, arg1, payload, fin) ==
  [cmd |-> cmd, arg0 |-> arg0, arg1 |-> arg1, payload |-> payload, fin |-> fin]
Okay(l, r) == DevMsg("OKAY", l, r, 0, FALSE)

\* Mutant: CLSE does not name the device's end of the stream.
ClseUnnamed(l, r) == DevMsg("CLSE", 0, r, 0, FALSE)

Clse(l, r) == DevMsg("CLSE", l, r, 0, FALSE)

-----------------------------------------------------------------------------
(* Submission.  io is what the functions that push entries change.  The    *)
(* first panic is recorded; no step is taken once daemon is not "running", *)
(* so what the rest of the handler would do is seen by nobody.             *)

Io == [buffers |-> buffers, sq |-> sq, order |-> order, daemon |-> daemon]

Panic(io, why) == IF io.daemon = "running" THEN [io EXCEPT !.daemon = why] ELSE io

\* Mutant: the last entry of the queue cannot be used.
PushEarly(io, o) == IF Cardinality(io.sq) >= SqSize - 1 THEN Panic(io, "SQ full")
                    ELSE [io EXCEPT !.sq = @ \cup {o}]

Push(io, o) == IF Cardinality(io.sq) >= SqSize THEN Panic(io, "SQ full")
               ELSE [io EXCEPT !.sq = @ \cup {o}]

\* Allocates a slot for one transfer of m and pushes the write.
SubmitPart(io, m, after) ==
  IF ~HasFree(io.buffers) THEN Panic(io, "all write slots in use")
  ELSE LET s == FirstFree(io.buffers)
       IN Push([io EXCEPT !.buffers = Alloc(@, s, m),
                          !.order = IF after = 0 THEN Append(@, s) ELSE @],
               Op("BulkInWrite", s, after))

\* The payload is linked to the header just pushed (IO_LINK).
SubmitMessage(io, m) ==
  IF m.payload = 0 \/ ~HasFree(io.buffers) THEN SubmitPart(io, m, 0)
  ELSE SubmitPart(SubmitPart(io, m, 0), m, FirstFree(io.buffers))

Commit(io) == /\ buffers' = io.buffers /\ sq' = io.sq
              /\ order' = io.order /\ daemon' = io.daemon

\* Mutant: a path forgets to read on.
FinishUnarmed(io) == Commit(io)

\* Every path through a bulk-out completion ends by reading the next header.
Finish(io) == Commit(Push(io, ReadHeader))

-----------------------------------------------------------------------------
(* Initial state: run() has pushed the poll of ep0 and the first read.     *)

InitDev == /\ streams = NoStreams /\ next_id = 1
           /\ version = V0 /\ pending_header = << >>
           /\ buffers = NoBuffers
           /\ sq = {Ep0Poll, ReadHeader} /\ order = << >>
           /\ batch = {} /\ daemon = "running"

InitKern == /\ kern = {} /\ bulk_in = << >> /\ cq = {}
            /\ bulk_out_buf = << >> /\ ep0 = << >> /\ usb = TRUE
            /\ faults = 0 /\ events = 0

Init == InitDev /\ InitKern /\ InitHost

-----------------------------------------------------------------------------
(* The event loop.                                                         *)

\* submit_and_wait hands the entries to the kernel, and with a bulk-out read
\* the content of bulk_out_buf.
Submit ==
  /\ daemon = "running" /\ batch = {} /\ sq # {}
  /\ kern' = kern \cup sq /\ bulk_in' = bulk_in \o order
  /\ sq' = {} /\ order' = << >>
  /\ bulk_out_buf' = IF BulkOuts(sq) = {} THEN bulk_out_buf ELSE << >>
  /\ UNCHANGED <<devVars, buffers, daemon, batch, cq, ep0, usb, faults, events,
                 hostVars>>

\* submit_and_wait returns; the loop runs over the completions present now.
Reap ==
  /\ daemon = "running" /\ batch = {} /\ sq = {} /\ cq # {}
  /\ batch' = cq /\ cq' = {}
  /\ UNCHANGED <<devVars, ioVars, kernVars, hostVars>>

Take(c) == /\ daemon = "running" /\ c \in batch
           /\ batch' = batch \ {c}
           /\ UNCHANGED <<cq, kernVars, hostVars>>

\* A PTY or socket read returned 0 or an error: CLSE and close.
ReadEnd(c) ==
  /\ c \in Reads(batch) /\ c.res # "ok" /\ Take(c)
  /\ Commit(IF c.data \in DOMAIN streams
            THEN SubmitMessage(Io, Clse(c.data, streams[c.data].remote_id)) ELSE Io)
  /\ streams' = Close(streams, c.data)
  /\ UNCHANGED <<next_id, version, pending_header>>

\* Mutant: the next read does not wait for the OKAY.
SubmitDataAndRead(io, l, s) ==
  Push(SubmitMessage(io, DevMsg("WRTE", l, s.remote_id, s.tx + 1, FALSE)),
       StreamRead(s.service, l))

SubmitData(io, l, s) ==
  SubmitMessage(io, DevMsg("WRTE", l, s.remote_id, s.tx + 1, FALSE))

\* A PTY or socket read returned data: WRTE, and wait for its OKAY.
ReadData(c) ==
  /\ c \in Reads(batch) /\ c.res = "ok" /\ Take(c)
  /\ IF /\ c.data \in DOMAIN streams
        /\ streams[c.data].service = (IF c.op = "PtyRead" THEN "shell" ELSE "forward")
     THEN /\ streams' = [streams EXCEPT ![c.data].waiting_for_okay = TRUE,
                                        ![c.data].tx = @ + 1]
          /\ Commit(SubmitData(Io, c.data, streams[c.data]))
     ELSE UNCHANGED <<streams, ioVars>>
  /\ UNCHANGED <<next_id, version, pending_header>>

\* A write completed, or failed: either way only its slot is freed.
WriteDone(c) ==
  /\ c \in Writes(batch) /\ Take(c)
  /\ buffers' = Free(buffers, c.data)
  /\ UNCHANGED <<sq, order, daemon, devVars>>

\* Any other operation failed: run() returns the error.
OpFailed(c) ==
  /\ c \notin Writes(batch) \cup Reads(batch) /\ c.res = "err" /\ Take(c)
  /\ daemon' = "failed"
  /\ UNCHANGED <<buffers, sq, order, devVars>>

\* ep0 is readable: one event is read (handle_ep0_event).
Ep0Event(c) ==
  /\ c.op = "Ep0Poll" /\ c.res = "ok"
  /\ daemon = "running" /\ c \in batch /\ batch' = batch \ {c}
  /\ ep0' = Tail(ep0)
  /\ Commit(IF Head(ep0) = "stop" THEN [Io EXCEPT !.daemon = "stopped"]
            ELSE Push(Io, Ep0Poll))
  /\ UNCHANGED <<devVars, cq, kern, bulk_in, bulk_out_buf, usb, faults, events, hostVars>>

-----------------------------------------------------------------------------
(* Commands.  Each handler starts with io and ends with the next read.     *)

\* Mutant: the stream is looked up by the host's id.
StreamOfRemote(m) == m.arg0

\* The device's end of the stream a message is about.
StreamOf(m) == m.arg1

\* A version the device does not know is treated as V0.
HandleCnxn(io, m) ==
  /\ m.cmd = "CNXN"
  /\ version' = IF m.arg0 \in {V0, V1} THEN m.arg0 ELSE V0
  /\ Finish(SubmitMessage(io, DevMsg("CNXN", 0, 0, 1, FALSE)))
  /\ UNCHANGED <<streams, next_id>>

\* maybe_submit_pty_read, maybe_submit_socket_read.
MaybeSubmitRead(io, l, s) == IF s.waiting_for_okay THEN io
                             ELSE Push(io, StreamRead(s.service, l))

\* Mutant: an OPEN that fails is not answered.
RefuseSilently(io, r) == io

Refuse(io, r) == SubmitMessage(io, Clse(0, r))

\* StreamManager::open fails for an unknown service, and for a shell or a
\* forward when the OS refuses it.
HandleOpen(io, m) ==
  /\ m.cmd = "OPEN"
  /\ \E fails \in OsFails :
       IF m.payload \notin Kinds \/ (fails /\ m.payload \in {"shell", "forward"})
       THEN /\ Finish(Refuse(io, m.arg0))
            /\ UNCHANGED <<streams, next_id>>
       ELSE LET s == NewStream(m.arg0, m.payload)
                io1 == SubmitMessage(io, Okay(next_id, m.arg0))
            IN /\ streams' = Insert(streams, next_id, s)
               /\ next_id' = NextId(next_id)
               /\ Finish(IF s.service \in {"shell", "forward"}
                         THEN MaybeSubmitRead(io1, next_id, s) ELSE io1)
  /\ UNCHANGED version

\* Mutant: at the end of the file nothing is sent.
ContinueSyncNoDone(s, more) ==
  CASE s.sync = "Sending" /\ ~s.waiting_for_okay /\ more ->
         [s EXCEPT !.waiting_for_okay = TRUE, !.tx = @ + 1]
    [] s.sync = "Sending" /\ ~s.waiting_for_okay /\ ~more -> [s EXCEPT !.sync = "Idle"]
    [] OTHER -> s

\* FileSender::next_frame and maybe_submit_wrte_sync: the next frame of a
\* file being sent, the last one when the file is at its end (~more), or
\* back to Idle when that one has been sent.
ContinueSync(s, more) ==
  CASE s.sync = "Sending" /\ ~s.waiting_for_okay ->
         [s EXCEPT !.waiting_for_okay = TRUE, !.tx = @ + 1,
                   !.sync = IF more THEN "Sending" ELSE "Sent"]
    [] s.sync = "Sent" /\ ~s.waiting_for_okay -> [s EXCEPT !.sync = "Idle"]
    [] OTHER -> s

\* A frame that is not the last is sent only within the bound MaxTx.
MoreFrames(s) == IF s.tx < MaxTx THEN BOOLEAN ELSE {FALSE}

\* Pushes the WRTE of the frame that turned stream s into t, if any.
SubmitFrame(io, l, s, t) ==
  IF t.tx = s.tx THEN io
  ELSE SubmitMessage(io, DevMsg("WRTE", l, t.remote_id, t.tx, t.sync # "Sending"))

HandleOkay(io, m) ==
  /\ m.cmd = "OKAY"
  /\ LET l == StreamOf(m)
     IN IF l \notin DOMAIN streams
        THEN Finish(io) /\ UNCHANGED streams
        ELSE LET s == [streams[l] EXCEPT !.waiting_for_okay = FALSE]
             IN \E more \in MoreFrames(s) :
                  LET t == IF s.service = "sync" THEN ContinueSync(s, more) ELSE s
                  IN /\ streams' = [streams EXCEPT ![l] = t]
                     /\ Finish(CASE s.service = "sync" -> SubmitFrame(io, l, s, t)
                                 [] s.service = "reboot" -> Panic(io, "unreachable")
                                 [] OTHER -> MaybeSubmitRead(io, l, s))
  /\ UNCHANGED <<next_id, version>>

\* SyncService::handle: what a request makes of the session, and whether it
\* is answered at once.  A WRTE may pack a whole push (sendall).
SyncHandle(sync, req, fails) ==
  CASE sync = "Receiving" ->
         IF req = "data" /\ ~fails THEN [sync |-> "Receiving", result |-> "Continue"]
         ELSE [sync |-> "Idle", result |-> "Data"]
    [] sync # "Receiving" /\ req = "recv" /\ ~fails ->
         [sync |-> "Sending", result |-> "Continue"]
    [] sync # "Receiving" /\ req = "send" /\ ~fails ->
         [sync |-> "Receiving", result |-> "Continue"]
    [] sync # "Receiving" /\ req = "quit" -> [sync |-> sync, result |-> "Quit"]
    [] sync # "Receiving" /\ req = "stathuge" -> [sync |-> sync, result |-> "Panic"]
    [] OTHER -> [sync |-> sync, result |-> "Data"]

\* Mutant: the handler and the service both acknowledge.
AcknowledgeTwice(io, l, r) == SubmitMessage(SubmitMessage(io, Okay(l, r)), Okay(l, r))

\* Mutant: the OKAY is held back while the stream waits for one, and lost.
AcknowledgeIdle(io, l, r) ==
  IF l \in DOMAIN streams /\ streams[l].waiting_for_okay THEN io
  ELSE SubmitMessage(io, Okay(l, r))

Acknowledge(io, l, r) == SubmitMessage(io, Okay(l, r))

\* The WRTE is acknowledged before it is looked at (io1).  A write to a
\* shell or a forward that fails closes the stream.
HandleWrte(io, m) ==
  /\ m.cmd = "WRTE"
  /\ LET l == StreamOf(m)
         io1 == Acknowledge(io, l, m.arg0)
     IN IF l \notin DOMAIN streams
        THEN Finish(io1) /\ UNCHANGED streams
        ELSE \E fails \in OsFails, more \in MoreFrames(streams[l]) :
          LET s == streams[l]
              r == SyncHandle(s.sync, m.payload, fails)
              t == [s EXCEPT !.sync = r.sync]
              closes == IF s.service = "sync" THEN r.result = "Quit" ELSE fails
              u == IF s.service # "sync" THEN s
                   ELSE CASE r.result = "Data" -> [t EXCEPT !.tx = @ + 1]
                          [] r.result = "Continue" -> ContinueSync(t, more)
                          [] OTHER -> t
          IN /\ streams' = IF closes /\ s.service # "reboot" THEN Close(streams, l)
                           ELSE [streams EXCEPT ![l] = u]
             /\ Finish(CASE s.service = "reboot" -> Panic(io1, "unreachable")
                         [] s.service = "sync" /\ r.result = "Panic" ->
                              Panic(io1, "File too large for 32-bits")
                         [] OTHER -> IF closes THEN SubmitMessage(io1, Clse(l, s.remote_id))
                                     ELSE SubmitFrame(io1, l, s, u))
  /\ UNCHANGED <<next_id, version>>

\* Mutant: a shell is left to drain too.
DrainsShell(s) == s.service \in {"forward", "shell"}

Drains(s) == s.service = "forward"

\* A forward is left to drain; any other stream is closed.
HandleClse(io, m) ==
  /\ m.cmd = "CLSE"
  /\ LET l == StreamOf(m)
     IN IF l \notin DOMAIN streams
        THEN Finish(io) /\ UNCHANGED streams
        ELSE LET s == streams[l]
                 io1 == IF s.remote_id = m.arg0 THEN io
                        ELSE Panic(io, "CLSE remote_id mismatch")
             IN IF Drains(s)
                THEN /\ streams' = [streams EXCEPT ![l].remote_closed = TRUE]
                     /\ Finish(io1)
                ELSE /\ streams' = Close(streams, l)
                     /\ Finish(SubmitMessage(io1, Clse(l, s.remote_id)))
  /\ UNCHANGED <<next_id, version>>

HandleOther(io, m) ==
  /\ m.cmd \notin {"CNXN", "OPEN", "OKAY", "WRTE", "CLSE"}
  /\ Finish(io)
  /\ UNCHANGED <<streams, next_id, version>>

\* handle_command with the assertions of its arms; compliant commands with
\* a payload are CNXN, OPEN and WRTE.
HandleCommand(io, m) ==
  LET bad == (m.cmd \in {"CNXN", "OPEN", "WRTE"} /\ m.payload = "none")
               \/ (m.cmd = "OKAY" /\ m.payload # "none")
      io1 == IF bad THEN Panic(io, "payload expected") ELSE io
  IN HandleCnxn(io1, m) \/ HandleOpen(io1, m) \/ HandleOkay(io1, m)
       \/ HandleWrte(io1, m) \/ HandleClse(io1, m) \/ HandleOther(io1, m)

\* A bulk-out read for a header completed: with what is not a header it is
\* dropped, with a header that announces a payload that is read next.
BulkOutReadHeader(c) ==
  /\ c.op = "BulkOutReadHeader" /\ c.res = "ok" /\ Take(c)
  /\ LET t == bulk_out_buf[1]
     IN \/ /\ t.part = "payload" \/ ~t.ok
           /\ Finish(Io)
           /\ UNCHANGED devVars
        \/ /\ t.part = "header" /\ t.ok /\ t.msg.payload # "none"
           /\ pending_header' = <<t.msg>>
           /\ Commit(Push(Io, ReadPayload))
           /\ UNCHANGED <<streams, next_id, version>>
        \/ /\ t.part = "header" /\ t.ok /\ t.msg.payload = "none"
           /\ HandleCommand(Io, t.msg)
           /\ UNCHANGED pending_header

\* A payload was read; V0 checks its sum and drops the message if it is wrong.
BulkOutReadPayload(c) ==
  /\ c.op = "BulkOutReadPayload" /\ c.res = "ok" /\ Take(c)
  /\ pending_header' = << >>
  /\ IF pending_header = << >> \/ (version = V0 /\ ~bulk_out_buf[1].ok)
     THEN Finish(Io) /\ UNCHANGED <<streams, next_id, version>>
     ELSE HandleCommand(Io, pending_header[1])

Device == Submit \/ Reap \/ \E c \in batch :
            ReadEnd(c) \/ ReadData(c) \/ WriteDone(c) \/ OpFailed(c)
              \/ Ep0Event(c) \/ BulkOutReadHeader(c) \/ BulkOutReadPayload(c)

-----------------------------------------------------------------------------
(* The kernel: the ring, the endpoints and the files (external).           *)

\* A queued write reaches the host, in queue order unless Reorder.  A
\* payload linked to it is only now queued, behind what is there already.
KernelWrite(i) ==
  /\ usb /\ i \in DOMAIN bulk_in /\ (Reorder \/ i = 1)
  /\ LET s == bulk_in[i]
         linked == {o \in kern : o.after = s}
         rest == SubSeq(bulk_in, 1, i - 1) \o SubSeq(bulk_in, i + 1, Len(bulk_in))
     IN /\ \/ /\ linked = {}
              /\ bulk_in' = rest
              /\ HostRead(s, 0, buffers[s])
           \/ \E p \in linked :
                /\ bulk_in' = Append(rest, p.data)
                /\ HostRead(s, p.data, buffers[s])
        /\ kern' = {IF o.after = s THEN [o EXCEPT !.after = 0] ELSE o :
                      o \in kern \ OnData(Writes(kern), s)}
        /\ cq' = cq \cup {Cqe(o, "ok") : o \in OnData(Writes(kern), s)}
  /\ UNCHANGED <<devVars, ioVars, batch, bulk_out, bulk_out_buf, ep0, usb, faults,
                 events, noise>>

\* A queued write fails, and with a header the payload linked to it.  A
\* host that has the header waits for a transfer that is not the payload.
KernelWriteFail ==
  /\ bulk_in # << >> /\ (usb => faults < MaxFaults)
  /\ LET s == Head(bulk_in)
         gone == {o \in Writes(kern) : s \in {o.data, o.after}}
     IN /\ kern' = kern \ gone
        /\ cq' = cq \cup {Cqe(o, "err") : o \in gone}
        /\ wire' = IF wire.expect = s THEN [wire EXCEPT !.expect = MaxSlots + 1] ELSE wire
  /\ bulk_in' = Tail(bulk_in)
  /\ faults' = IF usb THEN faults + 1 ELSE faults
  /\ UNCHANGED <<devVars, ioVars, batch, bulk_out, bulk_out_buf, ep0, usb, events,
                 noise, host, link>>

\* A PTY or socket read returns data (within the bound MaxTx) or its end.
KernelRead(o, res) ==
  /\ o \in Reads(kern)
  /\ res = "ok" /\ o.data \in DOMAIN streams => streams[o.data].tx < MaxTx
  /\ kern' = kern \ {o} /\ cq' = cq \cup {Cqe(o, res)}
  /\ UNCHANGED <<devVars, ioVars, batch, bulk_in, bulk_out_buf, ep0, usb, faults,
                 events, hostVars>>

\* A bulk-out read takes the next transfer of the host.
KernelBulkOut(o) ==
  /\ o \in BulkOuts(kern) /\ usb /\ bulk_out # << >>
  /\ bulk_out_buf' = <<Head(bulk_out)>> /\ bulk_out' = Tail(bulk_out)
  /\ kern' = kern \ {o} /\ cq' = cq \cup {Cqe(o, "ok")}
  /\ UNCHANGED <<devVars, ioVars, batch, bulk_in, ep0, usb, faults, events, host,
                 link, wire, noise>>

\* It fails when the interface is gone.
KernelBulkOutFail(o) ==
  /\ o \in BulkOuts(kern) /\ ~usb
  /\ kern' = kern \ {o} /\ cq' = cq \cup {Cqe(o, "err")}
  /\ UNCHANGED <<devVars, ioVars, batch, bulk_in, bulk_out_buf, ep0, usb, faults,
                 events, hostVars>>

KernelEp0 ==
  /\ Ep0Poll \in kern /\ ep0 # << >>
  /\ kern' = kern \ {Ep0Poll} /\ cq' = cq \cup {Cqe(Ep0Poll, "ok")}
  /\ UNCHANGED <<devVars, ioVars, batch, bulk_in, bulk_out_buf, ep0, usb, faults,
                 events, hostVars>>

\* Suspend, Resume and the like, or one that ends the session ("stop"):
\* Disable, Unbind, or a read of ep0 that fails.
UsbEvent ==
  /\ events < MaxEvents /\ usb
  /\ \E e \in {"other", "stop"} : ep0' = Append(ep0, e) /\ usb' = (e # "stop")
  /\ events' = events + 1
  /\ UNCHANGED <<devVars, ioVars, batch, cq, kern, bulk_in, bulk_out_buf, faults,
                 hostVars>>

Transfer == \/ \E i \in DOMAIN bulk_in : KernelWrite(i)
            \/ KernelWriteFail
            \/ \E o \in kern : KernelBulkOut(o) \/ KernelBulkOutFail(o)
            \/ KernelEp0

Kernel == /\ daemon = "running"
          /\ \/ Transfer
             \/ \E o \in kern, res \in {"ok", "end"} : KernelRead(o, res)
             \/ UsbEvent

HostStep(A) == /\ usb /\ daemon = "running" /\ A
               /\ UNCHANGED <<devVars, ioVars, batch, cq, kernVars>>

Host == HostStep(\/ HostConnect
                 \/ \E r \in Remotes : \/ \E svc \in Services : HostOpen(r, svc)
                                        \/ HostWrite(r) \/ HostAck(r) \/ HostClose(r)
                 \/ HostNoise \/ HostRestart)

Next == Device \/ Kernel \/ Host

Spec == Init /\ [][Next]_vars

\* What each party does in the end if it can: the loop runs; the transfers
\* the other side can take are made, and a forwarded socket ends some time
\* after its write side was shut down; the host acknowledges what it receives
\* and echoes a CLSE.
KernelProgress ==
  /\ daemon = "running"
  /\ \/ KernelWrite(1)
     \/ \E o \in kern : KernelBulkOut(o)
     \/ \E o \in Reads(kern) :
          /\ o.data \in DOMAIN streams /\ streams[o.data].remote_closed
          /\ KernelRead(o, "end")

HostProgress ==
  HostStep(\E r \in Remotes : HostAck(r) \/ (host[r].st = "closing" /\ HostClose(r)))

Fairness == WF_vars(Device) /\ WF_vars(KernelProgress) /\ WF_vars(HostProgress)

FairSpec == Spec /\ Fairness

-----------------------------------------------------------------------------
(* Properties.                                                             *)

DevMsgs == [cmd : {"none", "CNXN", "OKAY", "WRTE", "CLSE"}, arg0 : Nat, arg1 : Nat,
            payload : Nat, fin : BOOLEAN]
Ops == [op : OpTypes \ {"BulkInWrite"}, data : Nat, after : {0}]
         \cup [op : {"BulkInWrite"}, data : Slots, after : {0} \cup Slots]
Cqes == [op : OpTypes, data : Nat, res : {"ok", "end", "err"}]
StreamRecords == [remote_id : Nat, service : Kinds, waiting_for_okay : BOOLEAN,
                  remote_closed : BOOLEAN, sync : SyncStates, tx : Nat]
Panics == {"SQ full", "all write slots in use", "unreachable", "payload expected",
           "File too large for 32-bits", "CLSE remote_id mismatch"}

\* The state has the shape the code's types give it; the id of a stream is
\* one that was handed out.
TypeOK ==
  /\ next_id \in Nat \ {0}
  /\ DOMAIN streams \subseteq 1..(next_id - 1)
  /\ streams \in [DOMAIN streams -> StreamRecords]
  /\ buffers \in [Slots -> DevMsgs]
  /\ version \in {V0, V1}
  /\ pending_header \in Seq(HostMsgs) /\ bulk_out_buf \in Seq(Xfers)
  /\ sq \subseteq Ops /\ kern \subseteq Ops
  /\ cq \subseteq Cqes /\ batch \subseteq Cqes
  /\ order \in Seq(Slots) /\ bulk_in \in Seq(Slots)
  /\ daemon \in {"running", "stopped", "failed"} \cup Panics
  /\ ep0 \in Seq({"other", "stop"}) /\ usb \in BOOLEAN
  /\ faults \in Nat /\ events \in Nat
  /\ HostTypeOK

OneWritePerSlot(S) == \A o, p \in Writes(S) : o.data = p.data => o = p
NoCommonSlot(S, T) == \A o \in Writes(S), p \in Writes(T) : o.data # p.data

\* A slot of the pool is in use exactly while one write of its bytes is on
\* its way through the ring (pushed, in the kernel, completed or taken), and
\* no two writes ever share a slot: the SAFETY comments of submit_message.
WritesOwnTheirSlot ==
  /\ OneWritePerSlot(sq) /\ OneWritePerSlot(kern)
  /\ OneWritePerSlot(cq) /\ OneWritePerSlot(batch)
  /\ NoCommonSlot(sq, kern) /\ NoCommonSlot(sq, cq) /\ NoCommonSlot(sq, batch)
  /\ NoCommonSlot(kern, cq) /\ NoCommonSlot(kern, batch) /\ NoCommonSlot(cq, batch)
  /\ Used(buffers) = {o.data : o \in Writes(sq) \cup Writes(kern)
                                       \cup Writes(cq) \cup Writes(batch)}

Polls(S) == {o \in S : o.op = "Ep0Poll"}

\* One of the four sets has one element, the others none.
ExactlyOne(A, B, C, D) ==
  /\ \E S \in {A, B, C, D} : \E x \in S : S = {x}
  /\ A = {} \/ (B = {} /\ C = {} /\ D = {})
  /\ B = {} \/ (A = {} /\ C = {} /\ D = {})
  /\ C = {} \/ (A = {} /\ B = {} /\ D = {})
  /\ D = {} \/ (A = {} /\ B = {} /\ C = {})

\* While the loop runs, one poll of ep0 and one read of bulk-out are on their
\* way, and the read is for a payload exactly when a header is pending: no
\* path through run() forgets to re-arm one or arms one twice (two reads
\* would share bulk_out_buf).
LoopArmed ==
  daemon = "running" =>
    /\ ExactlyOne(Polls(sq), Polls(kern), Polls(cq), Polls(batch))
    /\ ExactlyOne(BulkOuts(sq), BulkOuts(kern), BulkOuts(cq), BulkOuts(batch))
    /\ pending_header # << >> <=>
         \E o \in sq \cup kern \cup cq \cup batch : o.op = "BulkOutReadPayload"

\* The submission queue never overflows: "SQ full" is not a reachable panic.
SqNeverFull == daemon # "SQ full"

\* A shell or forward stream that is open either waits for an OKAY or has
\* one read on its way, never both, never neither (a stream that stalls, or
\* two reads into the one read_buf); a sync stream that sends a file waits
\* for an OKAY.
Driven ==
  daemon = "running" =>
    \A l \in DOMAIN streams :
      LET s == streams[l]
          ReadsOf(S) == OnData(Reads(S), l)
      IN CASE s.service \in {"shell", "forward"} ->
                IF s.waiting_for_okay
                THEN ReadsOf(sq) \cup ReadsOf(kern) \cup ReadsOf(cq) \cup ReadsOf(batch) = {}
                ELSE ExactlyOne(ReadsOf(sq), ReadsOf(kern), ReadsOf(cq), ReadsOf(batch))
           [] s.service = "sync" ->
                s.sync \in {"Sending", "Sent"} <=> s.waiting_for_okay
           [] OTHER -> ~s.waiting_for_okay

\* Host and device never disagree on what an open stream is.
SessionsAgree ==
  \A r \in Remotes :
    host[r].st = "open" /\ host[r].local \in DOMAIN streams =>
      /\ streams[host[r].local].remote_id = r
      /\ streams[host[r].local].service = host[r].svc

\* The device sends nothing that has no place in the host's stream: no OKAY
\* for a WRTE that was not sent, no WRTE before the OKAY of the OPEN or after
\* the CLSE, no id the host does not know.
ProtocolObeyed == \A r \in Remotes : ~host[r].bad

\* The host gets the WRTEs of a stream one after the other, none lost, none
\* twice, none out of order.
InOrderDelivery ==
  [][\A r \in Remotes : host'[r].got \in {host[r].got, host[r].got + 1}]_vars

\* At most one WRTE of the device is unacknowledged on a stream (doc of
\* Stream::waiting_for_okay).
FlowControl ==
  \A l \in DOMAIN streams :
    LET h == host[streams[l].remote_id]
    IN h.st = "open" => streams[l].tx <= h.acked + 1

InFlight(m) == \E o \in Writes(sq) \cup Writes(kern) : buffers[o.data] = m

\* A stream the device has closed and the host has not: the CLSE that tells
\* the host is on its way.
HostLearnsOfClose ==
  ~wire.torn /\ usb /\ faults = 0 /\ daemon = "running" =>
    \A r \in Remotes :
      host[r].st = "open" /\ host[r].local \notin DOMAIN streams =>
        InFlight(DevMsg("CLSE", host[r].local, r, 0, FALSE))

\* A stream the host has closed and the device has not: it is a forward that
\* drains, or the host's CLSE is on its way.
DeviceLearnsOfClose ==
  daemon = "running" =>
    \A l \in DOMAIN streams :
      LET r == streams[l].remote_id
      IN host[r].st = "closed" =>
           \/ streams[l].remote_closed
           \/ \E i \in DOMAIN bulk_out :
                bulk_out[i].msg = Message("CLSE", r, host[r].local, "none")
           \/ /\ bulk_out_buf # << >>
              /\ bulk_out_buf[1].msg = Message("CLSE", r, host[r].local, "none")
              /\ BulkOuts(cq) \cup BulkOuts(batch) # {}

\* No assertion, expect or unreachable of the session fails.
NoPanic == daemon \in {"running", "stopped", "failed"}

Trouble == wire.torn \/ faults > 0 \/ ~usb \/ daemon # "running"

\* Every OPEN is answered.
OpenAnswered ==
  \A r \in Remotes : host[r].st = "opening" ~> host[r].st # "opening" \/ Trouble

\* Every WRTE of the host is acknowledged or its stream ends.
WriteAcked ==
  \A r \in Remotes : host[r].st = "open" /\ host[r].unacked
                        ~> ~host[r].unacked \/ host[r].st # "open" \/ Trouble

\* Every sync exchange comes to its end: the host gets the whole answer.
SyncAnswered ==
  \A r \in Remotes : host[r].st = "open" /\ host[r].mode = "await"
                        ~> host[r].mode # "await" \/ host[r].st # "open" \/ Trouble

\* The device lets go of every stream the host has closed.
ClosedStreamsReleased ==
  \A r \in Remotes : host[r].st = "closed"
                        ~> (\A l \in DOMAIN streams : streams[l].remote_id # r) \/ Trouble

\* The transfers of a message reach the host one after the other.
FramingKept == ~wire.torn

\* read_buf outlives the read into it: the stream of every read that is
\* pushed or in the kernel is open (SAFETY, maybe_submit_pty_read).
ReadBufOutlivesRead ==
  \A o \in Reads(sq) \cup Reads(kern) : o.data \in DOMAIN streams

\* Every OPEN is answered, whatever write fails while the session lasts ("A
\* failed outbound write is not fatal", run()).
OpenSurvivesFault ==
  \A r \in Remotes : host[r].st = "opening"
                        ~> host[r].st # "opening" \/ wire.torn \/ ~usb \/ daemon # "running"

\* The streams of the device are those of the session CNXN began ("State for
\* a single ADB session", doc of AdbConnection).
OneSession ==
  link = "online" /\ daemon = "running" =>
    \A l \in DOMAIN streams : host[streams[l].remote_id].st # "idle"

\* Every message finds a free slot.
SlotsSuffice == daemon # "all write slots in use"
=============================================================================
