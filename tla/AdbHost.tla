------------------------------ MODULE AdbHost ------------------------------
(***************************************************************************)
(* The other end of the USB cable: an adb host that follows the protocol   *)
(* src/ expects of it.  Nothing of it is in the repository; it is modelled *)
(* from how src/src/main.rs, src/src/stream.rs and src/src/sync.rs answer  *)
(* it.  Every remote id is used for one stream, and ids are handed out in  *)
(* increasing order.                                                       *)
(*                                                                         *)
(*   host[r]   the host's end of stream r                                  *)
(*   link      whether CNXN has been exchanged                             *)
(*   bulk_out  transfers sent and not yet read by the device, in order     *)
(*   wire      how far the host is in the message it is reading: expect is *)
(*             the device slot whose transfer is the payload announced by  *)
(*             the last header (0: a header comes next); torn is set when  *)
(*             another transfer arrives instead, after which the host      *)
(*             cannot find a message boundary again and gives up           *)
(***************************************************************************)
EXTENDS Naturals, Sequences, FiniteSets, StreamManager

CONSTANTS Remotes,    \* the ids the host gives its streams
          Services,   \* the services the host asks for
          Requests,   \* the sync requests the host makes
          Versions,   \* the protocol versions the host may speak: V0, V1 or others
          Closers,    \* the services whose streams the host may close
          MaxWrites,  \* bound: WRTEs the host sends per stream
          MaxBus,     \* bound: transfers waiting in bulk_out
          MaxNoise,   \* bound: malformed or unknown messages, restarts of the host
          Restarts    \* whether the host may be started anew

VARIABLES host, link, bulk_out, wire, noise

hostVars == <<host, link, bulk_out, wire, noise>>

V0 == 0  \* A_VERSION_V0
V1 == 1  \* A_VERSION_V1

Answered == {"stat", "recv", "sendall", "done", "stathuge"}
SyncRequests == Answered \cup {"send", "data", "quit"}
Payloads == SyncRequests \cup Kinds \cup {"none", "unknown", "bytes", "system"}

ASSUME HostAssumption == /\ MaxWrites \in Nat /\ MaxBus \in Nat /\ MaxNoise \in Nat
                         /\ Remotes \subseteq Nat \ {0} /\ Versions \subseteq Nat
                         /\ Services \subseteq Kinds \cup {"unknown"}
                         /\ Requests \subseteq SyncRequests /\ Restarts \in BOOLEAN

NewHost == [st |-> "idle", svc |-> "unknown", local |-> 0, unacked |-> FALSE,
            got |-> 0, acked |-> 0, sent |-> 0, mode |-> "ready", bad |-> FALSE]

Message(cmd, arg0, arg1, payload) ==
  [cmd |-> cmd, arg0 |-> arg0, arg1 |-> arg1, payload |-> payload]

HostMsgs == [cmd : {"CNXN", "OPEN", "OKAY", "WRTE", "CLSE", "STLS"}, arg0 : Nat,
             arg1 : Nat, payload : Payloads]
Xfers == [part : {"header", "payload"}, msg : HostMsgs, ok : BOOLEAN]
HostRecords == [st : {"idle", "opening", "open", "closing", "closed"},
                svc : Kinds \cup {"unknown"}, local : Nat, unacked : BOOLEAN,
                got : Nat, acked : Nat, sent : Nat,
                mode : {"ready", "await", "push", "quit"}, bad : BOOLEAN]

\* The state has the shape the host's code gives it.
HostTypeOK == /\ host \in [Remotes -> HostRecords]
              /\ link \in {"offline", "connecting", "online"}
              /\ bulk_out \in Seq(Xfers)
              /\ wire \in [expect : Nat, torn : BOOLEAN]
              /\ noise \in Nat

\* The transfers of one message; ok is FALSE where the bytes are damaged.
Transfers(m, hok, pok) ==
  IF m.payload = "none" THEN <<[part |-> "header", msg |-> m, ok |-> hok]>>
  ELSE <<[part |-> "header", msg |-> m, ok |-> hok],
         [part |-> "payload", msg |-> m, ok |-> pok]>>

InitHost == /\ host = [r \in Remotes |-> NewHost]
            /\ link = "offline"
            /\ bulk_out = << >>
            /\ wire = [expect |-> 0, torn |-> FALSE]
            /\ noise = 0

-----------------------------------------------------------------------------
\* What the host sends.

HostSend(m) == /\ ~wire.torn
               /\ Len(bulk_out) < MaxBus
               /\ bulk_out' = bulk_out \o Transfers(m, TRUE, TRUE)
               /\ UNCHANGED <<wire, noise>>

HostConnect == /\ link = "offline"
               /\ \E v \in Versions : HostSend(Message("CNXN", v, 0, "system"))
               /\ link' = "connecting"
               /\ UNCHANGED host

HostOpen(r, svc) ==
  /\ link = "online" /\ host[r].st = "idle"
  /\ \A q \in Remotes : q < r => host[q].st # "idle"
  /\ HostSend(Message("OPEN", r, 0, svc))
  /\ host' = [host EXCEPT ![r].st = "opening", ![r].svc = svc]
  /\ UNCHANGED link

\* What a request does to the host's half of the sync session.
Mode(req) == CASE req = "send" -> "push" [] req \in Answered -> "await"
               [] req = "quit" -> "quit" [] OTHER -> "push"

\* A sync request follows the answer to the one before it; the frames of a
\* pushed file follow one another.
MayRequest(h, req) ==
  IF req \in {"data", "done"} THEN h.mode = "push"
  ELSE h.mode = "ready" /\ h.got = h.acked

HostWrite(r) ==
  /\ host[r].st = "open" /\ ~host[r].unacked /\ host[r].sent < MaxWrites
  /\ \/ /\ host[r].svc \in {"shell", "forward"}
        /\ HostSend(Message("WRTE", r, host[r].local, "bytes"))
        /\ host' = [host EXCEPT ![r].unacked = TRUE, ![r].sent = @ + 1]
     \/ /\ host[r].svc = "sync"
        /\ \E req \in Requests :
             /\ MayRequest(host[r], req)
             /\ HostSend(Message("WRTE", r, host[r].local, req))
             /\ host' = [host EXCEPT ![r].unacked = TRUE, ![r].sent = @ + 1,
                                     ![r].mode = Mode(req)]
  /\ UNCHANGED link

\* OKAY for the last WRTE received.
HostAck(r) ==
  /\ host[r].st = "open" /\ host[r].acked < host[r].got
  /\ HostSend(Message("OKAY", r, host[r].local, "none"))
  /\ host' = [host EXCEPT ![r].acked = @ + 1]
  /\ UNCHANGED link

HostClose(r) ==
  /\ \/ host[r].st = "open" /\ host[r].svc \in Closers
     \/ host[r].st = "closing"  \* echoes the device's CLSE
  /\ HostSend(Message("CLSE", r, host[r].local, "none"))
  /\ host' = [host EXCEPT ![r].st = "closed"]
  /\ UNCHANGED link

\* A message the device must survive: its header or payload is damaged, or
\* its command is one the device does not handle.
HostNoise ==
  /\ ~wire.torn /\ link = "online"
  /\ noise < MaxNoise /\ Len(bulk_out) < MaxBus
  /\ \/ bulk_out' = bulk_out \o Transfers(Message("OPEN", 0, 0, "unknown"), FALSE, TRUE)
     \/ bulk_out' = bulk_out \o Transfers(Message("OPEN", 0, 0, "unknown"), TRUE, FALSE)
     \/ bulk_out' = bulk_out \o Transfers(Message("STLS", 0, 0, "none"), TRUE, TRUE)
  /\ noise' = noise + 1
  /\ UNCHANGED <<host, link, wire>>

\* The adb server is started anew, at a message boundary, and connects again:
\* it knows no stream, and the ids it gives start from the first again.
HostRestart ==
  /\ Restarts /\ wire = [expect |-> 0, torn |-> FALSE] /\ link = "online"
  /\ noise < MaxNoise /\ Len(bulk_out) < MaxBus
  /\ \E v \in Versions :
       bulk_out' = bulk_out \o Transfers(Message("CNXN", v, 0, "system"), TRUE, TRUE)
  /\ host' = [r \in Remotes |-> NewHost]
  /\ link' = "connecting" /\ noise' = noise + 1
  /\ UNCHANGED wire

-----------------------------------------------------------------------------
\* What the host does with a complete message from the device.  A message
\* that has no place in the host's state marks the stream bad; one that
\* crosses the host's own CLSE is ignored.

Received(h, m) ==
  CASE h.st = "closed" \/ (h.st = "closing" /\ m.cmd = "OKAY") -> h
    [] h.st = "opening" /\ m.cmd = "OKAY" -> [h EXCEPT !.st = "open", !.local = m.arg0]
    [] h.st = "opening" /\ m.cmd = "CLSE" -> [h EXCEPT !.st = "closed"]
    [] h.st = "open" /\ m.arg0 = h.local /\ m.cmd = "OKAY" /\ h.unacked ->
         [h EXCEPT !.unacked = FALSE]
    [] h.st = "open" /\ m.arg0 = h.local /\ m.cmd = "WRTE" ->
         [h EXCEPT !.got = m.payload, !.mode = IF m.fin THEN "ready" ELSE @]
    [] h.st = "open" /\ m.arg0 = h.local /\ m.cmd = "CLSE" -> [h EXCEPT !.st = "closing"]
    [] OTHER -> [h EXCEPT !.bad = TRUE]

\* Before CNXN is answered nothing else is listened to.
Deliver(m) ==
  IF m.cmd = "CNXN"
  THEN link' = "online" /\ UNCHANGED host
  ELSE IF link # "online"
  THEN UNCHANGED <<host, link>>
  ELSE /\ host' = [r \in Remotes |-> IF r = m.arg1 THEN Received(host[r], m) ELSE host[r]]
       /\ UNCHANGED link

\* The transfer from slot s arrives; next is the slot of the payload that
\* follows it, 0 if it completes its message m.
HostRead(s, next, m) ==
  \/ /\ wire.torn
     /\ UNCHANGED <<host, link, wire>>
  \/ /\ ~wire.torn /\ wire.expect \in {0, s}
     /\ wire' = [wire EXCEPT !.expect = next]
     /\ IF next = 0 THEN Deliver(m) ELSE UNCHANGED <<host, link>>
  \/ /\ ~wire.torn /\ wire.expect \notin {0, s}
     /\ wire' = [wire EXCEPT !.torn = TRUE]
     /\ UNCHANGED <<host, link>>
=============================================================================
