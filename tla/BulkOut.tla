------------------------------ MODULE BulkOut ------------------------------
(***************************************************************************)
(* How messages are found in the packets of the bulk-out endpoint: the     *)
(* reads of run() in src/src/main.rs (submit_bulk_out_read and the two     *)
(* arms for its completions), parse_header and checksum of                 *)
(* src/src/message.rs.                                                     *)
(*                                                                         *)
(* Every read asks for BufSize bytes, and how many it got is never         *)
(* compared with data_length: a read ends at a packet that is not full, or *)
(* when the buffer is (external).  AdbConnection takes this for granted    *)
(* and moves whole headers and payloads.                                   *)
(***************************************************************************)
EXTENDS Naturals, Sequences, FiniteSets

CONSTANTS HeaderSize,  \* 24 in the code
          PacketSize,  \* wMaxPacketSize of the endpoint
          BufSize,     \* the length of bulk_out_buf: max_payload
          Lengths,     \* the lengths of payloads
          MaxMsgs,     \* bound: messages of the host
          MaxDamaged   \* bound: how many of them are damaged

ASSUME BulkOutAssumption ==
  /\ PacketSize \in Nat \ {0} /\ BufSize \in Nat /\ BufSize % PacketSize = 0
  /\ HeaderSize \in Nat /\ HeaderSize % PacketSize # 0 /\ HeaderSize < BufSize
  /\ Lengths \subseteq 0..BufSize /\ MaxMsgs \in Nat /\ MaxDamaged \in Nat

\* What the host sends; damage is "header", "payload" or "none".
Messages == [len : Lengths, damage : {"none", "header", "payload"}]

VARIABLES
  msgs,    \* the messages of the session
  checks,  \* requires_checksum: the version is V0
  sent,    \* how many messages the host has sent
  front,   \* the first packet of the bus: message, part and place in the part
  buf,     \* the packets in bulk_out_buf,
  got,     \* how many bytes they are,
  reading, \* whether the read into it is with the kernel,
  want,    \* and what it is for: "header" or "payload"
  pending, \* pending_header: the message it is of, 0 if there is none
  handled  \* the calls of handle_command: header and payload

vars == <<msgs, checks, sent, front, buf, got, reading, want, pending, handled>>

\* A part of a message, from its first byte.
Start(k, part) == [msg |-> k, part |-> part, at |-> 0]

Damaged(q) == {k \in DOMAIN q : q[k].damage # "none"}

Init == /\ msgs \in {q \in UNION {[1..n -> Messages] : n \in 0..MaxMsgs} :
                       Cardinality(Damaged(q)) <= MaxDamaged}
        /\ checks \in BOOLEAN
        /\ sent = 0 /\ front = Start(1, "header")
        /\ buf = << >> /\ got = 0 /\ reading = TRUE
        /\ want = "header" /\ pending = 0 /\ handled = << >>

-----------------------------------------------------------------------------
(* The host and the endpoint (external).                                   *)

HostSend == /\ sent < Len(msgs) /\ sent' = sent + 1
            /\ UNCHANGED <<msgs, checks, front, buf, got, reading, want, pending, handled>>

Smaller(a, b) == IF a < b THEN a ELSE b

\* A part is sent in full packets and one that is not full, empty if need be.
SizeOf(p) == IF p.part = "header" THEN HeaderSize ELSE msgs[p.msg].len

\* What follows the packet p, of n bytes, on the bus.
Follows(p, n) ==
  IF n = PacketSize THEN [p EXCEPT !.at = @ + n]
  ELSE IF p.part = "header" /\ msgs[p.msg].len > 0 THEN Start(p.msg, "payload")
  ELSE Start(p.msg + 1, "header")

\* A packet arrives; the read ends if it is not full or fills the buffer.
Packet == /\ reading /\ front.msg <= sent
          /\ LET n == Smaller(PacketSize, SizeOf(front) - front.at)
             IN /\ buf' = Append(buf, [msg |-> front.msg, part |-> front.part,
                                       at |-> front.at, n |-> n])
                /\ got' = got + n /\ front' = Follows(front, n)
                /\ reading' = ~(n < PacketSize \/ got' = BufSize)
          /\ UNCHANGED <<msgs, checks, sent, want, pending, handled>>

-----------------------------------------------------------------------------
(* The completions.                                                        *)

\* submit_bulk_out_read: the buffer is read into from its start.
SubmitRead(for) == buf' = << >> /\ got' = 0 /\ reading' = TRUE /\ want' = for

\* parse_header: enough bytes, a known command and its magic.
parse_header(q) == /\ q # << >> /\ got >= HeaderSize
                   /\ q[1].part = "header" /\ q[1].at = 0 /\ msgs[q[1].msg].damage # "header"

Call(k, data) == handled' = Append(handled, [msg |-> k, data |-> data])

\* Mutant: every header is handled at once.
BulkOutReadHeaderOnly ==
  /\ ~reading /\ want = "header"
  /\ IF parse_header(buf) THEN Call(buf[1].msg, << >>) ELSE UNCHANGED handled
  /\ SubmitRead("header")
  /\ UNCHANGED <<msgs, checks, sent, front, pending>>

\* Mutant: after a header that is not valid its payload is waited for.
BulkOutReadHeaderWaits ==
  /\ ~reading /\ want = "header"
  /\ IF parse_header(buf) /\ msgs[buf[1].msg].len = 0
     THEN SubmitRead("header") /\ Call(buf[1].msg, << >>) /\ UNCHANGED pending
     ELSE /\ SubmitRead("payload") /\ UNCHANGED handled
          /\ pending' = IF parse_header(buf) THEN buf[1].msg ELSE 0
  /\ UNCHANGED <<msgs, checks, sent, front>>

\* A header: its payload is read next, or it has none and is handled; what
\* is not a header is dropped.
BulkOutReadHeader ==
  /\ ~reading /\ want = "header"
  /\ IF parse_header(buf) /\ msgs[buf[1].msg].len > 0
     THEN pending' = buf[1].msg /\ SubmitRead("payload") /\ UNCHANGED handled
     ELSE /\ IF parse_header(buf) THEN Call(buf[1].msg, << >>) ELSE UNCHANGED handled
          /\ SubmitRead("header") /\ UNCHANGED pending
  /\ UNCHANGED <<msgs, checks, sent, front>>

\* The packets q are the payload of message k, from its first byte to its last.
IsPayload(q, k) ==
  /\ \A i \in DOMAIN q : q[i].msg = k /\ q[i].part = "payload"
  /\ \A i \in 1..(Len(q) - 1) : q[i + 1].at = q[i].at + q[i].n
  /\ IF q = << >> THEN msgs[k].len = 0
     ELSE q[1].at = 0 /\ q[Len(q)].at + q[Len(q)].n = msgs[k].len

\* checksum(data) = data_check.
ChecksumHolds == IsPayload(buf, pending) /\ msgs[pending].damage # "payload"

\* A payload: the message is handled, unless its checksum is wrong.
BulkOutReadPayload ==
  /\ ~reading /\ want = "payload"
  /\ IF pending # 0 /\ (checks => ChecksumHolds) THEN Call(pending, buf)
     ELSE UNCHANGED handled
  /\ pending' = 0 /\ SubmitRead("header")
  /\ UNCHANGED <<msgs, checks, sent, front>>

Next == HostSend \/ Packet \/ BulkOutReadHeader \/ BulkOutReadPayload

Spec == Init /\ [][Next]_vars

\* The packets that are sent are read, and completions are handled.
FairSpec == Spec /\ WF_vars(HostSend) /\ WF_vars(Packet)
                 /\ WF_vars(BulkOutReadHeader) /\ WF_vars(BulkOutReadPayload)

-----------------------------------------------------------------------------
(* Properties.                                                             *)

\* The messages the device can know to be good.
Good(k) == /\ msgs[k].damage # "header"
           /\ checks /\ msgs[k].len > 0 => msgs[k].damage # "payload"
Handled(k) == \E n \in DOMAIN handled : handled[n].msg = k

\* However payloads fill packets and the buffer, and whatever was damaged
\* before: the messages that are handled are the good ones, in their order,
\* none left out, each with its payload, all of it and nothing else.
MessagesWhole ==
  /\ \A n \in DOMAIN handled : /\ Good(handled[n].msg)
                               /\ IsPayload(handled[n].data, handled[n].msg)
                               /\ \A k \in 1..handled[n].msg : Good(k) => Handled(k)
  /\ \A m, n \in DOMAIN handled : m < n => handled[m].msg < handled[n].msg

\* Every good message is handled in the end: damage before it does not put
\* the reader out of step.
AllHandled == <>(\A k \in DOMAIN msgs : Good(k) => Handled(k))
=============================================================================
