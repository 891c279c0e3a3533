--------------------------- MODULE BulkOutProofs ---------------------------
(***************************************************************************)
(* Proofs about BulkOut, for every size of packets, headers, payloads and  *)
(* the buffer, and every number of messages: a read never holds bytes of   *)
(* two transfers, and the reader is never out of step with the host.       *)
(***************************************************************************)
EXTENDS BulkOut, Integers, TLAPS

-----------------------------------------------------------------------------
(* The inductive invariant.                                                *)

Parts == {"header", "payload"}
PacketSet == [msg : Nat \ {0}, part : Parts, at : Nat, n : Nat]

\* The shape of the state.
TypeOK ==
  /\ msgs \in Seq(Messages) /\ checks \in BOOLEAN /\ sent \in 0..Len(msgs)
  /\ front \in [msg : Nat \ {0}, part : Parts, at : Nat]
  /\ buf \in Seq(PacketSet) /\ got \in Nat /\ reading \in BOOLEAN
  /\ want \in Parts /\ pending \in Nat
  /\ handled \in Seq([msg : Nat \ {0}, data : Seq(PacketSet)])

\* Packet p is of a message that has been sent, and of a payload only if there
\* is one.
OnBus(p) == p.msg <= sent /\ (p.part = "payload" => msgs[p.msg].len > 0)

\* The bus begins inside a part that is being sent, or after all of them.
FrontOK == /\ front.at <= SizeOf(front)
           /\ OnBus(front) \/ front = Start(sent + 1, "header")

\* The empty packet after a payload that has filled the buffer.
IsTail(p) == p.part = "payload" /\ p.at = BufSize /\ SizeOf(p) = BufSize

\* The packets q are of one part, one behind the other.
OnePart(q) == /\ \A i \in DOMAIN q : q[i].msg = q[1].msg /\ q[i].part = q[1].part
              /\ \A i \in 1..(Len(q) - 1) : q[i + 1].at = q[i].at + q[i].n
EndOf(q) == q[Len(q)].at + q[Len(q)].n

\* The bus goes on in the part of packet p.
SamePart(p) == front.msg = p.msg /\ front.part = p.part

\* What is sent after the part of packet p.
NextPart(p) == IF p.part = "header" /\ msgs[p.msg].len > 0 THEN Start(p.msg, "payload")
               ELSE Start(p.msg + 1, "header")

\* A read that goes on has the beginning of the part that is on the bus.
PartlyRead == /\ buf[1].at = 0 /\ SamePart(buf[1]) /\ EndOf(buf) = front.at
              /\ got = front.at /\ got < BufSize

\* A read that is over has a whole part, or the empty packet after one.
WhollyRead == \/ /\ buf[1].at = 0 /\ EndOf(buf) = SizeOf(buf[1]) /\ got = SizeOf(buf[1])
                 /\ front = NextPart(buf[1]) \/ (SamePart(buf[1]) /\ IsTail(front))
              \/ IsTail(buf[1]) /\ front = NextPart(buf[1])

BufOK == /\ buf = << >> => got = 0 /\ reading /\ (front.at = 0 \/ IsTail(front))
         /\ buf # << >> => /\ OnePart(buf) /\ OnBus(buf[1])
                           /\ IF reading THEN PartlyRead ELSE WhollyRead

\* The packet that decides what is read: the first of the buffer, or of the bus.
Reads == IF reading THEN front ELSE buf[1]

HeaderLost(k) == msgs[k].damage = "header"

\* A payload is waited for when it is what comes, and a payload that is not
\* waited for is one whose header was damaged, or its empty packet.
InStep ==
  /\ want = "payload" =>
       /\ pending = Reads.msg /\ Reads.part = "payload" /\ Reads.msg <= sent
       /\ msgs[pending].len > 0 /\ ~HeaderLost(pending)
       /\ IF buf = << >> THEN front.at = 0 ELSE buf[1].at = 0
  /\ want = "header" /\ Reads.part = "payload" =>
       HeaderLost(Reads.msg) \/ (IsTail(Reads) /\ (reading => buf = << >>))

\* The messages up to d are handled, if they are good, and no other.
HandledUpTo(d) ==
  /\ \A n \in DOMAIN handled : /\ handled[n].msg \in 1..d /\ Good(handled[n].msg)
                               /\ IsPayload(handled[n].data, handled[n].msg)
  /\ \A m, n \in DOMAIN handled : m < n => handled[m].msg < handled[n].msg
  /\ \A k \in 1..d : Good(k) => Handled(k)

\* The last message of which it is settled whether it is handled.
Decided == IF want = "header" /\ Reads.part = "payload" THEN Reads.msg ELSE Reads.msg - 1

Inv == TypeOK /\ FrontOK /\ BufOK /\ InStep /\ HandledUpTo(Decided)

-----------------------------------------------------------------------------
(* Sizes, and the packets of a part.                                       *)

\* A message that is sent is one of the session, and its payload fits the
\* buffer.
LEMMA Sent ==
  ASSUME TypeOK, NEW k \in 1..sent
  PROVE  msgs[k] \in Messages /\ msgs[k].len \in 0..BufSize
PROOF
<1>1. sent \in Nat /\ sent <= Len(msgs) /\ Len(msgs) \in Nat
  BY DEF TypeOK
<1>2. k \in 1..Len(msgs)
  BY <1>1
<1>3. msgs[k] \in Messages
  BY <1>2 DEF TypeOK
<1>4. msgs[k].len \in Lengths
  BY <1>3 DEF Messages
<1> QED BY <1>3, <1>4, BulkOutAssumption

\* The size of a part is no more than the buffer, and less for a header.
LEMMA Sizes ==
  ASSUME TypeOK, NEW p, p.part \in Parts, p.part = "payload" => p.msg \in 1..sent
  PROVE  /\ SizeOf(p) \in 0..BufSize
         /\ p.part = "header" => SizeOf(p) < BufSize
PROOF
<1>1. CASE p.part = "header"
  BY <1>1, BulkOutAssumption DEF SizeOf
<1>2. CASE p.part = "payload"
  <2>1. msgs[p.msg].len \in 0..BufSize
    BY <1>2, Sent
  <2> QED BY <1>2, <2>1 DEF SizeOf
<1> QED BY <1>1, <1>2 DEF Parts

\* The first packet of the bus is no exception.
LEMMA FrontSize ==
  ASSUME TypeOK, FrontOK
  PROVE  /\ front.part = "payload" => front.msg \in 1..sent
         /\ SizeOf(front) \in 0..BufSize
         /\ front.part = "header" => SizeOf(front) < BufSize
PROOF
<1>1. /\ front.part \in Parts /\ front.msg \in Nat \ {0} /\ sent \in Nat
  BY DEF TypeOK
<1>2. front.part = "payload" => front.msg <= sent
  BY DEF FrontOK, OnBus, Start
<1>3. front.part = "payload" => front.msg \in 1..sent
  BY <1>1, <1>2
<1> QED BY <1>1, <1>3, Sizes

\* Packets of one part stay packets of one part with the next one behind them.
LEMMA OnePartAppend ==
  ASSUME NEW q \in Seq(PacketSet), q # << >>, OnePart(q), NEW p \in PacketSet,
         p.msg = q[1].msg, p.part = q[1].part, p.at = EndOf(q)
  PROVE  /\ OnePart(Append(q, p)) /\ EndOf(Append(q, p)) = p.at + p.n
         /\ Append(q, p)[1] = q[1] /\ Append(q, p) # << >>
PROOF
<1> DEFINE r == Append(q, p)
<1>1. /\ Len(q) \in Nat /\ Len(q) > 0 /\ Len(r) = Len(q) + 1 /\ r[Len(q) + 1] = p
      /\ \A i \in 1..Len(q) : r[i] = q[i]
      /\ DOMAIN r = 1..(Len(q) + 1) /\ DOMAIN q = 1..Len(q)
  OBVIOUS
<1>2. r[1] = q[1] /\ r # << >>
  BY <1>1
<1>3. EndOf(r) = p.at + p.n
  BY <1>1 DEF EndOf
<1>4. ASSUME NEW i \in DOMAIN r PROVE r[i].msg = r[1].msg /\ r[i].part = r[1].part
  <2>1. CASE i = Len(q) + 1
    BY <1>1, <1>2, <2>1
  <2>2. CASE i \in 1..Len(q)
    BY <1>1, <1>2, <2>2 DEF OnePart
  <2> QED BY <1>1, <2>1, <2>2
<1>5. ASSUME NEW i \in 1..(Len(r) - 1) PROVE r[i + 1].at = r[i].at + r[i].n
  <2>1. CASE i = Len(q)
    BY <1>1, <2>1 DEF EndOf
  <2>2. CASE i \in 1..(Len(q) - 1)
    <3>1. i \in 1..Len(q) /\ i + 1 \in 1..Len(q)
      BY <1>1, <2>2
    <3> QED BY <1>1, <2>2, <3>1 DEF OnePart
  <2>3. i = Len(q) \/ i \in 1..(Len(q) - 1)
    <3>1. Len(q) \in Nat /\ Len(r) - 1 = Len(q)
      BY <1>1
    <3>2. i \in 1..Len(q)
      BY <3>1
    <3> QED BY <3>1, <3>2
  <2> QED BY <2>1, <2>2, <2>3
<1> QED BY <1>2, <1>3, <1>4, <1>5 DEF OnePart

\* One packet is a part of its own.
LEMMA OnePartSingle ==
  ASSUME NEW p \in PacketSet
  PROVE  /\ OnePart(<<p>>) /\ EndOf(<<p>>) = p.at + p.n
         /\ <<p>>[1] = p /\ Append(<< >>, p) = <<p>> /\ <<p>> # << >>
BY DEF OnePart, EndOf

-----------------------------------------------------------------------------
(* What is handled.                                                        *)

\* Nothing changes for the messages up to d when nothing is handled.
LEMMA HandledSame ==
  ASSUME NEW d, HandledUpTo(d), UNCHANGED <<msgs, checks, handled>>
  PROVE  HandledUpTo(d)'
BY DEF HandledUpTo, Good, Handled, IsPayload

\* A message that is dropped was not good.
LEMMA HandledDrop ==
  ASSUME NEW d \in Nat, HandledUpTo(d), ~Good(d + 1), UNCHANGED <<msgs, checks, handled>>
  PROVE  HandledUpTo(d + 1)'
PROOF
<1>1. HandledUpTo(d)'
  BY HandledSame
<1>2. ~Good(d + 1)'
  BY DEF Good
<1>3. 1..(d + 1) = 1..d \cup {d + 1}
  OBVIOUS
<1> QED BY <1>1, <1>2, <1>3 DEF HandledUpTo

\* A good message that is handled with its payload is the next one.
LEMMA HandledCall ==
  ASSUME TypeOK, NEW d \in Nat, NEW data \in Seq(PacketSet), HandledUpTo(d), Good(d + 1),
         IsPayload(data, d + 1), Call(d + 1, data), UNCHANGED <<msgs, checks>>
  PROVE  HandledUpTo(d + 1)'
PROOF
<1> DEFINE c == [msg |-> d + 1, data |-> data]
           L == Len(handled)
<1>1. /\ L \in Nat /\ DOMAIN handled = 1..L /\ DOMAIN handled' = 1..(L + 1)
      /\ handled'[L + 1] = c /\ \A n \in 1..L : handled'[n] = handled[n]
  <2>1. handled' = Append(handled, c)
    BY DEF Call
  <2>2. handled \in Seq([msg : Nat \ {0}, data : Seq(PacketSet)])
    BY DEF TypeOK
  <2>3. c \in [msg : Nat \ {0}, data : Seq(PacketSet)]
    OBVIOUS
  <2> HIDE DEF c
  <2> QED BY <2>1, <2>2, <2>3
<1>2. c.msg = d + 1 /\ c.data = data
  OBVIOUS
<1> HIDE DEF c, L
<1>3. \A k : Good(k)' = Good(k)
  BY DEF Good
<1>4. \A q, k : IsPayload(q, k)' = IsPayload(q, k)
  BY DEF IsPayload
<1>5. ASSUME NEW n \in DOMAIN handled'
      PROVE  /\ handled'[n].msg \in 1..(d + 1) /\ Good(handled[n].msg)'
             /\ IsPayload(handled[n].data, handled[n].msg)'
  <2>1. CASE n = L + 1
    <3>1. handled'[n].msg = d + 1 /\ handled'[n].data = data
      BY <1>1, <1>2, <2>1
    <3>2. Good(handled[n].msg)'
      BY <3>1 DEF Good
    <3>3. IsPayload(handled[n].data, handled[n].msg)'
      BY <3>1 DEF IsPayload
    <3> QED BY <3>1, <3>2, <3>3
  <2>2. CASE n \in 1..L
    <3>1. handled'[n] = handled[n]
      BY <1>1, <2>2
    <3>2. /\ handled[n].msg \in 1..d /\ Good(handled[n].msg)
          /\ IsPayload(handled[n].data, handled[n].msg)
      BY <1>1, <2>2 DEF HandledUpTo
    <3>3. handled'[n].msg \in 1..(d + 1)
      BY <3>1, <3>2
    <3>4. Good(handled[n].msg)'
      BY <3>1, <3>2 DEF Good
    <3>5. IsPayload(handled[n].data, handled[n].msg)'
      BY <3>1, <3>2 DEF IsPayload
    <3> QED BY <3>3, <3>4, <3>5
  <2> QED BY <1>1, <2>1, <2>2
<1>6. ASSUME NEW m \in DOMAIN handled', NEW n \in DOMAIN handled', m < n
      PROVE  handled'[m].msg < handled'[n].msg
  <2>1. m \in 1..L /\ handled'[m] = handled[m] /\ handled[m].msg \in 1..d
    BY <1>1, <1>6 DEF HandledUpTo
  <2>2. CASE n = L + 1
    BY <1>1, <1>2, <2>1, <2>2
  <2>3. CASE n \in 1..L
    BY <1>1, <1>6, <2>1, <2>3 DEF HandledUpTo
  <2> QED BY <1>1, <2>2, <2>3
<1>7. ASSUME NEW k \in 1..(d + 1), Good(k)' PROVE Handled(k)'
  <2>1. CASE k = d + 1
    BY <1>1, <1>2, <2>1 DEF Handled
  <2>2. CASE k \in 1..d
    <3>1. Handled(k)
      BY <1>3, <1>7, <2>2 DEF HandledUpTo
    <3> QED BY <1>1, <3>1 DEF Handled
  <2> QED BY <2>1, <2>2
<1> QED BY <1>5, <1>6, <1>7 DEF HandledUpTo

-----------------------------------------------------------------------------
(* The initial state, the host.                                            *)

LEMMA InitInv == Init => Inv
PROOF
<1> SUFFICES ASSUME Init PROVE Inv
  OBVIOUS
<1>1. msgs \in Seq(Messages)
  <2>1. PICK n \in 0..MaxMsgs : msgs \in [1..n -> Messages]
    BY DEF Init
  <2>2. n \in Nat
    BY <2>1, BulkOutAssumption
  <2> QED BY <2>1, <2>2
<1>2. front = Start(1, "header") /\ reading = TRUE /\ buf = << >> /\ got = 0
      /\ want = "header" /\ sent = 0 /\ handled = << >> /\ pending = 0
  BY DEF Init
<1>3. front.msg = 1 /\ front.part = "header" /\ front.at = 0
  BY <1>2 DEF Start
<1>4. TypeOK
  <2>1. Len(msgs) \in Nat
    BY <1>1
  <2>2. checks \in BOOLEAN
    BY DEF Init
  <2>3. front \in [msg : Nat \ {0}, part : Parts, at : Nat]
    BY <1>2 DEF Start, Parts
  <2> QED BY <1>1, <1>2, <2>1, <2>2, <2>3 DEF TypeOK, Parts
<1>5. FrontOK
  BY <1>2, <1>3, BulkOutAssumption DEF FrontOK, SizeOf
<1>6. BufOK
  BY <1>2, <1>3 DEF BufOK
<1>7. Reads = front
  BY <1>2 DEF Reads
<1>8. InStep
  BY <1>2, <1>3, <1>7 DEF InStep
<1>9. HandledUpTo(Decided)
  <2>1. Decided = 0
    BY <1>2, <1>3, <1>7 DEF Decided
  <2> QED BY <1>2, <2>1 DEF HandledUpTo
<1> QED BY <1>4, <1>5, <1>6, <1>8, <1>9 DEF Inv

LEMMA HostSendInv ==
  ASSUME Inv, HostSend
  PROVE  Inv'
PROOF
<1>1. TypeOK /\ FrontOK /\ BufOK /\ InStep /\ HandledUpTo(Decided)
  BY DEF Inv
<1>2. sent \in Nat /\ sent' = sent + 1 /\ sent' \in 0..Len(msgs)
  BY <1>1 DEF TypeOK, HostSend
<1>3. UNCHANGED <<msgs, checks, front, buf, got, reading, want, pending, handled>>
  BY DEF HostSend
<1>4. TypeOK'
  BY <1>1, <1>2, <1>3 DEF TypeOK
<1>5. \A p : SizeOf(p)' = SizeOf(p) /\ NextPart(p)' = NextPart(p) /\ IsTail(p)' = IsTail(p)
  BY <1>3 DEF SizeOf, NextPart, IsTail
<1>6. ASSUME NEW p, p.msg \in Nat, OnBus(p) PROVE OnBus(p)'
  BY <1>2, <1>3, <1>6 DEF OnBus
<1>7. FrontOK'
  <2>1. SizeOf(front)' = SizeOf(front)
    BY <1>3 DEF SizeOf
  <2>2. OnBus(front)'
    <3>1. CASE OnBus(front)
      <4>1. front.msg \in Nat /\ front.msg <= sent
        BY <1>1, <3>1 DEF TypeOK, OnBus
      <4> QED BY <1>2, <1>3, <3>1, <4>1 DEF OnBus
    <3>2. CASE front = Start(sent + 1, "header")
      BY <1>2, <1>3, <3>2 DEF OnBus, Start
    <3> QED BY <1>1, <3>1, <3>2 DEF FrontOK
  <2> QED BY <1>1, <1>3, <2>1, <2>2 DEF FrontOK
<1>8. BufOK'
  <2>1. ASSUME buf # << >>, OnBus(buf[1]) PROVE OnBus(buf[1])'
    <3>1. buf[1].msg \in Nat /\ buf[1].msg <= sent
      <4>1. buf[1] \in PacketSet
        BY <1>1, <2>1 DEF TypeOK
      <4> QED BY <2>1, <4>1 DEF PacketSet, OnBus
    <3> QED BY <1>2, <1>3, <2>1, <3>1 DEF OnBus
  <2>2. PartlyRead' = PartlyRead /\ WhollyRead' = WhollyRead
    BY <1>3 DEF PartlyRead, WhollyRead, SamePart, EndOf, SizeOf, NextPart, IsTail
  <2>3. IsTail(front)' = IsTail(front) /\ OnePart(buf)' = OnePart(buf)
    BY <1>3 DEF IsTail, SizeOf, OnePart
  <2> QED BY <1>1, <1>3, <2>1, <2>2, <2>3 DEF BufOK
<1>9. Reads' = Reads
  BY <1>3 DEF Reads
<1>10. InStep'
  <2>1. IsTail(Reads)' = IsTail(Reads)
    BY <1>3, <1>9 DEF IsTail, SizeOf
  <2>2. want = "payload" => Reads.msg <= sent + 1
    <3> SUFFICES ASSUME want = "payload" PROVE Reads.msg <= sent + 1
      OBVIOUS
    <3>1. Reads.msg <= sent /\ Reads.msg = pending /\ pending \in Nat
      BY <1>1 DEF InStep, TypeOK
    <3> QED BY <1>2, <3>1
  <2> QED BY <1>1, <1>2, <1>3, <1>9, <2>1, <2>2 DEF InStep, HeaderLost
<1>11. HandledUpTo(Decided)'
  <2>1. PICK d : d = Decided
    OBVIOUS
  <2>2. Decided' = d
    BY <1>3, <1>9, <2>1 DEF Decided
  <2>3. HandledUpTo(d)'
    BY <1>1, <1>3, <2>1, HandledSame
  <2> QED BY <2>2, <2>3 DEF HandledUpTo
<1> QED BY <1>4, <1>7, <1>8, <1>10, <1>11 DEF Inv

-----------------------------------------------------------------------------
(* A packet arrives.                                                       *)

\* The packet that arrives, and its size.
Arrives == Smaller(PacketSize, SizeOf(front) - front.at)
Arrived == [msg |-> front.msg, part |-> front.part, at |-> front.at, n |-> Arrives]

\* A packet is full and its part goes on, or it is the last of its part.
LEMMA ArrivesSize ==
  ASSUME Inv, Packet
  PROVE  /\ Arrives \in Nat /\ Arrived \in PacketSet /\ OnBus(front)
         /\ front.at \in Nat /\ front.msg \in 1..sent /\ SizeOf(front) \in 0..BufSize
         /\ \/ Arrives = PacketSize /\ front.at + Arrives <= SizeOf(front)
            \/ Arrives < PacketSize /\ front.at + Arrives = SizeOf(front)
PROOF
<1>1. TypeOK /\ FrontOK
  BY DEF Inv
<1>2. /\ front.at \in Nat /\ front.msg \in Nat \ {0} /\ front.part \in Parts /\ sent \in Nat
  BY <1>1 DEF TypeOK
<1>3. SizeOf(front) \in 0..BufSize /\ front.at <= SizeOf(front)
  BY <1>1, FrontSize DEF FrontOK
<1>4. PacketSize \in Nat /\ BufSize \in Nat
  BY BulkOutAssumption
<1>5. /\ Arrives \in Nat
      /\ \/ Arrives = PacketSize /\ front.at + Arrives <= SizeOf(front)
         \/ Arrives < PacketSize /\ front.at + Arrives = SizeOf(front)
  BY <1>2, <1>3, <1>4 DEF Arrives, Smaller
<1>6. front.msg <= sent
  BY DEF Packet
<1>7. front.msg \in 1..sent
  BY <1>2, <1>6
<1>8. OnBus(front)
  <2>1. CASE front = Start(sent + 1, "header")
    BY <1>2, <1>6, <2>1 DEF Start
  <2> QED BY <1>1, <2>1 DEF FrontOK
<1>9. Arrived \in PacketSet
  BY <1>2, <1>5 DEF Arrived, PacketSet
<1> QED BY <1>2, <1>3, <1>5, <1>7, <1>8, <1>9

\* What the buffer has then: packets of the part of the packet, up to its end.
LEMMA ArrivedBuf ==
  ASSUME Inv, Packet
  PROVE  /\ buf' = Append(buf, Arrived) /\ buf' \in Seq(PacketSet) /\ buf' # << >>
         /\ OnePart(buf') /\ EndOf(buf') = front.at + Arrives
         /\ buf'[1].msg = front.msg /\ buf'[1].part = front.part
         /\ \/ buf'[1].at = 0 /\ got' = front.at + Arrives
            \/ buf'[1].at = front.at /\ IsTail(front) /\ got' = Arrives /\ buf = << >>
         /\ buf = << >> => buf'[1].at = front.at
PROOF
<1>1. TypeOK /\ BufOK
  BY DEF Inv
<1>2. /\ Arrives \in Nat /\ Arrived \in PacketSet /\ front.at \in Nat
  BY ArrivesSize
<1>3. reading /\ buf' = Append(buf, Arrived) /\ got' = got + Arrives
  BY DEF Packet, Arrived, Arrives
<1>4. /\ Arrived.msg = front.msg /\ Arrived.part = front.part
      /\ Arrived.at = front.at /\ Arrived.n = Arrives
  BY DEF Arrived
<1>5. buf \in Seq(PacketSet) /\ got \in Nat
  BY <1>1 DEF TypeOK
<1>6. CASE buf = << >>
  <2>1. got = 0 /\ (front.at = 0 \/ IsTail(front))
    BY <1>1, <1>6 DEF BufOK
  <2>2. buf' = <<Arrived>>
    BY <1>2, <1>3, <1>6, OnePartSingle
  <2>3. OnePart(buf') /\ EndOf(buf') = front.at + Arrives /\ buf'[1] = Arrived /\ buf' # << >>
    BY <1>2, <1>4, <2>2, OnePartSingle
  <2>4. got' = Arrives
    BY <1>2, <1>3, <2>1
  <2>5. buf' \in Seq(PacketSet)
    BY <1>2, <1>3, <1>5
  <2>6. front.at = 0 => got' = front.at + Arrives
    BY <1>2, <2>4
  <2> QED BY <1>3, <1>4, <1>6, <2>1, <2>3, <2>4, <2>5, <2>6
<1>7. CASE buf # << >>
  <2>1. OnePart(buf) /\ PartlyRead
    BY <1>1, <1>3, <1>7 DEF BufOK
  <2>2. /\ buf[1].at = 0 /\ EndOf(buf) = front.at /\ got = front.at
        /\ front.msg = buf[1].msg /\ front.part = buf[1].part
    BY <2>1 DEF PartlyRead, SamePart
  <2>3. /\ OnePart(buf') /\ EndOf(buf') = front.at + Arrives
        /\ buf'[1] = buf[1] /\ buf' # << >>
    BY <1>2, <1>3, <1>4, <1>5, <1>7, <2>1, <2>2, OnePartAppend
  <2>4. buf' \in Seq(PacketSet)
    BY <1>2, <1>3, <1>5
  <2> QED BY <1>3, <1>7, <2>2, <2>3, <2>4
<1> QED BY <1>6, <1>7

\* Where the bus is then.
LEMMA ArrivedFront ==
  ASSUME Inv, Packet
  PROVE  \/ /\ Arrives = PacketSize /\ front'.msg = front.msg /\ front'.part = front.part
            /\ front'.at = front.at + Arrives /\ front.at + Arrives <= SizeOf(front)
            /\ front' \in [msg : Nat \ {0}, part : Parts, at : Nat]
         \/ /\ Arrives < PacketSize /\ front' = NextPart(front)
            /\ front.at + Arrives = SizeOf(front)
PROOF
<1>1. TypeOK
  BY DEF Inv
<1>2. front' = Follows(front, Arrives)
  BY DEF Packet, Arrives
<1>3. /\ Arrives \in Nat /\ front.at \in Nat /\ PacketSize \in Nat
      /\ \/ Arrives = PacketSize /\ front.at + Arrives <= SizeOf(front)
         \/ Arrives < PacketSize /\ front.at + Arrives = SizeOf(front)
  BY ArrivesSize, BulkOutAssumption
<1>4. front \in [msg : Nat \ {0}, part : Parts, at : Nat]
  BY <1>1 DEF TypeOK
<1>5. CASE Arrives = PacketSize
  <2>1. front' = [front EXCEPT !.at = @ + Arrives]
    BY <1>2, <1>5 DEF Follows
  <2>2. front.at + Arrives \in Nat
    BY <1>3
  <2>3. front'.msg = front.msg /\ front'.part = front.part /\ front'.at = front.at + Arrives
    BY <1>4, <2>1
  <2>4. front' \in [msg : Nat \ {0}, part : Parts, at : Nat]
    BY <1>4, <2>1, <2>2
  <2>5. front.at + Arrives <= SizeOf(front)
    BY <1>3, <1>5
  <2> QED BY <1>5, <2>3, <2>4, <2>5
<1>6. CASE Arrives < PacketSize
  <2>1. Arrives # PacketSize
    BY <1>3, <1>6
  <2>2. front' = NextPart(front)
    BY <1>2, <2>1 DEF Follows, NextPart
  <2>3. front.at + Arrives = SizeOf(front)
    BY <1>3, <1>6
  <2> QED BY <1>6, <2>2, <2>3
<1> QED BY <1>3, <1>5, <1>6

\* The part after one that is on the bus is on the bus, or is the first of
\* the next message.
LEMMA NextPartOnBus ==
  ASSUME TypeOK, NEW p, p.msg \in 1..sent
  PROVE  /\ NextPart(p) \in [msg : Nat \ {0}, part : Parts, at : Nat]
         /\ NextPart(p).at = 0 /\ 0 <= SizeOf(NextPart(p))
         /\ OnBus(NextPart(p)) \/ NextPart(p) = Start(sent + 1, "header")
         /\ \/ NextPart(p).part = "header" /\ NextPart(p).msg = p.msg + 1
            \/ NextPart(p).part = "payload" /\ NextPart(p).msg = p.msg
PROOF
<1>1. sent \in Nat /\ p.msg \in Nat \ {0} /\ p.msg <= sent
  BY DEF TypeOK
<1>2. msgs[p.msg].len \in 0..BufSize
  BY Sent
<1>3. CASE p.part = "header" /\ msgs[p.msg].len > 0
  <2>1. NextPart(p) = Start(p.msg, "payload")
    BY <1>3 DEF NextPart
  <2>2. SizeOf(NextPart(p)) = msgs[p.msg].len
    BY <2>1 DEF SizeOf, Start
  <2>3. 0 <= SizeOf(NextPart(p))
    BY <1>2, <2>2
  <2> QED BY <1>1, <1>3, <2>1, <2>3 DEF Start, OnBus, Parts
<1>4. CASE ~(p.part = "header" /\ msgs[p.msg].len > 0)
  <2>1. NextPart(p) = Start(p.msg + 1, "header")
    BY <1>4 DEF NextPart
  <2>2. SizeOf(NextPart(p)) = HeaderSize
    BY <2>1 DEF SizeOf, Start
  <2>3. 0 <= SizeOf(NextPart(p))
    BY <2>2, BulkOutAssumption
  <2>4. p.msg + 1 <= sent \/ p.msg + 1 = sent + 1
    BY <1>1
  <2> QED BY <1>1, <2>1, <2>3, <2>4 DEF Start, OnBus, Parts
<1> QED BY <1>3, <1>4

LEMMA PacketInv ==
  ASSUME Inv, Packet
  PROVE  Inv'
PROOF
<1>1. TypeOK /\ FrontOK /\ BufOK /\ InStep /\ HandledUpTo(Decided)
  BY DEF Inv
<1>2. UNCHANGED <<msgs, checks, sent, want, pending, handled>> /\ reading
  BY DEF Packet
<1>3. /\ Arrives \in Nat /\ OnBus(front) /\ front.at \in Nat
      /\ front.msg \in 1..sent /\ SizeOf(front) \in 0..BufSize
  BY ArrivesSize
<1>4. /\ buf' \in Seq(PacketSet) /\ buf' # << >>
      /\ OnePart(buf') /\ EndOf(buf') = front.at + Arrives
      /\ buf'[1].msg = front.msg /\ buf'[1].part = front.part
      /\ \/ buf'[1].at = 0 /\ got' = front.at + Arrives
         \/ buf'[1].at = front.at /\ IsTail(front) /\ got' = Arrives /\ buf = << >>
      /\ buf = << >> => buf'[1].at = front.at
  BY ArrivedBuf
<1>5. reading' = ~(Arrives < PacketSize \/ got' = BufSize)
  BY DEF Packet, Arrives
<1>6. PacketSize \in Nat /\ PacketSize > 0 /\ BufSize \in Nat
  BY BulkOutAssumption
<1>7. Reads = front
  BY <1>2 DEF Reads
<1>8. OnBus(buf[1])'
  BY <1>2, <1>3, <1>4 DEF OnBus
<1>9. OnePart(buf)' /\ EndOf(buf)' = EndOf(buf')
  BY <1>4 DEF OnePart, EndOf
<1>10. SizeOf(buf[1])' = SizeOf(front)
  BY <1>2, <1>4 DEF SizeOf
<1>11. got' \in Nat
  <2>1. front.at + Arrives \in Nat
    BY <1>3
  <2> QED BY <1>3, <1>4, <2>1
<1>12. front' \in [msg : Nat \ {0}, part : Parts, at : Nat] => TypeOK'
  <2>1. msgs' = msgs /\ checks' = checks /\ sent' = sent /\ want' = want
        /\ pending' = pending /\ handled' = handled /\ reading' \in BOOLEAN
    BY <1>2, <1>5
  <2> QED BY <1>1, <1>4, <1>11, <2>1 DEF TypeOK
<1>13. Decided' = Decided /\ Reads'.msg = front.msg /\ Reads'.part = front.part
       => HandledUpTo(Decided)'
  <2>1. PICK d : d = Decided
    OBVIOUS
  <2>2. HandledUpTo(d)'
    BY <1>1, <1>2, <2>1, HandledSame
  <2> QED BY <2>1, <2>2 DEF HandledUpTo
<1>14. CASE /\ Arrives = PacketSize /\ front'.msg = front.msg /\ front'.part = front.part
            /\ front'.at = front.at + Arrives /\ front.at + Arrives <= SizeOf(front)
            /\ front' \in [msg : Nat \ {0}, part : Parts, at : Nat]
  <2>1. ~IsTail(front)
    <3> SUFFICES ASSUME IsTail(front) PROVE FALSE
      OBVIOUS
    <3>1. front.at = BufSize /\ SizeOf(front) = BufSize
      BY DEF IsTail
    <3>2. front.at + PacketSize <= SizeOf(front)
      BY <1>14
    <3> QED BY <1>6, <3>1, <3>2
  <2>2. buf'[1].at = 0 /\ got' = front'.at
    BY <1>4, <1>14, <2>1
  <2>3. SizeOf(front)' = SizeOf(front)
    BY <1>2, <1>14 DEF SizeOf
  <2>4. FrontOK'
    <3>1. OnBus(front)'
      BY <1>2, <1>3, <1>14 DEF OnBus
    <3> QED BY <1>14, <2>3, <3>1 DEF FrontOK
  <2>5. SamePart(buf[1])'
    BY <1>4, <1>14 DEF SamePart
  <2>6. Reads'.msg = front.msg /\ Reads'.part = front.part
    BY <1>4, <1>14 DEF Reads
  <2>7. BufOK'
    <3>1. CASE reading'
      <4>1. got' # BufSize
        BY <1>5, <3>1
      <4>2. got' <= SizeOf(front) /\ SizeOf(front) <= BufSize /\ SizeOf(front) \in Nat
        BY <1>3, <1>14, <2>2
      <4>3. got' < BufSize
        BY <1>6, <1>11, <4>1, <4>2
      <4>4. EndOf(buf)' = front'.at
        BY <1>4, <1>9, <1>14
      <4>5. PartlyRead'
        BY <2>2, <2>5, <4>3, <4>4 DEF PartlyRead
      <4> QED BY <1>4, <1>8, <1>9, <3>1, <4>5 DEF BufOK
    <3>2. CASE ~reading'
      <4>1. got' = BufSize
        <5>1. ~(Arrives < PacketSize)
          BY <1>6, <1>14
        <5> QED BY <1>5, <3>2, <5>1
      <4>2. got' <= SizeOf(front) /\ SizeOf(front) <= BufSize /\ SizeOf(front) \in Nat
        BY <1>3, <1>14, <2>2
      <4>3. SizeOf(front) = BufSize
        BY <1>6, <4>1, <4>2
      <4>4. front.part = "payload"
        <5>1. front.part \in Parts
          BY <1>1 DEF TypeOK
        <5>2. front.part # "header"
          BY <1>1, <1>6, <4>3, FrontSize
        <5> QED BY <5>1, <5>2 DEF Parts
      <4>5. IsTail(front)'
        BY <1>14, <2>2, <2>3, <4>1, <4>3, <4>4 DEF IsTail
      <4>6. EndOf(buf)' = SizeOf(front) /\ got' = SizeOf(front)
        BY <1>4, <1>9, <1>14, <2>2, <4>1, <4>3
      <4>7. WhollyRead'
        BY <1>10, <2>2, <2>5, <4>5, <4>6 DEF WhollyRead
      <4> QED BY <1>4, <1>8, <1>9, <3>2, <4>7 DEF BufOK
    <3> QED BY <3>1, <3>2
  <2>8. InStep'
    <3>1. ASSUME want' = "payload"
          PROVE  /\ pending' = Reads'.msg /\ Reads'.part = "payload" /\ Reads'.msg <= sent'
                 /\ msgs'[pending'].len > 0 /\ ~HeaderLost(pending)'
                 /\ IF buf' = << >> THEN front'.at = 0 ELSE buf'[1].at = 0
      BY <1>1, <1>2, <1>4, <1>7, <2>2, <2>6, <3>1 DEF InStep, HeaderLost
    <3>2. ASSUME want' = "header", Reads'.part = "payload"
          PROVE  HeaderLost(Reads.msg)'
      BY <1>1, <1>2, <1>7, <2>1, <2>6, <3>2 DEF InStep, HeaderLost
    <3> QED BY <3>1, <3>2 DEF InStep
  <2>9. Decided' = Decided
    BY <1>2, <1>7, <2>6 DEF Decided
  <2> QED BY <1>12, <1>13, <1>14, <2>4, <2>6, <2>7, <2>8, <2>9 DEF Inv
<1>15. CASE /\ Arrives < PacketSize /\ front' = NextPart(front)
            /\ front.at + Arrives = SizeOf(front)
  <2>1. ~reading'
    BY <1>5, <1>15
  <2>2. Reads' = buf'[1]
    BY <2>1 DEF Reads
  <2>3. /\ front' \in [msg : Nat \ {0}, part : Parts, at : Nat] /\ front'.at = 0
        /\ 0 <= SizeOf(front')
        /\ OnBus(front') \/ front' = Start(sent + 1, "header")
    BY <1>1, <1>3, <1>15, NextPartOnBus
  <2>4. FrontOK'
    <3>1. SizeOf(front)' = SizeOf(front')
      BY <1>2 DEF SizeOf
    <3>2. OnBus(front)' = OnBus(front')
      BY <1>2 DEF OnBus
    <3> QED BY <1>2, <2>3, <3>1, <3>2 DEF FrontOK, Start
  <2>5. front' = NextPart(buf[1])'
    BY <1>2, <1>4, <1>15 DEF NextPart
  <2>6. WhollyRead'
    <3>1. CASE buf'[1].at = 0 /\ got' = front.at + Arrives
      BY <1>4, <1>9, <1>10, <1>15, <2>5, <3>1 DEF WhollyRead
    <3>2. CASE buf'[1].at = front.at /\ IsTail(front)
      <4>1. IsTail(buf[1])'
        BY <1>4, <1>10, <3>2 DEF IsTail
      <4> QED BY <2>5, <4>1 DEF WhollyRead
    <3> QED BY <1>4, <3>1, <3>2
  <2>7. BufOK'
    BY <1>4, <1>8, <1>9, <2>1, <2>6 DEF BufOK
  <2>8. InStep'
    <3>1. ASSUME want' = "payload"
          PROVE  /\ pending' = Reads'.msg /\ Reads'.part = "payload" /\ Reads'.msg <= sent'
                 /\ msgs'[pending'].len > 0 /\ ~HeaderLost(pending)'
                 /\ IF buf' = << >> THEN front'.at = 0 ELSE buf'[1].at = 0
      <4>1. buf = << >> => front.at = 0
        BY <1>1, <1>2, <3>1 DEF InStep
      <4>2. buf'[1].at = 0
        BY <1>4, <4>1
      <4> QED BY <1>1, <1>2, <1>4, <1>7, <2>2, <3>1, <4>2 DEF InStep, HeaderLost
    <3>2. ASSUME want' = "header", Reads'.part = "payload"
          PROVE  HeaderLost(Reads.msg)' \/ IsTail(Reads)'
      <4>1. HeaderLost(front.msg) \/ (IsTail(front) /\ buf = << >>)
        BY <1>1, <1>2, <1>4, <1>7, <2>2, <3>2 DEF InStep
      <4>2. HeaderLost(front.msg) => HeaderLost(Reads.msg)'
        BY <1>2, <1>4, <2>2 DEF HeaderLost
      <4>3. IsTail(front) /\ buf = << >> => IsTail(Reads)'
        BY <1>4, <1>10, <2>2 DEF IsTail
      <4> QED BY <4>1, <4>2, <4>3
    <3> QED BY <2>1, <3>1, <3>2 DEF InStep
  <2>9. Decided' = Decided
    BY <1>2, <1>4, <1>7, <2>2 DEF Decided
  <2> QED BY <1>4, <1>12, <1>13, <2>2, <2>3, <2>4, <2>7, <2>8, <2>9 DEF Inv
<1> QED BY <1>14, <1>15, ArrivedFront

-----------------------------------------------------------------------------
(* The completions.                                                        *)

\* When a read is over its first packet says what was read, and the next read
\* starts where the bus is.
LEMMA ReadOver ==
  ASSUME Inv, ~reading, NEW w \in Parts, SubmitRead(w),
         UNCHANGED <<msgs, checks, sent, front>>
  PROVE  /\ buf # << >> /\ Reads = buf[1] /\ buf[1] \in PacketSet /\ buf[1].msg \in 1..sent
         /\ OnBus(buf[1]) /\ OnePart(buf) /\ WhollyRead
         /\ Reads' = front /\ FrontOK' /\ BufOK'
         /\ pending' \in Nat /\ handled' \in Seq([msg : Nat \ {0}, data : Seq(PacketSet)])
              => TypeOK'
PROOF
<1>1. TypeOK /\ FrontOK /\ BufOK
  BY DEF Inv
<1>2. buf' = << >> /\ got' = 0 /\ reading' = TRUE /\ want' = w
  BY DEF SubmitRead
<1>3. buf # << >> /\ OnePart(buf) /\ OnBus(buf[1]) /\ WhollyRead
  BY <1>1 DEF BufOK
<1>4. buf[1] \in PacketSet
  BY <1>1, <1>3 DEF TypeOK
<1>5. buf[1].msg \in 1..sent
  <2>1. buf[1].msg \in Nat \ {0} /\ buf[1].msg <= sent /\ sent \in Nat
    BY <1>1, <1>3, <1>4 DEF PacketSet, OnBus, TypeOK
  <2> QED BY <2>1
<1>6. Reads = buf[1] /\ Reads' = front
  BY <1>2 DEF Reads
<1>7. FrontOK'
  BY <1>1 DEF FrontOK, OnBus, SizeOf
<1>8. front.at = 0 \/ IsTail(front)
  <2>1. NextPart(buf[1]).at = 0
    BY <1>1, <1>5, NextPartOnBus
  <2> QED BY <1>3, <2>1 DEF WhollyRead
<1>9. BufOK'
  <2>1. IsTail(front)' = IsTail(front)
    BY DEF IsTail, SizeOf
  <2> QED BY <1>2, <1>8, <2>1 DEF BufOK
<1>10. ASSUME pending' \in Nat, handled' \in Seq([msg : Nat \ {0}, data : Seq(PacketSet)])
       PROVE  TypeOK'
  BY <1>1, <1>2, <1>10 DEF TypeOK
<1> QED BY <1>3, <1>4, <1>5, <1>6, <1>7, <1>9, <1>10

\* A call of handle_command is one more of its kind.
LEMMA CallType ==
  ASSUME TypeOK, NEW k \in Nat \ {0}, NEW data \in Seq(PacketSet), Call(k, data)
  PROVE  handled' \in Seq([msg : Nat \ {0}, data : Seq(PacketSet)])
PROOF
<1> DEFINE c == [msg |-> k, data |-> data]
<1>1. handled \in Seq([msg : Nat \ {0}, data : Seq(PacketSet)])
  BY DEF TypeOK
<1>2. c \in [msg : Nat \ {0}, data : Seq(PacketSet)]
  OBVIOUS
<1>3. handled' = Append(handled, c)
  BY DEF Call
<1> HIDE DEF c
<1> QED BY <1>1, <1>2, <1>3

\* A header that was read is whole, and its payload is next on the bus if it
\* has one.
LEMMA HeaderWhole ==
  ASSUME TypeOK, buf # << >>, WhollyRead, buf[1].msg \in 1..sent, buf[1].part = "header"
  PROVE  buf[1].at = 0 /\ got = HeaderSize /\ front = NextPart(buf[1])
PROOF
<1>1. SizeOf(buf[1]) = HeaderSize
  BY DEF SizeOf
<1>2. ~IsTail(buf[1]) /\ ~(SamePart(buf[1]) /\ IsTail(front))
  BY DEF IsTail, SamePart
<1> QED BY <1>1, <1>2 DEF WhollyRead

\* A payload that was read from its first byte was read to its last.
LEMMA PayloadWhole ==
  ASSUME TypeOK, buf # << >>, WhollyRead, OnePart(buf), buf[1].msg \in 1..sent,
         buf[1].part = "payload", buf[1].at = 0
  PROVE  IsPayload(buf, buf[1].msg)
PROOF
<1>1. ~IsTail(buf[1])
  <2>1. 0 # BufSize
    BY BulkOutAssumption
  <2> QED BY <2>1 DEF IsTail
<1>2. EndOf(buf) = msgs[buf[1].msg].len
  BY <1>1 DEF WhollyRead, SizeOf
<1> QED BY <1>2 DEF IsPayload, OnePart, EndOf

\* After a payload the bus has its empty packet or the next header.
LEMMA AfterPayload ==
  ASSUME TypeOK, WhollyRead, buf[1].msg \in 1..sent, buf[1].part = "payload"
  PROVE  \/ front.part = "payload" /\ front.msg = buf[1].msg /\ IsTail(front)
         \/ front.part = "header" /\ front.msg = buf[1].msg + 1
PROOF
<1>1. NextPart(buf[1]) = Start(buf[1].msg + 1, "header")
  BY DEF NextPart
<1>2. CASE front = NextPart(buf[1])
  BY <1>1, <1>2 DEF Start
<1>3. CASE SamePart(buf[1]) /\ IsTail(front)
  BY <1>3 DEF SamePart
<1> QED BY <1>2, <1>3 DEF WhollyRead

LEMMA ReadHeaderInv ==
  ASSUME Inv, BulkOutReadHeader
  PROVE  Inv'
PROOF
<1> DEFINE b == buf[1]
           CallSet == [msg : Nat \ {0}, data : Seq(PacketSet)]
<1>1. TypeOK /\ InStep /\ HandledUpTo(Decided) /\ pending \in Nat /\ handled \in Seq(CallSet)
  BY DEF Inv, TypeOK
<1>2. ~reading /\ want = "header" /\ UNCHANGED <<msgs, checks, sent, front>>
  BY DEF BulkOutReadHeader
<1>3. PICK w \in Parts : SubmitRead(w)
  BY DEF BulkOutReadHeader, Parts
<1>4. /\ buf # << >> /\ Reads = b /\ b \in PacketSet /\ b.msg \in 1..sent
      /\ OnBus(b) /\ OnePart(buf) /\ WhollyRead
      /\ Reads' = front /\ FrontOK' /\ BufOK'
      /\ pending' \in Nat /\ handled' \in Seq(CallSet) => TypeOK'
  BY <1>2, <1>3, ReadOver
<1>5. buf' = << >> /\ reading'
  BY <1>3 DEF SubmitRead
<1>6. b.msg \in Nat \ {0} /\ b.part \in Parts /\ b.msg - 1 \in Nat /\ (b.msg - 1) + 1 = b.msg
  BY <1>4 DEF PacketSet
<1>7. msgs[b.msg].len \in Nat
  BY <1>1, <1>4, Sent
<1> HIDE DEF b, CallSet
<1>8. CASE b.part = "header"
  <2>1. b.at = 0 /\ got = HeaderSize /\ front = NextPart(b)
    BY <1>1, <1>4, <1>8, HeaderWhole DEF b
  <2>2. parse_header(buf) <=> ~HeaderLost(b.msg)
    <3>1. got >= HeaderSize
      BY <2>1, BulkOutAssumption
    <3> QED BY <1>4, <1>8, <2>1, <3>1 DEF parse_header, HeaderLost, b
  <2>3. HandledUpTo(b.msg - 1)
    <3>1. Decided = b.msg - 1
      BY <1>2, <1>4, <1>8 DEF Decided
    <3> QED BY <1>1, <3>1
  <2>4. CASE parse_header(buf) /\ msgs[b.msg].len > 0
    <3>1. pending' = b.msg /\ want' = "payload" /\ handled' = handled
      BY <2>4 DEF BulkOutReadHeader, SubmitRead, b
    <3>2. front = Start(b.msg, "payload")
      BY <1>8, <2>1, <2>4 DEF NextPart
    <3>3. front.msg = b.msg /\ front.part = "payload" /\ front.at = 0
      BY <3>2 DEF Start
    <3>4. TypeOK'
      BY <1>1, <1>4, <1>6, <3>1
    <3>5. InStep'
      <4>1. Reads'.msg <= sent'
        BY <1>2, <1>4, <3>3 DEF OnBus
      <4>2. msgs'[pending'].len > 0 /\ ~HeaderLost(pending)'
        BY <1>2, <2>2, <2>4, <3>1 DEF HeaderLost
      <4> QED BY <1>2, <1>4, <1>5, <3>1, <3>3, <4>1, <4>2 DEF InStep
    <3>6. HandledUpTo(Decided)'
      <4>1. Decided' = b.msg - 1
        BY <1>4, <3>1, <3>3 DEF Decided
      <4>2. PICK d : d = b.msg - 1
        OBVIOUS
      <4>3. HandledUpTo(d)'
        BY <1>2, <2>3, <3>1, <4>2, HandledSame
      <4> QED BY <4>1, <4>2, <4>3 DEF HandledUpTo
    <3> QED BY <1>4, <3>4, <3>5, <3>6 DEF Inv
  <2>5. CASE parse_header(buf) /\ ~(msgs[b.msg].len > 0)
    <3>1. pending' = pending /\ want' = "header" /\ Call(b.msg, << >>)
      BY <2>5 DEF BulkOutReadHeader, SubmitRead, b
    <3>2. front = Start(b.msg + 1, "header")
      BY <2>1, <2>5 DEF NextPart
    <3>3. front.msg = b.msg + 1 /\ front.part = "header"
      BY <3>2 DEF Start
    <3>4. TypeOK'
      <4>1. handled' \in Seq(CallSet)
        <5>1. << >> \in Seq(PacketSet) /\ b.msg \in Nat \ {0}
          BY <1>6
        <5> QED BY <1>1, <3>1, <5>1, CallType DEF CallSet
      <4> QED BY <1>1, <1>4, <3>1, <4>1
    <3>5. InStep'
      BY <1>4, <3>1, <3>3 DEF InStep
    <3>6. HandledUpTo(Decided)'
      <4>1. Decided' = b.msg
        <5>1. Decided' = front.msg - 1
          BY <1>4, <3>1, <3>3 DEF Decided
        <5> QED BY <1>6, <3>3, <5>1
      <4>2. PICK d \in Nat : d = b.msg - 1
        BY <1>6
      <4>3. d + 1 = b.msg
        BY <1>6, <4>2
      <4>4. msgs[d + 1].len = 0
        BY <1>7, <2>5, <4>3
      <4>5. Good(d + 1)
        BY <2>2, <2>5, <4>3, <4>4 DEF Good, HeaderLost
      <4>6. << >> \in Seq(PacketSet) /\ IsPayload(<< >>, d + 1)
        BY <4>4 DEF IsPayload
      <4>7. HandledUpTo(d + 1)'
        BY <1>1, <1>2, <2>3, <3>1, <4>2, <4>3, <4>5, <4>6, HandledCall
      <4> QED BY <4>1, <4>3, <4>7 DEF HandledUpTo
    <3> QED BY <1>4, <3>4, <3>5, <3>6 DEF Inv
  <2>6. CASE ~parse_header(buf)
    <3>1. pending' = pending /\ want' = "header" /\ handled' = handled
      BY <2>6 DEF BulkOutReadHeader, SubmitRead
    <3>2. \/ front.msg = b.msg /\ front.part = "payload"
          \/ front.msg = b.msg + 1 /\ front.part = "header"
      BY <1>1, <1>4, <2>1, NextPartOnBus
    <3>3. TypeOK'
      BY <1>1, <1>4, <3>1
    <3>4. InStep'
      BY <1>2, <1>4, <2>2, <2>6, <3>1, <3>2 DEF InStep, HeaderLost
    <3>5. HandledUpTo(Decided)'
      <4>1. Decided' = b.msg
        <5>1. Decided' = IF front.part = "payload" THEN front.msg ELSE front.msg - 1
          BY <1>4, <3>1 DEF Decided
        <5> QED BY <1>6, <3>2, <5>1
      <4>2. PICK d \in Nat : d = b.msg - 1
        BY <1>6
      <4>3. d + 1 = b.msg
        BY <1>6, <4>2
      <4>4. ~Good(d + 1)
        BY <2>2, <2>6, <4>3 DEF Good, HeaderLost
      <4>5. HandledUpTo(d + 1)'
        BY <1>2, <2>3, <3>1, <4>2, <4>4, HandledDrop
      <4> QED BY <4>1, <4>3, <4>5 DEF HandledUpTo
    <3> QED BY <1>4, <3>3, <3>4, <3>5 DEF Inv
  <2> QED BY <2>4, <2>5, <2>6
<1>9. CASE b.part = "payload"
  <2>1. ~parse_header(buf)
    BY <1>9 DEF parse_header, b
  <2>2. pending' = pending /\ want' = "header" /\ handled' = handled
    BY <2>1 DEF BulkOutReadHeader, SubmitRead
  <2>3. \/ front.part = "payload" /\ front.msg = b.msg /\ IsTail(front)
        \/ front.part = "header" /\ front.msg = b.msg + 1
    BY <1>1, <1>4, <1>9, AfterPayload DEF b
  <2>4. TypeOK'
    BY <1>1, <1>4, <2>2
  <2>5. InStep'
    <3>1. IsTail(front) => IsTail(Reads)'
      BY <1>2, <1>4 DEF IsTail, SizeOf
    <3> QED BY <1>4, <1>5, <2>2, <2>3, <3>1 DEF InStep
  <2>6. HandledUpTo(Decided)'
    <3>1. Decided = b.msg
      BY <1>2, <1>4, <1>9 DEF Decided
    <3>2. Decided' = b.msg
      <4>1. Decided' = IF front.part = "payload" THEN front.msg ELSE front.msg - 1
        BY <1>4, <2>2 DEF Decided
      <4> QED BY <1>6, <2>3, <4>1
    <3>3. PICK d : d = b.msg
      OBVIOUS
    <3>4. HandledUpTo(d)'
      BY <1>1, <1>2, <2>2, <3>1, <3>3, HandledSame
    <3> QED BY <3>2, <3>3, <3>4 DEF HandledUpTo
  <2> QED BY <1>4, <2>4, <2>5, <2>6 DEF Inv
<1> QED BY <1>6, <1>8, <1>9 DEF Parts

LEMMA ReadPayloadInv ==
  ASSUME Inv, BulkOutReadPayload
  PROVE  Inv'
PROOF
<1> DEFINE b == buf[1]
           CallSet == [msg : Nat \ {0}, data : Seq(PacketSet)]
<1>1. TypeOK /\ InStep /\ HandledUpTo(Decided) /\ pending \in Nat /\ handled \in Seq(CallSet)
      /\ buf \in Seq(PacketSet)
  BY DEF Inv, TypeOK
<1>2. /\ ~reading /\ want = "payload" /\ UNCHANGED <<msgs, checks, sent, front>>
      /\ pending' = 0 /\ SubmitRead("header")
  BY DEF BulkOutReadPayload
<1>3. "header" \in Parts
  BY DEF Parts
<1>4. /\ buf # << >> /\ Reads = b /\ b \in PacketSet /\ b.msg \in 1..sent
      /\ OnBus(b) /\ OnePart(buf) /\ WhollyRead
      /\ Reads' = front /\ FrontOK' /\ BufOK'
      /\ pending' \in Nat /\ handled' \in Seq(CallSet) => TypeOK'
  BY <1>2, <1>3, ReadOver
<1>5. buf' = << >> /\ reading' /\ want' = "header"
  BY <1>2 DEF SubmitRead
<1>6. b.msg \in Nat \ {0} /\ b.msg - 1 \in Nat /\ (b.msg - 1) + 1 = b.msg
  BY <1>4 DEF PacketSet
<1> HIDE DEF b, CallSet
<1>7. /\ pending = b.msg /\ b.part = "payload" /\ msgs[b.msg].len > 0
      /\ ~HeaderLost(b.msg) /\ b.at = 0
  <2>1. InStep /\ want = "payload" /\ buf # << >> /\ Reads = b
    BY <1>1, <1>2, <1>4
  <2> QED BY <2>1 DEF InStep, b
<1>8. IsPayload(buf, b.msg)
  BY <1>1, <1>4, <1>7, PayloadWhole DEF b
<1>9. \/ front.part = "payload" /\ front.msg = b.msg /\ IsTail(front)
      \/ front.part = "header" /\ front.msg = b.msg + 1
  BY <1>1, <1>4, <1>7, AfterPayload DEF b
<1>10. InStep'
  <2>1. IsTail(front) => IsTail(Reads)'
    BY <1>2, <1>4 DEF IsTail, SizeOf
  <2> QED BY <1>4, <1>5, <1>9, <2>1 DEF InStep
<1>11. Decided' = b.msg
  <2>1. Decided' = IF front.part = "payload" THEN front.msg ELSE front.msg - 1
    BY <1>4, <1>5 DEF Decided
  <2> QED BY <1>6, <1>9, <2>1
<1>12. HandledUpTo(b.msg - 1)
  <2>1. Decided = b.msg - 1
    BY <1>2, <1>4 DEF Decided
  <2> QED BY <1>1, <2>1
<1>13. PICK d \in Nat : d = b.msg - 1
  BY <1>6
<1>14. d + 1 = b.msg
  BY <1>6, <1>13
<1>15. Good(b.msg) <=> (checks => ChecksumHolds)
  BY <1>7, <1>8 DEF Good, HeaderLost, ChecksumHolds
<1>16. pending # 0
  BY <1>6, <1>7
<1>17. CASE Good(b.msg)
  <2>1. Call(b.msg, buf)
    BY <1>7, <1>15, <1>16, <1>17 DEF BulkOutReadPayload
  <2>2. TypeOK'
    <3>1. handled' \in Seq(CallSet)
      BY <1>1, <1>6, <2>1, CallType DEF CallSet
    <3> QED BY <1>2, <1>4, <3>1
  <2>3. HandledUpTo(Decided)'
    <3>1. HandledUpTo(d + 1)'
      BY <1>1, <1>2, <1>8, <1>12, <1>13, <1>14, <1>17, <2>1, HandledCall
    <3> QED BY <1>11, <1>14, <3>1 DEF HandledUpTo
  <2> QED BY <1>4, <1>10, <2>2, <2>3 DEF Inv
<1>18. CASE ~Good(b.msg)
  <2>1. handled' = handled
    BY <1>7, <1>15, <1>16, <1>18 DEF BulkOutReadPayload
  <2>2. TypeOK'
    BY <1>1, <1>2, <1>4, <2>1
  <2>3. HandledUpTo(Decided)'
    <3>1. HandledUpTo(d + 1)'
      BY <1>2, <1>12, <1>13, <1>14, <1>18, <2>1, HandledDrop
    <3> QED BY <1>11, <1>14, <3>1 DEF HandledUpTo
  <2> QED BY <1>4, <1>10, <2>2, <2>3 DEF Inv
<1> QED BY <1>17, <1>18

-----------------------------------------------------------------------------
(* The theorem.                                                            *)

\* Nothing of the invariant changes when nothing changes.
LEMMA StutterInv ==
  ASSUME Inv, UNCHANGED vars
  PROVE  Inv'
PROOF
<1>1. /\ msgs' = msgs /\ checks' = checks /\ sent' = sent /\ front' = front /\ buf' = buf
      /\ got' = got /\ reading' = reading /\ want' = want /\ pending' = pending
      /\ handled' = handled
  BY DEF vars
<1>2. TypeOK' /\ FrontOK' /\ BufOK' /\ InStep'
  BY <1>1 DEF Inv, TypeOK, FrontOK, BufOK, InStep, OnBus, OnePart, PartlyRead, WhollyRead,
              SamePart, NextPart, IsTail, EndOf, SizeOf, Reads, HeaderLost
<1>3. Decided' = Decided
  BY <1>1 DEF Decided, Reads
<1>4. PICK d : d = Decided
  OBVIOUS
<1>5. HandledUpTo(d)'
  BY <1>1, <1>4, HandledSame DEF Inv
<1>6. HandledUpTo(Decided)'
  BY <1>3, <1>4, <1>5 DEF HandledUpTo
<1> QED BY <1>2, <1>6 DEF Inv

\* The messages that were handled were handled with their payloads.
LEMMA InvIsWhole == Inv => MessagesWhole
PROOF
<1> SUFFICES ASSUME Inv PROVE MessagesWhole
  OBVIOUS
<1>1. HandledUpTo(Decided)
  BY DEF Inv
<1>2. PICK d : d = Decided
  OBVIOUS
<1>3. HandledUpTo(d)
  BY <1>1, <1>2
<1>4. ASSUME NEW n \in DOMAIN handled, NEW k \in 1..handled[n].msg PROVE Good(k) => Handled(k)
  <2>1. handled[n].msg \in 1..d
    BY <1>3 DEF HandledUpTo
  <2>2. d \in Int
    <3>1. Reads.msg \in Int
      <4>1. CASE reading
        BY <4>1 DEF Inv, TypeOK, Reads
      <4>2. CASE ~reading
        <5>1. buf # << >>
          BY <4>2 DEF Inv, BufOK
        <5>2. buf[1] \in PacketSet
          BY <5>1 DEF Inv, TypeOK
        <5> QED BY <4>2, <5>2 DEF PacketSet, Reads
      <4> QED BY <4>1, <4>2
    <3> QED BY <1>2, <3>1 DEF Decided
  <2>3. k \in 1..d
    BY <2>1, <2>2
  <2> QED BY <1>3, <2>3 DEF HandledUpTo
<1> QED BY <1>3, <1>4 DEF HandledUpTo, MessagesWhole

\* Whatever the sizes of packets, payloads and the buffer, and whichever
\* headers and payloads are damaged: run() hands to handle_command the good
\* messages, in their order and none left out, each with its own payload,
\* although it never compares what a read got with data_length.
THEOREM MessagesAreWhole == Spec => []MessagesWhole
PROOF
<1>1. Inv /\ [Next]_vars => Inv'
  BY HostSendInv, PacketInv, ReadHeaderInv, ReadPayloadInv, StutterInv DEF Next
<1> QED BY <1>1, InitInv, InvIsWhole, PTL DEF Spec
=============================================================================
