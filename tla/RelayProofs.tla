----------------------------- MODULE RelayProofs -----------------------------
(***************************************************************************)
(* Proofs about the bytes of shells and forwards (module Relay), for any   *)
(* streams, destinations, sizes of buffers and lengths of messages.        *)
(***************************************************************************)
EXTENDS Relay, TLAPS

\* read_buf holds bytes only while a read is done or unacknowledged; an end
\* is read when nothing is left to read and nobody who could write; a closed
\* stream has no read.
ReadShape ==
  \A s \in Streams :
    /\ rd[s].st \in {"none", "armed", "end"} => rd[s].n = 0
    /\ rd[s].st = "end" => gone[s] /\ outb[s] = 0
    /\ st[s] = "closed" => rd[s].st = "none"

\* The host has one WRTE under way: what is in a message or in the write of
\* it is not acknowledged, and never in both.
WriteShape ==
  \A s \in Streams :
    /\ wrte[s] > 0 => unacked[s]
    /\ busy.on = s => unacked[s] /\ wrte[s] = 0

Inv == TypeOK /\ NothingLost /\ ReadShape /\ WriteShape

-----------------------------------------------------------------------------

\* The smaller of two numbers.
LEMMA SmallerIs ==
  ASSUME NEW a \in Nat, NEW b \in Nat
  PROVE  /\ Smaller(a, b) \in Nat /\ Smaller(a, b) <= a /\ Smaller(a, b) <= b
         /\ a > 0 /\ b > 0 => Smaller(a, b) > 0
BY DEF Smaller

\* The constants.
LEMMA Constants ==
  /\ "none" \notin Streams /\ HostBytes \in Nat
  /\ MaxWrte \in Nat /\ Buf \in Nat /\ ReadBuf \in Nat
BY RelayAssumption

\* New streams have all their bytes before them.
LEMMA InitInv == Init => Inv
<1> SUFFICES ASSUME Init PROVE Inv
  OBVIOUS
<1> USE Constants DEF Init, Zero, Idle, Connected, Spawned
<1>1. TypeOK
  <2>1. /\ gone \in [Streams -> BOOLEAN] /\ tty \in [Streams -> BOOLEAN]
        /\ unacked \in [Streams -> BOOLEAN]
    BY Zenon
  <2> QED BY <2>1 DEF TypeOK
<1>2. NothingLost
  BY DEF NothingLost
<1>3. ReadShape
  BY DEF ReadShape
<1>4. WriteShape
  <2> SUFFICES ASSUME NEW s \in Streams
               PROVE  ~(wrte[s] > 0) /\ busy.on # s
    BY DEF WriteShape
  <2>1. wrte[s] = 0 /\ busy.on = "none"
    OBVIOUS
  <2> QED BY <2>1
<1> QED BY <1>1, <1>2, <1>3, <1>4 DEF Inv

\* The host puts bytes of its own in a WRTE.
LEMMA HostWrteInv == ASSUME Inv, NEW s \in Streams, HostWrte(s) PROVE Inv'
<1> USE Constants DEF Inv
<1>1. PICK n \in 1..Smaller(MaxWrte, left[s]) :
        left' = [left EXCEPT ![s] = @ - n] /\ wrte' = [wrte EXCEPT ![s] = n]
  BY DEF HostWrte
<1>2. n \in Nat /\ n <= MaxWrte /\ n <= left[s] /\ left[s] \in Nat
  <2>1. left[s] \in Nat
    BY DEF TypeOK
  <2>2. LET m == Smaller(MaxWrte, left[s])
        IN m \in Nat /\ m <= MaxWrte /\ m <= left[s]
    BY <2>1, SmallerIs
  <2> QED BY <2>1, <2>2
<1>3. /\ UNCHANGED <<st, inb, held, got, busy, wrote, outb, rd, back, gone, tty>>
      /\ unacked' = [unacked EXCEPT ![s] = TRUE] /\ ~unacked[s]
  BY DEF HostWrte, downVars
<1>4. unacked' \in [Streams -> BOOLEAN]
  BY <1>3, Zenon DEF TypeOK
<1>5. TypeOK'
  BY <1>1, <1>2, <1>3, <1>4 DEF TypeOK
<1>6. wrte[s] = 0 /\ busy.on # s
  BY <1>3 DEF TypeOK, WriteShape
<1>7. NothingLost'
  BY <1>1, <1>2, <1>3, <1>6 DEF TypeOK, NothingLost
<1>8. ReadShape'
  BY <1>3 DEF ReadShape
<1>9. WriteShape'
  BY <1>1, <1>3, <1>6 DEF TypeOK, WriteShape
<1> QED BY <1>5, <1>7, <1>8, <1>9

\* The bytes of a WRTE become those of the write.
LEMMA HandleWrteInv == ASSUME Inv, NEW s \in Streams, HandleWrte(s) PROVE Inv'
<1> USE Constants DEF Inv
<1>1. /\ UNCHANGED <<st, left, inb, held, got, wrote, outb, rd, back, gone, tty>>
      /\ busy = Idle /\ wrte[s] > 0 /\ wrte' = [wrte EXCEPT ![s] = 0]
  BY DEF HandleWrte, downVars
<1>2. \/ st[s] = "closed" /\ unacked' = [unacked EXCEPT ![s] = FALSE] /\ UNCHANGED busy
      \/ busy' = [on |-> s, left |-> wrte[s]] /\ UNCHANGED unacked
  BY DEF HandleWrte
<1>3. unacked' \in [Streams -> BOOLEAN]
  BY <1>2, Zenon DEF TypeOK
<1>4. TypeOK'
  <2>1. busy' \in [on : Streams \cup {"none"}, left : 0..MaxWrte]
    BY <1>2 DEF TypeOK
  <2>2. wrte' \in [Streams -> 0..MaxWrte]
    BY <1>1 DEF TypeOK
  <2> QED BY <1>1, <1>3, <2>1, <2>2 DEF TypeOK
<1>5. \A t \in Streams : busy.on # t
  BY <1>1 DEF Idle
<1>6. NothingLost'
  <2>1. CASE st[s] = "closed" /\ UNCHANGED busy
    BY <1>1, <1>5, <2>1 DEF TypeOK, NothingLost
  <2>2. CASE busy' = [on |-> s, left |-> wrte[s]]
    <3>1. busy'.on = s /\ busy'.left = wrte[s] /\ wrte'[s] = 0 /\ wrte[s] \in Nat
      BY <1>1, <2>2 DEF TypeOK
    <3>2. \A t \in Streams \ {s} : wrte'[t] = wrte[t] /\ busy'.on # t
      BY <1>1, <3>1 DEF TypeOK
    <3> QED BY <1>1, <1>5, <3>1, <3>2 DEF TypeOK, NothingLost
  <2> QED BY <1>2, <2>1, <2>2
<1>7. ReadShape'
  BY <1>1 DEF ReadShape
<1>8. WriteShape'
  BY <1>1, <1>2, <1>5 DEF TypeOK, WriteShape
<1> QED BY <1>4, <1>6, <1>7, <1>8

\* A write moves what it takes, and no more, into the buffer.
LEMMA WriteInputInv == ASSUME Inv, NEW s \in Streams, WriteInput(s) PROVE Inv'
<1> USE Constants DEF Inv
<1> DEFINE n == Smaller(busy.left, Buf - inb[s])
<1>1. /\ UNCHANGED <<st, left, wrte, held, got, unacked, wrote, outb, rd, back, gone, tty>>
      /\ busy.on = s /\ inb' = [inb EXCEPT ![s] = @ + n]
      /\ busy' = [busy EXCEPT !.left = @ - n]
  BY DEF WriteInput, downVars, Rest
<1>2. busy.left \in Nat /\ busy.left <= MaxWrte /\ Buf - inb[s] \in Nat /\ inb[s] \in Nat
  BY DEF TypeOK, WriteInput
<1>3. n \in Nat /\ n <= busy.left /\ n <= Buf - inb[s]
  BY <1>2, SmallerIs
<1> HIDE DEF n
<1>4. busy'.on = s /\ busy'.left = busy.left - n
  BY <1>1 DEF TypeOK
<1>5. TypeOK'
  <2>1. busy' \in [on : Streams \cup {"none"}, left : 0..MaxWrte]
    BY <1>1, <1>2, <1>3 DEF TypeOK
  <2>2. inb' \in [Streams -> 0..Buf]
    BY <1>1, <1>2, <1>3 DEF TypeOK
  <2> QED BY <1>1, <2>1, <2>2 DEF TypeOK
<1>6. NothingLost'
  BY <1>1, <1>2, <1>3, <1>4 DEF TypeOK, NothingLost
<1>7. ReadShape'
  BY <1>1 DEF ReadShape
<1>8. WriteShape'
  BY <1>1, <1>4 DEF WriteShape
<1> QED BY <1>5, <1>6, <1>7, <1>8

\* Nothing is left when write_input returns.
LEMMA WriteReturnsInv == ASSUME Inv, NEW s \in Streams, WriteReturns(s) PROVE Inv'
<1> USE Constants DEF Inv
<1>1. /\ UNCHANGED <<st, left, wrte, inb, held, got, wrote, outb, rd, back, gone, tty>>
      /\ busy.on = s /\ busy.left = 0 /\ busy' = [on |-> "none", left |-> 0]
      /\ unacked' = [unacked EXCEPT ![s] = FALSE]
  BY DEF WriteReturns, downVars, Idle
<1>2. unacked' \in [Streams -> BOOLEAN]
  BY <1>1, Zenon DEF TypeOK
<1>3. TypeOK'
  BY <1>1, <1>2 DEF TypeOK
<1>4. NothingLost'
  BY <1>1 DEF TypeOK, NothingLost
<1>5. ReadShape'
  BY <1>1 DEF ReadShape
<1>6. WriteShape'
  BY <1>1 DEF TypeOK, WriteShape
<1> QED BY <1>3, <1>4, <1>5, <1>6

\* A write that fails closes the stream.
LEMMA WriteFailsInv == ASSUME Inv, NEW s \in Streams, WriteFails(s) PROVE Inv'
<1> USE Constants DEF Inv
<1>1. /\ UNCHANGED <<left, wrte, inb, held, got, wrote, outb, back, tty>>
      /\ busy.on = s /\ busy' = [on |-> "none", left |-> 0]
      /\ unacked' = [unacked EXCEPT ![s] = FALSE] /\ Drop(s)
  BY DEF WriteFails, Idle
<1>2. unacked' \in [Streams -> BOOLEAN] /\ gone' \in [Streams -> BOOLEAN]
  BY <1>1, Zenon DEF TypeOK, Drop
<1>3. TypeOK'
  BY <1>1, <1>2 DEF TypeOK, Drop
<1>4. NothingLost'
  BY <1>1 DEF TypeOK, NothingLost, Drop
<1>5. ReadShape'
  BY <1>1 DEF TypeOK, ReadShape, Drop
<1>6. WriteShape'
  BY <1>1 DEF TypeOK, WriteShape
<1> QED BY <1>3, <1>4, <1>5, <1>6

\* What was read is sent.
LEMMA HandleReadInv == ASSUME Inv, NEW s \in Streams, HandleRead(s) PROVE Inv'
<1> USE Constants DEF Inv, TypeOK, HandleRead, upVars, downVars
<1>1. TypeOK'
  OBVIOUS
<1>2. NothingLost'
  BY <1>1 DEF NothingLost, ReadShape
<1>3. ReadShape'
  BY <1>1 DEF ReadShape
<1>4. WriteShape'
  BY <1>1 DEF WriteShape
<1> QED BY <1>1, <1>2, <1>3, <1>4

\* What was sent is with the host.
LEMMA HandleOkayInv == ASSUME Inv, NEW s \in Streams, HandleOkay(s) PROVE Inv'
<1> USE Constants DEF Inv, TypeOK, HandleOkay, upVars, downVars
<1>1. TypeOK'
  OBVIOUS
<1>2. NothingLost'
  BY <1>1 DEF NothingLost, ReadShape
<1>3. ReadShape'
  BY <1>1 DEF ReadShape
<1>4. WriteShape'
  BY <1>1 DEF WriteShape
<1> QED BY <1>1, <1>2, <1>3, <1>4

\* The end closes the stream.
LEMMA HandleReadEndInv == ASSUME Inv, NEW s \in Streams, HandleReadEnd(s) PROVE Inv'
<1> USE Constants DEF Inv, TypeOK, HandleReadEnd, Drop, upVars, downVars
<1>1. TypeOK'
  OBVIOUS
<1>2. NothingLost'
  BY <1>1 DEF NothingLost, ReadShape
<1>3. ReadShape'
  BY <1>1 DEF ReadShape
<1>4. WriteShape'
  BY <1>1 DEF WriteShape
<1> QED BY <1>1, <1>2, <1>3, <1>4

\* CLSE begins the draining or closes the stream.
LEMMA HandleClseInv == ASSUME Inv, NEW s \in Streams, HandleClse(s) PROVE Inv'
<1> USE Constants DEF Inv
<1>1. UNCHANGED <<left, wrte, inb, held, got, unacked, busy, wrote, outb, back, tty>>
  BY DEF HandleClse, upVars
<1>2. \/ /\ st[s] = "open" /\ st' = [st EXCEPT ![s] = "drain"]
         /\ UNCHANGED <<gone, rd>>
      \/ Drop(s)
  BY DEF HandleClse
<1>3. gone' \in [Streams -> BOOLEAN]
  BY <1>2, Zenon DEF TypeOK, Drop
<1>4. TypeOK'
  <2>1. st' \in [Streams -> {"open", "drain", "closed"}]
    <3>1. CASE st' = [st EXCEPT ![s] = "drain"]
      BY <3>1 DEF TypeOK
    <3>2. CASE st' = [st EXCEPT ![s] = "closed"]
      BY <3>2 DEF TypeOK
    <3> QED BY <1>2, <3>1, <3>2 DEF Drop
  <2>2. rd' \in [Streams -> [st : {"none", "armed", "done", "sent", "end"}, n : 0..ReadBuf]]
    BY <1>2 DEF TypeOK, Drop
  <2> QED BY <1>1, <1>3, <2>1, <2>2 DEF TypeOK
<1>5. NothingLost'
  BY <1>1, <1>2 DEF TypeOK, NothingLost, Drop
<1>6. ReadShape'
  BY <1>1, <1>2 DEF TypeOK, ReadShape, Drop
<1>7. WriteShape'
  BY <1>1 DEF WriteShape
<1> QED BY <1>4, <1>5, <1>6, <1>7

\* A read moves what it returns into read_buf.
LEMMA KernelReadInv == ASSUME Inv, NEW s \in Streams, KernelRead(s) PROVE Inv'
<1> USE Constants DEF Inv
<1> DEFINE n == ReadLen(s)
<1>1. /\ UNCHANGED <<st, left, wrte, inb, held, got, unacked, busy, wrote, back, gone, tty>>
      /\ rd[s].st = "armed" /\ rd[s].n = 0 /\ st[s] # "closed"
  BY DEF KernelRead, upVars, ReadShape
<1>2. n \in Nat /\ n <= outb[s] /\ n <= ReadBuf /\ outb[s] \in Nat
  BY SmallerIs DEF ReadLen, TypeOK
<1>3. \/ /\ rd' = [rd EXCEPT ![s] = [st |-> "done", n |-> n]]
         /\ outb' = [outb EXCEPT ![s] = @ - n]
      \/ /\ outb[s] = 0 /\ gone[s] /\ rd' = [rd EXCEPT ![s].st = "end"] /\ UNCHANGED outb
  BY <1>2 DEF KernelRead, Broken
<1> HIDE DEF n
<1>4. CASE rd' = [rd EXCEPT ![s] = [st |-> "done", n |-> n]] /\ outb' = [outb EXCEPT ![s] = @ - n]
  <2>1. TypeOK'
    BY <1>1, <1>2, <1>4 DEF TypeOK
  <2>2. NothingLost'
    BY <1>1, <1>2, <1>4 DEF TypeOK, NothingLost
  <2>3. ReadShape'
    BY <1>1, <1>4 DEF TypeOK, ReadShape
  <2> QED BY <1>1, <2>1, <2>2, <2>3 DEF WriteShape
<1>5. CASE outb[s] = 0 /\ gone[s] /\ rd' = [rd EXCEPT ![s].st = "end"] /\ UNCHANGED outb
  <2>1. rd'[s] = [st |-> "end", n |-> 0] /\ \A t \in Streams \ {s} : rd'[t] = rd[t]
    BY <1>1, <1>5 DEF TypeOK
  <2>2. TypeOK'
    BY <1>1, <1>5 DEF TypeOK
  <2>3. NothingLost'
    BY <1>1, <1>5, <2>1 DEF TypeOK, NothingLost
  <2>4. ReadShape'
    BY <1>1, <1>5, <2>1 DEF TypeOK, ReadShape
  <2> QED BY <1>1, <2>2, <2>3, <2>4 DEF WriteShape
<1> QED BY <1>3, <1>4, <1>5

\* The destination takes what is in the buffer.
LEMMA DestReadInv == ASSUME Inv, NEW s \in Streams, DestRead(s) PROVE Inv'
<1> USE Constants DEF Inv, TypeOK, DestRead, upVars, downVars
<1>1. TypeOK'
  OBVIOUS
<1>2. NothingLost'
  BY <1>1 DEF NothingLost, ReadShape
<1>3. ReadShape'
  BY <1>1 DEF ReadShape
<1>4. WriteShape'
  BY <1>1 DEF WriteShape
<1> QED BY <1>1, <1>2, <1>3, <1>4

\* The destination writes a byte.
LEMMA DestWriteInv == ASSUME Inv, NEW s \in Streams, DestWrite(s) PROVE Inv'
<1> USE Constants DEF Inv, TypeOK, DestWrite, upVars, downVars
<1>1. TypeOK'
  OBVIOUS
<1>2. NothingLost'
  BY <1>1 DEF NothingLost, ReadShape
<1>3. ReadShape'
  BY <1>1 DEF ReadShape
<1>4. WriteShape'
  BY <1>1 DEF WriteShape
<1> QED BY <1>1, <1>2, <1>3, <1>4

\* The destination goes away.
LEMMA DestExitInv == ASSUME Inv, NEW s \in Streams, DestExit(s) PROVE Inv'
<1> USE Constants DEF Inv
<1>1. /\ UNCHANGED <<st, left, wrte, inb, held, got, unacked, busy, wrote, outb, rd, back>>
      /\ gone' = [gone EXCEPT ![s] = TRUE]
  BY DEF DestExit, upVars, downVars
<1>2. gone' \in [Streams -> BOOLEAN]
  BY <1>1, Zenon DEF TypeOK
<1>3. tty' \in [Streams -> BOOLEAN]
  <2>1. PICK keeps \in {FALSE, Kind[s] = "shell"} : tty' = [tty EXCEPT ![s] = keeps]
    BY DEF DestExit
  <2>2. keeps \in BOOLEAN
    BY Zenon
  <2> QED BY <2>1, <2>2, Zenon DEF TypeOK
<1>4. TypeOK'
  BY <1>1, <1>2, <1>3 DEF TypeOK
<1>5. NothingLost'
  BY <1>1 DEF NothingLost
<1>6. ReadShape'
  BY <1>1 DEF TypeOK, ReadShape
<1>7. WriteShape'
  BY <1>1 DEF WriteShape
<1> QED BY <1>4, <1>5, <1>6, <1>7

\* The destination has read the end of its input.
LEMMA DestEofInv == ASSUME Inv, NEW s \in Streams, DestEof(s) PROVE Inv'
<1> USE Constants DEF Inv, TypeOK, DestEof, upVars, downVars
<1>1. TypeOK'
  OBVIOUS
<1>2. NothingLost'
  BY <1>1 DEF NothingLost, ReadShape
<1>3. ReadShape'
  BY <1>1 DEF ReadShape
<1>4. WriteShape'
  BY <1>1 DEF WriteShape
<1> QED BY <1>1, <1>2, <1>3, <1>4

\* The terminal is closed.
LEMMA TtyExitInv == ASSUME Inv, NEW s \in Streams, TtyExit(s) PROVE Inv'
<1> USE Constants DEF Inv, TypeOK, TtyExit, upVars, downVars
<1>1. TypeOK'
  OBVIOUS
<1>2. NothingLost'
  BY <1>1 DEF NothingLost, ReadShape
<1>3. ReadShape'
  BY <1>1 DEF ReadShape
<1>4. WriteShape'
  BY <1>1 DEF WriteShape
<1> QED BY <1>1, <1>2, <1>3, <1>4

\* Every step keeps the invariant: one case per action.
LEMMA NextInv == Inv /\ [Next]_vars => Inv'
<1> SUFFICES ASSUME Inv, [Next]_vars PROVE Inv'
  OBVIOUS
<1>1. CASE UNCHANGED vars
  BY <1>1 DEF vars, upVars, downVars, Inv, TypeOK, NothingLost, ReadShape, WriteShape
<1>2. ASSUME NEW s \in Streams,
             \/ HostWrte(s) \/ HandleOkay(s) \/ Loop(s) \/ HandleClse(s) \/ World(s)
             \/ DestExit(s) \/ DestEof(s) \/ TtyExit(s)
      PROVE  Inv'
  BY <1>2, HostWrteInv, HandleWrteInv, WriteInputInv, WriteReturnsInv, WriteFailsInv,
     HandleReadInv, HandleOkayInv, HandleReadEndInv, HandleClseInv, KernelReadInv,
     DestReadInv, DestWriteInv, DestExitInv, DestEofInv, TtyExitInv
     DEF Loop, World
<1> QED BY <1>1, <1>2 DEF Next

\* The invariant holds in every state.
LEMMA Invariant == Spec => []Inv
BY InitInv, NextInv, PTL DEF Spec

\* At the end of a read nothing is between the destination and the host.
LEMMA EndIsComplete == Inv => DrainIsComplete
<1> SUFFICES ASSUME Inv, NEW s \in Streams, rd[s].st = "end" PROVE back[s] = wrote[s]
  BY DEF DrainIsComplete
<1>1. st[s] # "closed" /\ rd[s].n = 0 /\ outb[s] = 0
  BY DEF Inv, ReadShape
<1>2. wrote[s] = outb[s] + rd[s].n + back[s]
  BY <1>1 DEF Inv, NothingLost
<1> QED BY <1>1, <1>2 DEF Inv, TypeOK

-----------------------------------------------------------------------------
(* The theorems.                                                           *)

\* No buffer of the daemon or the kernel holds more than it can, whatever
\* the sizes of buffers and payloads.
THEOREM BuffersHold == Spec => []TypeOK
<1>1. Inv => TypeOK
  BY DEF Inv
<1> QED BY <1>1, Invariant, PTL

\* No byte is lost or made up on a shell or forward, in either direction,
\* by the partial writes of write_input, the reads or their order.
THEOREM NoByteIsLost == Spec => []NothingLost
<1>1. Inv => NothingLost
  BY DEF Inv
<1> QED BY <1>1, Invariant, PTL

\* When the read of a stream ends, the host has every byte the destination
\* wrote: the CLSE that follows overtakes none.
THEOREM EndComesLast == Spec => []DrainIsComplete
BY EndIsComplete, Invariant, PTL
=============================================================================
