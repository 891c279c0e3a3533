------------------------------- MODULE Relay -------------------------------
(***************************************************************************)
(* The bytes of shell and forward streams: ShellService (src/src/shell.rs),*)
(* ForwardService (src/src/forward.rs) and the handlers of src/src/main.rs *)
(* that move bytes between the host's WRTEs and the PTY or socket.         *)
(*                                                                         *)
(* Bytes are counted.  Towards the destination they are with the host      *)
(* (left), in a WRTE (wrte), in the write the loop is making (busy), in    *)
(* the socket or PTY (inb), and with the destination (got); back they are  *)
(* in the socket (outb), in read_buf (rd), and with the host (back).       *)
(* The loop is one thread: while write_input blocks, busy names its stream *)
(* and nothing else is handled.  Kernel and destinations go on (external). *)
(***************************************************************************)
EXTENDS Naturals

CONSTANTS Streams,
          Kind,       \* "shell" or "forward", by stream
          Dest,       \* what is at the other end: it "echo"es, it reads and
                      \* writes independently ("reader"), or it is "deaf"
          HostBytes,  \* how many bytes the host has to send on a stream
          DestBytes,  \* how many a reader has
          Window,     \* how many bytes the host of an echo lets be unanswered
          MaxWrte,    \* the largest payload of a WRTE of the host
          Buf,        \* what a socket or PTY holds in each direction
          ReadBuf,    \* SOCKET_READ_BUF_SIZE, PTY_READ_BUF_SIZE
          Exits,      \* the streams whose destination may go away on its own
          Closers     \* the streams the host may close

ASSUME RelayAssumption ==
  /\ "none" \notin Streams
  /\ Kind \in [Streams -> {"shell", "forward"}]
  /\ Dest \in [Streams -> {"echo", "reader", "deaf"}]
  /\ HostBytes \in Nat /\ DestBytes \in Nat /\ Window \in Nat
  /\ MaxWrte \in Nat \ {0} /\ Buf \in Nat \ {0} /\ ReadBuf \in Nat \ {0}
  /\ Exits \subseteq Streams /\ Closers \subseteq Streams

VARIABLES
  st,      \* "open", "drain" (remote_closed), "closed"
  left, wrte, inb, held, got,  \* towards the destination
  unacked, \* the host waits for the OKAY of its WRTE
  busy,    \* the stream write_input is writing to, and what it has left
  wrote, outb, rd, back,       \* and back
  gone,    \* the destination has closed its end (the shell has exited)
  tty      \* a process the shell started still has the terminal open

upVars == <<left, wrte, inb, held, got, unacked>>
downVars == <<wrote, outb, rd, back>>
vars == <<st, upVars, busy, downVars, gone, tty>>

Idle == [on |-> "none", left |-> 0]

Zero == [s \in Streams |-> 0]

\* The service of a new stream: the socket is connected or the shell has been
\* spawned, alone on its terminal; read_buf is empty and its read armed.
Connected == [st |-> "armed", n |-> 0]
Spawned == [gone |-> FALSE, tty |-> FALSE]

Init == /\ st = [s \in Streams |-> "open"]
        /\ left = [s \in Streams |-> HostBytes]
        /\ wrte = Zero /\ inb = Zero /\ held = Zero /\ got = Zero
        /\ unacked = [s \in Streams |-> FALSE] /\ busy = Idle
        /\ wrote = Zero /\ outb = Zero /\ back = Zero
        /\ rd = [s \in Streams |-> Connected]
        /\ gone = [s \in Streams |-> Spawned.gone] /\ tty = [s \in Streams |-> Spawned.tty]

Smaller(a, b) == IF a < b THEN a ELSE b

-----------------------------------------------------------------------------
(* The host (external).                                                    *)

HostWrte(s) ==
  /\ st[s] = "open" /\ ~unacked[s]
  /\ \E n \in 1..Smaller(MaxWrte, left[s]) :
       /\ Dest[s] = "echo" => HostBytes - left[s] + n <= back[s] + Window
       /\ left' = [left EXCEPT ![s] = @ - n]
       /\ wrte' = [wrte EXCEPT ![s] = n]
  /\ unacked' = [unacked EXCEPT ![s] = TRUE]
  /\ UNCHANGED <<st, inb, held, got, busy, downVars, gone, tty>>

-----------------------------------------------------------------------------
(* The loop.                                                               *)

\* The stream is removed and its service dropped: the socket is closed, a
\* shell is killed and waited for, and what is under way is lost.
Drop(s) ==
  /\ st' = [st EXCEPT ![s] = "closed"]
  /\ gone' = [gone EXCEPT ![s] = TRUE]
  /\ rd' = [rd EXCEPT ![s] = [st |-> "none", n |-> 0]]

\* A WRTE: the payload goes to write_input.  (On a closed stream it is
\* acknowledged and dropped.)
HandleWrte(s) ==
  /\ busy = Idle /\ wrte[s] > 0
  /\ wrte' = [wrte EXCEPT ![s] = 0]
  /\ IF st[s] = "closed"
     THEN unacked' = [unacked EXCEPT ![s] = FALSE] /\ UNCHANGED busy
     ELSE busy' = [on |-> s, left |-> wrte[s]] /\ UNCHANGED unacked
  /\ UNCHANGED <<st, left, inb, held, got, downVars, gone, tty>>

\* Mutant: the offset of the next write is one too far.
RestFar(l, n) == l - n - 1

\* Mutant: a write that takes a part is taken for the whole.
RestOnce(l, n) == 0

\* What one write(2) leaves to be written.
Rest(l, n) == l - n

\* Nobody is left at the other end of the socket or terminal.
Broken(s) == gone[s] /\ ~tty[s]

\* One write(2) of write_input takes what there is room for; the OKAY
\* pushed before it reaches the host when the loop is back.
WriteInput(s) ==
  /\ busy.on = s /\ busy.left > 0 /\ ~Broken(s) /\ inb[s] < Buf
  /\ LET n == Smaller(busy.left, Buf - inb[s])
     IN /\ inb' = [inb EXCEPT ![s] = @ + n]
        /\ busy' = [busy EXCEPT !.left = Rest(@, n)]
  /\ UNCHANGED <<st, left, wrte, held, got, unacked, downVars, gone, tty>>

\* Mutant: the OKAY is forgotten.
WriteReturnsSilent(s) ==
  /\ busy.on = s /\ busy.left = 0
  /\ busy' = Idle
  /\ UNCHANGED <<st, upVars, downVars, gone, tty>>

\* write_input has written everything.
WriteReturns(s) ==
  /\ busy.on = s /\ busy.left = 0
  /\ busy' = Idle /\ unacked' = [unacked EXCEPT ![s] = FALSE]
  /\ UNCHANGED <<st, left, wrte, inb, held, got, downVars, gone, tty>>

\* Mutant: a write to a peer that is gone is tried again.
WriteFailsNever(s) == FALSE /\ UNCHANGED vars

\* write_input fails: CLSE, and the stream is closed.
WriteFails(s) ==
  /\ busy.on = s /\ busy.left > 0 /\ Broken(s)
  /\ busy' = Idle /\ unacked' = [unacked EXCEPT ![s] = FALSE]
  /\ Drop(s)
  /\ UNCHANGED <<left, wrte, inb, held, got, wrote, outb, back, tty>>

\* Mutant: a stream the host has closed is read, and not sent on.
HandleReadDiscards(s) ==
  /\ busy = Idle /\ rd[s].st = "done"
  /\ rd' = [rd EXCEPT ![s] = IF st[s] = "open" THEN [@ EXCEPT !.st = "sent"]
                             ELSE [st |-> "armed", n |-> 0]]
  /\ UNCHANGED <<st, upVars, busy, wrote, outb, back, gone, tty>>

\* SocketRead, PtyRead with data: a WRTE, and the stream waits for its OKAY.
HandleRead(s) ==
  /\ busy = Idle /\ rd[s].st = "done"
  /\ rd' = [rd EXCEPT ![s].st = "sent"]
  /\ UNCHANGED <<st, upVars, busy, wrote, outb, back, gone, tty>>

\* Mutant: the OKAY does not make the loop read on.
HandleOkayIdle(s) ==
  /\ busy = Idle /\ rd[s].st = "sent"
  /\ back' = [back EXCEPT ![s] = @ + rd[s].n]
  /\ rd' = [rd EXCEPT ![s] = [st |-> "none", n |-> 0]]
  /\ UNCHANGED <<st, upVars, busy, wrote, outb, gone, tty>>

\* The host has read the WRTE; its OKAY makes the loop read on.  A host may
\* acknowledge after its own CLSE, which is what draining relies on, but need
\* not: the fairness below does not ask it to.
HandleOkay(s) ==
  /\ busy = Idle /\ rd[s].st = "sent"
  /\ back' = [back EXCEPT ![s] = @ + rd[s].n]
  /\ rd' = [rd EXCEPT ![s] = [st |-> "armed", n |-> 0]]
  /\ UNCHANGED <<st, upVars, busy, wrote, outb, gone, tty>>

\* Mutant: a read that returned 0 is tried again.
HandleReadEndAgain(s) ==
  /\ busy = Idle /\ rd[s].st = "end"
  /\ rd' = [rd EXCEPT ![s].st = "armed"]
  /\ UNCHANGED <<st, upVars, busy, wrote, outb, back, gone, tty>>

\* The read returned 0 or an error: CLSE and close.
HandleReadEnd(s) ==
  /\ busy = Idle /\ rd[s].st = "end"
  /\ Drop(s)
  /\ UNCHANGED <<upVars, busy, wrote, outb, back, tty>>

\* CLSE of the host: the write side of a forward is shut down and the stream
\* kept; a shell is closed and killed.
HandleClse(s) ==
  /\ s \in Closers /\ busy = Idle /\ st[s] = "open" /\ wrte[s] = 0
  /\ IF Kind[s] = "forward"
     THEN st' = [st EXCEPT ![s] = "drain"] /\ UNCHANGED <<gone, rd>>
     ELSE Drop(s)
  /\ UNCHANGED <<upVars, busy, wrote, outb, back, tty>>

Loop(s) == \/ HandleWrte(s) \/ WriteInput(s) \/ WriteReturns(s) \/ WriteFails(s)
           \/ HandleRead(s) \/ HandleReadEnd(s)

-----------------------------------------------------------------------------
(* The kernel and the destinations (external).                             *)

\* A read takes no more than read_buf_capacity.
ReadLen(s) == Smaller(outb[s], ReadBuf)

\* The armed read takes what is there, or the end when there is no more and
\* nobody who could write holds the other end.
KernelRead(s) ==
  /\ rd[s].st = "armed"
  /\ IF outb[s] > 0
     THEN /\ rd' = [rd EXCEPT ![s] = [st |-> "done", n |-> ReadLen(s)]]
          /\ outb' = [outb EXCEPT ![s] = @ - ReadLen(s)]
     ELSE /\ Broken(s)
          /\ rd' = [rd EXCEPT ![s].st = "end"] /\ UNCHANGED outb
  /\ UNCHANGED <<st, upVars, busy, wrote, back, gone, tty>>

\* An echo reads when it has written what it read before.
DestRead(s) ==
  /\ ~gone[s] /\ Dest[s] # "deaf" /\ inb[s] > 0 /\ held[s] = 0
  /\ got' = [got EXCEPT ![s] = @ + inb[s]]
  /\ inb' = [inb EXCEPT ![s] = 0]
  /\ held' = [held EXCEPT ![s] = IF Dest[s] = "echo" THEN inb[s] ELSE 0]
  /\ UNCHANGED <<st, left, wrte, unacked, busy, downVars, gone, tty>>

DestWrite(s) ==
  /\ ~gone[s] /\ outb[s] < Buf
  /\ \/ /\ Dest[s] = "echo" /\ held[s] > 0
        /\ held' = [held EXCEPT ![s] = @ - 1]
     \/ /\ Dest[s] = "reader" /\ wrote[s] < DestBytes
        /\ UNCHANGED held
  /\ wrote' = [wrote EXCEPT ![s] = @ + 1] /\ outb' = [outb EXCEPT ![s] = @ + 1]
  /\ UNCHANGED <<st, left, wrte, inb, got, unacked, busy, rd, back, gone, tty>>

\* The destination closes its end; a process a shell leaves behind may keep
\* the terminal open.
DestExit(s) ==
  /\ ~gone[s] /\ s \in Exits
  /\ gone' = [gone EXCEPT ![s] = TRUE]
  /\ \E keeps \in {FALSE, Kind[s] = "shell"} : tty' = [tty EXCEPT ![s] = keeps]
  /\ UNCHANGED <<st, upVars, busy, downVars>>

\* The write side of the socket is shut down.
ShutDown(s) == st[s] = "drain"

\* A destination that reads the end of its input finishes and closes.
DestEof(s) ==
  /\ ~gone[s] /\ ShutDown(s) /\ inb[s] = 0 /\ held[s] = 0
  /\ Dest[s] = "reader" => wrote[s] = DestBytes
  /\ gone' = [gone EXCEPT ![s] = TRUE]
  /\ UNCHANGED <<st, upVars, busy, downVars, tty>>

TtyExit(s) == /\ tty[s] /\ tty' = [tty EXCEPT ![s] = FALSE]
              /\ UNCHANGED <<st, upVars, busy, downVars, gone>>

World(s) == KernelRead(s) \/ DestRead(s) \/ DestWrite(s)

Next == \E s \in Streams : HostWrte(s) \/ HandleOkay(s) \/ Loop(s) \/ HandleClse(s) \/ World(s)
                             \/ DestExit(s) \/ DestEof(s) \/ TtyExit(s)

Spec == Init /\ [][Next]_vars

\* The loop runs; the host sends what it has, and acknowledges what it gets
\* until it has sent CLSE; the kernel completes reads; a destination that is
\* not deaf reads, answers, and closes at the end of its input; a process that
\* keeps the terminal of its shell ends.
Fairness == \A s \in Streams :
              WF_vars(HostWrte(s)) /\ WF_vars(st[s] = "open" /\ HandleOkay(s))
                /\ WF_vars(Loop(s)) /\ WF_vars(KernelRead(s))
                /\ WF_vars(DestRead(s)) /\ WF_vars(DestWrite(s)) /\ WF_vars(DestEof(s))
                /\ WF_vars(TtyExit(s))

FairSpec == Spec /\ Fairness

-----------------------------------------------------------------------------
(* Properties.                                                             *)

\* The state has the shape the code's types give it; buffers hold what they can.
TypeOK ==
  /\ st \in [Streams -> {"open", "drain", "closed"}]
  /\ left \in [Streams -> Nat] /\ wrte \in [Streams -> 0..MaxWrte]
  /\ inb \in [Streams -> 0..Buf] /\ held \in [Streams -> 0..Buf]
  /\ outb \in [Streams -> 0..Buf]
  /\ got \in [Streams -> Nat] /\ wrote \in [Streams -> Nat] /\ back \in [Streams -> Nat]
  /\ unacked \in [Streams -> BOOLEAN]
  /\ busy \in [on : Streams \cup {"none"}, left : 0..MaxWrte]
  /\ rd \in [Streams -> [st : {"none", "armed", "done", "sent", "end"}, n : 0..ReadBuf]]
  /\ gone \in [Streams -> BOOLEAN] /\ tty \in [Streams -> BOOLEAN]

\* No byte is lost or made up on a stream that is not closed, in either
\* direction, whatever part of it a write takes and a read returns.
NothingLost ==
  \A s \in Streams :
    st[s] # "closed" =>
      /\ HostBytes = left[s] + wrte[s] + (IF busy.on = s THEN busy.left ELSE 0)
                       + inb[s] + got[s]
      /\ wrote[s] = outb[s] + rd[s].n + back[s]
      /\ Dest[s] = "echo" => got[s] = held[s] + wrote[s]

\* A forward that ends because its destination closed has brought the host
\* every byte the destination wrote (doc of Stream::remote_closed).
DrainIsComplete ==
  \A s \in Streams : rd[s].st = "end" => back[s] = wrote[s]

\* write_input returns: the loop goes on to other streams.
LoopReturns == busy # Idle ~> busy = Idle

\* What the host sends reaches the destination, unless the stream ends.
Delivered ==
  \A s \in Streams : left[s] > 0 ~> got[s] = HostBytes \/ gone[s] \/ st[s] # "open"

\* What a destination writes reaches the host, unless the stream ends.
Answered ==
  \A s \in Streams : outb[s] > 0 ~> back[s] = wrote[s] \/ gone[s] \/ st[s] # "open"

\* A forward that the host has closed, with a WRTE it has not acknowledged.
Owed(s) == st[s] = "drain" /\ rd[s].st = "sent"

\* A stream whose destination has gone away is closed, also where a process
\* kept the terminal for a while.  All that can keep it is a host that closed
\* the stream and never acknowledges its last WRTE.
EndIsSeen ==
  \A s \in Streams : gone[s] ~> (st[s] = "closed" \/ []Owed(s))
=============================================================================
