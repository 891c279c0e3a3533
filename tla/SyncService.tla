---------------------------- MODULE SyncService ----------------------------
(***************************************************************************)
(* The sync: service of src/src/sync.rs at the level of bytes, with the    *)
(* part of src/src/main.rs that feeds it WRTE payloads and sends what it   *)
(* answers.                                                                *)
(*                                                                         *)
(* What a host sends on a stream is a sequence of items (requests and the  *)
(* DATA and DONE frames of a push), each a header of HeaderSize bytes and  *)
(* a body.  A byte is known by its position in the stream, so an item is   *)
(* recognised exactly where one begins, and a WRTE is an interval of       *)
(* positions.  The host may cut the stream into WRTEs as it likes.         *)
(*                                                                         *)
(* handle() runs to its end before anything else happens on the device.    *)
(* It is taken apart into the iterations of the loop in receive(): while   *)
(* it runs, cur holds what is left of the WRTE and no other step is taken. *)
(***************************************************************************)
EXTENDS Naturals, Sequences, FiniteSets

CONSTANTS Streams,    \* the sync streams that are open
          Paths,      \* paths, as the sequences of their parts between commas
          Numbers,    \* the parts that begin with a digit
          Mode,       \* the mode, a number
          Scripts,    \* what hosts send: a sequence of items for each stream
          HeaderSize, \* bytes of a header, 8 in the code
          IdSize,     \* bytes of the id in it, 4 in the code
          Chunk,      \* PAYLOAD_SIZE_MAX_BYTES
          MaxPayload, \* ProtocolVersion::max_payload
          OldFiles,   \* paths where a file is at the start
          OldSize,    \* and its size
          OsFails,    \* which outcomes calls to the OS have: TRUE is failure
          Cuts,       \* how freely the host cuts its bytes into WRTEs: "split"
                      \* requests, "join" what follows an answered one to it
          Persists,   \* whether the host goes on with a push that has failed
          Closes      \* whether the host may close a stream at any time

Requests == {"STAT", "RECV", "SEND", "QUIT", "OTHER"}
Frames == {"DATA", "DONE"}
Items == [kind : Requests \cup Frames, at : Nat, len : Nat, path : Paths]

After(i) == i.at + HeaderSize + i.len
End(q) == IF q = << >> THEN 0 ELSE After(q[Len(q)])

ASSUME SyncAssumption ==
  /\ IdSize \in Nat \ {0} /\ HeaderSize \in Nat /\ HeaderSize > IdSize
  /\ Chunk \in Nat \ {0} /\ MaxPayload \in Nat /\ OldSize \in Nat
  /\ "none" \notin Streams /\ Paths # {}
  /\ \A p \in Paths : p \in Seq(STRING) /\ p # << >> /\ <<p[1]>> \in Paths
  /\ OldFiles \subseteq Paths /\ Mode \in Numbers
  /\ OsFails \in SUBSET BOOLEAN /\ Cuts \subseteq {"split", "join"} /\ Persists \in BOOLEAN
  /\ Closes \in BOOLEAN

\* One item follows the other without a gap.
ASSUME SessionAssumption ==
  /\ Scripts \subseteq [Streams -> Seq(Items)]
  /\ \A script \in Scripts, s \in Streams :
       LET q == script[s]
       IN /\ q # << >> => q[1].at = 0
          /\ \A k \in 1..(Len(q) - 1) : q[k + 1].at = After(q[k])

VARIABLES
  items,     \* what the host sends on each stream
  sent,      \* how many bytes of it are sent
  acked,     \* how many WRTEs of the device the host has acknowledged
  cur,       \* the WRTE being handled: stream, next position and end
  state,     \* SyncService.state, or "Closed"
  receiver,  \* the FileReceiver of the stream
  sender,    \* the FileSender of the stream
  waiting,   \* Stream.waiting_for_okay
  answers,   \* the WRTEs sent back
  dir, files \* which file is at a path (0: none), and the bytes of each file

hostVars == <<items, sent, acked>>
fsVars == <<dir, files>>
vars == <<hostVars, cur, state, receiver, sender, waiting, answers, fsVars>>

Free == [on |-> "none", pos |-> 0, hi |-> 0, leftover |-> FALSE]

NewReceiver(path, file) ==
  [st |-> "Header", left |-> << >>, remaining |-> 0, path |-> path, file |-> file,
   off |-> 0]
NewSender(file) == [file |-> file, off |-> 0, done |-> FALSE]
NoPath == CHOOSE p \in Paths : TRUE

\* A byte of a file: where it came from.
Bytes(s, lo, n) == [i \in 1..n |-> <<s, lo + i - 1>>]

Answer(id, why, data) == [id |-> id, why |-> why, data |-> data]
Fail(why) == Answer("FAIL", why, << >>)

Init ==
  /\ items \in Scripts
  /\ sent = [s \in Streams |-> 0] /\ acked = [s \in Streams |-> 0]
  /\ cur = Free
  /\ state = [s \in Streams |-> "Idle"]
  /\ receiver = [s \in Streams |-> NewReceiver(NoPath, 0)]
  /\ sender = [s \in Streams |-> NewSender(0)]
  /\ waiting = [s \in Streams |-> FALSE]
  /\ answers = [s \in Streams |-> << >>]
  /\ dir = [p \in Paths |-> IF p \in OldFiles THEN 1 ELSE 0]
  /\ files = IF OldFiles = {} THEN << >> ELSE <<Bytes("old", 0, OldSize)>>

-----------------------------------------------------------------------------
(* The host and the WRTEs it makes of its bytes (external).                *)

\* The host is inside a push: the next byte is not the first of a request.
InPush(s) ==
  \E k \in DOMAIN items[s] :
    LET i == items[s][k]
    IN i.at <= sent[s] /\ sent[s] < After(i) /\ (i.kind \in Frames \/ i.at < sent[s])

\* A WRTE holds whole requests, and it ends with one that is answered.
Whole(s, h) == \A k \in DOMAIN items[s] :
                 items[s][k].kind \in Requests => ~(items[s][k].at < h /\ h < After(items[s][k]))
EndsAnswered(s, h) == \A k \in DOMAIN items[s] :
                        items[s][k].kind \notin {"SEND", "DATA"} =>
                          ~(sent[s] < After(items[s][k]) /\ After(items[s][k]) < h)

\* The host has read every answer.
HasRead(s) == acked[s] = Len(answers[s])

\* A WRTE arrives and handle() is called with its payload.
Wrte(s, h) ==
  /\ cur = Free /\ state[s] # "Closed" /\ sent[s] < h
  /\ "split" \notin Cuts => Whole(s, h)
  /\ "join" \notin Cuts => HasRead(s) /\ EndsAnswered(s, h)
  /\ ~Persists /\ InPush(s) => state[s] = "Receiving"
  /\ cur' = [on |-> s, pos |-> sent[s], hi |-> h, leftover |-> FALSE]
  /\ sent' = [sent EXCEPT ![s] = h]
  /\ UNCHANGED <<items, acked, state, receiver, sender, waiting, answers, fsVars>>

\* Where the host can go on after a push it gives up.
Stops(s) ==
  {End(items[s])} \cup
    {items[s][k].at : k \in {j \in DOMAIN items[s] : items[s][j].kind \in Requests}}

\* A host that reads FAIL in the middle of a push does not send the rest.
GiveUp(s) ==
  /\ cur = Free /\ ~Persists /\ HasRead(s)
  /\ InPush(s) /\ state[s] \notin {"Receiving", "Closed"}
  /\ \E h \in Stops(s) :
       /\ h > sent[s] /\ \A g \in Stops(s) : g > sent[s] => h <= g
       /\ sent' = [sent EXCEPT ![s] = h]
  /\ UNCHANGED <<items, acked, cur, state, receiver, sender, waiting, answers, fsVars>>

-----------------------------------------------------------------------------
(* Answers.                                                                *)

Return == cur' = Free

\* submit_wrte_sync.
Reply(s, a) == answers' = [answers EXCEPT ![s] = Append(@, a)]

\* Mutant: a chunk that is not full is taken for the end of the file.
NextFrameShort(snd) ==
  IF Len(files[snd.file]) < snd.off + Chunk THEN Answer("DONE", "none", << >>)
  ELSE Answer("DATA", "none", SubSeq(files[snd.file], snd.off + 1, snd.off + Chunk))

\* FileSender::next_frame: a chunk, or DONE at the end of the file.
NextFrame(snd) ==
  LET rest == IF Len(files[snd.file]) > snd.off THEN Len(files[snd.file]) - snd.off ELSE 0
      n == IF rest < Chunk THEN rest ELSE Chunk
  IN IF n = 0 THEN Answer("DONE", "none", << >>)
     ELSE Answer("DATA", "none", SubSeq(files[snd.file], snd.off + 1, snd.off + n))

\* maybe_submit_wrte_sync, on a stream that is Sending.
Continue(s, snd) ==
  IF snd.done
  THEN /\ state' = [state EXCEPT ![s] = "Idle"]
       /\ sender' = [sender EXCEPT ![s] = snd]
       /\ waiting' = [waiting EXCEPT ![s] = FALSE]
       /\ UNCHANGED answers
  ELSE \E fails \in OsFails :
         LET f == IF fails THEN Fail("read error") ELSE NextFrame(snd)
         IN /\ Reply(s, f)
            /\ state' = [state EXCEPT ![s] = "Sending"]
            /\ sender' = [sender EXCEPT ![s] = [snd EXCEPT !.off = @ + Len(f.data),
                                                           !.done = f.id # "DATA"]]
            /\ waiting' = [waiting EXCEPT ![s] = TRUE]

\* Mutant: an OKAY does not make the transfer go on.
HandleOkayOnly(s) ==
  /\ cur = Free /\ state[s] # "Closed" /\ acked[s] < Len(answers[s])
  /\ acked' = [acked EXCEPT ![s] = @ + 1] /\ waiting' = [waiting EXCEPT ![s] = FALSE]
  /\ UNCHANGED <<items, sent, cur, state, sender, answers, receiver, fsVars>>

\* The host acknowledges a WRTE: handle_okay.
HandleOkay(s) ==
  /\ cur = Free /\ state[s] # "Closed" /\ acked[s] < Len(answers[s])
  /\ acked' = [acked EXCEPT ![s] = @ + 1]
  /\ IF state[s] = "Sending" THEN Continue(s, sender[s])
     ELSE /\ waiting' = [waiting EXCEPT ![s] = FALSE]
          /\ UNCHANGED <<state, sender, answers>>
  /\ UNCHANGED <<items, sent, cur, receiver, fsVars>>

\* The stream is closed and its service dropped: nothing is removed.
HandleClse(s) ==
  /\ Closes /\ cur = Free /\ state[s] # "Closed"
  /\ state' = [state EXCEPT ![s] = "Closed"]
  /\ UNCHANGED <<hostVars, cur, receiver, sender, waiting, answers, fsVars>>
-----------------------------------------------------------------------------
(* Requests: handle() on a stream that is not Receiving.                   *)

\* The item whose first n bytes these are, if there is one.
ItemAt(s, bytes) ==
  {i \in {items[s][k] : k \in DOMAIN items[s]} :
     bytes = Bytes(s, i.at, Len(bytes))}

\* parse_sync_packet: the whole request is in lo..hi-1; of QUIT only the id
\* is looked at.
RequestsIn(s, lo, hi) ==
  {i \in ItemAt(s, Bytes(s, lo, IdSize)) :
     /\ i.kind \in {"STAT", "RECV", "SEND", "QUIT"}
     /\ (IF i.kind = "QUIT" THEN lo + IdSize ELSE After(i)) <= hi}

\* The body of SEND is "path,mode": it is cut at the first comma, and what
\* follows must begin with a number.
SendBody(i) == Append(i.path, Mode)
SendPath(i) == <<SendBody(i)[1]>>
SendParses(i) == SendBody(i)[2] \in Numbers

Handling(s) == cur.on = s /\ state[s] # "Receiving" /\ ~cur.leftover

InvalidRequest(s) ==
  /\ Handling(s)
  /\ \A i \in RequestsIn(s, cur.pos, cur.hi) : i.kind = "SEND" /\ ~SendParses(i)
  /\ Reply(s, Fail("invalid sync request")) /\ Return
  /\ UNCHANGED <<hostVars, state, receiver, sender, waiting, fsVars>>

\* What follows the request in the WRTE is not looked at.
HandleLstat(s) ==
  /\ Handling(s)
  /\ \E i \in RequestsIn(s, cur.pos, cur.hi) : i.kind = "STAT"
  /\ Reply(s, Answer("STAT", "none", << >>)) /\ Return
  /\ UNCHANGED <<hostVars, state, receiver, sender, waiting, fsVars>>

\* The first frame is sent at once unless the stream waits for an OKAY.
HandleRecv(s) ==
  /\ Handling(s) /\ Return
  /\ \E i \in RequestsIn(s, cur.pos, cur.hi), fails \in OsFails :
       /\ i.kind = "RECV"
       /\ IF fails \/ dir[i.path] = 0
          THEN /\ Reply(s, Fail("cannot open"))
               /\ UNCHANGED <<state, sender, waiting>>
          ELSE IF waiting[s]
          THEN /\ state' = [state EXCEPT ![s] = "Sending"]
               /\ sender' = [sender EXCEPT ![s] = NewSender(dir[i.path])]
               /\ UNCHANGED <<waiting, answers>>
          ELSE Continue(s, NewSender(dir[i.path]))
  /\ UNCHANGED <<hostVars, receiver, fsVars>>

\* Mutant: a file that is there is opened and written over.
CreateOver(p) ==
  IF dir[p] # 0 THEN UNCHANGED <<files, dir>>
  ELSE files' = Append(files, << >>) /\ dir' = [dir EXCEPT ![p] = Len(files) + 1]

\* File::create truncates the file that is there.
Create(p) ==
  IF dir[p] # 0
  THEN files' = [files EXCEPT ![dir[p]] = << >>] /\ UNCHANGED dir
  ELSE files' = Append(files, << >>) /\ dir' = [dir EXCEPT ![p] = Len(files) + 1]

\* The rest of the WRTE goes to the new receiver.
HandleSend(s) ==
  /\ Handling(s)
  /\ \E i \in RequestsIn(s, cur.pos, cur.hi), fails \in OsFails :
       /\ i.kind = "SEND" /\ SendParses(i)
       /\ IF fails
          THEN /\ Reply(s, Fail("cannot create")) /\ Return
               /\ UNCHANGED <<receiver, fsVars>>
          ELSE /\ Create(SendPath(i))
               /\ receiver' = [receiver EXCEPT ![s] = NewReceiver(SendPath(i), dir'[SendPath(i)])]
               /\ cur' = [cur EXCEPT !.pos = After(i), !.leftover = TRUE]
               /\ UNCHANGED answers
  /\ UNCHANGED <<hostVars, state, sender, waiting>>

HandleQuit(s) ==
  /\ Handling(s)
  /\ \E i \in RequestsIn(s, cur.pos, cur.hi) : i.kind = "QUIT"
  /\ state' = [state EXCEPT ![s] = "Closed"] /\ Return
  /\ UNCHANGED <<hostVars, receiver, sender, waiting, answers, fsVars>>

-----------------------------------------------------------------------------
(* FileReceiver::receive, one action per way through an iteration.         *)

Receiving(s) == cur.on = s /\ (state[s] = "Receiving" \/ cur.leftover)

\* receive() returns Continue: the session is (or stays) Receiving.
ReceiveMore(s) == Return /\ state' = [state EXCEPT ![s] = "Receiving"]

\* Mutant: the session goes on Receiving after its last frame.
ReceiveDoneStays(s, a) == Reply(s, a) /\ Return /\ UNCHANGED state

\* receive() returns Done: a session that was Receiving is Idle, one that
\* got the whole push with the request stays what it was.
ReceiveDone(s, a) ==
  /\ Reply(s, a) /\ Return
  /\ state' = IF cur.leftover THEN state ELSE [state EXCEPT ![s] = "Idle"]

\* Mutant: the unfinished file stays.
AbortKeeping(s) == UNCHANGED dir

\* The unfinished file is removed.
Abort(s) == dir' = [dir EXCEPT ![receiver[s].path] = 0]

\* set_permissions may fail; a failure to set the time is only logged.
Finalize(s) ==
  \E fails \in OsFails :
    /\ IF fails THEN Abort(s) ELSE UNCHANGED dir
    /\ ReceiveDone(s, IF fails THEN Fail("cannot set permissions")
                      ELSE Answer("OKAY", "none", << >>))

\* A header is complete; the frame begins at pos.
Header(s, bytes, pos) ==
  LET found == {i \in ItemAt(s, bytes) : i.kind \in Frames}
  IN \/ /\ found = {}
        /\ Abort(s) /\ ReceiveDone(s, Fail("invalid sync frame during send"))
        /\ UNCHANGED receiver
     \/ /\ \E i \in found : i.kind = "DONE"
        /\ Finalize(s)
        /\ UNCHANGED receiver
     \/ /\ \E i \in found :
             /\ i.kind = "DATA"
             /\ receiver' = [receiver EXCEPT ![s].st = "Data", ![s].left = << >>,
                                             ![s].remaining = i.len]
        /\ cur' = [cur EXCEPT !.pos = pos]
        /\ UNCHANGED <<state, answers, dir>>

\* Mutant: what was kept of a header is overwritten by the next WRTE.
KeepLast(s) == /\ receiver' = [receiver EXCEPT ![s].st = "PartialHeader",
                                 ![s].left = Bytes(s, cur.pos, cur.hi - cur.pos)]
               /\ ReceiveMore(s) /\ UNCHANGED <<answers, dir>>

\* Fewer bytes than a header needs are left in the WRTE: they are kept.
Keep(s) == /\ receiver' = [receiver EXCEPT ![s].st = "PartialHeader",
                             ![s].left = @ \o Bytes(s, cur.pos, cur.hi - cur.pos)]
           /\ ReceiveMore(s) /\ UNCHANGED <<answers, dir>>

ReceiveHeader(s) ==
  /\ Receiving(s) /\ cur.pos < cur.hi /\ receiver[s].st \in {"Header", "PartialHeader"}
  /\ LET need == HeaderSize - Len(receiver[s].left)
     IN IF cur.pos + need <= cur.hi
        THEN Header(s, receiver[s].left \o Bytes(s, cur.pos, need), cur.pos + need)
        ELSE Keep(s)
  /\ UNCHANGED <<hostVars, sender, waiting, files>>

\* Bytes written at an offset; a gap before them is filled.
Overlay(old, off, new) ==
  [j \in 1..(IF Len(old) > off + Len(new) THEN Len(old) ELSE off + Len(new)) |->
     IF off < j /\ j <= off + Len(new) THEN new[j - off]
     ELSE IF j <= Len(old) THEN old[j] ELSE <<"zero", 0>>]

LeftOfFrame(remaining, n) == remaining - n

\* Mutant: an empty frame is waited for like any other.
FrameStateStuck(left) == IF left >= 0 THEN "Data" ELSE "Header"

FrameState(left) == IF left > 0 THEN "Data" ELSE "Header"

ReceiveData(s) ==
  /\ Receiving(s) /\ cur.pos < cur.hi /\ receiver[s].st = "Data"
  /\ LET r == receiver[s]
         n == IF r.remaining < cur.hi - cur.pos THEN r.remaining ELSE cur.hi - cur.pos
         left == LeftOfFrame(r.remaining, n)
     IN \/ /\ receiver' = [receiver EXCEPT ![s].st = FrameState(left),
                                           ![s].remaining = left, ![s].off = @ + n]
           /\ files' = IF n = 0 THEN files
                       ELSE [files EXCEPT ![r.file] = Overlay(@, r.off, Bytes(s, cur.pos, n))]
           /\ cur' = [cur EXCEPT !.pos = @ + n]
           /\ UNCHANGED <<state, answers, dir>>
        \/ /\ TRUE \in OsFails /\ n > 0
           /\ Abort(s) /\ ReceiveDone(s, Fail("write error"))
           /\ UNCHANGED <<receiver, files>>
  /\ UNCHANGED <<hostVars, sender, waiting>>

\* The payload is used up.
ReceiveEnd(s) ==
  /\ Receiving(s) /\ cur.pos = cur.hi
  /\ ReceiveMore(s)
  /\ UNCHANGED <<hostVars, receiver, sender, waiting, answers, fsVars>>

Handle(s) == \/ InvalidRequest(s) \/ HandleLstat(s) \/ HandleRecv(s) \/ HandleSend(s)
             \/ HandleQuit(s)
             \/ ReceiveHeader(s) \/ ReceiveData(s) \/ ReceiveEnd(s)

Next == \E s \in Streams :
          \/ \E h \in 1..End(items[s]) : Wrte(s, h)
          \/ GiveUp(s) \/ HandleOkay(s) \/ HandleClse(s) \/ Handle(s)

Spec == Init /\ [][Next]_vars

\* The device handles what it has got; the host acknowledges what it reads.
Fairness == \A s \in Streams : WF_vars(Handle(s)) /\ WF_vars(HandleOkay(s))

FairSpec == Spec /\ Fairness

-----------------------------------------------------------------------------
(* Properties.                                                             *)

FileBytes == (Streams \cup {"old", "zero"}) \X Nat
Reasons == {"none", "invalid sync request", "invalid sync frame during send", "cannot open",
            "cannot create", "cannot set permissions", "read error", "write error"}
Answers == [id : {"STAT", "DATA", "DONE", "OKAY", "FAIL"}, why : Reasons, data : Seq(FileBytes)]
Receivers == [st : {"Header", "PartialHeader", "Data"}, left : Seq(FileBytes),
              remaining : Nat, path : Paths, file : Nat, off : Nat]

\* The state has the shape the code's types give it.
TypeOK ==
  /\ items \in Scripts
  /\ sent \in [Streams -> Nat] /\ acked \in [Streams -> Nat]
  /\ cur \in [on : Streams \cup {"none"}, pos : Nat, hi : Nat, leftover : BOOLEAN]
  /\ state \in [Streams -> {"Idle", "Sending", "Receiving", "Closed"}]
  /\ receiver \in [Streams -> Receivers]
  /\ sender \in [Streams -> [file : Nat, off : Nat, done : BOOLEAN]]
  /\ waiting \in [Streams -> BOOLEAN]
  /\ answers \in [Streams -> Seq(Answers)]
  /\ dir \in [Paths -> Nat] /\ files \in Seq(Seq(FileBytes))

InReceive(s) == state[s] = "Receiving" \/ (cur.on = s /\ cur.leftover)
NextByte(s) == IF cur.on = s THEN cur.pos ELSE sent[s]
ItemsOf(s) == {items[s][k] : k \in DOMAIN items[s]}

\* However the host cuts the stream into WRTEs, the receiver knows where it
\* is: between two items, inside a header of which it has kept the bytes, or
\* as far before the end of a DATA frame as remaining says.
InSync ==
  \A s \in Streams :
    InReceive(s) =>
      LET r == receiver[s]
      IN \/ /\ r.st = "Header" /\ r.left = << >>
            /\ \E i \in ItemsOf(s) : i.kind \in {"SEND", "DATA"} /\ NextByte(s) = After(i)
         \/ /\ r.st = "PartialHeader"
            /\ Len(r.left) < HeaderSize
            /\ \E i \in ItemsOf(s) :
                 /\ i.kind \in {"SEND", "DATA"}
                 /\ r.left = Bytes(s, After(i), Len(r.left))
                 /\ NextByte(s) = After(i) + Len(r.left)
         \/ /\ r.st = "Data" /\ r.left = << >>
            /\ \E i \in ItemsOf(s) : /\ i.kind = "DATA" /\ r.remaining <= i.len
                                     /\ NextByte(s) + r.remaining = After(i)

\* A request that opens a push is followed by its frames, up to a DONE.
Compliant(q) ==
  \A k \in DOMAIN q : q[k].kind \in {"SEND", "DATA"} =>
    k + 1 \in DOMAIN q /\ q[k + 1].kind \in Frames

\* The requests of which bytes are sent, and the answers that end one.
Begun(s) == {k \in DOMAIN items[s] :
               /\ items[s][k].kind \in Requests \ {"QUIT"} /\ items[s][k].at < sent[s]}

AnswersTo(kind) == CASE kind = "STAT" -> {"STAT"} [] kind = "RECV" -> {"DONE", "FAIL"}
                     [] kind = "SEND" -> {"OKAY", "FAIL"} [] OTHER -> {"FAIL"}

\* Each of the requests K has an answer that ends it, in their order, and no
\* other request has one.
Settled(s, K) ==
  \E g \in [K -> DOMAIN answers[s]] :
    /\ \A j, k \in K : j < k => g[j] < g[k]
    /\ \A k \in K : answers[s][g[k]].id \in AnswersTo(items[s][k].kind)
    /\ \A n \in DOMAIN answers[s] : answers[s][n].id # "DATA" => \E k \in K : g[k] = n

\* When the host has sent whole exchanges and read what came back, it has
\* got one answer for each of them, in their order ("DONE(mtime) -> OKAY"
\* and the other lines of the module's documentation).
AnsweredOnce ==
  cur.on = "none" =>
    \A s \in Streams :
      Compliant(items[s]) /\ HasRead(s) /\ ~InPush(s) /\ state[s] # "Closed"
        => Settled(s, Begun(s))

\* The positions of the bytes of the push that DONE, at k, ends, and where
\* it was to go.
PushOf(s, k) == CHOOSE j \in 1..k : /\ items[s][j].kind = "SEND"
                                    /\ \A m \in (j + 1)..k : items[s][m].kind # "SEND"
Pushed(s, k) == UNION {{<<s, p>> : p \in (items[s][m].at + HeaderSize)..(After(items[s][m]) - 1)} :
                         m \in (PushOf(s, k) + 1)..(k - 1)}

\* What is at the path of the push that has just been sent is its bytes, all
\* of them, once and in order.
Stored(s) ==
  \A k \in DOMAIN items[s] :
    items[s][k].kind = "DONE" /\ sent[s] = After(items[s][k]) =>
      LET f == dir[items[s][PushOf(s, k)].path]
      IN /\ f # 0
         /\ {files[f][n] : n \in DOMAIN files[f]} = Pushed(s, k)
         /\ \A n \in 1..(Len(files[f]) - 1) : files[f][n][2] < files[f][n + 1][2]

\* OKAY is answered when the file the host named holds what it pushed
\* ("DATA(chunk)* -> (written to file)", "DONE(mtime) -> OKAY").
OkayMeansStored ==
  [][\A s \in Streams :
       answers'[s] # answers[s] /\ answers'[s][Len(answers'[s])].id = "OKAY" => Stored(s)']_vars

\* The answers from one on to the last but one are frames of a pull: the file f
\* cut at the offsets o.
CutsInto(s, from, o, f) ==
  /\ o[from] = 0
  /\ \A m \in from..(Len(answers[s]) - 1) :
       /\ answers[s][m].id = "DATA" /\ o[m] < o[m + 1]
       /\ answers[s][m].data = SubSeq(f, o[m] + 1, o[m + 1])

\* Answer n is not one of the frames of a pull that goes on.
Before(s, n) == n = 0 \/ answers[s][n].id # "DATA"

\* DONE ends a pull that has delivered every byte of the file once and in
\* order (FileSender::next_frame).
PullIsWhole ==
  \A s \in Streams :
    state[s] = "Sending" /\ sender[s].done /\ answers[s][Len(answers[s])].id = "DONE" =>
      LET n == Len(answers[s])
          f == files[sender[s].file]
      IN \E from \in 1..n : \E o \in [from..n -> 0..Len(f)] :
           Before(s, from - 1) /\ CutsInto(s, from, o, f) /\ o[n] = Len(f)

\* A WRTE of a pull is no longer than the protocol version allows.
PayloadFits ==
  \A s \in Streams : \A n \in DOMAIN answers[s] :
    HeaderSize + Len(answers[s][n].data) <= MaxPayload

\* receive() comes to its end, whatever frames it is given.
HandlerReturns == cur.on # "none" ~> cur.on = "none"

\* A file that is pulled is sent to its end.
PullEnds == \A s \in Streams : state[s] = "Sending" ~> state[s] # "Sending"
=============================================================================
