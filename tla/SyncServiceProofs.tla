------------------------- MODULE SyncServiceProofs -------------------------
(***************************************************************************)
(* Proofs about the sync: service (module SyncService), for any number of  *)
(* streams, any sessions of items, sizes of headers and chunks, and any    *)
(* way a host cuts its bytes into WRTEs.                                   *)
(***************************************************************************)
EXTENDS SyncService, SequenceTheorems, WellFoundedInduction, TLAPS

-----------------------------------------------------------------------------
(* Bytes and items.                                                        *)

\* A stretch of the stream: as many bytes as asked for, numbered on.
LEMMA BytesAre ==
  ASSUME NEW s \in Streams, NEW lo \in Nat, NEW n \in Nat
  PROVE  /\ Bytes(s, lo, n) \in Seq(FileBytes) /\ Len(Bytes(s, lo, n)) = n
         /\ \A i \in 1..n : Bytes(s, lo, n)[i] = <<s, lo + i - 1>>
<1>1. \A i \in 1..n : <<s, lo + i - 1>> \in FileBytes
  BY DEF FileBytes
<1>2. Bytes(s, lo, n) \in [1..n -> FileBytes]
  BY <1>1 DEF Bytes
<1> QED
  BY <1>2 DEF Bytes

\* A stretch that follows another makes one stretch with it.
LEMMA BytesJoin ==
  ASSUME NEW s \in Streams, NEW lo \in Nat, NEW n \in Nat, NEW m \in Nat
  PROVE  Bytes(s, lo, n) \o Bytes(s, lo + n, m) = Bytes(s, lo, n + m)
<1> DEFINE a == Bytes(s, lo, n)
           b == Bytes(s, lo + n, m)
           c == Bytes(s, lo, n + m)
<1>1. lo + n \in Nat /\ n + m \in Nat
  OBVIOUS
<1>2. /\ a \in Seq(FileBytes) /\ Len(a) = n /\ \A i \in 1..n : a[i] = <<s, lo + i - 1>>
      /\ b \in Seq(FileBytes) /\ Len(b) = m /\ \A i \in 1..m : b[i] = <<s, lo + n + i - 1>>
      /\ c \in Seq(FileBytes) /\ Len(c) = n + m
      /\ \A i \in 1..(n + m) : c[i] = <<s, lo + i - 1>>
  BY <1>1, BytesAre
<1> HIDE DEF a, b, c
<1>3. /\ a \o b \in Seq(FileBytes) /\ Len(a \o b) = Len(a) + Len(b)
      /\ \A i \in 1..(Len(a) + Len(b)) :
           (a \o b)[i] = IF i <= Len(a) THEN a[i] ELSE b[i - Len(a)]
  BY <1>2, ConcatProperties
<1>4. ASSUME NEW i \in 1..(n + m)
      PROVE  (a \o b)[i] = c[i]
  <2>1. CASE i <= n
    <3>1. i \in 1..n
      BY <2>1
    <3>2. (a \o b)[i] = a[i]
      BY <1>2, <1>3, <2>1
    <3> QED BY <3>1, <3>2, <1>2
  <2>2. CASE ~(i <= n)
    <3>1. i - n \in 1..m /\ lo + n + (i - n) - 1 = lo + i - 1
      BY <2>2
    <3>2. (a \o b)[i] = b[i - n]
      BY <1>2, <1>3, <2>2
    <3>3. b[i - n] = <<s, lo + n + (i - n) - 1>>
      BY <3>1, <1>2
    <3>4. c[i] = <<s, lo + i - 1>>
      BY <1>2
    <3> QED BY <3>1, <3>2, <3>3, <3>4
  <2> QED BY <2>1, <2>2
<1>5. a \o b = c
  <2>1. Len(a \o b) = Len(c) /\ \A i \in 1..Len(a \o b) : (a \o b)[i] = c[i]
    BY <1>2, <1>3, <1>4
  <2> QED BY <2>1, <1>2, <1>3, SeqEqual
<1> QED
  BY <1>5 DEF a, b, c

\* A stretch that is not empty tells where it begins.
LEMMA BytesBegin ==
  ASSUME NEW s \in Streams, NEW a \in Nat, NEW b \in Nat, NEW n \in Nat \ {0},
         Bytes(s, a, n) = Bytes(s, b, n)
  PROVE  a = b
<1>1. 1 \in 1..n /\ a + 1 - 1 = a /\ b + 1 - 1 = b
  OBVIOUS
<1>2. Bytes(s, a, n)[1] = <<s, a + 1 - 1>> /\ Bytes(s, b, n)[1] = <<s, b + 1 - 1>>
  BY <1>1, BytesAre
<1>3. <<s, a>> = <<s, b>>
  BY <1>1, <1>2
<1> QED
  BY <1>3

\* The items of a stream have the fields of an item.
LEMMA ItemsTyped ==
  ASSUME TypeOK, NEW s \in Streams
  PROVE  /\ items[s] \in Seq(Items) /\ ItemsOf(s) \subseteq Items
         /\ \A i \in ItemsOf(s) : /\ i.at \in Nat /\ i.len \in Nat /\ After(i) \in Nat
                                  /\ After(i) = i.at + HeaderSize + i.len
                                  /\ i.path \in Paths
<1>1. items[s] \in Seq(Items)
  BY SessionAssumption DEF TypeOK
<1>2. ItemsOf(s) \subseteq Items
  BY <1>1 DEF ItemsOf
<1>3. \A i \in Items : /\ i.at \in Nat /\ i.len \in Nat /\ After(i) \in Nat
                       /\ After(i) = i.at + HeaderSize + i.len
                       /\ i.path \in Paths
  BY SyncAssumption DEF Items, After
<1> QED
  BY <1>1, <1>2, <1>3

\* An item is found exactly where it begins.
LEMMA ItemAtBegins ==
  ASSUME TypeOK, NEW s \in Streams, NEW lo \in Nat, NEW n \in Nat \ {0},
         NEW i \in ItemAt(s, Bytes(s, lo, n))
  PROVE  i \in ItemsOf(s) /\ i.at = lo
<1>1. Len(Bytes(s, lo, n)) = n
  BY BytesAre
<1>2. i \in ItemsOf(s) /\ Bytes(s, lo, n) = Bytes(s, i.at, n)
  BY <1>1 DEF ItemAt, ItemsOf
<1>3. i.at \in Nat
  BY <1>2, ItemsTyped
<1> QED
  BY <1>2, <1>3, BytesBegin

\* The path of a push is the first part of the one that is named.
LEMMA SendPathTyped ==
  ASSUME NEW i \in Items
  PROVE  SendPath(i) \in Paths
<1> DEFINE p == i.path
<1>1. p \in Paths /\ p \in Seq(STRING) /\ p # << >> /\ <<p[1]>> \in Paths
  BY SyncAssumption DEF Items
<1>2. p \in Seq(STRING \cup {Mode}) /\ Len(p) >= 1
  BY <1>1
<1>3. Append(p, Mode)[1] = p[1]
  <2> HIDE DEF p
  <2> QED BY <1>2
<1> QED
  BY <1>1, <1>3 DEF SendPath, SendBody

-----------------------------------------------------------------------------
(* The inductive invariant.                                                *)

\* The WRTE being handled is the last that was sent; a push begun in it is
\* one of a session that was not Receiving.
CurOK == /\ cur.on = "none" => cur = Free
         /\ cur.on # "none" => sent[cur.on] = cur.hi /\ cur.pos <= cur.hi
         /\ cur.on # "none" /\ cur.leftover => state[cur.on] # "Receiving"

\* What is at a path is a file, and so is what is being sent.
FilesOK == /\ \A p \in Paths : dir[p] <= Len(files)
           /\ \A s \in Streams : state[s] = "Sending" => sender[s].file \in 1..Len(files)

\* InSync, of one stream.
Synced(s) ==
  LET r == receiver[s]
  IN \/ /\ r.st = "Header" /\ r.left = << >>
        /\ \E i \in ItemsOf(s) : i.kind \in {"SEND", "DATA"} /\ NextByte(s) = After(i)
     \/ /\ r.st = "PartialHeader"
        /\ Len(r.left) < HeaderSize
        /\ \E i \in ItemsOf(s) :
             /\ i.kind \in {"SEND", "DATA"}
             /\ r.left = Bytes(s, After(i), Len(r.left))
             /\ NextByte(s) = After(i) + Len(r.left)
     \/ /\ r.st = "Data" /\ r.left = << >>
        /\ \E i \in ItemsOf(s) : /\ i.kind = "DATA" /\ r.remaining <= i.len
                                 /\ NextByte(s) + r.remaining = After(i)

Inv == TypeOK /\ CurOK /\ FilesOK /\ InSync

\* A stream on which nothing happens stays in step.
LEMMA OthersSynced ==
  ASSUME NEW t \in Streams, InReceive(t) => Synced(t),
         items' = items, state'[t] = state[t] \/ state'[t] # "Receiving",
         receiver'[t] = receiver[t], sent'[t] = sent[t],
         cur.on # t, cur'.on # t
  PROVE  (InReceive(t) => Synced(t))'
<1>1. InReceive(t)' => InReceive(t)
  BY DEF InReceive
<1>2. NextByte(t)' = NextByte(t) /\ ItemsOf(t)' = ItemsOf(t)
  BY DEF NextByte, ItemsOf
<1> QED
  BY <1>1, <1>2 DEF Synced

\* Nothing has arrived.
LEMMA InitInv == Init => Inv
<1> SUFFICES ASSUME Init PROVE Inv
  OBVIOUS
<1>1. NoPath \in Paths
  BY SyncAssumption DEF NoPath
<1>2. NewReceiver(NoPath, 0) \in Receivers
  BY <1>1 DEF NewReceiver, Receivers
<1>3. files \in Seq(Seq(FileBytes)) /\ (OldFiles # {} => Len(files) = 1)
  <2>1. CASE OldFiles = {}
    BY <2>1 DEF Init
  <2>2. CASE OldFiles # {}
    <3>1. \A i \in 1..OldSize : <<"old", 0 + i - 1>> \in FileBytes
      BY SyncAssumption DEF FileBytes
    <3>2. Bytes("old", 0, OldSize) \in [1..OldSize -> FileBytes]
      BY <3>1 DEF Bytes
    <3>3. Bytes("old", 0, OldSize) \in Seq(FileBytes)
      BY <3>2, SyncAssumption
    <3> QED BY <3>3, <2>2 DEF Init
  <2> QED BY <2>1, <2>2
<1>4. TypeOK
  <2>1. receiver \in [Streams -> Receivers]
    BY <1>2 DEF Init
  <2>2. cur \in [on : Streams \cup {"none"}, pos : Nat, hi : Nat, leftover : BOOLEAN]
    BY DEF Init, Free
  <2>3. sender \in [Streams -> [file : Nat, off : Nat, done : BOOLEAN]]
    BY DEF Init, NewSender
  <2>4. answers \in [Streams -> Seq(Answers)]
    BY DEF Init
  <2>5. waiting \in [Streams -> BOOLEAN]
    BY DEF Init
  <2>6. dir \in [Paths -> Nat]
    BY DEF Init
  <2> QED BY <1>3, <2>1, <2>2, <2>3, <2>4, <2>5, <2>6 DEF Init, TypeOK
<1>5. CurOK
  BY DEF Init, CurOK, Free
<1>6. FilesOK
  BY <1>3 DEF Init, FilesOK
<1>7. InSync
  BY DEF Init, InSync, InReceive, Free
<1> QED
  BY <1>4, <1>5, <1>6, <1>7 DEF Inv

-----------------------------------------------------------------------------
(* Answers.                                                                *)

\* The answers that have no data.
LEMMA PlainAnswers ==
  ASSUME NEW id \in {"STAT", "DATA", "DONE", "OKAY", "FAIL"}, NEW why \in Reasons
  PROVE  /\ Answer(id, why, << >>) \in Answers
         /\ Fail(why) \in Answers
         /\ Answer(id, why, << >>).id = id
  BY SyncAssumption DEF Answer, Fail, Answers

\* The answers that have.
LEMMA DataAnswer ==
  ASSUME NEW d \in Seq(FileBytes)
  PROVE  Answer("DATA", "none", d) \in Answers
  BY DEF Answer, Answers, Reasons

\* submit_wrte_sync adds one answer.
LEMMA ReplyKeeps ==
  ASSUME TypeOK, NEW s \in Streams, NEW a \in Answers,
         Reply(s, a)
  PROVE  answers' \in [Streams -> Seq(Answers)]
<1>1. answers \in [Streams -> Seq(Answers)]
  BY DEF TypeOK
<1>2. answers' = [answers EXCEPT ![s] = Append(answers[s], a)]
  BY DEF Reply
<1> DEFINE q == answers[s]
<1>3. q \in Seq(Answers) /\ Append(q, a) \in Seq(Answers)
  BY <1>1
<1> QED
  BY <1>1, <1>2, <1>3

\* FileSender::next_frame: a frame with bytes of the file, or DONE.
LEMMA NextFrameTyped ==
  ASSUME TypeOK, NEW snd \in [file : Nat, off : Nat, done : BOOLEAN],
         snd.file \in 1..Len(files)
  PROVE  NextFrame(snd) \in Answers
<1> DEFINE f == files[snd.file]
           o == snd.off
           rest == IF Len(f) > o THEN Len(f) - o ELSE 0
           n == IF rest < Chunk THEN rest ELSE Chunk
<1>1. f \in Seq(FileBytes) /\ o \in Nat /\ Chunk \in Nat /\ Len(f) \in Nat
  BY SyncAssumption DEF TypeOK
<1>2. NextFrame(snd) = IF n = 0 THEN Answer("DONE", "none", << >>)
                       ELSE Answer("DATA", "none", SubSeq(f, o + 1, o + n))
  BY DEF NextFrame
<1>3. CASE n = 0
  <2>1. NextFrame(snd) = Answer("DONE", "none", << >>)
    BY <1>2, <1>3
  <2>2. "none" \in Reasons /\ "DONE" \in {"STAT", "DATA", "DONE", "OKAY", "FAIL"}
    BY DEF Reasons
  <2>3. /\ Answer("DONE", "none", << >>) \in Answers
    BY <2>2, PlainAnswers
  <2> HIDE DEF n
  <2> QED BY <2>1, <2>3
<1>4. CASE n # 0
  <2>1. rest \in Nat /\ n \in Nat /\ n <= Chunk /\ o + n <= Len(f)
    <3> HIDE DEF f, o
    <3> QED BY <1>1, <1>4
  <2> HIDE DEF f, o, n, rest
  <2>2. SubSeq(f, o + 1, o + n) \in Seq(FileBytes) /\ Len(SubSeq(f, o + 1, o + n)) = n
    <3>1. o + 1 \in 1..(Len(f) + 1) /\ o + n \in o..Len(f)
      BY <1>1, <2>1
    <3>2. \A i \in (o + 1)..(o + n) : f[i] \in FileBytes
      BY <1>1, <2>1
    <3> QED BY <1>1, <2>1, <3>1, <3>2, SubSeqProperties
  <2>3. Answer("DATA", "none", SubSeq(f, o + 1, o + n)) \in Answers
    BY <2>2, DataAnswer
  <2> QED BY <1>2, <1>4, <2>3
<1> QED
  BY <1>3, <1>4

Senders == [file : Nat, off : Nat, done : BOOLEAN]

\* maybe_submit_wrte_sync sends a frame, or ends the transfer.
LEMMA ContinueKeeps ==
  ASSUME TypeOK, NEW s \in Streams, NEW snd \in Senders,
         snd.file \in 1..Len(files), Continue(s, snd)
  PROVE  /\ answers' \in [Streams -> Seq(Answers)]
         /\ waiting' \in [Streams -> BOOLEAN]
         /\ \E st \in {"Idle", "Sending"} : state' = [state EXCEPT ![s] = st]
         /\ \E r \in Senders : r.file = snd.file /\ sender' = [sender EXCEPT ![s] = r]
<1>1. waiting \in [Streams -> BOOLEAN]
  BY Zenon DEF TypeOK
<1>2. CASE snd.done
  <2>1. /\ state' = [state EXCEPT ![s] = "Idle"] /\ sender' = [sender EXCEPT ![s] = snd]
        /\ waiting' = [waiting EXCEPT ![s] = FALSE] /\ answers' = answers
    BY <1>2 DEF Continue
  <2>2. waiting' \in [Streams -> BOOLEAN]
    BY <1>1, <2>1
  <2>3. answers' \in [Streams -> Seq(Answers)]
    BY <2>1 DEF TypeOK
  <2> QED BY <2>1, <2>2, <2>3
<1>3. CASE ~snd.done
  <2>1. Fail("read error") \in Answers
    <3>1. "read error" \in Reasons
      BY DEF Reasons
    <3> QED BY <3>1, PlainAnswers
  <2>2. PICK f \in Answers :
          /\ Reply(s, f)
          /\ state' = [state EXCEPT ![s] = "Sending"]
          /\ sender' = [sender EXCEPT ![s] = [snd EXCEPT !.off = @ + Len(f.data),
                                                       !.done = f.id # "DATA"]]
          /\ waiting' = [waiting EXCEPT ![s] = TRUE]
    <3>1. NextFrame(snd) \in Answers
      BY NextFrameTyped DEF Senders
    <3> QED BY <1>3, <2>1, <3>1 DEF Continue
  <2>3. answers' \in [Streams -> Seq(Answers)]
    BY <2>2, ReplyKeeps
  <2>4. Len(f.data) \in Nat
    <3>1. f.data \in Seq(FileBytes)
      BY <2>2 DEF Answers
    <3> QED BY <3>1, LenProperties
  <2>4b. snd.off + Len(f.data) \in Nat
    <3>1. snd.off \in Nat
      BY DEF Senders
    <3> QED BY <2>4, <3>1
  <2> DEFINE r == [snd EXCEPT !.off = @ + Len(f.data), !.done = f.id # "DATA"]
  <2>5. r \in Senders /\ r.file = snd.file
    <3>3. CASE f.id = "DATA"
      <4>1. r = [snd EXCEPT !.off = @ + Len(f.data), !.done = FALSE]
        BY <3>3
      <4> QED BY <2>4b, <4>1 DEF Senders
    <3>4. CASE f.id # "DATA"
      <4>1. r = [snd EXCEPT !.off = @ + Len(f.data), !.done = TRUE]
        BY <3>4
      <4> QED BY <2>4b, <4>1 DEF Senders
    <3> QED BY <3>3, <3>4
  <2>6. waiting' \in [Streams -> BOOLEAN]
    BY <1>1, <2>2
  <2> QED BY <2>2, <2>3, <2>5, <2>6
<1> QED
  BY <1>2, <1>3

-----------------------------------------------------------------------------
(* The steps between two WRTEs.                                            *)

\* A WRTE that arrives keeps Inv.
LEMMA WrteKeeps ==
  ASSUME Inv, NEW s \in Streams, NEW h \in Nat, Wrte(s, h)
  PROVE  Inv'
<1>1. /\ cur = Free /\ sent[s] < h
      /\ cur' = [on |-> s, pos |-> sent[s], hi |-> h, leftover |-> FALSE]
      /\ sent' = [sent EXCEPT ![s] = h]
      /\ UNCHANGED <<items, acked, state, receiver, sender, waiting, answers, dir, files>>
  BY DEF Wrte, fsVars
<1>2. sent[s] \in Nat /\ sent \in [Streams -> Nat]
  BY DEF Inv, TypeOK
<1>3. TypeOK'
  <2>1. sent' \in [Streams -> Nat]
    BY <1>1, <1>2
  <2>2. cur' \in [on : Streams \cup {"none"}, pos : Nat, hi : Nat, leftover : BOOLEAN]
    BY <1>1, <1>2
  <2> QED BY <1>1, <2>1, <2>2 DEF Inv, TypeOK
<1>4. CurOK'
  BY <1>1, <1>2, SyncAssumption DEF CurOK
<1>5. FilesOK'
  BY <1>1 DEF Inv, FilesOK
<1>6. ASSUME NEW t \in Streams, InReceive(t)'
      PROVE  Synced(t)'
  <2>1. InReceive(t)
    BY <1>1, <1>6 DEF InReceive
  <2>2. Synced(t)
    BY <2>1 DEF Inv, InSync, Synced
  <2>3. NextByte(t)' = NextByte(t)
    <3>1. cur.on # t
      BY <1>1, SyncAssumption DEF Free
    <3> QED BY <1>1, <1>2, <3>1 DEF NextByte
  <2>4. ItemsOf(t)' = ItemsOf(t)
    BY <1>1 DEF ItemsOf
  <2> QED BY <1>1, <2>2, <2>3, <2>4 DEF Synced
<1>7. InSync'
  BY <1>6 DEF InSync, Synced
<1> QED
  BY <1>3, <1>4, <1>5, <1>7 DEF Inv

\* A host that stops a failed push keeps Inv.
LEMMA GiveUpKeeps ==
  ASSUME Inv, NEW s \in Streams, GiveUp(s)
  PROVE  Inv'
<1>1. PICK h \in Stops(s) : h > sent[s] /\ sent' = [sent EXCEPT ![s] = h]
  BY DEF GiveUp
<1>2. /\ cur = Free /\ state[s] # "Receiving"
      /\ UNCHANGED <<items, acked, cur, state, receiver, sender, waiting, answers, dir, files>>
  BY DEF GiveUp, fsVars
<1>3. h \in Nat
  <2>1. items[s] \in Seq(Items) /\ \A i \in ItemsOf(s) : i.at \in Nat /\ After(i) \in Nat
    BY ItemsTyped DEF Inv
  <2>2. \A k \in DOMAIN items[s] : items[s][k] \in ItemsOf(s)
    BY DEF ItemsOf
  <2>3. End(items[s]) \in Nat
    BY <2>1, <2>2 DEF End
  <2>4. h = End(items[s]) \/ \E k \in DOMAIN items[s] : h = items[s][k].at
    BY DEF Stops
  <2> QED BY <2>1, <2>2, <2>3, <2>4
<1>4. TypeOK'
  <2>1. sent' \in [Streams -> Nat]
    BY <1>1, <1>3 DEF Inv, TypeOK
  <2> QED BY <1>2, <2>1 DEF Inv, TypeOK
<1>5. CurOK' /\ FilesOK'
  BY <1>2 DEF Inv, CurOK, FilesOK, Free
<1>6. ASSUME NEW t \in Streams
      PROVE  (InReceive(t) => Synced(t))'
  <2>1. cur.on # t /\ cur'.on # t /\ ~cur'.leftover
    BY <1>2, SyncAssumption DEF Free
  <2>2. CASE t = s
    BY <1>2, <2>1, <2>2 DEF InReceive
  <2>3. CASE t # s
    <3>1. sent'[t] = sent[t]
      BY <1>1, <2>3 DEF Inv, TypeOK
    <3>2. InReceive(t) => Synced(t)
      BY DEF Inv, InSync, Synced
    <3> QED BY <1>2, <2>1, <3>1, <3>2, OthersSynced
  <2> QED BY <2>2, <2>3
<1>7. InSync'
  BY <1>6 DEF InSync, Synced
<1> QED
  BY <1>4, <1>5, <1>7 DEF Inv

\* An OKAY, which may send the next frame of a pull, keeps Inv.
LEMMA OkayKeeps ==
  ASSUME Inv, NEW s \in Streams, HandleOkay(s)
  PROVE  Inv'
<1>1. /\ cur = Free /\ acked' = [acked EXCEPT ![s] = @ + 1]
      /\ UNCHANGED <<items, sent, cur, receiver, dir, files>>
  BY DEF HandleOkay, fsVars
<1>2. /\ answers' \in [Streams -> Seq(Answers)]
      /\ waiting' \in [Streams -> BOOLEAN]
      /\ \E st : st \in {"Idle", "Sending", state[s]} /\ (st = "Sending" => state[s] = "Sending")
                /\ (st = "Receiving" => state[s] = "Receiving")
                /\ state' = [state EXCEPT ![s] = st]
      /\ \E r \in Senders : r.file = sender[s].file /\ sender' = [sender EXCEPT ![s] = r]
  <2>1. sender[s] \in Senders
    BY DEF Inv, TypeOK, Senders
  <2>2. CASE state[s] = "Sending"
    <3>1. sender[s].file \in 1..Len(files) /\ Continue(s, sender[s])
      BY <2>2 DEF HandleOkay, Inv, FilesOK
    <3>2. /\ answers' \in [Streams -> Seq(Answers)]
          /\ waiting' \in [Streams -> BOOLEAN]
          /\ \E st \in {"Idle", "Sending"} : state' = [state EXCEPT ![s] = st]
          /\ \E r \in Senders : r.file = sender[s].file /\ sender' = [sender EXCEPT ![s] = r]
      BY <3>1, <2>1, ContinueKeeps DEF Inv
    <3> QED BY <2>2, <3>2
  <2>3. CASE state[s] # "Sending"
    <3>1. waiting' = [waiting EXCEPT ![s] = FALSE] /\ UNCHANGED <<state, sender, answers>>
      BY <2>3 DEF HandleOkay
    <3>2. waiting \in [Streams -> BOOLEAN]
      BY Zenon DEF Inv, TypeOK
    <3>3. waiting' \in [Streams -> BOOLEAN]
      BY <3>1, <3>2
    <3>4. answers' \in [Streams -> Seq(Answers)]
      BY <3>1 DEF Inv, TypeOK
    <3>5. state' = [state EXCEPT ![s] = state[s]] /\ sender' = [sender EXCEPT ![s] = sender[s]]
      BY <3>1 DEF Inv, TypeOK
    <3> QED BY <2>1, <2>3, <3>3, <3>4, <3>5
  <2> QED BY <2>2, <2>3
<1>3. PICK st : /\ st \in {"Idle", "Sending", state[s]} /\ (st = "Sending" => state[s] = "Sending")
                /\ (st = "Receiving" => state[s] = "Receiving")
                /\ state' = [state EXCEPT ![s] = st]
  BY <1>2
<1>4. PICK r \in Senders : r.file = sender[s].file /\ sender' = [sender EXCEPT ![s] = r]
  BY <1>2
<1>5. TypeOK'
  <2>1. acked' \in [Streams -> Nat]
    BY <1>1 DEF Inv, TypeOK
  <2>2. state' \in [Streams -> {"Idle", "Sending", "Receiving", "Closed"}]
    BY <1>3 DEF Inv, TypeOK
  <2>3. sender' \in [Streams -> Senders]
    BY <1>4 DEF Inv, TypeOK, Senders
  <2> QED BY <1>1, <1>2, <2>1, <2>2, <2>3 DEF Inv, TypeOK, Senders
<1>6. CurOK'
  BY <1>1 DEF CurOK, Free
<1>7. FilesOK'
  <2>1. ASSUME NEW t \in Streams, state'[t] = "Sending"
        PROVE  sender'[t].file \in 1..Len(files)
    BY <1>3, <1>4, <2>1 DEF Inv, TypeOK, FilesOK
  <2> QED BY <1>1, <2>1 DEF Inv, FilesOK
<1>8. ASSUME NEW t \in Streams
      PROVE  (InReceive(t) => Synced(t))'
  <2>1. cur.on # t /\ cur'.on # t
    BY <1>1, SyncAssumption DEF Free
  <2>2. state'[t] = state[t] \/ state'[t] # "Receiving"
    BY <1>3 DEF Inv, TypeOK
  <2>3. InReceive(t) => Synced(t)
    BY DEF Inv, InSync, Synced
  <2>4. receiver'[t] = receiver[t] /\ sent'[t] = sent[t]
    BY <1>1
  <2> QED BY <1>1, <2>1, <2>2, <2>3, <2>4, OthersSynced
<1>9. InSync'
  BY <1>8 DEF InSync, Synced
<1> QED
  BY <1>2, <1>5, <1>6, <1>7, <1>9 DEF Inv

\* A CLSE, which drops the session, keeps Inv.
LEMMA ClseKeeps ==
  ASSUME Inv, NEW s \in Streams, HandleClse(s)
  PROVE  Inv'
<1>1. /\ cur = Free /\ state' = [state EXCEPT ![s] = "Closed"]
      /\ UNCHANGED <<items, sent, acked, cur, receiver, sender, waiting, answers, dir, files>>
  BY DEF HandleClse, hostVars, fsVars
<1>2. TypeOK'
  <2>1. state' \in [Streams -> {"Idle", "Sending", "Receiving", "Closed"}]
    BY <1>1 DEF Inv, TypeOK
  <2> QED BY <1>1, <2>1 DEF Inv, TypeOK
<1>3. CurOK' /\ FilesOK'
  BY <1>1 DEF Inv, TypeOK, CurOK, FilesOK, Free
<1>4. ASSUME NEW t \in Streams
      PROVE  (InReceive(t) => Synced(t))'
  <2>1. cur.on # t /\ cur'.on # t
    BY <1>1, SyncAssumption DEF Free
  <2>2. state'[t] = state[t] \/ state'[t] # "Receiving"
    BY <1>1 DEF Inv, TypeOK
  <2>3. InReceive(t) => Synced(t)
    BY DEF Inv, InSync, Synced
  <2> QED BY <1>1, <2>1, <2>2, <2>3, OthersSynced
<1>5. InSync'
  BY <1>4 DEF InSync, Synced
<1> QED
  BY <1>2, <1>3, <1>5 DEF Inv

-----------------------------------------------------------------------------
(* Requests.                                                               *)

\* handle() returns and the session is not Receiving.
LEMMA ReturnsIdle ==
  ASSUME Inv, NEW s \in Streams, cur.on = s, Return, state'[s] # "Receiving",
         items' = items, sent' = sent,
         \A t \in Streams \ {s} : state'[t] = state[t] /\ receiver'[t] = receiver[t]
  PROVE  CurOK' /\ InSync'
<1>1. cur' = Free
  BY DEF Return
<1>2. CurOK'
  BY <1>1 DEF CurOK, Free
<1>3. ASSUME NEW t \in Streams
      PROVE  (InReceive(t) => Synced(t))'
  <2>1. cur'.on # t /\ ~cur'.leftover
    BY <1>1, SyncAssumption DEF Free
  <2>2. CASE t = s
    BY <2>1, <2>2 DEF InReceive
  <2>3. CASE t # s
    <3>1. InReceive(t) => Synced(t)
      BY DEF Inv, InSync, Synced
    <3>2. cur.on # t /\ state'[t] = state[t] /\ receiver'[t] = receiver[t] /\ sent'[t] = sent[t]
      BY <2>3
    <3> QED BY <2>1, <3>1, <3>2, OthersSynced
  <2> QED BY <2>2, <2>3
<1> QED
  BY <1>2, <1>3 DEF InSync, Synced

\* A request that is not known, and STAT: one answer.
LEMMA AnsweredKeeps ==
  ASSUME Inv, NEW s \in Streams, InvalidRequest(s) \/ HandleLstat(s)
  PROVE  Inv'
<1>1. /\ cur.on = s /\ state[s] # "Receiving" /\ Return
      /\ UNCHANGED <<items, sent, acked, state, receiver, sender, waiting, dir, files>>
  BY DEF InvalidRequest, HandleLstat, Handling, hostVars, fsVars
<1>2. PICK a \in Answers : Reply(s, a)
  <2>1. "invalid sync request" \in Reasons /\ "none" \in Reasons
    BY DEF Reasons
  <2>2. /\ Fail("invalid sync request") \in Answers
        /\ Answer("STAT", "none", << >>) \in Answers
    BY <2>1, PlainAnswers
  <2> QED BY <2>2 DEF InvalidRequest, HandleLstat
<1>3. answers' \in [Streams -> Seq(Answers)]
  BY <1>2, ReplyKeeps DEF Inv
<1>4. CurOK' /\ InSync'
  BY <1>1, ReturnsIdle
<1>5. TypeOK'
  <2>1. cur' \in [on : Streams \cup {"none"}, pos : Nat, hi : Nat, leftover : BOOLEAN]
    BY <1>1 DEF Return, Free
  <2> QED BY <1>1, <1>3, <2>1 DEF Inv, TypeOK
<1>6. FilesOK'
  BY <1>1 DEF Inv, FilesOK
<1> QED
  BY <1>3, <1>4, <1>5, <1>6 DEF Inv

\* A QUIT, which closes the session, keeps Inv.
LEMMA QuitKeeps ==
  ASSUME Inv, NEW s \in Streams, HandleQuit(s)
  PROVE  Inv'
<1>1. /\ cur.on = s /\ state' = [state EXCEPT ![s] = "Closed"] /\ Return
      /\ UNCHANGED <<items, sent, acked, receiver, sender, waiting, answers, dir, files>>
  BY DEF HandleQuit, Handling, hostVars, fsVars
<1>2. state'[s] = "Closed" /\ \A t \in Streams \ {s} : state'[t] = state[t]
  BY <1>1 DEF Inv, TypeOK
<1>3. CurOK' /\ InSync'
  BY <1>1, <1>2, ReturnsIdle
<1>4. TypeOK'
  <2>1. cur' \in [on : Streams \cup {"none"}, pos : Nat, hi : Nat, leftover : BOOLEAN]
    BY <1>1 DEF Return, Free
  <2>2. state' \in [Streams -> {"Idle", "Sending", "Receiving", "Closed"}]
    BY <1>1 DEF Inv, TypeOK
  <2> QED BY <1>1, <2>1, <2>2 DEF Inv, TypeOK
<1>5. FilesOK'
  BY <1>1, <1>2 DEF Inv, FilesOK
<1> QED
  BY <1>3, <1>4, <1>5 DEF Inv

\* RECV: FAIL, or the first frame, or the frame waits for an OKAY.
LEMMA RecvKeeps ==
  ASSUME Inv, NEW s \in Streams, HandleRecv(s)
  PROVE  Inv'
<1>1. /\ cur.on = s /\ state[s] # "Receiving" /\ Return
      /\ UNCHANGED <<items, sent, acked, receiver, dir, files>>
  BY DEF HandleRecv, Handling, hostVars, fsVars
<1>2. PICK i \in RequestsIn(s, cur.pos, cur.hi), fails \in OsFails :
        IF fails \/ dir[i.path] = 0
        THEN Reply(s, Fail("cannot open")) /\ UNCHANGED <<state, sender, waiting>>
        ELSE IF waiting[s]
        THEN /\ state' = [state EXCEPT ![s] = "Sending"]
             /\ sender' = [sender EXCEPT ![s] = NewSender(dir[i.path])]
             /\ UNCHANGED <<waiting, answers>>
        ELSE Continue(s, NewSender(dir[i.path]))
  BY DEF HandleRecv
<1> DEFINE f == dir[i.path]
<1>3. f \in Nat /\ f <= Len(files)
  <2>1. i \in ItemsOf(s)
    BY DEF RequestsIn, ItemAt, ItemsOf
  <2>2. i.path \in Paths
    BY <2>1, ItemsTyped DEF Inv
  <2> QED BY <2>2 DEF Inv, TypeOK, FilesOK
<1>4. NewSender(f) \in Senders /\ NewSender(f).file = f
  BY <1>3 DEF NewSender, Senders
<1>5. /\ answers' \in [Streams -> Seq(Answers)]
      /\ waiting' \in [Streams -> BOOLEAN]
      /\ \/ UNCHANGED <<state, sender>>
         \/ /\ \E st \in {"Idle", "Sending"} : state' = [state EXCEPT ![s] = st]
            /\ \E r \in Senders : r.file \in 1..Len(files) /\ sender' = [sender EXCEPT ![s] = r]
  <2>1. waiting \in [Streams -> BOOLEAN]
    BY Zenon DEF Inv, TypeOK
  <2>2. CASE fails \/ f = 0
    <3>1. Reply(s, Fail("cannot open")) /\ UNCHANGED <<state, sender, waiting>>
      BY <1>2, <2>2
    <3>2. "cannot open" \in Reasons
      BY DEF Reasons
    <3>3. Fail("cannot open") \in Answers
      BY <3>2, PlainAnswers
    <3>4. answers' \in [Streams -> Seq(Answers)]
      BY <3>1, <3>3, ReplyKeeps DEF Inv
    <3> QED BY <2>1, <3>1, <3>4
  <2>3. ~(fails \/ f = 0) => f \in 1..Len(files)
    <3> HIDE DEF f
    <3>1. Len(files) \in Nat
      BY DEF Inv, TypeOK
    <3> QED BY <1>3, <3>1
  <2>4. CASE ~(fails \/ f = 0) /\ waiting[s]
    <3>1. /\ state' = [state EXCEPT ![s] = "Sending"]
          /\ sender' = [sender EXCEPT ![s] = NewSender(f)]
          /\ UNCHANGED <<waiting, answers>>
      BY <1>2, <2>4
    <3>2. answers' \in [Streams -> Seq(Answers)]
      BY <3>1 DEF Inv, TypeOK
    <3> QED BY <1>4, <2>1, <2>3, <2>4, <3>1, <3>2
  <2>5. CASE ~(fails \/ f = 0) /\ ~waiting[s]
    <3>1. Continue(s, NewSender(f)) /\ NewSender(f).file \in 1..Len(files)
      BY <1>2, <1>4, <2>3, <2>5
    <3>2. /\ answers' \in [Streams -> Seq(Answers)]
          /\ waiting' \in [Streams -> BOOLEAN]
          /\ \E st \in {"Idle", "Sending"} : state' = [state EXCEPT ![s] = st]
          /\ \E r \in Senders : r.file = NewSender(f).file /\ sender' = [sender EXCEPT ![s] = r]
      BY <1>4, <3>1, ContinueKeeps DEF Inv
    <3> QED BY <3>1, <3>2
  <2> QED BY <2>2, <2>4, <2>5
<1>6. /\ state' \in [Streams -> {"Idle", "Sending", "Receiving", "Closed"}]
      /\ sender' \in [Streams -> Senders]
      /\ state'[s] # "Receiving" /\ \A t \in Streams \ {s} : state'[t] = state[t]
  <2>1. CASE UNCHANGED <<state, sender>>
    BY <1>1, <2>1 DEF Inv, TypeOK, Senders
  <2>2. CASE /\ \E st \in {"Idle", "Sending"} : state' = [state EXCEPT ![s] = st]
             /\ \E r \in Senders : r.file \in 1..Len(files) /\ sender' = [sender EXCEPT ![s] = r]
    <3>1. state \in [Streams -> {"Idle", "Sending", "Receiving", "Closed"}]
      BY DEF Inv, TypeOK
    <3>2. sender \in [Streams -> Senders]
      BY DEF Inv, TypeOK, Senders
    <3>3. sender' \in [Streams -> Senders]
      BY <2>2, <3>2
    <3> QED BY <2>2, <3>1, <3>3
  <2> QED BY <1>5, <2>1, <2>2
<1>7. CurOK' /\ InSync'
  BY <1>1, <1>6, ReturnsIdle
<1>8. TypeOK'
  <2>1. cur' \in [on : Streams \cup {"none"}, pos : Nat, hi : Nat, leftover : BOOLEAN]
    BY <1>1 DEF Return, Free
  <2> QED BY <1>1, <1>5, <1>6, <2>1 DEF Inv, TypeOK, Senders
<1>9. FilesOK'
  <2>1. ASSUME NEW t \in Streams, state'[t] = "Sending"
        PROVE  sender'[t].file \in 1..Len(files)
    <3>1. CASE UNCHANGED <<state, sender>>
      BY <2>1, <3>1 DEF Inv, FilesOK
    <3>2. CASE /\ \E st \in {"Idle", "Sending"} : state' = [state EXCEPT ![s] = st]
               /\ \E r \in Senders : r.file \in 1..Len(files) /\ sender' = [sender EXCEPT ![s] = r]
      BY <2>1, <3>2 DEF Inv, TypeOK, FilesOK
    <3> QED BY <1>5, <3>1, <3>2
  <2> QED BY <1>1, <2>1 DEF Inv, FilesOK
<1> QED
  BY <1>5, <1>7, <1>8, <1>9 DEF Inv

\* File::create makes an empty file at a path of the table.
LEMMA CreateKeeps ==
  ASSUME TypeOK, FilesOK, NEW p \in Paths, Create(p)
  PROVE  /\ files' \in Seq(Seq(FileBytes)) /\ Len(files') >= Len(files)
         /\ dir' \in [Paths -> Nat] /\ \A q \in Paths : dir'[q] <= Len(files')
         /\ dir'[p] \in 1..Len(files') /\ files'[dir'[p]] = << >>
<1>1. files \in Seq(Seq(FileBytes)) /\ dir \in [Paths -> Nat] /\ Len(files) \in Nat
  BY DEF TypeOK
<1>2. \A q \in Paths : dir[q] <= Len(files)
  BY DEF FilesOK
<1>3. << >> \in Seq(FileBytes)
  OBVIOUS
<1>4. CASE dir[p] # 0
  <2>1. files' = [files EXCEPT ![dir[p]] = << >>] /\ dir' = dir
    BY <1>4 DEF Create
  <2>2. dir[p] \in 1..Len(files)
    BY <1>1, <1>2, <1>4
  <2>3. /\ files' \in Seq(Seq(FileBytes)) /\ Len(files') = Len(files)
        /\ files'[dir[p]] = << >>
    BY <1>1, <1>3, <2>1, <2>2
  <2> QED BY <1>1, <1>2, <2>1, <2>2, <2>3
<1>5. CASE dir[p] = 0
  <2>1. files' = Append(files, << >>) /\ dir' = [dir EXCEPT ![p] = Len(files) + 1]
    BY <1>5 DEF Create
  <2>2. /\ files' \in Seq(Seq(FileBytes)) /\ Len(files') = Len(files) + 1
        /\ files'[Len(files) + 1] = << >>
    BY <1>1, <1>3, <2>1
  <2>3. dir' \in [Paths -> Nat] /\ dir'[p] = Len(files) + 1
    BY <1>1, <2>1
  <2>4. \A q \in Paths : dir'[q] <= Len(files')
    BY <1>1, <1>2, <2>1, <2>2
  <2> QED BY <1>1, <2>2, <2>3, <2>4
<1> QED
  BY <1>4, <1>5

\* SEND: the file is created and the receiver waits for its first header,
\* right after the request.
LEMMA SendKeeps ==
  ASSUME Inv, NEW s \in Streams, HandleSend(s)
  PROVE  Inv'
<1>1. /\ cur.on = s /\ state[s] # "Receiving" /\ ~cur.leftover
      /\ UNCHANGED <<items, sent, acked, state, sender, waiting>>
  BY DEF HandleSend, Handling, hostVars
<1>2. PICK i \in RequestsIn(s, cur.pos, cur.hi), fails \in OsFails :
        /\ i.kind = "SEND"
        /\ IF fails
           THEN /\ Reply(s, Fail("cannot create")) /\ Return
                /\ UNCHANGED <<receiver, dir, files>>
           ELSE /\ Create(SendPath(i))
                /\ receiver' = [receiver EXCEPT ![s] = NewReceiver(SendPath(i), dir'[SendPath(i)])]
                /\ cur' = [cur EXCEPT !.pos = After(i), !.leftover = TRUE]
                /\ UNCHANGED answers
  BY DEF HandleSend, fsVars
<1>3. i \in ItemsOf(s) /\ i \in Items /\ After(i) \in Nat /\ After(i) <= cur.hi
  <2>1. i \in ItemsOf(s)
    BY DEF RequestsIn, ItemAt, ItemsOf
  <2>2. i \in Items /\ After(i) \in Nat
    BY <2>1, ItemsTyped DEF Inv
  <2> QED BY <1>2, <2>1, <2>2 DEF RequestsIn
<1>4. CASE fails
  <2>1. Reply(s, Fail("cannot create")) /\ Return /\ UNCHANGED <<receiver, dir, files>>
    BY <1>2, <1>4
  <2>2. "cannot create" \in Reasons
    BY DEF Reasons
  <2>3. Fail("cannot create") \in Answers
    BY <2>2, PlainAnswers
  <2>4. answers' \in [Streams -> Seq(Answers)]
    BY <2>1, <2>3, ReplyKeeps DEF Inv
  <2>5. CurOK' /\ InSync'
    BY <1>1, <2>1, ReturnsIdle
  <2>6. TypeOK'
    <3>1. cur' \in [on : Streams \cup {"none"}, pos : Nat, hi : Nat, leftover : BOOLEAN]
      BY <2>1 DEF Return, Free
    <3> QED BY <1>1, <2>1, <2>4, <3>1 DEF Inv, TypeOK
  <2>7. FilesOK'
    BY <1>1, <2>1 DEF Inv, FilesOK
  <2> QED BY <2>4, <2>5, <2>6, <2>7 DEF Inv
<1>5. CASE ~fails
  <2> DEFINE p == SendPath(i)
  <2>1. /\ Create(p)
        /\ receiver' = [receiver EXCEPT ![s] = NewReceiver(p, dir'[p])]
        /\ cur' = [cur EXCEPT !.pos = After(i), !.leftover = TRUE]
        /\ UNCHANGED answers
    BY <1>2, <1>5
  <2>2. p \in Paths
    BY <1>3, SendPathTyped
  <2> HIDE DEF p
  <2>3. /\ files' \in Seq(Seq(FileBytes)) /\ Len(files') >= Len(files)
        /\ dir' \in [Paths -> Nat] /\ \A q \in Paths : dir'[q] <= Len(files')
        /\ dir'[p] \in 1..Len(files')
    BY <2>1, <2>2, CreateKeeps DEF Inv
  <2>4. cur \in [on : Streams \cup {"none"}, pos : Nat, hi : Nat, leftover : BOOLEAN]
    BY DEF Inv, TypeOK
  <2>5. /\ cur' \in [on : Streams \cup {"none"}, pos : Nat, hi : Nat, leftover : BOOLEAN]
        /\ cur'.on = s /\ cur'.pos = After(i) /\ cur'.hi = cur.hi /\ cur'.leftover
    BY <1>1, <1>3, <2>1, <2>4
  <2>6. NewReceiver(p, dir'[p]) \in Receivers
    BY <2>2, <2>3 DEF NewReceiver, Receivers
  <2>7. TypeOK'
    <3>1. receiver' \in [Streams -> Receivers]
      BY <2>1, <2>6 DEF Inv, TypeOK
    <3> QED BY <1>1, <2>1, <2>3, <2>5, <3>1 DEF Inv, TypeOK
  <2>8. CurOK'
    BY <1>1, <1>3, <2>5, SyncAssumption DEF Inv, CurOK
  <2>9. FilesOK'
    <3>1. Len(files) \in Nat /\ Len(files') \in Nat
      <4>1. files \in Seq(Seq(FileBytes))
        BY DEF Inv, TypeOK
      <4> QED BY <2>3, <4>1, LenProperties
    <3>2. \A x \in 1..Len(files) : x \in 1..Len(files')
      BY <2>3, <3>1
    <3>3. ASSUME NEW t \in Streams, state'[t] = "Sending"
          PROVE  sender'[t].file \in 1..Len(files')
      BY <1>1, <3>2, <3>3 DEF Inv, FilesOK
    <3> QED BY <2>3, <3>3 DEF FilesOK
  <2>10. ASSUME NEW t \in Streams
         PROVE  (InReceive(t) => Synced(t))'
    <3>1. CASE t = s
      <4>1. receiver'[s] = NewReceiver(p, dir'[p])
        BY <2>1 DEF Inv, TypeOK
      <4>2. receiver'[s].st = "Header" /\ receiver'[s].left = << >>
        BY <4>1 DEF NewReceiver
      <4>3. i \in ItemsOf(s)' /\ NextByte(s)' = After(i)
        BY <1>1, <1>3, <2>5 DEF ItemsOf, NextByte
      <4> QED BY <1>2, <3>1, <4>2, <4>3 DEF Synced
    <3>2. CASE t # s
      <4>1. InReceive(t) => Synced(t)
        BY DEF Inv, InSync, Synced
      <4>2. /\ cur.on # t /\ cur'.on # t /\ state'[t] = state[t] /\ sent'[t] = sent[t]
            /\ receiver'[t] = receiver[t]
        BY <1>1, <2>1, <2>5, <3>2 DEF Inv, TypeOK
      <4> QED BY <1>1, <4>1, <4>2, OthersSynced
    <3> QED BY <3>1, <3>2
  <2>11. InSync'
    BY <2>1, <2>10 DEF InSync, Synced, Inv
  <2> QED BY <2>7, <2>8, <2>9, <2>11 DEF Inv
<1> QED
  BY <1>4, <1>5

-----------------------------------------------------------------------------
(* FileReceiver::receive.                                                  *)

\* The stream whose WRTE is received is in step.
LEMMA ReceivingSynced ==
  ASSUME Inv, NEW s \in Streams, Receiving(s)
  PROVE  /\ cur.on = s /\ cur.pos \in Nat /\ cur.hi \in Nat /\ sent[s] = cur.hi
         /\ cur.pos <= cur.hi /\ NextByte(s) = cur.pos /\ Synced(s)
         /\ receiver[s] \in Receivers
         /\ (cur.leftover => state[s] # "Receiving")
<1>1. cur.on = s /\ InReceive(s)
  BY DEF Receiving, InReceive
<1>2. s # "none"
  BY SyncAssumption
<1>3. Synced(s)
  BY <1>1 DEF Inv, InSync, Synced
<1> QED
  BY <1>1, <1>2, <1>3 DEF Inv, TypeOK, CurOK, NextByte

\* The receiver is done, one way or the other.
LEMMA DoneKeeps ==
  ASSUME Inv, NEW s \in Streams, Receiving(s), NEW a \in Answers,
         ReceiveDone(s, a), dir' \in [Paths -> Nat], \A q \in Paths : dir'[q] <= Len(files),
         UNCHANGED <<items, sent, acked, receiver, sender, waiting, files>>
  PROVE  Inv'
<1>1. /\ cur.on = s /\ (cur.leftover => state[s] # "Receiving")
  BY ReceivingSynced
<1>2. /\ Reply(s, a) /\ Return
      /\ state' = IF cur.leftover THEN state ELSE [state EXCEPT ![s] = "Idle"]
  BY DEF ReceiveDone
<1>3. answers' \in [Streams -> Seq(Answers)]
  BY <1>2, ReplyKeeps DEF Inv
<1>4. /\ state'[s] # "Receiving" /\ \A t \in Streams \ {s} : state'[t] = state[t]
      /\ state' \in [Streams -> {"Idle", "Sending", "Receiving", "Closed"}]
      /\ \A t \in Streams : state'[t] = "Sending" => state[t] = "Sending"
  BY <1>1, <1>2 DEF Inv, TypeOK
<1>5. CurOK' /\ InSync'
  BY <1>1, <1>2, <1>4, ReturnsIdle
<1>6. TypeOK'
  <2>1. cur' \in [on : Streams \cup {"none"}, pos : Nat, hi : Nat, leftover : BOOLEAN]
    BY <1>2 DEF Return, Free
  <2> QED BY <1>3, <1>4, <2>1 DEF Inv, TypeOK
<1>7. FilesOK'
  BY <1>4 DEF Inv, FilesOK
<1> QED
  BY <1>3, <1>5, <1>6, <1>7 DEF Inv

\* What removing the file leaves of the directory, and what keeping it does.
LEMMA AbortTyped ==
  ASSUME Inv, NEW s \in Streams, Abort(s) \/ UNCHANGED dir
  PROVE  dir' \in [Paths -> Nat] /\ \A q \in Paths : dir'[q] <= Len(files)
<1>1. receiver[s].path \in Paths
  BY DEF Inv, TypeOK, Receivers
<1>2. Len(files) \in Nat
  BY DEF Inv, TypeOK
<1>3. dir \in [Paths -> Nat] /\ \A q \in Paths : dir[q] <= Len(files)
  BY DEF Inv, TypeOK, FilesOK
<1>4. CASE UNCHANGED dir
  BY <1>3, <1>4
<1>5. CASE Abort(s)
  <2>1. dir' = [dir EXCEPT ![receiver[s].path] = 0]
    BY <1>5 DEF Abort
  <2> QED BY <1>1, <1>2, <1>3, <2>1
<1> QED
  BY <1>4, <1>5

\* The receiver goes on: with the next WRTE (cur' is Free), or in this one.
LEMMA GoesOnKeeps ==
  ASSUME Inv, NEW s \in Streams, Receiving(s),
         receiver' \in [Streams -> Receivers],
         \A t \in Streams \ {s} : receiver'[t] = receiver[t],
         \/ cur' = Free /\ state' = [state EXCEPT ![s] = "Receiving"]
         \/ \E n \in Nat : n <= cur.hi /\ cur' = [cur EXCEPT !.pos = n] /\ state' = state,
         files' \in Seq(Seq(FileBytes)), Len(files') = Len(files),
         UNCHANGED <<items, sent, acked, sender, waiting, answers, dir>>,
         Synced(s)'
  PROVE  Inv'
<1>1. /\ cur.on = s /\ sent[s] = cur.hi /\ cur.hi \in Nat
      /\ (cur.leftover => state[s] # "Receiving")
  BY ReceivingSynced
<1>2. cur \in [on : Streams \cup {"none"}, pos : Nat, hi : Nat, leftover : BOOLEAN]
  BY DEF Inv, TypeOK
<1>3. /\ cur' \in [on : Streams \cup {"none"}, pos : Nat, hi : Nat, leftover : BOOLEAN]
      /\ \A t \in Streams \ {s} : cur'.on # t
      /\ CurOK'
  <2>1. CASE cur' = Free
    BY <2>1, SyncAssumption DEF Free, CurOK
  <2>2. CASE \E n \in Nat : n <= cur.hi /\ cur' = [cur EXCEPT !.pos = n] /\ state' = state
    <3>1. PICK n \in Nat : n <= cur.hi /\ cur' = [cur EXCEPT !.pos = n] /\ state' = state
      BY <2>2
    <3>2. /\ cur' \in [on : Streams \cup {"none"}, pos : Nat, hi : Nat, leftover : BOOLEAN]
          /\ cur'.on = s /\ cur'.pos = n /\ cur'.hi = cur.hi /\ cur'.leftover = cur.leftover
      BY <1>1, <1>2, <3>1
    <3>3. s # "none"
      BY SyncAssumption
    <3> QED BY <1>1, <3>1, <3>2, <3>3 DEF CurOK
  <2> QED BY <2>1, <2>2
<1>4. /\ state' \in [Streams -> {"Idle", "Sending", "Receiving", "Closed"}]
      /\ \A t \in Streams \ {s} : state'[t] = state[t]
      /\ \A t \in Streams : state'[t] = "Sending" => state[t] = "Sending"
  BY DEF Inv, TypeOK
<1>5. TypeOK'
  BY <1>3, <1>4 DEF Inv, TypeOK
<1>6. FilesOK'
  BY <1>4 DEF Inv, FilesOK
<1>7. ASSUME NEW t \in Streams, t # s
      PROVE  (InReceive(t) => Synced(t))'
  <2>1. InReceive(t) => Synced(t)
    BY DEF Inv, InSync, Synced
  <2>2. /\ cur.on # t /\ cur'.on # t /\ state'[t] = state[t] /\ sent'[t] = sent[t]
        /\ receiver'[t] = receiver[t]
    BY <1>1, <1>3, <1>4, <1>7
  <2> QED BY <2>1, <2>2, OthersSynced
<1>8. InSync'
  BY <1>7 DEF InSync, Synced
<1> QED
  BY <1>3, <1>5, <1>6, <1>8 DEF Inv

\* Where the receiver is when it wants a header: after an item that another
\* follows, with the bytes of it that it has.
LEMMA AtHeader ==
  ASSUME Inv, NEW s \in Streams, Receiving(s), receiver[s].st \in {"Header", "PartialHeader"}
  PROVE  /\ receiver[s].left \in Seq(FileBytes) /\ Len(receiver[s].left) \in Nat
         /\ Len(receiver[s].left) < HeaderSize
         /\ \E i \in ItemsOf(s) :
              /\ i.kind \in {"SEND", "DATA"}
              /\ receiver[s].left = Bytes(s, After(i), Len(receiver[s].left))
              /\ cur.pos = After(i) + Len(receiver[s].left)
<1>1. NextByte(s) = cur.pos /\ Synced(s) /\ receiver[s] \in Receivers /\ cur.pos \in Nat
  BY ReceivingSynced
<1> DEFINE left == receiver[s].left
<1>2. left \in Seq(FileBytes)
  BY <1>1 DEF Receivers
<1>3. HeaderSize \in Nat /\ HeaderSize > 0
  BY SyncAssumption
<1>4. CASE receiver[s].st = "PartialHeader"
  BY <1>1, <1>2, <1>4, LenProperties DEF Synced
<1>5. CASE receiver[s].st = "Header"
  <2>1. left = << >>
    BY <1>1, <1>5 DEF Synced
  <2>2. PICK i \in ItemsOf(s) : i.kind \in {"SEND", "DATA"} /\ NextByte(s) = After(i)
    BY <1>1, <1>5 DEF Synced
  <2>3. After(i) \in Nat
    BY ItemsTyped DEF Inv
  <2>4. Len(left) = 0
    BY <2>1
  <2>5. Bytes(s, After(i), 0) = << >>
    <3>1. Bytes(s, After(i), 0) \in Seq(FileBytes) /\ Len(Bytes(s, After(i), 0)) = 0
      BY <2>3, BytesAre
    <3> QED BY <3>1, EmptySeq
  <2>6. cur.pos = After(i) + 0
    BY <1>1, <2>2, <2>3
  <2> HIDE DEF left
  <2> QED BY <1>2, <1>3, <2>1, <2>2, <2>4, <2>5, <2>6 DEF left
<1> QED
  BY <1>4, <1>5

\* The receiver of a frame whose header is complete.
LEMMA DataReceiver ==
  ASSUME NEW x \in Receivers, NEW n \in Nat
  PROVE  LET r == [x EXCEPT !.st = "Data", !.left = << >>, !.remaining = n]
         IN r \in Receivers /\ r.st = "Data" /\ r.left = << >> /\ r.remaining = n
<1>1. << >> \in Seq(FileBytes)
  OBVIOUS
<1> QED
  BY <1>1 DEF Receivers

\* A complete header begins where the last item ended, so the frame that is
\* found is the next one.
LEMMA HeaderKeeps ==
  ASSUME Inv, NEW s \in Streams, ReceiveHeader(s)
  PROVE  Inv'
<1>1. /\ Receiving(s) /\ cur.pos < cur.hi /\ receiver[s].st \in {"Header", "PartialHeader"}
      /\ UNCHANGED <<items, sent, acked, sender, waiting, files>>
  BY DEF ReceiveHeader, hostVars
<1>2. /\ cur.on = s /\ cur.pos \in Nat /\ cur.hi \in Nat /\ sent[s] = cur.hi
      /\ receiver[s] \in Receivers /\ receiver \in [Streams -> Receivers]
  BY <1>1, ReceivingSynced DEF Inv, TypeOK
<1> DEFINE left == receiver[s].left
           k == Len(left)
           need == HeaderSize - k
<1>3. left \in Seq(FileBytes) /\ k \in Nat /\ k < HeaderSize
  BY <1>1, AtHeader
<1>4. PICK i \in ItemsOf(s) : /\ i.kind \in {"SEND", "DATA"} /\ left = Bytes(s, After(i), k)
                              /\ cur.pos = After(i) + k
  BY <1>1, AtHeader
<1>5. After(i) \in Nat /\ HeaderSize \in Nat /\ need \in Nat /\ k + need = HeaderSize
  <2>1. After(i) \in Nat
    BY ItemsTyped DEF Inv
  <2>2. HeaderSize \in Nat
    BY SyncAssumption
  <2> HIDE DEF left, k
  <2> QED BY <1>3, <2>1, <2>2
<1> DEFINE bytes == left \o Bytes(s, cur.pos, need)
<1>6. IF cur.pos + need <= cur.hi THEN Header(s, bytes, cur.pos + need) ELSE Keep(s)
  BY DEF ReceiveHeader
<1>7. ASSUME NEW m \in Nat
      PROVE  left \o Bytes(s, cur.pos, m) = Bytes(s, After(i), k + m)
  <2> HIDE DEF left, k
  <2>1. Bytes(s, After(i), k) \o Bytes(s, After(i) + k, m) = Bytes(s, After(i), k + m)
    BY <1>3, <1>5, BytesJoin
  <2> QED BY <1>4, <2>1
<1>8. files' \in Seq(Seq(FileBytes)) /\ Len(files') = Len(files)
  BY <1>1 DEF Inv, TypeOK
<1> HIDE DEF k, need, bytes
<1>9. CASE cur.pos + need <= cur.hi
  <2>1. bytes = Bytes(s, After(i), HeaderSize)
    BY <1>5, <1>7 DEF bytes
  <2>2. Header(s, bytes, cur.pos + need)
    BY <1>6, <1>9
  <2> DEFINE found == {j \in ItemAt(s, bytes) : j.kind \in Frames}
  <2>3. CASE /\ Abort(s) /\ ReceiveDone(s, Fail("invalid sync frame during send"))
             /\ UNCHANGED receiver
    <3>1. "invalid sync frame during send" \in Reasons
      BY DEF Reasons
    <3>2. /\ Fail("invalid sync frame during send") \in Answers
      BY <3>1, PlainAnswers
    <3>3. dir' \in [Paths -> Nat] /\ \A q \in Paths : dir'[q] <= Len(files)
      BY <2>3, AbortTyped
    <3> QED BY <1>1, <2>3, <3>2, <3>3, DoneKeeps
  <2>4. CASE Finalize(s) /\ UNCHANGED receiver
    <3>1. PICK fails \in OsFails :
            /\ IF fails THEN Abort(s) ELSE UNCHANGED dir
            /\ ReceiveDone(s, IF fails THEN Fail("cannot set permissions")
                              ELSE Answer("OKAY", "none", << >>))
      BY <2>4 DEF Finalize
    <3>2. "cannot set permissions" \in Reasons /\ "none" \in Reasons
      BY DEF Reasons
    <3>3. /\ Fail("cannot set permissions") \in Answers
          /\ Answer("OKAY", "none", << >>) \in Answers
      BY <3>2, PlainAnswers
    <3>4. dir' \in [Paths -> Nat] /\ \A q \in Paths : dir'[q] <= Len(files)
      BY <3>1, AbortTyped
    <3>5. CASE fails
      <4>1. ReceiveDone(s, Fail("cannot set permissions"))
        BY <3>1, <3>5
      <4> QED BY <1>1, <2>4, <3>3, <3>4, <4>1, DoneKeeps
    <3>6. CASE ~fails
      <4>1. ReceiveDone(s, Answer("OKAY", "none", << >>))
        BY <3>1, <3>6
      <4> QED BY <1>1, <2>4, <3>3, <3>4, <4>1, DoneKeeps
    <3> QED BY <3>5, <3>6
  <2>5. ASSUME NEW j \in found, j.kind = "DATA",
               receiver' = [receiver EXCEPT ![s].st = "Data", ![s].left = << >>,
                                            ![s].remaining = j.len],
               cur' = [cur EXCEPT !.pos = cur.pos + need],
               UNCHANGED <<state, answers, dir>>
        PROVE  Inv'
    <3>1. HeaderSize \in Nat \ {0}
      BY SyncAssumption
    <3>2. j \in ItemsOf(s) /\ j.at = After(i)
      BY <1>5, <2>1, <2>5, <3>1, ItemAtBegins DEF Inv
    <3>3. j.len \in Nat /\ After(j) = j.at + HeaderSize + j.len /\ After(j) \in Nat
      BY <3>2, ItemsTyped DEF Inv
    <3>4. /\ receiver' \in [Streams -> Receivers]
          /\ receiver'[s].st = "Data" /\ receiver'[s].left = << >>
          /\ receiver'[s].remaining = j.len
          /\ \A t \in Streams \ {s} : receiver'[t] = receiver[t]
      <4> DEFINE x == receiver[s]
                 r == [x EXCEPT !.st = "Data", !.left = << >>, !.remaining = j.len]
      <4>1. /\ r \in Receivers /\ r.st = "Data" /\ r.left = << >> /\ r.remaining = j.len
        BY <1>2, <3>3, DataReceiver
      <4>2. receiver' = [receiver EXCEPT ![s] = r]
        BY <1>2, <2>5
      <4> HIDE DEF r
      <4> QED BY <1>2, <4>1, <4>2
    <3>5. cur.pos + need \in Nat /\ cur.pos + need + j.len = After(j)
      <4>1. cur.pos + need = After(i) + HeaderSize
        BY <1>3, <1>4, <1>5
      <4> QED BY <1>5, <3>2, <3>3, <4>1
    <3>6. cur'.on = s /\ cur'.pos = cur.pos + need
      BY <1>2, <2>5 DEF Inv, TypeOK
    <3>7. NextByte(s)' = cur.pos + need /\ j \in ItemsOf(s)'
      BY <1>1, <3>2, <3>6 DEF NextByte, ItemsOf
    <3>8. Synced(s)'
      BY <2>5, <3>3, <3>4, <3>5, <3>7 DEF Synced
    <3> QED BY <1>1, <1>8, <1>9, <2>5, <3>4, <3>5, <3>8, GoesOnKeeps
  <2> QED BY <2>2, <2>3, <2>4, <2>5 DEF Header
<1>10. CASE ~(cur.pos + need <= cur.hi)
  <2> DEFINE m == cur.hi - cur.pos
             all == left \o Bytes(s, cur.pos, m)
  <2>1. m \in Nat /\ k + m < HeaderSize /\ cur.pos + m = cur.hi /\ k + m \in Nat
    BY <1>1, <1>2, <1>3, <1>5, <1>10
  <2>2. /\ receiver' = [receiver EXCEPT ![s].st = "PartialHeader", ![s].left = all]
        /\ Return /\ state' = [state EXCEPT ![s] = "Receiving"]
        /\ UNCHANGED <<answers, dir>>
    BY <1>6, <1>10 DEF Keep, ReceiveMore
  <2> HIDE DEF m
  <2>3. all = Bytes(s, After(i), k + m)
    BY <1>7, <2>1
  <2>4. all \in Seq(FileBytes) /\ Len(all) = k + m
    BY <1>5, <2>1, <2>3, BytesAre
  <2> HIDE DEF all
  <2>5. /\ receiver' \in [Streams -> Receivers]
        /\ receiver'[s].st = "PartialHeader" /\ receiver'[s].left = all
        /\ \A t \in Streams \ {s} : receiver'[t] = receiver[t]
    BY <1>2, <2>2, <2>4 DEF Receivers
  <2>6. cur' = Free
    BY <2>2 DEF Return
  <2>7. NextByte(s)' = sent[s] /\ i \in ItemsOf(s)'
    BY <1>1, <1>4, <2>6, SyncAssumption DEF NextByte, ItemsOf, Free
  <2>8. NextByte(s)' = After(i) + Len(all)
    BY <1>2, <1>3, <1>4, <1>5, <2>1, <2>4, <2>7
  <2>9. Synced(s)'
    BY <1>4, <2>1, <2>3, <2>4, <2>5, <2>7, <2>8 DEF Synced
  <2> QED BY <1>1, <1>8, <2>2, <2>5, <2>6, <2>9, GoesOnKeeps
<1> QED
  BY <1>9, <1>10

\* Bytes written at an offset leave a file.
LEMMA OverlayTyped ==
  ASSUME NEW old \in Seq(FileBytes), NEW off \in Nat, NEW new \in Seq(FileBytes)
  PROVE  Overlay(old, off, new) \in Seq(FileBytes)
<1> DEFINE n == IF Len(old) > off + Len(new) THEN Len(old) ELSE off + Len(new)
<1>1. n \in Nat /\ Len(old) \in Nat /\ Len(new) \in Nat
  OBVIOUS
<1>2. ASSUME NEW j \in 1..n
      PROVE  (IF off < j /\ j <= off + Len(new) THEN new[j - off]
              ELSE IF j <= Len(old) THEN old[j] ELSE <<"zero", 0>>) \in FileBytes
  <2>1. <<"zero", 0>> \in FileBytes
    BY DEF FileBytes
  <2>2. off < j /\ j <= off + Len(new) => new[j - off] \in FileBytes
    <3>1. off < j /\ j <= off + Len(new) => j - off \in 1..Len(new)
      BY <1>1
    <3> QED BY <3>1
  <2>3. j <= Len(old) => old[j] \in FileBytes
    OBVIOUS
  <2> QED BY <2>1, <2>2, <2>3
<1>3. Overlay(old, off, new) \in [1..n -> FileBytes]
  BY <1>2 DEF Overlay
<1> HIDE DEF n
<1> QED
  BY <1>1, <1>3

\* The bytes of a frame: what is left of it is what is still to come.
LEMMA DataKeeps ==
  ASSUME Inv, NEW s \in Streams, ReceiveData(s)
  PROVE  Inv'
<1>1. /\ Receiving(s) /\ cur.pos < cur.hi /\ receiver[s].st = "Data"
      /\ UNCHANGED <<items, sent, acked, sender, waiting>>
  BY DEF ReceiveData, hostVars
<1>2. /\ cur.on = s /\ cur.pos \in Nat /\ cur.hi \in Nat /\ sent[s] = cur.hi
      /\ receiver[s] \in Receivers /\ receiver \in [Streams -> Receivers]
      /\ NextByte(s) = cur.pos /\ Synced(s)
  BY <1>1, ReceivingSynced DEF Inv, TypeOK
<1> DEFINE r == receiver[s]
           n == IF r.remaining < cur.hi - cur.pos THEN r.remaining ELSE cur.hi - cur.pos
           left == r.remaining - n
<1>3. /\ r.remaining \in Nat /\ r.off \in Nat /\ r.file \in Nat /\ r.left = << >>
  BY <1>1, <1>2 DEF Receivers, Synced
<1>4. PICK i \in ItemsOf(s) : /\ i.kind = "DATA" /\ r.remaining <= i.len
                              /\ cur.pos + r.remaining = After(i)
  BY <1>1, <1>2 DEF Synced
<1>5. i.len \in Nat /\ After(i) \in Nat
  BY ItemsTyped DEF Inv
<1>6. /\ n \in Nat /\ left \in Nat /\ left <= r.remaining /\ cur.pos + n + left = After(i)
      /\ cur.pos + n <= cur.hi /\ cur.pos + n \in Nat
  <2> HIDE DEF r
  <2> QED BY <1>1, <1>2, <1>3, <1>4, <1>5
<1>7. \/ /\ receiver' = [receiver EXCEPT ![s].st = FrameState(left),
                                         ![s].remaining = left, ![s].off = @ + n]
         /\ files' = IF n = 0 THEN files
                     ELSE [files EXCEPT ![r.file] = Overlay(@, r.off, Bytes(s, cur.pos, n))]
         /\ cur' = [cur EXCEPT !.pos = @ + n]
         /\ UNCHANGED <<state, answers, dir>>
      \/ /\ Abort(s) /\ ReceiveDone(s, Fail("write error"))
         /\ UNCHANGED <<receiver, files>>
  BY DEF ReceiveData, LeftOfFrame
<1> HIDE DEF n, left
<1>8. CASE /\ Abort(s) /\ ReceiveDone(s, Fail("write error"))
           /\ UNCHANGED <<receiver, files>>
  <2>1. "write error" \in Reasons
    BY DEF Reasons
  <2>2. Fail("write error") \in Answers
    BY <2>1, PlainAnswers
  <2>3. dir' \in [Paths -> Nat] /\ \A q \in Paths : dir'[q] <= Len(files)
    BY <1>8, AbortTyped
  <2> QED BY <1>1, <1>8, <2>2, <2>3, DoneKeeps
<1>9. CASE /\ receiver' = [receiver EXCEPT ![s].st = FrameState(left),
                                          ![s].remaining = left, ![s].off = @ + n]
           /\ files' = IF n = 0 THEN files
                       ELSE [files EXCEPT ![r.file] = Overlay(@, r.off, Bytes(s, cur.pos, n))]
           /\ cur' = [cur EXCEPT !.pos = @ + n]
           /\ UNCHANGED <<state, answers, dir>>
  <2>1. files \in Seq(Seq(FileBytes))
    BY DEF Inv, TypeOK
  <2>2. files' \in Seq(Seq(FileBytes)) /\ Len(files') = Len(files)
    <3>1. CASE n = 0
      BY <1>9, <2>1, <3>1
    <3>2. CASE n # 0
      <4> DEFINE f == r.file
                 x == Overlay(files[f], r.off, Bytes(s, cur.pos, n))
      <4>1. files' = [files EXCEPT ![f] = x]
        BY <1>9, <3>2
      <4>2. f \in DOMAIN files => x \in Seq(FileBytes)
        <5>1. Bytes(s, cur.pos, n) \in Seq(FileBytes)
          BY <1>2, <1>6, BytesAre
        <5>2. f \in DOMAIN files => files[f] \in Seq(FileBytes)
          BY <2>1
        <5> QED BY <1>3, <5>1, <5>2, OverlayTyped
      <4> HIDE DEF f, x
      <4>3. CASE f \notin DOMAIN files
        <5>1. files' = files
          BY <2>1, <4>1, <4>3
        <5> QED BY <2>1, <5>1
      <4>4. CASE f \in DOMAIN files
        BY <2>1, <4>1, <4>2, <4>4, ExceptSeq
      <4> QED BY <4>3, <4>4
    <3> QED BY <3>1, <3>2
  <2> DEFINE y == [receiver[s] EXCEPT !.st = FrameState(left), !.remaining = left, !.off = @ + n]
  <2>3. FrameState(left) = IF left = 0 THEN "Header" ELSE "Data"
    BY <1>6 DEF FrameState
  <2>4. /\ y \in Receivers /\ y.st = FrameState(left) /\ y.left = << >> /\ y.remaining = left
    <3>1. r.off + n \in Nat /\ FrameState(left) \in {"Header", "PartialHeader", "Data"}
      BY <1>3, <1>6, <2>3
    <3> QED BY <1>2, <1>3, <1>6, <3>1 DEF Receivers
  <2>5. receiver' = [receiver EXCEPT ![s] = y]
    BY <1>2, <1>9
  <2> HIDE DEF y
  <2>6. /\ receiver' \in [Streams -> Receivers] /\ receiver'[s] = y
        /\ \A t \in Streams \ {s} : receiver'[t] = receiver[t]
    BY <1>2, <2>4, <2>5
  <2>7. cur' = [cur EXCEPT !.pos = cur.pos + n] /\ cur'.on = s /\ cur'.pos = cur.pos + n
    BY <1>2, <1>9 DEF Inv, TypeOK
  <2>8. NextByte(s)' = cur.pos + n /\ i \in ItemsOf(s)'
    BY <1>1, <1>4, <2>7 DEF NextByte, ItemsOf
  <2>9. Synced(s)'
    <3>1. CASE left = 0
      <4>1. NextByte(s)' = After(i) /\ receiver'[s].st = "Header" /\ receiver'[s].left = << >>
        BY <1>2, <1>5, <1>6, <2>3, <2>4, <2>6, <2>8, <3>1
      <4> QED BY <1>4, <2>8, <4>1 DEF Synced
    <3>2. CASE left # 0
      <4>1. /\ receiver'[s].st = "Data" /\ receiver'[s].left = << >>
            /\ receiver'[s].remaining = left /\ left <= i.len
        BY <1>3, <1>4, <1>5, <1>6, <2>3, <2>4, <2>6, <3>2
      <4>2. NextByte(s)' + left = After(i)
        BY <1>6, <2>8
      <4> QED BY <1>4, <2>8, <4>1, <4>2 DEF Synced
    <3> QED BY <3>1, <3>2
  <2> QED BY <1>1, <1>6, <1>9, <2>2, <2>6, <2>7, <2>9, GoesOnKeeps
<1> QED
  BY <1>7, <1>8, <1>9

\* The payload is used up: the next byte is the first of the next WRTE.
LEMMA EndKeeps ==
  ASSUME Inv, NEW s \in Streams, ReceiveEnd(s)
  PROVE  Inv'
<1>1. /\ Receiving(s) /\ cur.pos = cur.hi /\ cur' = Free
      /\ state' = [state EXCEPT ![s] = "Receiving"]
      /\ UNCHANGED <<items, sent, acked, receiver, sender, waiting, answers, dir, files>>
  BY DEF ReceiveEnd, ReceiveMore, Return, hostVars, fsVars
<1>2. /\ NextByte(s) = cur.pos /\ Synced(s) /\ sent[s] = cur.hi
  BY <1>1, ReceivingSynced
<1>3. NextByte(s)' = NextByte(s) /\ ItemsOf(s)' = ItemsOf(s)
  BY <1>1, <1>2, SyncAssumption DEF NextByte, ItemsOf, Free
<1>4. Synced(s)'
  BY <1>1, <1>2, <1>3 DEF Synced
<1>5. receiver' \in [Streams -> Receivers] /\ files' \in Seq(Seq(FileBytes))
  BY <1>1 DEF Inv, TypeOK
<1> QED
  BY <1>1, <1>4, <1>5, GoesOnKeeps

-----------------------------------------------------------------------------
(* The theorems.                                                           *)

\* Every step keeps the invariant.
LEMMA NextInv == Inv /\ [Next]_vars => Inv'
<1> SUFFICES ASSUME Inv, [Next]_vars PROVE Inv'
  OBVIOUS
<1>1. CASE UNCHANGED vars
  <2>1. UNCHANGED <<items, sent, acked, cur, state, receiver, sender, waiting, answers, dir, files>>
    BY <1>1 DEF vars, hostVars, fsVars
  <2>2. TypeOK'
    BY <2>1 DEF Inv, TypeOK
  <2>3. CurOK' /\ FilesOK'
    BY <2>1 DEF Inv, CurOK, FilesOK
  <2>4. InSync'
    BY <2>1 DEF Inv, InSync, InReceive, NextByte, ItemsOf
  <2> QED BY <2>2, <2>3, <2>4 DEF Inv
<1>2. ASSUME NEW s \in Streams, NEW h \in 1..End(items[s]), Wrte(s, h)
      PROVE  Inv'
  <2>1. h \in Nat
    OBVIOUS
  <2> QED BY <1>2, <2>1, WrteKeeps
<1>3. ASSUME NEW s \in Streams, GiveUp(s) \/ HandleOkay(s) \/ HandleClse(s) \/ Handle(s)
      PROVE  Inv'
  BY <1>3, GiveUpKeeps, OkayKeeps, ClseKeeps, AnsweredKeeps, QuitKeeps, RecvKeeps, SendKeeps,
     HeaderKeeps, DataKeeps, EndKeeps DEF Handle
<1> QED
  BY <1>1, <1>2, <1>3 DEF Next

\* The invariant holds throughout.
LEMMA Invariance == Spec => []Inv
  BY InitInv, NextInv, PTL DEF Spec

\* handle: the session, its receiver and sender, the directory and the
\* answers always have the shape their types give them.
THEOREM TypeCorrect == Spec => []TypeOK
<1>1. Inv => TypeOK
  BY DEF Inv
<1> QED
  BY <1>1, Invariance, PTL

\* FileReceiver::receive never loses its place in the stream, wherever the
\* host cuts it, whatever pushes came before, were refused or given up.
THEOREM ReceiverInSync == Spec => []InSync
<1>1. Inv => InSync
  BY DEF Inv
<1> QED
  BY <1>1, Invariance, PTL

-----------------------------------------------------------------------------
(* The items of a session lie one behind the other.                        *)

\* A set of numbers has a least one: this is how the proofs use induction.
LEMMA LeastNumber ==
  ASSUME NEW T, T \subseteq Nat, T # {}
  PROVE  \E x \in T : \A y \in T : ~(y < x)
<1> DEFINE R == {ss \in Nat \X Nat : ss[1] < ss[2]}
<1>1. IsWellFoundedOn(R, Nat)
  BY NatLessThanWellFounded, Zenon DEF OpToRel
<1>2. \E x \in T : \A y \in T : ~(<<y, x>> \in R)
  BY <1>1, WFMin, Zenon
<1> QED
  BY <1>2

\* An item begins where the one before it ends, and so none before the end of
\* any that precedes it.
LEMMA ItemsInOrder ==
  ASSUME TypeOK, NEW s \in Streams
  PROVE  /\ \A k \in 1..(Len(items[s]) - 1) : items[s][k + 1].at = After(items[s][k])
         /\ \A k \in DOMAIN items[s] : items[s][k] \in ItemsOf(s)
         /\ \A a, b \in DOMAIN items[s] : a < b => After(items[s][a]) <= items[s][b].at
<1> DEFINE q == items[s]
<1>1. /\ q \in Seq(Items) /\ \A k \in DOMAIN q : q[k] \in ItemsOf(s)
      /\ \A k \in DOMAIN q : /\ q[k].at \in Nat /\ q[k].len \in Nat /\ After(q[k]) \in Nat
                             /\ After(q[k]) = q[k].at + HeaderSize + q[k].len
  BY ItemsTyped DEF ItemsOf
<1>2. \A k \in 1..(Len(q) - 1) : q[k + 1].at = After(q[k])
  BY SessionAssumption DEF TypeOK
<1>3. HeaderSize \in Nat
  BY SyncAssumption
<1>4. ASSUME NEW a \in DOMAIN q, NEW b \in DOMAIN q, a < b
      PROVE  After(q[a]) <= q[b].at
  <2> DEFINE T == {c \in DOMAIN q : a < c /\ ~(After(q[a]) <= q[c].at)}
  <2> HIDE DEF q
  <2>1. SUFFICES ASSUME T # {}
                 PROVE  FALSE
    BY <1>4
  <2>2. DOMAIN q = 1..Len(q) /\ Len(q) \in Nat
    BY <1>1
  <2>3. PICK c \in T : \A y \in T : ~(y < c)
    <3>1. T \subseteq Nat
      BY <2>2
    <3> HIDE DEF T
    <3> QED BY <2>1, <3>1, LeastNumber
  <2>4. c \in 2..Len(q) /\ c - 1 \in 1..(Len(q) - 1) /\ c - 1 \in DOMAIN q /\ a <= c - 1
    BY <2>2, <2>3
  <2>5. q[c].at = After(q[c - 1])
    BY <1>2, <2>4
  <2>6. CASE a = c - 1
    BY <1>1, <2>3, <2>5, <2>6
  <2>7. CASE a < c - 1
    <3>1. c - 1 \notin T
      BY <2>3, <2>4
    <3>2. After(q[a]) <= q[c - 1].at
      BY <2>4, <2>7, <3>1
    <3>3. /\ q[a].at \in Nat /\ After(q[a]) \in Nat /\ q[c - 1].at \in Nat /\ q[c - 1].len \in Nat
          /\ After(q[c - 1]) = q[c - 1].at + HeaderSize + q[c - 1].len
      BY <1>1, <1>4, <2>4 DEF q
    <3>4. After(q[a]) <= After(q[c - 1])
      BY <1>3, <3>2, <3>3
    <3> QED BY <2>3, <2>5, <3>4
  <2> QED BY <2>4, <2>6, <2>7, <2>2
<1> QED
  BY <1>1, <1>2, <1>4

\* The item that begins where item k ends is the next one.
LEMMA NextItem ==
  ASSUME TypeOK, NEW s \in Streams, NEW k \in DOMAIN items[s],
         NEW i \in ItemsOf(s), i.at = After(items[s][k])
  PROVE  k + 1 \in DOMAIN items[s] /\ i = items[s][k + 1]
<1> DEFINE q == items[s]
<1>1. PICK b \in DOMAIN q : i = q[b]
  BY DEF ItemsOf
<1>2. /\ q \in Seq(Items) /\ DOMAIN q = 1..Len(q) /\ Len(q) \in Nat
      /\ \A c \in DOMAIN q : /\ q[c].at \in Nat /\ q[c].len \in Nat /\ After(q[c]) \in Nat
                             /\ q[c].at < After(q[c])
  <2>1. /\ q \in Seq(Items)
        /\ \A c \in DOMAIN q : /\ q[c].at \in Nat /\ q[c].len \in Nat /\ After(q[c]) \in Nat
                               /\ After(q[c]) = q[c].at + HeaderSize + q[c].len
    BY ItemsTyped DEF ItemsOf
  <2>2. HeaderSize \in Nat \ {0}
    BY SyncAssumption
  <2> HIDE DEF q
  <2>3. ASSUME NEW c \in DOMAIN q
        PROVE  q[c].at < After(q[c])
    <3>1. q[c].at \in Nat /\ q[c].len \in Nat /\ After(q[c]) = q[c].at + HeaderSize + q[c].len
      BY <2>1
    <3> QED BY <2>2, <3>1
  <2> QED BY <2>1, <2>3
<1>3. \A a, c \in DOMAIN q : a < c => After(q[a]) <= q[c].at
  BY ItemsInOrder
<1> HIDE DEF q
<1>4. k < b
  <2>1. CASE b = k
    BY <1>1, <1>2, <2>1 DEF q
  <2>2. CASE b < k
    <3>1. After(q[b]) <= q[k].at /\ q[b].at < After(q[b]) /\ q[k].at < After(q[k])
      BY <1>2, <1>3, <2>2 DEF q
    <3>2. /\ q[b].at \in Nat /\ After(q[b]) \in Nat /\ q[k].at \in Nat /\ After(q[k]) \in Nat
          /\ q[b].at = After(q[k])
      BY <1>1, <1>2 DEF q
    <3> QED BY <3>1, <3>2
  <2>3. b \in Nat /\ k \in Nat
    BY <1>2 DEF q
  <2> QED BY <2>1, <2>2, <2>3
<1>5. k + 1 \in DOMAIN q
  BY <1>2, <1>4 DEF q
<1>6. CASE k + 1 < b
  <2>1. After(q[k]) <= q[k + 1].at /\ After(q[k + 1]) <= q[b].at
    <3>1. k \in DOMAIN q /\ k < k + 1
      BY <1>2 DEF q
    <3> QED BY <1>3, <1>5, <1>6, <3>1
  <2>2. /\ q[k + 1].at \in Nat /\ After(q[k + 1]) \in Nat /\ q[k + 1].at < After(q[k + 1])
        /\ q[b].at \in Nat /\ After(q[k]) \in Nat /\ q[b].at = After(q[k])
    BY <1>1, <1>2, <1>5 DEF q
  <2> QED BY <2>1, <2>2
<1> QED
  BY <1>1, <1>2, <1>4, <1>5, <1>6 DEF q

-----------------------------------------------------------------------------
(* What a push has stored.                                                 *)

\* Byte p of the stream belongs to the body of item m.
InBody(s, m, p) == items[s][m].at + HeaderSize <= p /\ p < After(items[s][m])

\* The bytes before position n of the bodies of the frames after item j, up to
\* item k.
UpTo(s, j, k, n) == {<<s, p>> : p \in {x \in 0..(n - 1) : \E m \in (j + 1)..k : InBody(s, m, x)}}
\* The n bytes from position lo on.
Span(s, lo, n) == {<<s, p>> : p \in lo..(lo + n - 1)}

\* The bytes of the push that item j begins, up to item k, that have come.
SoFar(s, j, k) == UpTo(s, j, k, NextByte(s))

Contents(f) == {f[n] : n \in DOMAIN f}
Rising(f) == \A n \in 1..(Len(f) - 1) : f[n][2] < f[n + 1][2]

\* The receiver is in item k of the push that item j began, or after it.
Placed(s, j, k) ==
  LET r == receiver[s]
  IN /\ items[s][j].kind = "SEND" /\ j <= k
     /\ \A m \in (j + 1)..k : items[s][m].kind = "DATA"
     /\ r.st \in {"Header", "PartialHeader"} => NextByte(s) = After(items[s][k]) + Len(r.left)
     /\ r.st = "Data" => /\ j < k /\ r.remaining <= items[s][k].len
                         /\ NextByte(s) + r.remaining = After(items[s][k])

\* The file of the push is the one at its path, and holds what has come.
Holds(s, j, k) ==
  LET r == receiver[s]
  IN /\ r.path = items[s][j].path
     /\ dir[r.path] = r.file /\ r.file \in 1..Len(files)
     /\ r.off = Len(files[r.file])
     /\ Contents(files[r.file]) = SoFar(s, j, k) /\ Rising(files[r.file])

PushAt(s, j, k) == Placed(s, j, k) /\ Holds(s, j, k)

Pushing == \A s \in Streams :
             InReceive(s) => \E j, k \in DOMAIN items[s] : PushAt(s, j, k)

\* No two paths have one file.
OneName == \A p, q \in Paths : dir[p] = dir[q] /\ dir[p] # 0 => p = q

\* What is left of the WRTE goes no further than the next item that is answered.
EndsInTurn == "join" \notin Cuts /\ cur.on # "none" =>
                \A k \in DOMAIN items[cur.on] :
                  items[cur.on][k].kind \notin {"SEND", "DATA"} =>
                    ~(cur.pos < After(items[cur.on][k]) /\ After(items[cur.on][k]) < cur.hi)

PushInv == Pushing /\ OneName /\ EndsInTurn

\* Sessions as adb runs them: paths without a comma, and DONE has no body.
PlainSessions ==
  \A script \in Scripts, s \in Streams : \A k \in DOMAIN script[s] :
    LET i == script[s][k]
    IN (i.kind = "SEND" => SendPath(i) = i.path) /\ (i.kind = "DONE" => i.len = 0)

\* No two streams push to one path, and no two paths name one file at the start.
OwnPaths ==
  /\ \A script \in Scripts, s, t \in Streams :
       s # t => \A k \in DOMAIN script[s], m \in DOMAIN script[t] :
                  script[s][k].kind = "SEND" /\ script[t][m].kind = "SEND" =>
                    script[s][k].path # script[t][m].path
  /\ \A p, q \in OldFiles : p = q

\* A push of which nothing changes goes on as it was.
LEMMA PushKept ==
  ASSUME NEW t \in Streams, NEW j \in DOMAIN items[t], NEW k \in DOMAIN items[t], PushAt(t, j, k),
         files \in Seq(Seq(FileBytes)), files' \in Seq(Seq(FileBytes)), Len(files') >= Len(files),
         items' = items, receiver'[t] = receiver[t], NextByte(t)' = NextByte(t),
         dir'[receiver[t].path] = dir[receiver[t].path],
         files'[receiver[t].file] = files[receiver[t].file]
  PROVE  PushAt(t, j, k)'
<1>1. Placed(t, j, k)'
  BY DEF PushAt, Placed
<1>2. SoFar(t, j, k)' = SoFar(t, j, k)
  BY DEF SoFar, UpTo, InBody
<1>3. receiver[t].file \in 1..Len(files) => receiver[t].file \in 1..Len(files')
  <2>1. Len(files) \in Nat /\ Len(files') \in Nat
    BY LenProperties
  <2> QED BY <2>1
<1>4. Holds(t, j, k)'
  BY <1>2, <1>3 DEF PushAt, Holds
<1> QED
  BY <1>1, <1>4 DEF PushAt

\* The step of one stream leaves the push of another alone, if it changes
\* nothing but its own path and file.
LEMMA OtherPush ==
  ASSUME Inv, Inv', PushInv, OwnPaths, NEW s \in Streams, NEW t \in Streams, t # s, InReceive(t)',
         items' = items, state'[t] = state[t], receiver'[t] = receiver[t], sent'[t] = sent[t],
         cur.on \in {s, "none"}, cur'.on \in {s, "none"}, Len(files') >= Len(files),
         \/ UNCHANGED <<dir, files>>
         \/ \E j \in DOMAIN items[s] :
              LET P == items[s][j].path
              IN /\ items[s][j].kind = "SEND"
                 /\ \A p \in Paths : p # P => dir'[p] = dir[p]
                 /\ \A f \in 1..Len(files) : f # dir[P] => files'[f] = files[f]
  PROVE  \E j, k \in DOMAIN items[t] : PushAt(t, j, k)'
<1>1. "none" # t /\ cur.on # t /\ cur'.on # t
  BY SyncAssumption
<1>2. InReceive(t) /\ NextByte(t)' = NextByte(t)
  BY <1>1 DEF InReceive, NextByte
<1>3. PICK j \in DOMAIN items[t], k \in DOMAIN items[t] : PushAt(t, j, k)
  BY <1>2 DEF PushInv, Pushing
<1>4. files \in Seq(Seq(FileBytes)) /\ files' \in Seq(Seq(FileBytes)) /\ items \in Scripts
  BY DEF Inv, TypeOK
<1>5. CASE UNCHANGED <<dir, files>>
  BY <1>2, <1>3, <1>4, <1>5, PushKept
<1>6. ASSUME NEW i \in DOMAIN items[s], items[s][i].kind = "SEND",
             \A p \in Paths : p # items[s][i].path => dir'[p] = dir[p],
             \A f \in 1..Len(files) : f # dir[items[s][i].path] => files'[f] = files[f]
      PROVE  PushAt(t, j, k)'
  <2> DEFINE p == receiver[t].path
             P == items[s][i].path
  <2>1. /\ p \in Paths /\ P \in Paths
    <3>1. items[s][i] \in ItemsOf(s) /\ receiver[t] \in Receivers
      BY DEF ItemsOf, Inv, TypeOK
    <3> QED BY <3>1, ItemsTyped DEF Inv, Receivers
  <2>2. /\ p = items[t][j].path /\ items[t][j].kind = "SEND"
        /\ dir[p] = receiver[t].file /\ receiver[t].file \in 1..Len(files)
    BY <1>3 DEF PushAt, Placed, Holds
  <2>3. p # P
    BY <1>4, <1>6, <2>2 DEF OwnPaths
  <2>4. dir'[p] = dir[p]
    BY <1>6, <2>1, <2>3
  <2>5. dir[p] # dir[P]
    BY <2>1, <2>2, <2>3 DEF PushInv, OneName
  <2>6. files'[receiver[t].file] = files[receiver[t].file]
    BY <1>6, <2>2, <2>5
  <2> QED BY <1>2, <1>3, <1>4, <2>4, <2>6, PushKept
<1> QED
  BY <1>3, <1>5, <1>6

\* A step that changes no file and leaves the acting stream out of a push.
LEMMA IdlePush ==
  ASSUME Inv, Inv', PushInv, OwnPaths, NEW s \in Streams, ~InReceive(s)', items' = items,
         \A t \in Streams \ {s} : /\ state'[t] = state[t] /\ receiver'[t] = receiver[t]
                                  /\ sent'[t] = sent[t],
         cur.on \in {s, "none"}, cur' = Free, UNCHANGED <<dir, files>>
  PROVE  PushInv'
<1>1. ASSUME NEW t \in Streams, InReceive(t)'
      PROVE  \E j, k \in DOMAIN items[t] : PushAt(t, j, k)'
  <2>1. t # s /\ cur'.on = "none" /\ Len(files') >= Len(files)
    BY <1>1 DEF Free, Inv, TypeOK
  <2> QED BY <1>1, <2>1, OtherPush
<1>2. Pushing'
  BY <1>1 DEF Pushing
<1>3. OneName' /\ EndsInTurn'
  BY DEF PushInv, OneName, EndsInTurn, Free
<1> QED
  BY <1>2, <1>3 DEF PushInv

\* Nothing is pushed.
LEMMA InitPush ==
  ASSUME Init, OwnPaths
  PROVE  PushInv
<1>1. Pushing
  BY DEF Init, Pushing, InReceive, Free
<1>2. OneName
  BY DEF Init, OneName, OwnPaths
<1>3. EndsInTurn
  BY DEF Init, EndsInTurn, Free
<1> QED
  BY <1>1, <1>2, <1>3 DEF PushInv

\* A WRTE arrives.
LEMMA WrtePush ==
  ASSUME Inv, Inv', PushInv, NEW s \in Streams, NEW h, Wrte(s, h)
  PROVE  PushInv'
<1>1. /\ cur = Free /\ sent[s] < h /\ ("join" \notin Cuts => EndsAnswered(s, h))
      /\ cur' = [on |-> s, pos |-> sent[s], hi |-> h, leftover |-> FALSE]
      /\ sent' = [sent EXCEPT ![s] = h]
      /\ UNCHANGED <<items, acked, state, receiver, sender, waiting, answers, dir, files>>
  BY DEF Wrte, fsVars
<1>2. ASSUME NEW t \in Streams, InReceive(t)'
      PROVE  \E j, k \in DOMAIN items[t] : PushAt(t, j, k)'
  <2>1. InReceive(t) /\ NextByte(t)' = NextByte(t)
    <3>1. cur.on # t
      BY <1>1, SyncAssumption DEF Free
    <3> QED BY <1>1, <1>2, <3>1 DEF InReceive, NextByte, Inv, TypeOK
  <2>2. PICK j \in DOMAIN items[t], k \in DOMAIN items[t] : PushAt(t, j, k)
    BY <2>1 DEF PushInv, Pushing
  <2>3. files \in Seq(Seq(FileBytes)) /\ files' \in Seq(Seq(FileBytes)) /\ Len(files') >= Len(files)
    BY <1>1 DEF Inv, TypeOK
  <2> QED BY <1>1, <2>1, <2>2, <2>3, PushKept
<1>3. Pushing'
  BY <1>1, <1>2 DEF Pushing
<1>4. OneName'
  BY <1>1 DEF PushInv, OneName
<1>5. EndsInTurn'
  BY <1>1 DEF EndsInTurn, EndsAnswered
<1> QED
  BY <1>3, <1>4, <1>5 DEF PushInv

\* Between two WRTEs: the host gives up a push that has failed, an OKAY or a CLSE.
LEMMA BetweenPush ==
  ASSUME Inv, Inv', PushInv, OwnPaths, NEW s \in Streams,
         GiveUp(s) \/ HandleOkay(s) \/ HandleClse(s)
  PROVE  PushInv'
<1>1. /\ cur = Free /\ cur' = cur
      /\ UNCHANGED <<items, receiver, dir, files>>
  BY DEF GiveUp, HandleOkay, HandleClse, hostVars, fsVars
<1>2. ASSUME NEW t \in Streams \ {s}
      PROVE  state'[t] = state[t] /\ sent'[t] = sent[t]
  <2>1. CASE GiveUp(s)
    BY <2>1 DEF GiveUp, Inv, TypeOK
  <2>2. CASE HandleOkay(s)
    BY <2>2 DEF HandleOkay, Continue, Inv, TypeOK
  <2>3. CASE HandleClse(s)
    BY <2>3 DEF HandleClse, hostVars, Inv, TypeOK
  <2> QED BY <2>1, <2>2, <2>3
<1>3. CASE ~InReceive(s)'
  BY <1>1, <1>2, <1>3, IdlePush DEF Free
<1>4. CASE InReceive(s)'
  <2>1. state'[s] = "Receiving"
    BY <1>1, <1>4 DEF InReceive, Free
  <2>2. state' = state /\ sent' = sent
    <3>1. ~GiveUp(s) /\ ~HandleClse(s)
      BY <2>1 DEF GiveUp, HandleClse, Inv, TypeOK
    <3>2. HandleOkay(s) /\ state[s] # "Sending"
      BY <2>1, <3>1 DEF HandleOkay, Continue, Inv, TypeOK
    <3> QED BY <3>2 DEF HandleOkay
  <2>3. ASSUME NEW t \in Streams, InReceive(t)'
        PROVE  \E j, k \in DOMAIN items[t] : PushAt(t, j, k)'
    <3>1. InReceive(t) /\ NextByte(t)' = NextByte(t)
      BY <1>1, <2>2, <2>3 DEF InReceive, NextByte
    <3>2. PICK j \in DOMAIN items[t], k \in DOMAIN items[t] : PushAt(t, j, k)
      BY <3>1 DEF PushInv, Pushing
    <3>3. files \in Seq(Seq(FileBytes)) /\ files' \in Seq(Seq(FileBytes)) /\ Len(files') >= Len(files)
      BY <1>1 DEF Inv, TypeOK
    <3> QED BY <1>1, <3>1, <3>2, <3>3, PushKept
  <2> QED BY <1>1, <2>3 DEF PushInv, Pushing, OneName, EndsInTurn
<1> QED
  BY <1>3, <1>4

\* A request that is answered, or ends the session, and one that pulls.
LEMMA RequestPush ==
  ASSUME Inv, Inv', PushInv, OwnPaths, NEW s \in Streams,
         InvalidRequest(s) \/ HandleLstat(s) \/ HandleRecv(s) \/ HandleQuit(s)
  PROVE  PushInv'
<1>1. /\ cur.on = s /\ state[s] # "Receiving" /\ cur' = Free
      /\ UNCHANGED <<items, sent, receiver, dir, files>>
  <2>1. InvalidRequest(s) \/ HandleLstat(s) =>
          Handling(s) /\ Return /\ UNCHANGED <<items, sent, receiver, dir, files>>
    BY DEF InvalidRequest, HandleLstat, hostVars, fsVars
  <2>2. HandleRecv(s) \/ HandleQuit(s) =>
          Handling(s) /\ Return /\ UNCHANGED <<items, sent, receiver, dir, files>>
    BY DEF HandleRecv, HandleQuit, hostVars, fsVars
  <2> QED BY <2>1, <2>2 DEF Handling, Return
<1>2. /\ state'[s] # "Receiving" /\ \A t \in Streams \ {s} : state'[t] = state[t]
  <2>1. InvalidRequest(s) \/ HandleLstat(s) => state' = state
    BY DEF InvalidRequest, HandleLstat
  <2>2. HandleQuit(s) => state' = [state EXCEPT ![s] = "Closed"]
    BY DEF HandleQuit
  <2>3. HandleRecv(s) => state' = state \/ \E x \in {"Sending", "Idle"} : state' = [state EXCEPT ![s] = x]
    BY DEF HandleRecv, Continue
  <2> QED BY <1>1, <2>1, <2>2, <2>3 DEF Inv, TypeOK
<1>3. ~InReceive(s)'
  BY <1>1, <1>2 DEF InReceive, Free
<1> QED
  BY <1>1, <1>2, <1>3, IdlePush

\* SEND: the file at the path is new or empty, and the receiver is before the
\* first frame.
LEMMA SendPush ==
  ASSUME Inv, Inv', PushInv, OwnPaths, PlainSessions, NEW s \in Streams, HandleSend(s)
  PROVE  PushInv'
<1>1. /\ cur.on = s /\ state[s] # "Receiving" /\ ~cur.leftover
      /\ UNCHANGED <<items, sent, acked, state, sender, waiting>>
  BY DEF HandleSend, Handling, hostVars
<1>2. PICK i \in RequestsIn(s, cur.pos, cur.hi), fails \in OsFails :
        /\ i.kind = "SEND"
        /\ IF fails
           THEN Return /\ UNCHANGED <<receiver, dir, files>>
           ELSE /\ Create(SendPath(i))
                /\ receiver' = [receiver EXCEPT ![s] = NewReceiver(SendPath(i), dir'[SendPath(i)])]
                /\ cur' = [cur EXCEPT !.pos = After(i), !.leftover = TRUE]
  BY DEF HandleSend, fsVars
<1>3. CASE fails
  <2>1. cur' = Free /\ UNCHANGED <<receiver, dir, files>>
    BY <1>2, <1>3 DEF Return
  <2>2. ~InReceive(s)'
    BY <1>1, <2>1 DEF InReceive, Free
  <2> QED BY <1>1, <2>1, <2>2, IdlePush
<1>4. CASE ~fails
  <2> DEFINE p == SendPath(i)
  <2>1. /\ Create(p)
        /\ receiver' = [receiver EXCEPT ![s] = NewReceiver(p, dir'[p])]
        /\ cur' = [cur EXCEPT !.pos = After(i), !.leftover = TRUE]
    BY <1>2, <1>4
  <2>2. PICK j \in DOMAIN items[s] : items[s][j] = i
    BY DEF RequestsIn, ItemAt
  <2>3. p \in Paths /\ p = i.path /\ i.at = cur.pos /\ After(i) \in Nat /\ cur.pos <= After(i)
    <3>1. i \in ItemAt(s, Bytes(s, cur.pos, IdSize))
      BY DEF RequestsIn
    <3>2. cur.pos \in Nat /\ IdSize \in Nat \ {0} /\ HeaderSize \in Nat /\ items \in Scripts
      BY SyncAssumption DEF Inv, TypeOK
    <3>3. i \in ItemsOf(s) /\ i.at = cur.pos
      BY <3>1, <3>2, ItemAtBegins DEF Inv
    <3>4. i \in Items /\ After(i) \in Nat /\ After(i) = i.at + HeaderSize + i.len /\ i.len \in Nat
      BY <3>3, ItemsTyped DEF Inv
    <3>5. p = i.path
      BY <1>2, <2>2, <3>2 DEF PlainSessions
    <3> QED BY <3>2, <3>3, <3>4, <3>5, SendPathTyped
  <2> HIDE DEF p
  <2>4. /\ files \in Seq(Seq(FileBytes)) /\ dir \in [Paths -> Nat]
        /\ \A q \in Paths : dir[q] <= Len(files)
        /\ files' \in Seq(Seq(FileBytes)) /\ Len(files') >= Len(files)
        /\ dir'[p] \in 1..Len(files') /\ files'[dir'[p]] = << >>
    BY <2>1, <2>3, CreateKeeps DEF Inv, TypeOK, FilesOK
  <2>5. /\ \A q \in Paths : q # p => dir'[q] = dir[q]
        /\ \A f \in 1..Len(files) : f # dir[p] => files'[f] = files[f]
        /\ OneName'
    <3>1. CASE dir[p] # 0
      <4>1. files' = [files EXCEPT ![dir[p]] = << >>] /\ dir' = dir
        BY <2>1, <3>1 DEF Create
      <4> QED BY <2>4, <4>1 DEF PushInv, OneName
    <3>2. CASE dir[p] = 0
      <4>1. files' = Append(files, << >>) /\ dir' = [dir EXCEPT ![p] = Len(files) + 1]
        BY <2>1, <3>2 DEF Create
      <4>2. Len(files) \in Nat /\ \A q \in Paths : dir[q] \in Nat /\ dir[q] < Len(files) + 1
        BY <2>4
      <4>3. \A f \in 1..Len(files) : files'[f] = files[f]
        BY <2>4, <4>1
      <4>4. OneName'
        <5> SUFFICES ASSUME NEW a \in Paths, NEW b \in Paths, dir'[a] = dir'[b], dir'[a] # 0
                     PROVE  a = b
          BY DEF OneName
        <5>1. /\ dir'[a] = (IF a = p THEN Len(files) + 1 ELSE dir[a])
              /\ dir'[b] = (IF b = p THEN Len(files) + 1 ELSE dir[b])
          BY <2>4, <4>1
        <5>2. /\ dir[a] \in Nat /\ dir[a] < Len(files) + 1
              /\ dir[b] \in Nat /\ dir[b] < Len(files) + 1
          BY <4>2
        <5>3. CASE a # p /\ b # p
          BY <5>1, <5>3 DEF PushInv, OneName
        <5>4. dir[a] # Len(files) + 1 /\ dir[b] # Len(files) + 1
          BY <4>2, <5>2
        <5> QED BY <5>1, <5>3, <5>4
      <4> QED BY <2>4, <4>1, <4>3, <4>4
    <3> QED BY <3>1, <3>2
  <2>6. /\ cur'.on = s /\ cur'.pos = After(i) /\ cur'.hi = cur.hi /\ NextByte(s)' = After(i)
        /\ receiver'[s] = NewReceiver(p, dir'[p]) /\ items' = items
        /\ \A t \in Streams \ {s} : receiver'[t] = receiver[t]
    BY <1>1, <2>1 DEF Inv, TypeOK, NextByte
  <2>7. PushAt(s, j, j)'
    <3>1. /\ receiver'[s].st = "Header" /\ receiver'[s].left = << >> /\ receiver'[s].off = 0
          /\ receiver'[s].path = p /\ receiver'[s].file = dir'[p]
      BY <2>6 DEF NewReceiver
    <3>2. j \in Nat /\ (j + 1)..j = {}
      <4>1. items[s] \in Seq(Items)
        BY ItemsTyped DEF Inv
      <4> QED BY <4>1
    <3>3. Placed(s, j, j)'
      <4>1. After(i) = After(i) + Len(<< >>)
        BY <2>3
      <4> QED BY <1>2, <2>2, <2>6, <3>1, <3>2, <4>1 DEF Placed
    <3>4. SoFar(s, j, j)' = {}
      BY <3>2 DEF SoFar, UpTo
    <3>5. Contents(<< >>) = {} /\ Rising(<< >>) /\ Len(<< >>) = 0
      BY DEF Contents, Rising
    <3>6. Holds(s, j, j)'
      BY <2>2, <2>3, <2>4, <2>6, <3>1, <3>4, <3>5 DEF Holds
    <3> QED BY <3>3, <3>6 DEF PushAt
  <2>8. ASSUME NEW t \in Streams, t # s, InReceive(t)'
        PROVE  \E a, b \in DOMAIN items[t] : PushAt(t, a, b)'
    <3>1. state'[t] = state[t] /\ sent'[t] = sent[t] /\ receiver'[t] = receiver[t]
      BY <1>1, <2>6, <2>8
    <3>2. /\ items[s][j].kind = "SEND"
          /\ \A q \in Paths : q # items[s][j].path => dir'[q] = dir[q]
          /\ \A f \in 1..Len(files) : f # dir[items[s][j].path] => files'[f] = files[f]
      BY <1>2, <2>2, <2>3, <2>5
    <3>3. cur.on \in {s, "none"} /\ cur'.on \in {s, "none"} /\ Len(files') >= Len(files)
      BY <1>1, <2>4, <2>6
    <3> QED BY <2>6, <2>8, <3>1, <3>2, <3>3, OtherPush
  <2>9. Pushing'
    BY <2>6, <2>7, <2>8 DEF Pushing
  <2>10. EndsInTurn'
    <3>1. ASSUME NEW n \in DOMAIN items[s], items[s][n].kind \notin {"SEND", "DATA"},
                 "join" \notin Cuts, After(i) < After(items[s][n]), After(items[s][n]) < cur.hi
          PROVE  FALSE
      <4>1. cur.pos \in Nat /\ After(items[s][n]) \in Nat /\ s # "none"
        <5>1. items[s][n] \in ItemsOf(s)
          BY DEF ItemsOf
        <5> QED BY <5>1, ItemsTyped, SyncAssumption DEF Inv, TypeOK
      <4>2. cur.pos < After(items[s][n])
        BY <2>3, <3>1, <4>1
      <4> QED BY <1>1, <3>1, <4>1, <4>2 DEF PushInv, EndsInTurn
    <3> QED BY <2>6, <3>1 DEF EndsInTurn
  <2> QED BY <2>5, <2>9, <2>10 DEF PushInv
<1> QED
  BY <1>3, <1>4

\* The push that is being received.
LEMMA ReceivingPush ==
  ASSUME Inv, PushInv, NEW s \in Streams, Receiving(s)
  PROVE  \E j, k \in DOMAIN items[s] : PushAt(s, j, k)
BY DEF Receiving, InReceive, PushInv, Pushing

\* The push has ended, one way or the other.
LEMMA DonePush ==
  ASSUME Inv, Inv', PushInv, OwnPaths, NEW s \in Streams, Receiving(s), NEW a, ReceiveDone(s, a),
         Abort(s) \/ UNCHANGED dir, UNCHANGED <<items, sent, receiver, files>>
  PROVE  PushInv'
<1>1. cur.on = s /\ (cur.leftover => state[s] # "Receiving")
  BY ReceivingSynced
<1>2. /\ cur' = Free
      /\ state' = IF cur.leftover THEN state ELSE [state EXCEPT ![s] = "Idle"]
  BY DEF ReceiveDone, Return
<1>3. /\ state'[s] # "Receiving" /\ \A t \in Streams \ {s} : state'[t] = state[t]
  BY <1>1, <1>2 DEF Inv, TypeOK
<1>4. ~InReceive(s)' /\ cur'.on = "none"
  BY <1>2, <1>3 DEF InReceive, Free
<1>5. CASE UNCHANGED dir
  BY <1>1, <1>2, <1>3, <1>4, <1>5, IdlePush
<1>6. CASE Abort(s)
  <2>1. PICK j \in DOMAIN items[s], k \in DOMAIN items[s] : PushAt(s, j, k)
    BY ReceivingPush
  <2> DEFINE P == receiver[s].path
  <2>2. P = items[s][j].path /\ items[s][j].kind = "SEND" /\ P \in Paths
    BY <2>1 DEF PushAt, Placed, Holds, Inv, TypeOK, Receivers
  <2>3. dir' = [dir EXCEPT ![P] = 0] /\ dir \in [Paths -> Nat]
    BY <1>6 DEF Abort, Inv, TypeOK
  <2> HIDE DEF P
  <2>4. /\ \A p \in Paths : p # P => dir'[p] = dir[p]
        /\ OneName'
    BY <2>2, <2>3 DEF PushInv, OneName
  <2>5. ASSUME NEW t \in Streams, InReceive(t)'
        PROVE  \E b, c \in DOMAIN items[t] : PushAt(t, b, c)'
    <3>1. t # s /\ state'[t] = state[t] /\ sent'[t] = sent[t] /\ receiver'[t] = receiver[t]
      BY <1>3, <1>4, <2>5
    <3>2. Len(files') >= Len(files)
      <4>1. files \in Seq(Seq(FileBytes))
        BY DEF Inv, TypeOK
      <4> QED BY <4>1
    <3>3. /\ items[s][j].kind = "SEND"
          /\ \A p \in Paths : p # items[s][j].path => dir'[p] = dir[p]
          /\ \A f \in 1..Len(files) : f # dir[items[s][j].path] => files'[f] = files[f]
      BY <2>2, <2>4
    <3> QED BY <1>1, <1>4, <2>5, <3>1, <3>2, <3>3, OtherPush
  <2>6. Pushing' /\ EndsInTurn'
    BY <1>4, <2>5 DEF Pushing, EndsInTurn
  <2> QED BY <2>4, <2>6 DEF PushInv
<1> QED
  BY <1>5, <1>6

\* The push goes on: with the next WRTE, or in this one.
LEMMA GoesOnPush ==
  ASSUME Inv, Inv', PushInv, OwnPaths, NEW s \in Streams, Receiving(s),
         UNCHANGED <<items, sent, dir>>, Len(files') = Len(files),
         \A f \in 1..Len(files) : f # receiver[s].file => files'[f] = files[f],
         \A t \in Streams \ {s} : receiver'[t] = receiver[t] /\ state'[t] = state[t],
         \/ cur' = Free
         \/ \E n \in Nat : cur.pos <= n /\ cur' = [cur EXCEPT !.pos = n],
         \E j, k \in DOMAIN items[s] : PushAt(s, j, k)'
  PROVE  PushInv'
<1>1. cur.on = s /\ cur.pos \in Nat /\ s # "none"
  BY ReceivingSynced, SyncAssumption
<1>2. cur \in [on : Streams \cup {"none"}, pos : Nat, hi : Nat, leftover : BOOLEAN]
  BY DEF Inv, TypeOK
<1>3. cur'.on \in {s, "none"}
  BY <1>1, <1>2 DEF Free
<1>4. PICK j \in DOMAIN items[s], k \in DOMAIN items[s] : PushAt(s, j, k)
  BY ReceivingPush
<1>5. /\ items[s][j].kind = "SEND" /\ dir[items[s][j].path] = receiver[s].file
  BY <1>4 DEF PushAt, Placed, Holds
<1>6. ASSUME NEW t \in Streams, t # s, InReceive(t)'
      PROVE  \E b, c \in DOMAIN items[t] : PushAt(t, b, c)'
  <2>1. state'[t] = state[t] /\ sent'[t] = sent[t] /\ receiver'[t] = receiver[t]
        /\ Len(files') >= Len(files)
    BY <1>6 DEF Inv, TypeOK
  <2>2. /\ items[s][j].kind = "SEND"
        /\ \A p \in Paths : p # items[s][j].path => dir'[p] = dir[p]
        /\ \A f \in 1..Len(files) : f # dir[items[s][j].path] => files'[f] = files[f]
    BY <1>5
  <2> QED BY <1>1, <1>3, <1>6, <2>1, <2>2, OtherPush
<1>7. Pushing' /\ OneName'
  BY <1>6 DEF Pushing, PushInv, OneName
<1>8. EndsInTurn'
  <2>1. CASE cur' = Free
    BY <2>1 DEF EndsInTurn, Free
  <2>2. ASSUME NEW n \in Nat, cur.pos <= n, cur' = [cur EXCEPT !.pos = n]
        PROVE  EndsInTurn'
    <3>1. cur'.on = s /\ cur'.pos = n /\ cur'.hi = cur.hi
      BY <1>1, <1>2, <2>2
    <3>2. ASSUME NEW m \in DOMAIN items[s], n < After(items[s][m])
          PROVE  cur.pos < After(items[s][m])
      <4>1. After(items[s][m]) \in Nat
        BY ItemsTyped DEF Inv, ItemsOf
      <4> QED BY <1>1, <2>2, <3>2, <4>1
    <3> QED BY <1>1, <3>1, <3>2 DEF PushInv, EndsInTurn
  <2> QED BY <2>1, <2>2
<1> QED
  BY <1>7, <1>8 DEF PushInv

\* What the receiver makes of a header: the bytes it kept and the next ones are
\* the ones after item k.
LEMMA HeaderBytes ==
  ASSUME Inv, NEW s \in Streams, Receiving(s), receiver[s].st \in {"Header", "PartialHeader"},
         NEW j \in DOMAIN items[s], NEW k \in DOMAIN items[s], PushAt(s, j, k)
  PROVE  /\ After(items[s][k]) \in Nat /\ cur.pos = After(items[s][k]) + Len(receiver[s].left)
         /\ Len(receiver[s].left) \in Nat /\ Len(receiver[s].left) < HeaderSize
         /\ \A m \in Nat : receiver[s].left \o Bytes(s, cur.pos, m)
                             = Bytes(s, After(items[s][k]), Len(receiver[s].left) + m)
<1> DEFINE left == receiver[s].left
           e == After(items[s][k])
           n == Len(left)
<1>1. /\ left \in Seq(FileBytes) /\ n \in Nat /\ n < HeaderSize
  BY AtHeader
<1>2. PICK i \in ItemsOf(s) : left = Bytes(s, After(i), n) /\ cur.pos = After(i) + n
  BY AtHeader
<1>3. items[s][k] \in ItemsOf(s)
  BY DEF ItemsOf
<1>4. After(i) \in Nat /\ e \in Nat
  BY <1>3, ItemsTyped DEF Inv
<1>5. cur.pos = e + n
  BY ReceivingSynced DEF PushAt, Placed
<1> HIDE DEF left, e, n
<1>6. After(i) = e
  BY <1>1, <1>2, <1>4, <1>5
<1>7. ASSUME NEW m \in Nat
      PROVE  left \o Bytes(s, cur.pos, m) = Bytes(s, e, n + m)
  <2>1. Bytes(s, e, n) \o Bytes(s, e + n, m) = Bytes(s, e, n + m)
    BY <1>1, <1>4, BytesJoin
  <2> QED BY <1>2, <1>5, <1>6, <2>1
<1> QED
  BY <1>1, <1>4, <1>5, <1>7 DEF left, e, n

\* The item whose header is complete is the one after item k.
LEMMA HeaderFound ==
  ASSUME Inv, NEW s \in Streams, Receiving(s), receiver[s].st \in {"Header", "PartialHeader"},
         NEW j \in DOMAIN items[s], NEW k \in DOMAIN items[s], PushAt(s, j, k),
         NEW i \in ItemAt(s, receiver[s].left
                               \o Bytes(s, cur.pos, HeaderSize - Len(receiver[s].left)))
  PROVE  /\ k + 1 \in DOMAIN items[s] /\ i = items[s][k + 1] /\ i.at = After(items[s][k])
         /\ i.at + HeaderSize = cur.pos + (HeaderSize - Len(receiver[s].left))
         /\ cur.pos < i.at + HeaderSize
<1> DEFINE e == After(items[s][k])
           n == Len(receiver[s].left)
           need == HeaderSize - n
<1>1. /\ e \in Nat /\ cur.pos = e + n /\ n \in Nat /\ n < HeaderSize
      /\ \A m \in Nat : receiver[s].left \o Bytes(s, cur.pos, m) = Bytes(s, e, n + m)
  BY HeaderBytes
<1>2. HeaderSize \in Nat \ {0}
  BY SyncAssumption
<1> HIDE DEF e, n
<1>3. need \in Nat /\ n + need = HeaderSize
  BY <1>1, <1>2
<1>4. i \in ItemAt(s, Bytes(s, e, HeaderSize))
  <2>1. receiver[s].left \o Bytes(s, cur.pos, need) = Bytes(s, e, n + need)
    BY <1>1, <1>3
  <2> QED BY <1>3, <2>1 DEF n
<1>5. i \in ItemsOf(s) /\ i.at = e
  BY <1>1, <1>2, <1>4, ItemAtBegins DEF Inv
<1>6. k + 1 \in DOMAIN items[s] /\ i = items[s][k + 1]
  BY <1>5, NextItem DEF e, Inv
<1>7. e + HeaderSize = cur.pos + need /\ cur.pos < e + HeaderSize
  BY <1>1, <1>2
<1> QED
  BY <1>5, <1>6, <1>7 DEF e, n

\* The same bytes have come, and the receiver has the same file.
LEMMA SameHolds ==
  ASSUME NEW s \in Streams, NEW j \in DOMAIN items[s], NEW k \in DOMAIN items[s], NEW l,
         Holds(s, j, k), SoFar(s, j, l)' = SoFar(s, j, k), UNCHANGED <<items, dir, files>>,
         receiver'[s].path = receiver[s].path, receiver'[s].file = receiver[s].file,
         receiver'[s].off = receiver[s].off
  PROVE  Holds(s, j, l)'
BY DEF Holds

\* The bytes of the bodies up to item k lie before its end.
LEMMA BodiesEnd ==
  ASSUME Inv, NEW s \in Streams, NEW j \in DOMAIN items[s], NEW k \in DOMAIN items[s], NEW x \in Nat,
         NEW m \in (j + 1)..k, InBody(s, m, x)
  PROVE  /\ x < After(items[s][k]) /\ m \in DOMAIN items[s]
         /\ m # k => x < items[s][k].at
<1> DEFINE q == items[s]
<1>1. q \in Seq(Items) /\ DOMAIN q = 1..Len(q) /\ Len(q) \in Nat
  BY ItemsTyped DEF Inv
<1>2. m \in DOMAIN q /\ (m # k => m < k)
  BY <1>1
<1>3. \A c \in DOMAIN q : /\ q[c].at \in Nat /\ q[c].len \in Nat /\ After(q[c]) \in Nat
                          /\ After(q[c]) = q[c].at + HeaderSize + q[c].len
  BY ItemsTyped DEF Inv, ItemsOf
<1>4. m < k => After(q[m]) <= q[k].at
  BY <1>2, ItemsInOrder DEF Inv
<1>5. x < After(q[m])
  BY DEF InBody
<1>6. HeaderSize \in Nat
  BY SyncAssumption
<1> HIDE DEF q
<1>7. /\ q[k].at \in Nat /\ q[k].len \in Nat /\ After(q[k]) = q[k].at + HeaderSize + q[k].len
      /\ After(q[m]) \in Nat
  BY <1>2, <1>3 DEF q
<1> QED
  BY <1>2, <1>4, <1>5, <1>6, <1>7 DEF q

\* Nothing of the bodies up to item k lies behind its end.
LEMMA UpToEnd ==
  ASSUME Inv, NEW s \in Streams, NEW j \in DOMAIN items[s], NEW k \in DOMAIN items[s],
         NEW n \in Nat, After(items[s][k]) <= n
  PROVE  UpTo(s, j, k, n) = UpTo(s, j, k, After(items[s][k]))
<1> DEFINE e == After(items[s][k])
<1>1. e \in Nat
  BY ItemsTyped DEF Inv, ItemsOf
<1>2. ASSUME NEW x \in Nat, NEW m \in (j + 1)..k, InBody(s, m, x)
      PROVE  x < e
  BY <1>2, BodiesEnd
<1> HIDE DEF e
<1>3. ASSUME NEW x
      PROVE  (x \in 0..(n - 1) /\ \E m \in (j + 1)..k : InBody(s, m, x))
               <=> (x \in 0..(e - 1) /\ \E m \in (j + 1)..k : InBody(s, m, x))
  <2>1. e <= n
    BY DEF e
  <2>2. x \in 0..(n - 1) /\ x < e => x \in 0..(e - 1)
    BY <1>1
  <2>3. x \in 0..(e - 1) => x \in 0..(n - 1)
    BY <1>1, <2>1
  <2>4. x \in 0..(n - 1) => x \in Nat
    OBVIOUS
  <2> QED BY <1>2, <2>2, <2>3, <2>4
<1>4. {x \in 0..(n - 1) : \E m \in (j + 1)..k : InBody(s, m, x)}
        = {x \in 0..(e - 1) : \E m \in (j + 1)..k : InBody(s, m, x)}
  BY <1>3, Zenon
<1> QED
  BY <1>4 DEF UpTo, e

\* With the header of the next frame no byte of a body has come.
LEMMA UpToNext ==
  ASSUME Inv, NEW s \in Streams, NEW j \in DOMAIN items[s], NEW k \in DOMAIN items[s], j <= k,
         k + 1 \in DOMAIN items[s]
  PROVE  UpTo(s, j, k + 1, items[s][k + 1].at + HeaderSize)
           = UpTo(s, j, k, After(items[s][k]))
<1> DEFINE q == items[s]
           e == After(q[k])
           b == q[k + 1].at + HeaderSize
<1>1. q \in Seq(Items) /\ j \in Nat /\ k \in Nat
  <2>1. q \in Seq(Items)
    BY ItemsTyped DEF Inv
  <2> QED BY <2>1
<1>2. e \in Nat /\ HeaderSize \in Nat /\ q[k + 1].at = e
  <2>1. e \in Nat
    BY ItemsTyped DEF Inv, ItemsOf
  <2>2. k \in 1..(Len(q) - 1)
    BY <1>1
  <2> QED BY <2>1, <2>2, ItemsInOrder, SyncAssumption DEF Inv
<1>3. b \in Nat /\ e <= b
  <2> HIDE DEF e
  <2> QED BY <1>2
<1>4. ASSUME NEW x
      PROVE  (x \in 0..(b - 1) /\ \E m \in (j + 1)..(k + 1) : InBody(s, m, x))
               <=> (x \in 0..(e - 1) /\ \E m \in (j + 1)..k : InBody(s, m, x))
  <2>1. x \in 0..(b - 1) => x \in Nat /\ x < b
    <3> HIDE DEF b
    <3> QED BY <1>3
  <2>2. x \in 0..(e - 1) => x \in 0..(b - 1)
    <3> HIDE DEF b, e
    <3> QED BY <1>2, <1>3
  <2>3. x \in 0..(b - 1) => ~InBody(s, k + 1, x)
    <3>1. InBody(s, k + 1, x) => b <= x
      BY DEF InBody
    <3> HIDE DEF b
    <3> QED BY <1>3, <2>1, <3>1
  <2>4. ASSUME NEW m \in (j + 1)..k, InBody(s, m, x), x \in Nat
        PROVE  x \in 0..(e - 1)
    <3>1. x < e
      BY <2>4, BodiesEnd
    <3> HIDE DEF e
    <3> QED BY <1>2, <2>4, <3>1
  <2>5. /\ \A m \in (j + 1)..(k + 1) : m = k + 1 \/ m \in (j + 1)..k
        /\ \A m \in (j + 1)..k : m \in (j + 1)..(k + 1)
    BY <1>1
  <2> HIDE DEF b, e
  <2> QED BY <2>1, <2>2, <2>3, <2>4, <2>5
<1> HIDE DEF b, e
<1>5. {x \in 0..(b - 1) : \E m \in (j + 1)..(k + 1) : InBody(s, m, x)}
        = {x \in 0..(e - 1) : \E m \in (j + 1)..k : InBody(s, m, x)}
  BY <1>4, Zenon
<1> QED
  BY <1>5 DEF UpTo, b, e

\* Inside a frame every byte that comes is one of its body.
LEMMA UpToMore ==
  ASSUME Inv, NEW s \in Streams, NEW j \in DOMAIN items[s], NEW k \in DOMAIN items[s], j < k,
         NEW a \in Nat, NEW n \in Nat, items[s][k].at + HeaderSize <= a, a + n <= After(items[s][k])
  PROVE  UpTo(s, j, k, a + n) = UpTo(s, j, k, a) \cup Span(s, a, n)
<1> DEFINE q == items[s]
           b == q[k].at + HeaderSize
           e == After(q[k])
           B(x) == \E m \in (j + 1)..k : InBody(s, m, x)
<1>1. q \in Seq(Items) /\ j \in Nat /\ k \in Nat /\ k \in (j + 1)..k
  <2>1. q \in Seq(Items)
    BY ItemsTyped DEF Inv
  <2>2. j \in Nat /\ k \in Nat
    BY <2>1
  <2> QED BY <2>1, <2>2
<1>2. e \in Nat /\ b \in Nat
  BY ItemsTyped, SyncAssumption DEF Inv, ItemsOf
<1>3. ASSUME NEW x \in a..(a + n - 1)
      PROVE  x \in 0..(a + n - 1) /\ B(x)
  <2>1. x \in Nat /\ x \in 0..(a + n - 1) /\ b <= x /\ x < e
    <3>1. b <= a /\ a + n <= e
      OBVIOUS
    <3> HIDE DEF b, e
    <3> QED BY <1>2, <3>1
  <2>2. InBody(s, k, x)
    BY <2>1 DEF InBody
  <2> QED BY <1>1, <2>1, <2>2
<1>4. ASSUME NEW x
      PROVE  (x \in 0..(a + n - 1) /\ B(x)) <=> (x \in 0..(a - 1) /\ B(x)) \/ x \in a..(a + n - 1)
  <2>1. x \in 0..(a + n - 1) => x \in 0..(a - 1) \/ x \in a..(a + n - 1)
    OBVIOUS
  <2>2. x \in 0..(a - 1) => x \in 0..(a + n - 1)
    OBVIOUS
  <2> HIDE DEF B
  <2> QED BY <1>3, <2>1, <2>2
<1> HIDE DEF B
<1>5. {x \in 0..(a + n - 1) : B(x)} = {x \in 0..(a - 1) : B(x)} \cup (a..(a + n - 1))
  BY <1>4, Zenon
<1>6. {<<s, p>> : p \in {x \in 0..(a + n - 1) : B(x)}}
        = {<<s, p>> : p \in {x \in 0..(a - 1) : B(x)}} \cup {<<s, p>> : p \in a..(a + n - 1)}
  BY <1>5, Zenon
<1> QED
  BY <1>6 DEF UpTo, Span, B

\* Bytes written at the end of a file follow the ones it has.
LEMMA OverlayEnd ==
  ASSUME NEW s \in Streams, NEW old \in Seq(FileBytes), NEW lo \in Nat, NEW n \in Nat \ {0},
         Rising(old), \A i \in DOMAIN old : old[i][2] < lo
  PROVE  LET x == Overlay(old, Len(old), Bytes(s, lo, n))
         IN /\ Len(x) = Len(old) + n /\ Rising(x)
            /\ Contents(x) = Contents(old) \cup Span(s, lo, n)
<1> DEFINE new == Bytes(s, lo, n)
           x == Overlay(old, Len(old), new)
           L == Len(old)
<1>1. /\ new \in Seq(FileBytes) /\ Len(new) = n /\ L \in Nat /\ DOMAIN old = 1..L
      /\ \A i \in 1..n : new[i] = <<s, lo + i - 1>>
  <2>1. new \in Seq(FileBytes) /\ Len(new) = n
    BY BytesAre
  <2> QED BY <2>1, LenProperties DEF Bytes
<1>2. x = [i \in 1..(L + n) |-> IF L < i THEN new[i - L] ELSE old[i]]
  <2> HIDE DEF new, L
  <2>1. x = [i \in 1..(IF L > L + n THEN L ELSE L + n) |->
               IF L < i /\ i <= L + n THEN new[i - L]
               ELSE IF i <= L THEN old[i] ELSE <<"zero", 0>>]
    BY <1>1 DEF Overlay, L
  <2>2. (IF L > L + n THEN L ELSE L + n) = L + n
    BY <1>1
  <2>3. \A i \in 1..(L + n) : (IF L < i /\ i <= L + n THEN new[i - L]
                               ELSE IF i <= L THEN old[i] ELSE <<"zero", 0>>)
                              = (IF L < i THEN new[i - L] ELSE old[i])
    BY <1>1
  <2> HIDE DEF x
  <2> QED BY <2>1, <2>2, <2>3
<1>3. x \in Seq(FileBytes)
  BY <1>1, OverlayTyped
<1> HIDE DEF x, L
<1>4. Len(x) = L + n /\ DOMAIN x = 1..(L + n)
  <2>1. DOMAIN x = 1..(L + n) /\ L + n \in Nat
    BY <1>1, <1>2
  <2> QED BY <1>3, <2>1, LenProperties
<1>5. /\ \A i \in 1..L : i \in DOMAIN x /\ x[i] = old[i]
      /\ \A i \in 1..n : L + i \in DOMAIN x /\ x[L + i] = <<s, lo + i - 1>>
  <2> HIDE DEF new
  <2>1. ASSUME NEW i \in 1..L
        PROVE  i \in DOMAIN x /\ x[i] = old[i]
    <3>1. i \in 1..(L + n) /\ ~(L < i)
      BY <1>1
    <3> QED BY <1>2, <1>4, <3>1
  <2>2. ASSUME NEW i \in 1..n
        PROVE  L + i \in DOMAIN x /\ x[L + i] = <<s, lo + i - 1>>
    <3>1. L + i \in 1..(L + n) /\ L < L + i /\ (L + i) - L = i
      BY <1>1
    <3>2. x[L + i] = new[(L + i) - L]
      BY <1>2, <3>1
    <3> QED BY <1>1, <1>4, <3>1, <3>2
  <2> QED BY <2>1, <2>2
<1> HIDE DEF new
<1>6. ASSUME NEW i \in 1..(L + n), i \notin 1..L
      PROVE  i - L \in 1..n /\ L + (i - L) = i
  BY <1>1, <1>6
<1>7. Contents(x) = Contents(old) \cup Span(s, lo, n)
  <2>1. ASSUME NEW c \in Contents(x)
        PROVE  c \in Contents(old) \cup Span(s, lo, n)
    <3>1. PICK i \in 1..(L + n) : c = x[i]
      BY <1>4 DEF Contents
    <3>2. CASE i \in 1..L
      BY <1>1, <1>5, <3>1, <3>2 DEF Contents
    <3>3. CASE i \notin 1..L
      <4> DEFINE d == i - L
      <4>1. d \in 1..n /\ L + d = i
        BY <1>6, <3>3
      <4> HIDE DEF d
      <4>2. c = <<s, lo + d - 1>> /\ lo + d - 1 \in lo..(lo + n - 1)
        <5>1. x[L + d] = <<s, lo + d - 1>>
          BY <1>5, <4>1
        <5> QED BY <3>1, <4>1, <5>1
      <4> QED BY <4>2 DEF Span
    <3> QED BY <3>2, <3>3
  <2>2. ASSUME NEW c \in Contents(old)
        PROVE  c \in Contents(x)
    <3>1. PICK i \in 1..L : c = old[i]
      BY <1>1 DEF Contents
    <3> QED BY <1>5, <3>1 DEF Contents
  <2>3. ASSUME NEW p \in lo..(lo + n - 1)
        PROVE  <<s, p>> \in Contents(x)
    <3> DEFINE d == p - lo + 1
    <3>1. d \in 1..n /\ lo + d - 1 = p
      OBVIOUS
    <3> HIDE DEF d
    <3>2. L + d \in DOMAIN x /\ x[L + d] = <<s, p>>
      BY <1>5, <3>1
    <3> QED BY <3>2 DEF Contents
  <2> QED BY <2>1, <2>2, <2>3 DEF Span
<1>8. Rising(x)
  <2> SUFFICES ASSUME NEW i \in 1..((L + n) - 1)
               PROVE  x[i][2] < x[i + 1][2]
    BY <1>4 DEF Rising
  <2>1. CASE i + 1 \in 1..L
    <3>1. i \in 1..L /\ i \in 1..(L - 1)
      BY <1>1, <2>1
    <3>2. old[i][2] < old[i + 1][2]
      BY <3>1 DEF Rising, L
    <3> QED BY <1>5, <2>1, <3>1, <3>2
  <2>2. CASE i = L /\ L > 0
    <3>1. i \in 1..L /\ 1 \in 1..n
      BY <1>1, <2>2
    <3>2. x[i] = old[i] /\ old[i][2] < lo
      BY <1>1, <1>5, <3>1
    <3>3. x[i + 1] = <<s, lo + 1 - 1>> /\ lo + 1 - 1 = lo
      BY <1>5, <2>2, <3>1
    <3> QED BY <3>2, <3>3
  <2>3. CASE L < i
    <3> DEFINE d == i - L
    <3>1. d \in 1..n /\ d + 1 \in 1..n /\ i = L + d /\ i + 1 = L + (d + 1)
      BY <1>1, <2>3
    <3> HIDE DEF d
    <3>2. x[L + d] = <<s, lo + d - 1>> /\ x[L + (d + 1)] = <<s, lo + (d + 1) - 1>>
      BY <1>5, <3>1
    <3>3. lo + d - 1 < lo + (d + 1) - 1
      BY <3>1
    <3> QED BY <3>1, <3>2, <3>3
  <2> QED BY <1>1, <2>1, <2>2, <2>3
<1> QED
  BY <1>4, <1>7, <1>8 DEF x, L, new

\* The payload is used up.
LEMMA EndPush ==
  ASSUME Inv, Inv', PushInv, OwnPaths, NEW s \in Streams, ReceiveEnd(s)
  PROVE  PushInv'
<1>1. /\ Receiving(s) /\ cur.pos = cur.hi /\ cur' = Free
      /\ state' = [state EXCEPT ![s] = "Receiving"]
      /\ UNCHANGED <<items, sent, receiver, dir, files>>
  BY DEF ReceiveEnd, ReceiveMore, Return, hostVars, fsVars
<1>2. NextByte(s) = cur.pos /\ sent[s] = cur.hi
  BY <1>1, ReceivingSynced
<1>3. NextByte(s)' = NextByte(s)
  BY <1>1, <1>2, SyncAssumption DEF NextByte, Free
<1>4. PICK j \in DOMAIN items[s], k \in DOMAIN items[s] : PushAt(s, j, k)
  BY <1>1, ReceivingPush
<1>5. /\ files \in Seq(Seq(FileBytes)) /\ files' \in Seq(Seq(FileBytes)) /\ Len(files') = Len(files)
      /\ Len(files') >= Len(files)
  BY <1>1 DEF Inv, TypeOK
<1>6. PushAt(s, j, k)'
  BY <1>1, <1>3, <1>4, <1>5, PushKept
<1>7. \A t \in Streams \ {s} : receiver'[t] = receiver[t] /\ state'[t] = state[t]
  BY <1>1 DEF Inv, TypeOK
<1> QED
  BY <1>1, <1>5, <1>6, <1>7, GoesOnPush

\* The bytes of a frame are added to the file of the push.
LEMMA DataPush ==
  ASSUME Inv, Inv', PushInv, OwnPaths, NEW s \in Streams, ReceiveData(s)
  PROVE  PushInv'
<1>1. /\ Receiving(s) /\ cur.pos < cur.hi /\ receiver[s].st = "Data"
      /\ UNCHANGED <<items, sent, acked, sender, waiting>>
  BY DEF ReceiveData, hostVars
<1>2. /\ cur.on = s /\ cur.pos \in Nat /\ cur.hi \in Nat
      /\ receiver[s] \in Receivers /\ receiver \in [Streams -> Receivers]
      /\ NextByte(s) = cur.pos /\ Synced(s)
  BY <1>1, ReceivingSynced DEF Inv, TypeOK
<1> DEFINE r == receiver[s]
           n == IF r.remaining < cur.hi - cur.pos THEN r.remaining ELSE cur.hi - cur.pos
           left == r.remaining - n
<1>3. /\ r.remaining \in Nat /\ r.off \in Nat /\ r.file \in Nat /\ r.left = << >>
  BY <1>1, <1>2 DEF Receivers, Synced
<1>4. \/ /\ receiver' = [receiver EXCEPT ![s].st = FrameState(left),
                                         ![s].remaining = left, ![s].off = @ + n]
         /\ files' = IF n = 0 THEN files
                     ELSE [files EXCEPT ![r.file] = Overlay(@, r.off, Bytes(s, cur.pos, n))]
         /\ cur' = [cur EXCEPT !.pos = @ + n]
         /\ UNCHANGED <<state, answers, dir>>
      \/ /\ Abort(s) /\ \E a : ReceiveDone(s, a)
         /\ UNCHANGED <<receiver, files>>
  BY Zenon DEF ReceiveData, LeftOfFrame
<1>5. PICK j \in DOMAIN items[s], k \in DOMAIN items[s] : PushAt(s, j, k)
  BY <1>1, ReceivingPush
<1> DEFINE e == After(items[s][k])
           b == items[s][k].at + HeaderSize
<1>6. /\ items[s][j].kind = "SEND" /\ j <= k /\ j < k
      /\ \A m \in (j + 1)..k : items[s][m].kind = "DATA"
      /\ r.remaining <= items[s][k].len /\ cur.pos + r.remaining = e
  BY <1>1, <1>2, <1>5 DEF PushAt, Placed
<1>7. /\ r.path = items[s][j].path /\ dir[r.path] = r.file /\ r.file \in 1..Len(files)
      /\ r.off = Len(files[r.file])
      /\ Contents(files[r.file]) = UpTo(s, j, k, cur.pos) /\ Rising(files[r.file])
  BY <1>2, <1>5 DEF PushAt, Holds, SoFar
<1>8. e \in Nat /\ b \in Nat /\ items[s][k].len \in Nat /\ e = b + items[s][k].len
  <2>1. HeaderSize \in Nat
    BY SyncAssumption
  <2>2. /\ items[s][k].at \in Nat /\ items[s][k].len \in Nat /\ e \in Nat
        /\ e = items[s][k].at + HeaderSize + items[s][k].len
    BY ItemsTyped DEF Inv, ItemsOf
  <2> HIDE DEF e
  <2> QED BY <2>1, <2>2
<1> HIDE DEF e, b
<1>9. /\ n \in Nat /\ left \in Nat /\ left <= r.remaining /\ cur.pos + n + left = e
      /\ cur.pos + n \in Nat /\ b <= cur.pos /\ cur.pos + n <= e
  <2> DEFINE rem == r.remaining
             len == items[s][k].len
             pos == cur.pos
             hi == cur.hi
  <2>1. rem \in Nat /\ len \in Nat /\ rem <= len /\ pos + rem = e
    BY <1>3, <1>6, <1>8
  <2>2. pos \in Nat /\ hi \in Nat /\ pos < hi /\ b \in Nat /\ e = b + len
    BY <1>1, <1>2, <1>8
  <2>3. n = (IF rem < hi - pos THEN rem ELSE hi - pos)
    OBVIOUS
  <2> HIDE DEF n, rem, len, pos, hi
  <2>4. n \in Nat /\ n <= rem
    BY <2>1, <2>2, <2>3
  <2>5. /\ rem - n \in Nat /\ rem - n <= rem /\ pos + n + (rem - n) = e
        /\ pos + n \in Nat /\ b <= pos /\ pos + n <= e
    BY <2>1, <2>2, <2>4
  <2> QED BY <2>4, <2>5 DEF rem, pos
<1> HIDE DEF n, left
<1>10. CASE Abort(s) /\ (\E a : ReceiveDone(s, a)) /\ UNCHANGED <<receiver, files>>
  BY <1>1, <1>10, DonePush
<1>11. CASE /\ receiver' = [receiver EXCEPT ![s].st = FrameState(left),
                                           ![s].remaining = left, ![s].off = @ + n]
            /\ files' = IF n = 0 THEN files
                        ELSE [files EXCEPT ![r.file] = Overlay(@, r.off, Bytes(s, cur.pos, n))]
            /\ cur' = [cur EXCEPT !.pos = @ + n]
            /\ UNCHANGED <<state, answers, dir>>
  <2> DEFINE f == r.file
             old == files[f]
  <2>1. files \in Seq(Seq(FileBytes)) /\ old \in Seq(FileBytes)
    <3>1. files \in Seq(Seq(FileBytes))
      BY DEF Inv, TypeOK
    <3> HIDE DEF r
    <3> QED BY <1>7, <3>1
  <2>2. /\ Len(files') = Len(files) /\ f \in 1..Len(files')
        /\ \A g \in 1..Len(files) : g # f => files'[g] = files[g]
        /\ Len(files'[f]) = Len(old) + n /\ Rising(files'[f])
        /\ Contents(files'[f]) = UpTo(s, j, k, cur.pos + n)
    <3>1. UpTo(s, j, k, cur.pos + n)
            = UpTo(s, j, k, cur.pos) \cup Span(s, cur.pos, n)
      BY <1>2, <1>6, <1>9, UpToMore DEF b, e
    <3>2. CASE n = 0
      <4>1. files' = files
        BY <1>11, <3>2
      <4>2. Len(old) \in Nat /\ Len(old) + n = Len(old) /\ cur.pos + n = cur.pos
        BY <1>2, <2>1, <3>2, LenProperties
      <4> QED BY <1>7, <4>1, <4>2
    <3>3. CASE n # 0
      <4> DEFINE x == Overlay(old, Len(old), Bytes(s, cur.pos, n))
      <4>1. files' = [files EXCEPT ![f] = x]
        BY <1>7, <1>11, <3>3
      <4>2. ASSUME NEW i \in DOMAIN old
            PROVE  old[i][2] < cur.pos
        <5>1. old[i] \in UpTo(s, j, k, cur.pos)
          BY <1>7 DEF Contents
        <5>2. PICK p \in 0..(cur.pos - 1) : old[i] = <<s, p>>
          BY <5>1 DEF UpTo
        <5>3. old[i][2] = p
          BY <5>2
        <5> QED BY <1>2, <5>3
      <4>3. /\ Len(x) = Len(old) + n /\ Rising(x)
            /\ Contents(x) = Contents(old) \cup Span(s, cur.pos, n)
        <5>1. n \in Nat \ {0} /\ Rising(old) /\ old \in Seq(FileBytes) /\ cur.pos \in Nat
          BY <1>2, <1>7, <1>9, <2>1, <3>3
        <5> HIDE DEF old
        <5>2. \A i \in DOMAIN old : old[i][2] < cur.pos
          BY <4>2
        <5> QED BY <5>1, <5>2, OverlayEnd
      <4>4. x \in Seq(FileBytes)
        <5>1. Bytes(s, cur.pos, n) \in Seq(FileBytes)
          BY <1>2, <1>9, BytesAre
        <5> QED BY <1>3, <1>7, <2>1, <5>1, OverlayTyped
      <4> HIDE DEF x
      <4>5. /\ files'[f] = x /\ \A g \in 1..Len(files) : g # f => files'[g] = files[g]
            /\ Len(files') = Len(files) /\ f \in 1..Len(files')
        <5> HIDE DEF f
        <5>1. f \in DOMAIN files /\ f \in 1..Len(files)
          BY <1>7, <2>1 DEF f
        <5>2. Len(files') = Len(files)
          BY <2>1, <4>1, <4>4, <5>1, ExceptSeq
        <5> QED BY <2>1, <4>1, <5>1, <5>2
      <4> QED BY <1>7, <3>1, <4>3, <4>5
    <3> QED BY <3>2, <3>3
  <2> DEFINE y == [receiver[s] EXCEPT !.st = FrameState(left), !.remaining = left, !.off = @ + n]
  <2>3. FrameState(left) = IF left = 0 THEN "Header" ELSE "Data"
    BY <1>9 DEF FrameState
  <2>4. /\ y.st = FrameState(left) /\ y.left = << >> /\ y.remaining = left /\ y.off = r.off + n
        /\ y.path = r.path /\ y.file = f
    BY <1>2, <1>3 DEF Receivers
  <2>5. receiver' = [receiver EXCEPT ![s] = y]
    BY <1>2, <1>11
  <2> HIDE DEF y
  <2>6. receiver'[s] = y /\ \A t \in Streams \ {s} : receiver'[t] = receiver[t]
    BY <1>2, <2>5
  <2>7. cur' = [cur EXCEPT !.pos = cur.pos + n] /\ cur'.on = s /\ cur'.pos = cur.pos + n
    BY <1>2, <1>11 DEF Inv, TypeOK
  <2>8. NextByte(s)' = cur.pos + n
    BY <2>7 DEF NextByte
  <2>9. Placed(s, j, k)'
    <3>1. /\ items'[s][j].kind = "SEND" /\ j <= k /\ j < k
          /\ \A m \in (j + 1)..k : items'[s][m].kind = "DATA"
          /\ After(items'[s][k]) = e /\ items'[s][k].len = items[s][k].len
      BY <1>1, <1>6 DEF e
    <3>2. CASE left = 0
      <4>1. receiver'[s].st = "Header" /\ receiver'[s].left = << >> /\ Len(<< >>) = 0
        BY <2>3, <2>4, <2>6, <3>2
      <4>2. NextByte(s)' = e + 0
        BY <1>2, <1>8, <1>9, <2>8, <3>2
      <4> QED BY <3>1, <4>1, <4>2 DEF Placed
    <3>3. CASE left # 0
      <4>1. receiver'[s].st = "Data" /\ receiver'[s].remaining = left
        BY <2>3, <2>4, <2>6, <3>3
      <4>2. NextByte(s)' + left = e /\ left <= items[s][k].len
        <5> HIDE DEF r
        <5> QED BY <1>3, <1>6, <1>8, <1>9, <2>8
      <4> QED BY <3>1, <4>1, <4>2 DEF Placed
    <3> QED BY <3>2, <3>3
  <2>10. Holds(s, j, k)'
    <3>1. SoFar(s, j, k)' = UpTo(s, j, k, cur.pos + n)
      BY <1>1, <2>8 DEF SoFar, UpTo, InBody
    <3>2. /\ receiver'[s].path = r.path /\ receiver'[s].file = f /\ receiver'[s].off = Len(old) + n
          /\ dir' = dir /\ items' = items
      BY <1>1, <1>7, <1>11, <2>4, <2>6
    <3> HIDE DEF r, old
    <3> QED BY <1>7, <2>2, <3>1, <3>2 DEF Holds
  <2>11. PushAt(s, j, k)'
    BY <2>9, <2>10 DEF PushAt
  <2>12. /\ \E m \in Nat : cur.pos <= m /\ cur' = [cur EXCEPT !.pos = m]
         /\ \A t \in Streams \ {s} : receiver'[t] = receiver[t] /\ state'[t] = state[t]
    <3>1. cur.pos <= cur.pos + n
      BY <1>2, <1>9
    <3> QED BY <1>9, <1>11, <2>6, <2>7, <3>1
  <2> QED BY <1>1, <1>11, <2>2, <2>11, <2>12, GoesOnPush
<1> QED
  BY <1>4, <1>10, <1>11

\* A header is complete, or the bytes of it that have come are kept.
LEMMA HeaderPush ==
  ASSUME Inv, Inv', PushInv, OwnPaths, NEW s \in Streams, ReceiveHeader(s)
  PROVE  PushInv'
<1>1. /\ Receiving(s) /\ cur.pos < cur.hi /\ receiver[s].st \in {"Header", "PartialHeader"}
      /\ UNCHANGED <<items, sent, acked, sender, waiting, files>>
  BY DEF ReceiveHeader, hostVars
<1>2. /\ cur.on = s /\ cur.pos \in Nat /\ cur.hi \in Nat /\ sent[s] = cur.hi
      /\ receiver[s] \in Receivers /\ receiver \in [Streams -> Receivers]
      /\ NextByte(s) = cur.pos
  BY <1>1, ReceivingSynced DEF Inv, TypeOK
<1>3. PICK j \in DOMAIN items[s], k \in DOMAIN items[s] : PushAt(s, j, k)
  BY <1>1, ReceivingPush
<1> DEFINE left == receiver[s].left
           need == HeaderSize - Len(left)
           bytes == left \o Bytes(s, cur.pos, need)
           e == After(items[s][k])
<1>4. /\ e \in Nat /\ cur.pos = e + Len(left) /\ Len(left) \in Nat /\ Len(left) < HeaderSize
  BY <1>1, <1>3, HeaderBytes
<1>5. /\ items[s][j].kind = "SEND" /\ j <= k /\ \A m \in (j + 1)..k : items[s][m].kind = "DATA"
      /\ Holds(s, j, k)
  BY <1>3 DEF PushAt, Placed
<1>6. j \in Nat /\ k \in Nat
  <2>1. items[s] \in Seq(Items)
    BY ItemsTyped DEF Inv
  <2> QED BY <2>1
<1>7. SoFar(s, j, k) = UpTo(s, j, k, e)
  <2>1. e <= cur.pos
    <3> HIDE DEF e, left
    <3> QED BY <1>4
  <2> QED BY <1>2, <2>1, UpToEnd DEF SoFar
<1>8. Len(files') = Len(files) /\ \A f \in 1..Len(files) : files'[f] = files[f]
  BY <1>1
<1>9. \/ /\ cur.pos + need <= cur.hi /\ Header(s, bytes, cur.pos + need)
      \/ /\ ~(cur.pos + need <= cur.hi) /\ Keep(s)
  BY DEF ReceiveHeader
<1>10. CASE /\ Abort(s) \/ UNCHANGED dir
            /\ \E a : ReceiveDone(s, a)
            /\ UNCHANGED receiver
  BY <1>1, <1>10, DonePush
<1>11. ASSUME NEW i \in ItemAt(s, bytes), i.kind = "DATA",
              receiver' = [receiver EXCEPT ![s].st = "Data", ![s].left = << >>,
                                           ![s].remaining = i.len],
              cur' = [cur EXCEPT !.pos = cur.pos + need],
              UNCHANGED <<state, answers, dir>>
       PROVE  PushInv'
  <2>1. /\ k + 1 \in DOMAIN items[s] /\ i = items[s][k + 1] /\ i.at = e
        /\ i.at + HeaderSize = cur.pos + need /\ cur.pos < i.at + HeaderSize
    BY <1>1, <1>3, HeaderFound
  <2>2. i.len \in Nat /\ After(i) = i.at + HeaderSize + i.len
    <3>1. i \in ItemsOf(s)
      BY <2>1 DEF ItemsOf
    <3> QED BY <3>1, ItemsTyped DEF Inv
  <2>3. /\ receiver'[s].st = "Data" /\ receiver'[s].remaining = i.len
        /\ receiver'[s].path = receiver[s].path /\ receiver'[s].file = receiver[s].file
        /\ receiver'[s].off = receiver[s].off
        /\ \A t \in Streams \ {s} : receiver'[t] = receiver[t]
    BY <1>2, <1>11 DEF Receivers
  <2> HIDE DEF need, bytes
  <2>4. cur'.on = s /\ NextByte(s)' = cur.pos + need
    BY <1>2, <1>11 DEF Inv, TypeOK, NextByte
  <2>5. Placed(s, j, k + 1)'
    <3>1. \A m \in (j + 1)..(k + 1) : items'[s][m].kind = "DATA"
      <4>1. \A m \in (j + 1)..(k + 1) : m = k + 1 \/ m \in (j + 1)..k
        BY <1>6
      <4> QED BY <1>1, <1>5, <1>11, <2>1, <4>1
    <3>2. j <= k + 1 /\ j < k + 1
      BY <1>5, <1>6
    <3>3. NextByte(s)' + i.len = After(i) /\ i.len <= i.len
      BY <2>1, <2>2, <2>4
    <3> QED BY <1>1, <1>5, <2>1, <2>3, <3>1, <3>2, <3>3 DEF Placed
  <2>6. SoFar(s, j, k + 1)' = SoFar(s, j, k)
    <3>1. SoFar(s, j, k + 1)' = UpTo(s, j, k + 1, cur.pos + need)
      BY <1>1, <2>4 DEF SoFar, UpTo, InBody
    <3>2. UpTo(s, j, k + 1, cur.pos + need) = UpTo(s, j, k, e)
      BY <1>5, <2>1, UpToNext
    <3> QED BY <1>7, <3>1, <3>2
  <2>7. Holds(s, j, k + 1)'
    BY <1>1, <1>5, <1>11, <2>3, <2>6, SameHolds
  <2>8. PushAt(s, j, k + 1)'
    BY <2>5, <2>7 DEF PushAt
  <2>9. cur.pos + need \in Nat /\ cur.pos <= cur.pos + need
    <3>1. HeaderSize \in Nat
      BY SyncAssumption
    <3> HIDE DEF left, e
    <3> QED BY <1>2, <1>4, <3>1 DEF need
  <2> QED BY <1>1, <1>8, <1>11, <2>1, <2>3, <2>8, <2>9, GoesOnPush
<1>12. CASE ~(cur.pos + need <= cur.hi) /\ Keep(s)
  <2> DEFINE m == cur.hi - cur.pos
             all == left \o Bytes(s, cur.pos, m)
  <2>1. m \in Nat /\ cur.pos + m = cur.hi
    BY <1>1, <1>2
  <2>2. /\ receiver' = [receiver EXCEPT ![s].st = "PartialHeader", ![s].left = all]
        /\ cur' = Free /\ state' = [state EXCEPT ![s] = "Receiving"]
        /\ UNCHANGED <<answers, dir>>
    BY <1>12 DEF Keep, ReceiveMore, Return
  <2> HIDE DEF m
  <2>3. Len(all) = Len(left) + m
    <3>1. all = Bytes(s, e, Len(left) + m)
      BY <1>1, <1>3, <2>1, HeaderBytes
    <3> HIDE DEF left, e, all
    <3>2. Len(left) + m \in Nat
      BY <1>4, <2>1
    <3>3. Len(Bytes(s, e, Len(left) + m)) = Len(left) + m
      BY <1>4, <3>2, BytesAre
    <3> QED BY <3>1, <3>3
  <2> HIDE DEF all
  <2>4. /\ receiver'[s].st = "PartialHeader" /\ receiver'[s].left = all
        /\ receiver'[s].path = receiver[s].path /\ receiver'[s].file = receiver[s].file
        /\ receiver'[s].off = receiver[s].off
        /\ \A t \in Streams \ {s} : receiver'[t] = receiver[t]
    BY <1>2, <2>2 DEF Receivers
  <2>5. NextByte(s)' = cur.hi
    BY <1>1, <1>2, <2>2, SyncAssumption DEF NextByte, Free
  <2>6. NextByte(s)' = e + Len(all) /\ e <= cur.hi
    <3> HIDE DEF e, left
    <3> QED BY <1>2, <1>4, <2>1, <2>3, <2>5
  <2>7. Placed(s, j, k)'
    BY <1>1, <1>5, <2>4, <2>6 DEF Placed
  <2>8. SoFar(s, j, k)' = SoFar(s, j, k)
    <3>1. SoFar(s, j, k)' = UpTo(s, j, k, cur.hi)
      BY <1>1, <2>5 DEF SoFar, UpTo, InBody
    <3>2. UpTo(s, j, k, cur.hi) = UpTo(s, j, k, e)
      BY <1>2, <2>6, UpToEnd
    <3> QED BY <1>7, <3>1, <3>2
  <2>9. Holds(s, j, k)'
    BY <1>1, <1>5, <2>2, <2>4, <2>8, SameHolds
  <2>10. PushAt(s, j, k)'
    BY <2>7, <2>9 DEF PushAt
  <2>11. \A t \in Streams \ {s} : receiver'[t] = receiver[t] /\ state'[t] = state[t]
    BY <2>2, <2>4 DEF Inv, TypeOK
  <2> QED BY <1>1, <1>8, <2>2, <2>10, <2>11, GoesOnPush
<1>13. CASE Header(s, bytes, cur.pos + need)
  <2> HIDE DEF bytes, need
  <2>1. \/ /\ Abort(s) /\ \E a : ReceiveDone(s, a)
           /\ UNCHANGED receiver
        \/ Finalize(s) /\ UNCHANGED receiver
        \/ /\ \E i \in ItemAt(s, bytes) :
                /\ i.kind = "DATA"
                /\ receiver' = [receiver EXCEPT ![s].st = "Data", ![s].left = << >>,
                                                ![s].remaining = i.len]
           /\ cur' = [cur EXCEPT !.pos = cur.pos + need]
           /\ UNCHANGED <<state, answers, dir>>
    BY <1>13, Zenon DEF Header
  <2>2. Finalize(s) => (Abort(s) \/ UNCHANGED dir) /\ \E a : ReceiveDone(s, a)
    BY Zenon DEF Finalize
  <2> QED BY <1>10, <1>11, <2>1, <2>2
<1> QED
  BY <1>9, <1>12, <1>13

\* Every step keeps the invariant of the pushes.
LEMMA NextPush ==
  ASSUME Inv, Inv', PushInv, OwnPaths, PlainSessions, [Next]_vars
  PROVE  PushInv'
<1>1. CASE UNCHANGED vars
  <2>1. UNCHANGED <<items, sent, cur, state, receiver, dir, files>>
    BY <1>1 DEF vars, hostVars, fsVars
  <2>2. Pushing'
    BY <2>1 DEF PushInv, Pushing, InReceive, PushAt, Placed, Holds, SoFar, UpTo, InBody, NextByte
  <2> QED BY <2>1, <2>2 DEF PushInv, OneName, EndsInTurn
<1>2. ASSUME NEW s \in Streams, NEW h, Wrte(s, h)
      PROVE  PushInv'
  BY <1>2, WrtePush
<1>3. ASSUME NEW s \in Streams, GiveUp(s) \/ HandleOkay(s) \/ HandleClse(s)
      PROVE  PushInv'
  BY <1>3, BetweenPush
<1>4. ASSUME NEW s \in Streams, Handle(s)
      PROVE  PushInv'
  BY <1>4, RequestPush, SendPush, HeaderPush, DataPush, EndPush DEF Handle
<1> QED
  BY <1>1, <1>2, <1>3, <1>4 DEF Next

-----------------------------------------------------------------------------
(* OKAY is answered when the file is there.                                *)

\* The bodies up to item k are what was pushed when the next item is DONE.
LEMMA PushedIs ==
  ASSUME Inv, NEW s \in Streams, NEW j \in DOMAIN items[s], NEW k \in DOMAIN items[s], j <= k,
         k + 1 \in DOMAIN items[s], items[s][j].kind = "SEND", items[s][k + 1].kind = "DONE",
         \A m \in (j + 1)..k : items[s][m].kind = "DATA"
  PROVE  /\ PushOf(s, k + 1) = j
         /\ Pushed(s, k + 1) = UpTo(s, j, k, After(items[s][k]))
<1> DEFINE q == items[s]
           e == After(q[k])
<1>1. q \in Seq(Items) /\ j \in Nat /\ k \in Nat /\ 1 <= j
  <2>1. q \in Seq(Items)
    BY ItemsTyped DEF Inv
  <2> QED BY <2>1
<1>2. PushOf(s, k + 1) = j
  <2> DEFINE C(a) == q[a].kind = "SEND" /\ \A m \in (a + 1)..(k + 1) : q[m].kind # "SEND"
  <2>1. j \in 1..(k + 1) /\ C(j)
    <3>1. ASSUME NEW m \in (j + 1)..(k + 1)
          PROVE  q[m].kind # "SEND"
      <4>1. m = k + 1 \/ m \in (j + 1)..k
        BY <1>1
      <4> QED BY <4>1
    <3>2. j \in 1..(k + 1)
      BY <1>1
    <3> QED BY <3>1, <3>2
  <2>2. ASSUME NEW a \in 1..(k + 1), C(a)
        PROVE  a = j
    <3>1. ~(a < j)
      <4>1. a < j => j \in (a + 1)..(k + 1)
        BY <1>1
      <4> QED BY <2>2, <4>1
    <3>2. ~(j < a)
      <4>1. j < a => a = k + 1 \/ a \in (j + 1)..k
        BY <1>1
      <4> QED BY <2>2, <4>1
    <3> QED BY <1>1, <3>1, <3>2
  <2> HIDE DEF C
  <2>3. (CHOOSE a \in 1..(k + 1) : C(a)) = j
    BY <2>1, <2>2
  <2> QED BY <2>3, Zenon DEF PushOf, C
<1>3. (k + 1) - 1 = k
  BY <1>1
<1> DEFINE F(m) == {<<s, p>> : p \in (q[m].at + HeaderSize)..(After(q[m]) - 1)}
<1>4. Pushed(s, k + 1) = UNION {F(m) : m \in (j + 1)..k}
  BY <1>2, <1>3, Zenon DEF Pushed
<1>5. ASSUME NEW m \in (j + 1)..k
      PROVE  /\ m \in DOMAIN q /\ q[m].at + HeaderSize \in Nat /\ After(q[m]) \in Nat
             /\ \A p : p \in (q[m].at + HeaderSize)..(After(q[m]) - 1)
                         <=> p \in Nat /\ InBody(s, m, p)
  <2>1. m \in DOMAIN q
    BY <1>1
  <2>2. /\ q[m].at + HeaderSize \in Nat /\ After(q[m]) \in Nat
    BY <2>1, ItemsTyped, SyncAssumption DEF Inv, ItemsOf
  <2> DEFINE b == q[m].at + HeaderSize
             c == After(q[m])
  <2>3. \A p : InBody(s, m, p) <=> b <= p /\ p < c
    BY DEF InBody
  <2> HIDE DEF b, c
  <2>4. b \in Nat /\ c \in Nat
    BY <2>2 DEF b, c
  <2>5. \A p : p \in b..(c - 1) <=> p \in Nat /\ b <= p /\ p < c
    BY <2>4
  <2> QED BY <2>1, <2>2, <2>3, <2>5 DEF b, c
<1>6. ASSUME NEW x
      PROVE  x \in UNION {F(m) : m \in (j + 1)..k} <=> x \in UpTo(s, j, k, e)
  <2>1. ASSUME NEW m \in (j + 1)..k, x \in F(m)
        PROVE  x \in UpTo(s, j, k, e)
    <3>1. PICK p \in (q[m].at + HeaderSize)..(After(q[m]) - 1) : x = <<s, p>>
      BY <2>1
    <3>2. p \in Nat /\ InBody(s, m, p)
      BY <1>5
    <3>3. p < e /\ e \in Nat
      <4>1. p < e
        BY <3>2, BodiesEnd
      <4> QED BY <4>1, ItemsTyped DEF Inv, ItemsOf
    <3> HIDE DEF e
    <3>4. p \in 0..(e - 1)
      BY <3>2, <3>3
    <3> QED BY <3>1, <3>2, <3>4 DEF UpTo
  <2>2. ASSUME x \in UpTo(s, j, k, e)
        PROVE  \E m \in (j + 1)..k : x \in F(m)
    <3>1. PICK p \in 0..(e - 1) : x = <<s, p>> /\ \E m \in (j + 1)..k : InBody(s, m, p)
      BY <2>2 DEF UpTo
    <3>2. PICK m \in (j + 1)..k : InBody(s, m, p)
      BY <3>1
    <3>3. p \in Nat
      <4> HIDE DEF e
      <4> QED BY <3>1
    <3> QED BY <1>5, <3>1, <3>2, <3>3
  <2> HIDE DEF F
  <2> QED BY <2>1, <2>2
<1> QED
  BY <1>2, <1>4, <1>6

\* When the header of DONE is complete, all that was sent of the push is in the
\* file at its path, and nothing else.
LEMMA PushIsStored ==
  ASSUME Inv, PushInv, PlainSessions, "join" \notin Cuts, NEW s \in Streams, Receiving(s),
         receiver[s].st \in {"Header", "PartialHeader"},
         cur.pos + (HeaderSize - Len(receiver[s].left)) <= cur.hi,
         NEW i \in ItemAt(s, receiver[s].left
                               \o Bytes(s, cur.pos, HeaderSize - Len(receiver[s].left))),
         i.kind = "DONE"
  PROVE  Stored(s)
<1> DEFINE q == items[s]
           need == HeaderSize - Len(receiver[s].left)
<1>1. PICK j \in DOMAIN items[s], k \in DOMAIN items[s] : PushAt(s, j, k)
  BY ReceivingPush
<1> DEFINE e == After(q[k])
<1>2. /\ k + 1 \in DOMAIN q /\ i = q[k + 1] /\ i.at = e
      /\ i.at + HeaderSize = cur.pos + need /\ cur.pos < i.at + HeaderSize
  BY <1>1, HeaderFound
<1>3. /\ cur.on = s /\ s # "none" /\ cur.pos \in Nat /\ cur.hi \in Nat /\ sent[s] = cur.hi
      /\ NextByte(s) = cur.pos
  BY ReceivingSynced, SyncAssumption
<1>4. i.len = 0
  <2>1. items \in Scripts
    BY DEF Inv, TypeOK
  <2> QED BY <1>2, <2>1 DEF PlainSessions
<1>5. \A c \in DOMAIN q : /\ q[c].at \in Nat /\ q[c].len \in Nat /\ After(q[c]) \in Nat
                          /\ After(q[c]) = q[c].at + HeaderSize + q[c].len
  BY ItemsTyped DEF Inv, ItemsOf
<1>6. HeaderSize \in Nat /\ HeaderSize > 0
  BY SyncAssumption
<1>7. After(i) = cur.hi
  <2>1. /\ i.at \in Nat /\ After(i) = i.at + HeaderSize + 0 /\ After(i) \in Nat
    BY <1>2, <1>4, <1>5
  <2>2. After(i) = i.at + HeaderSize
    BY <1>6, <2>1
  <2>3. cur.pos < After(i) /\ After(i) <= cur.hi
    BY <1>2, <2>2
  <2>4. ~(cur.pos < After(i) /\ After(i) < cur.hi)
    BY <1>2, <1>3 DEF PushInv, EndsInTurn
  <2> QED BY <1>3, <2>1, <2>3, <2>4
<1>8. ASSUME NEW n \in DOMAIN q, sent[s] = After(q[n])
      PROVE  n = k + 1
  <2>1. q \in Seq(Items)
    BY ItemsTyped DEF Inv
  <2>2. n \in Nat /\ k + 1 \in Nat
    BY <1>2, <2>1
  <2>3. \A a, b \in DOMAIN q : a < b => After(q[a]) <= q[b].at
    BY ItemsInOrder DEF Inv
  <2> DEFINE m == k + 1
  <2>4. /\ m \in DOMAIN q /\ After(q[m]) = After(q[n]) /\ m \in Nat
    BY <1>2, <1>3, <1>7, <1>8, <2>2
  <2> HIDE DEF m, q
  <2>5. ASSUME NEW a \in DOMAIN q, NEW b \in DOMAIN q, a < b, After(q[a]) = After(q[b])
        PROVE  FALSE
    <3>1. After(q[a]) <= q[b].at
      BY <2>3, <2>5
    <3>2. /\ q[b].at \in Nat /\ q[b].len \in Nat /\ After(q[b]) = q[b].at + HeaderSize + q[b].len
      BY <1>5
    <3> QED BY <1>6, <2>5, <3>1, <3>2
  <2>6. n \in DOMAIN q
    BY <1>8 DEF q
  <2>7. ~(n < m) /\ ~(m < n)
    BY <2>4, <2>5, <2>6
  <2>8. n = m
    BY <2>2, <2>4, <2>7
  <2> QED BY <2>8 DEF m
<1>9. /\ q[j].kind = "SEND" /\ j <= k /\ \A m \in (j + 1)..k : q[m].kind = "DATA"
      /\ Holds(s, j, k)
  BY <1>1 DEF PushAt, Placed
<1>10. /\ PushOf(s, k + 1) = j /\ Pushed(s, k + 1) = UpTo(s, j, k, e)
  BY <1>2, <1>9, PushedIs
<1>11. SoFar(s, j, k) = UpTo(s, j, k, e)
  <2>1. e <= cur.pos
    <3>1. e \in Nat /\ cur.pos = e + Len(receiver[s].left) /\ Len(receiver[s].left) \in Nat
      BY <1>1, HeaderBytes
    <3> HIDE DEF e
    <3> QED BY <3>1
  <2> QED BY <1>3, <2>1, UpToEnd DEF SoFar
<1> DEFINE f == dir[q[j].path]
<1>12. f # 0 /\ Contents(files[f]) = Pushed(s, k + 1) /\ Rising(files[f])
  BY <1>9, <1>10, <1>11 DEF Holds
<1> HIDE DEF q
<1> QED
  BY <1>8, <1>10, <1>12 DEF Stored, Contents, Rising, q

\* An answer that is not OKAY.
FailsOrGoesOn(s) == \/ UNCHANGED answers
                    \/ \E a : a.id # "OKAY" /\ Reply(s, a)

\* FAIL is not OKAY, whatever the reason.
LEMMA FailIs == \A why : Fail(why).id # "OKAY"
  BY DEF Fail, Answer

\* The next frame of a pull.
LEMMA ContinueSays ==
  ASSUME NEW s, NEW snd, Continue(s, snd)
  PROVE  FailsOrGoesOn(s)
<1>1. CASE snd.done
  BY <1>1, Zenon DEF Continue, FailsOrGoesOn
<1>2. CASE ~snd.done
  <2>1. \/ \E why : Reply(s, Fail(why))
        \/ Reply(s, NextFrame(snd))
    BY <1>2, Zenon DEF Continue
  <2>2. NextFrame(snd).id # "OKAY"
    BY DEF NextFrame, Answer
  <2> QED BY <2>1, <2>2, FailIs, Zenon DEF FailsOrGoesOn
<1> QED
  BY <1>1, <1>2

\* What the other steps answer.
LEMMA OtherSays ==
  ASSUME NEW s,
         \/ (\E h : Wrte(s, h)) \/ GiveUp(s) \/ HandleOkay(s) \/ HandleClse(s)
         \/ InvalidRequest(s) \/ HandleLstat(s) \/ HandleRecv(s) \/ HandleSend(s) \/ HandleQuit(s)
         \/ ReceiveData(s) \/ ReceiveEnd(s)
  PROVE  FailsOrGoesOn(s)
<1>1. CASE (\E h : Wrte(s, h)) \/ GiveUp(s) \/ HandleClse(s) \/ HandleQuit(s) \/ ReceiveEnd(s)
  BY <1>1, Zenon DEF Wrte, GiveUp, HandleClse, HandleQuit, ReceiveEnd, FailsOrGoesOn
<1>2. CASE HandleOkay(s)
  BY <1>2, ContinueSays, Zenon DEF HandleOkay, FailsOrGoesOn
<1>3. CASE InvalidRequest(s) \/ HandleSend(s)
  BY <1>3, FailIs, Zenon DEF InvalidRequest, HandleSend, FailsOrGoesOn
<1>4. CASE HandleLstat(s)
  <2>1. Answer("STAT", "none", << >>).id # "OKAY"
    BY DEF Answer
  <2> QED BY <1>4, <2>1, Zenon DEF HandleLstat, FailsOrGoesOn
<1>5. CASE HandleRecv(s)
  <2>1. \/ \E why : Reply(s, Fail(why))
        \/ UNCHANGED answers
        \/ \E snd : Continue(s, snd)
    BY <1>5, Zenon DEF HandleRecv
  <2> QED BY <2>1, FailIs, ContinueSays, Zenon DEF FailsOrGoesOn
<1>6. CASE ReceiveData(s)
  <2>1. UNCHANGED answers \/ \E why : Reply(s, Fail(why))
    BY <1>6, Zenon DEF ReceiveData, ReceiveDone
  <2> QED BY <2>1, FailIs, Zenon DEF FailsOrGoesOn
<1> QED
  BY <1>1, <1>2, <1>3, <1>4, <1>5, <1>6

\* A header that is complete and does not end the push.
LEMMA HeaderSays ==
  ASSUME NEW s, ReceiveHeader(s)
  PROVE  \/ FailsOrGoesOn(s)
         \/ LET need == HeaderSize - Len(receiver[s].left)
            IN /\ Receiving(s) /\ receiver[s].st \in {"Header", "PartialHeader"}
               /\ cur.pos + need <= cur.hi /\ (\E a : Reply(s, a)) /\ UNCHANGED <<items, sent, dir, files>>
               /\ \E i \in ItemAt(s, receiver[s].left \o Bytes(s, cur.pos, need)) : i.kind = "DONE"
<1> DEFINE need == HeaderSize - Len(receiver[s].left)
           bytes == receiver[s].left \o Bytes(s, cur.pos, need)
<1>1. /\ Receiving(s) /\ receiver[s].st \in {"Header", "PartialHeader"}
      /\ UNCHANGED <<items, sent, files>>
      /\ \/ Keep(s)
         \/ cur.pos + need <= cur.hi /\ Header(s, bytes, cur.pos + need)
  BY DEF ReceiveHeader, hostVars
<1> HIDE DEF need, bytes
<1>2. CASE Keep(s)
  BY <1>2, Zenon DEF Keep, FailsOrGoesOn
<1>3. CASE cur.pos + need <= cur.hi /\ Header(s, bytes, cur.pos + need)
  <2>1. \/ \E why : Reply(s, Fail(why))
        \/ UNCHANGED answers
        \/ Finalize(s) /\ \E i \in ItemAt(s, bytes) : i.kind = "DONE"
    BY <1>3, Zenon DEF Header, ReceiveDone
  <2>2. Finalize(s) => (\E why : Reply(s, Fail(why))) \/ (UNCHANGED dir /\ \E a : Reply(s, a))
    BY Zenon DEF Finalize, ReceiveDone
  <2>3. (\E why : Reply(s, Fail(why))) \/ UNCHANGED answers => FailsOrGoesOn(s)
    BY FailIs, Zenon DEF FailsOrGoesOn
  <2> QED BY <1>1, <1>3, <2>1, <2>2, <2>3 DEF need, bytes
<1> QED
  BY <1>1, <1>2, <1>3

\* An answer is one of its own stream, behind the ones before.
LEMMA ReplySays ==
  ASSUME Inv, NEW s \in Streams, NEW a, Reply(s, a), NEW t \in Streams, answers'[t] # answers[t]
  PROVE  t = s /\ answers'[t][Len(answers'[t])] = a
<1>1. /\ answers' = [answers EXCEPT ![s] = Append(answers[s], a)]
      /\ answers \in [Streams -> Seq(Answers)]
  BY DEF Reply, Inv, TypeOK
<1>2. t = s /\ answers'[s] = Append(answers[s], a) /\ answers[s] \in Seq(Answers)
  BY <1>1
<1> DEFINE q == answers[s]
<1>3. q \in Seq(Answers \cup {a}) /\ Len(q) \in Nat
  BY <1>2
<1> HIDE DEF q
<1>4. Len(Append(q, a)) = Len(q) + 1 /\ Append(q, a)[Len(q) + 1] = a
  BY <1>3
<1> QED
  BY <1>2, <1>4 DEF q

\* OKAY is answered only by the DONE that ends a push.
LEMMA OkayStores ==
  ASSUME Inv, PushInv, PlainSessions, "join" \notin Cuts, [Next]_vars, NEW t \in Streams,
         answers'[t] # answers[t], answers'[t][Len(answers'[t])].id = "OKAY"
  PROVE  Stored(t)'
<1>1. ASSUME NEW s \in Streams, FailsOrGoesOn(s)
      PROVE  FALSE
  <2>1. PICK a : a.id # "OKAY" /\ Reply(s, a)
    BY <1>1 DEF FailsOrGoesOn
  <2> QED BY <2>1, ReplySays
<1>2. ASSUME NEW s \in Streams, ReceiveHeader(s)
      PROVE  Stored(t)'
  <2> DEFINE need == HeaderSize - Len(receiver[s].left)
  <2>1. /\ Receiving(s) /\ receiver[s].st \in {"Header", "PartialHeader"}
        /\ cur.pos + need <= cur.hi /\ (\E a : Reply(s, a)) /\ UNCHANGED <<items, sent, dir, files>>
        /\ \E i \in ItemAt(s, receiver[s].left \o Bytes(s, cur.pos, need)) : i.kind = "DONE"
    BY <1>1, <1>2, HeaderSays
  <2>2. t = s
    BY <2>1, ReplySays
  <2>3. Stored(s)
    BY <2>1, PushIsStored
  <2>4. items' = items /\ sent' = sent /\ dir' = dir /\ files' = files
    BY <2>1
  <2>5. \A k : PushOf(s, k)' = PushOf(s, k)
    BY <2>4 DEF PushOf
  <2>6. \A k : Pushed(s, k)' = Pushed(s, k)
    BY <2>4, <2>5 DEF Pushed
  <2>7. Stored(s)'
    <3> DEFINE F(k) == dir[items[s][PushOf(s, k)].path]
    <3>1. \A k : F(k)' = F(k)
      BY <2>4, <2>5
    <3>2. \A k \in DOMAIN items[s] :
            items[s][k].kind = "DONE" /\ sent[s] = After(items[s][k]) =>
              /\ F(k) # 0 /\ Contents(files[F(k)]) = Pushed(s, k) /\ Rising(files[F(k)])
      BY <2>3 DEF Stored, Contents, Rising
    <3> HIDE DEF F
    <3>3. \A k \in DOMAIN items'[s] :
            items'[s][k].kind = "DONE" /\ sent'[s] = After(items'[s][k]) =>
              /\ F(k)' # 0 /\ Contents(files'[F(k)']) = Pushed(s, k)' /\ Rising(files'[F(k)'])
      BY <2>4, <2>6, <3>1, <3>2
    <3> QED BY <3>3 DEF Stored, Contents, Rising, F
  <2> QED BY <2>2, <2>7
<1>3. ~UNCHANGED vars
  BY DEF vars
<1>4. PICK s \in Streams : \/ \E h \in 1..End(items[s]) : Wrte(s, h)
                           \/ GiveUp(s) \/ HandleOkay(s) \/ HandleClse(s) \/ Handle(s)
  BY <1>3 DEF Next
<1> QED
  BY <1>1, <1>2, <1>4, OtherSays, Zenon DEF Handle

\* FileReceiver: OKAY is answered to DONE only when the file at the path the
\* host named holds the bytes of the push, all of them, once and in order,
\* wherever the host cuts its bytes and whatever fails.  Three things are
\* assumed of the hosts, and the README says what happens without each: no
\* path has a comma, no two streams push to one path, and what follows an item
\* that is answered waits for the answer.
THEOREM OkayIsStored ==
  ASSUME PlainSessions, OwnPaths, "join" \notin Cuts
  PROVE  Spec => OkayMeansStored
<1> DEFINE Both == Inv /\ PushInv
           Step == \A s \in Streams :
                     answers'[s] # answers[s] /\ answers'[s][Len(answers'[s])].id = "OKAY"
                       => Stored(s)'
<1>1. Init => Both
  BY InitInv, InitPush
<1>2. Both /\ [Next]_vars => Both'
  BY NextInv, NextPush
<1>3. Both /\ [Next]_vars => Step
  BY OkayStores
<1> HIDE DEF Both
<1>4. Spec => [][Step]_vars
  <2> HIDE DEF Step
  <2> QED BY <1>1, <1>2, <1>3, PTL DEF Spec
<1> QED
  BY <1>4, PTL DEF OkayMeansStored

-----------------------------------------------------------------------------
(* One answer for each exchange.                                           *)

\* Settled, of the answers w to the items q.
Matches(w, q, K) ==
  \E g \in [K -> DOMAIN w] :
    /\ \A j, k \in K : j < k => g[j] < g[k]
    /\ \A k \in K : w[g[k]].id \in AnswersTo(q[k].kind)
    /\ \A n \in DOMAIN w : w[n].id # "DATA" => \E k \in K : g[k] = n

AllSettled(s) == Matches(answers[s], items[s], Begun(s))

\* Request k is the last that was begun, and the others are settled.
LastBegun(s, k) ==
  /\ items[s][k].kind \in Requests /\ items[s][k].at < sent[s]
  /\ \A j \in Begun(s) : j <= k
  /\ Matches(answers[s], items[s], Begun(s) \ {k})

\* Which requests of a session are settled, by what it is doing.
Exchange(s) ==
  /\ cur.on # s /\ state[s] = "Idle" => AllSettled(s)
  /\ state[s] = "Sending" /\ sender[s].done => AllSettled(s)
  /\ Handling(s) => \E k \in DOMAIN items[s] :
                      /\ LastBegun(s, k)
                      /\ cur.pos = items[s][k].at /\ After(items[s][k]) <= cur.hi
  /\ InReceive(s) => \E k \in DOMAIN items[s] : LastBegun(s, k) /\ items[s][k].kind = "SEND"
  /\ state[s] = "Sending" /\ ~sender[s].done =>
       \E k \in DOMAIN items[s] : LastBegun(s, k) /\ items[s][k].kind = "RECV"

InExchange == \A s \in Streams : Compliant(items[s]) /\ state[s] # "Closed" => Exchange(s)

\* The host sends a WRTE when it has read every answer, and while a file is sent
\* the host has one more to read.
Turn(s) == /\ cur.on = s => HasRead(s) /\ state[s] \in {"Idle", "Receiving"}
           /\ state[s] = "Sending" => acked[s] + 1 = Len(answers[s])
           /\ state[s] \in {"Idle", "Receiving"} => ~waiting[s]

InTurn == \A s \in Streams : Turn(s)

\* A frame of a pull settles nothing.
LEMMA MatchesMore ==
  ASSUME NEW w \in Seq(Answers), NEW q, NEW K, NEW a, a.id = "DATA", Matches(w, q, K)
  PROVE  Matches(Append(w, a), q, K)
<1>1. PICK g \in [K -> DOMAIN w] :
        /\ \A j, k \in K : j < k => g[j] < g[k]
        /\ \A k \in K : w[g[k]].id \in AnswersTo(q[k].kind)
        /\ \A n \in DOMAIN w : w[n].id # "DATA" => \E k \in K : g[k] = n
  BY DEF Matches
<1> DEFINE v == Append(w, a)
<1>2. /\ DOMAIN v = DOMAIN w \cup {Len(w) + 1} /\ v[Len(w) + 1] = a
      /\ \A n \in DOMAIN w : v[n] = w[n]
  <2>1. w \in Seq(Answers \cup {a})
    OBVIOUS
  <2> QED BY <2>1
<1> HIDE DEF v
<1>3. g \in [K -> DOMAIN v]
  BY <1>2
<1>4. \A k \in K : v[g[k]] = w[g[k]]
  BY <1>2
<1>5. \A n \in DOMAIN v : v[n].id # "DATA" => n \in DOMAIN w /\ w[n].id # "DATA"
  BY <1>2
<1>6. Matches(v, q, K)
  BY <1>1, <1>3, <1>4, <1>5 DEF Matches
<1> QED
  BY <1>6 DEF v

\* An answer of the last request settles it.
LEMMA MatchesEnd ==
  ASSUME NEW w \in Seq(Answers), NEW q, NEW K, NEW k \in K, K \subseteq Nat, \A j \in K : j <= k,
         NEW a, a.id \in AnswersTo(q[k].kind), Matches(w, q, K \ {k})
  PROVE  Matches(Append(w, a), q, K)
<1>1. PICK g \in [K \ {k} -> DOMAIN w] :
        /\ \A i, j \in K \ {k} : i < j => g[i] < g[j]
        /\ \A j \in K \ {k} : w[g[j]].id \in AnswersTo(q[j].kind)
        /\ \A n \in DOMAIN w : w[n].id # "DATA" => \E j \in K \ {k} : g[j] = n
  BY DEF Matches
<1> DEFINE v == Append(w, a)
           x == [j \in K |-> IF j = k THEN Len(w) + 1 ELSE g[j]]
<1>2. /\ DOMAIN v = DOMAIN w \cup {Len(w) + 1} /\ v[Len(w) + 1] = a
      /\ \A n \in DOMAIN w : v[n] = w[n] /\ n < Len(w) + 1
  <2>1. w \in Seq(Answers \cup {a})
    OBVIOUS
  <2> QED BY <2>1
<1>3. /\ x[k] = Len(w) + 1
      /\ \A j \in K \ {k} : x[j] = g[j] /\ g[j] \in DOMAIN w /\ v[g[j]] = w[g[j]] /\ g[j] < Len(w) + 1
  BY <1>2
<1>4. x \in [K -> DOMAIN v]
  BY <1>2
<1> HIDE DEF v, x
<1>5. ASSUME NEW i \in K, NEW j \in K, i < j
      PROVE  x[i] < x[j]
  <2>1. i # k
    BY <1>5
  <2>2. CASE j = k
    BY <1>3, <2>1, <2>2
  <2>3. CASE j # k
    BY <1>1, <1>3, <1>5, <2>1, <2>3
  <2> QED BY <2>2, <2>3
<1>6. \A j \in K : v[x[j]].id \in AnswersTo(q[j].kind)
  BY <1>1, <1>2, <1>3
<1>7. ASSUME NEW n \in DOMAIN v, v[n].id # "DATA"
      PROVE  \E j \in K : x[j] = n
  <2>1. CASE n = Len(w) + 1
    BY <1>3, <2>1
  <2>2. CASE n \in DOMAIN w
    <3>1. PICK j \in K \ {k} : g[j] = n
      BY <1>1, <1>2, <1>7, <2>2
    <3> QED BY <1>3, <3>1
  <2> QED BY <1>2, <2>1, <2>2
<1>8. Matches(v, q, K)
  BY <1>4, <1>5, <1>6, <1>7 DEF Matches
<1> QED
  BY <1>8 DEF v

\* After a frame or a request that opens a push come frames, up to a DONE.
LEMMA PushEnds ==
  ASSUME TypeOK, NEW s \in Streams, Compliant(items[s]), NEW a \in DOMAIN items[s],
         items[s][a].kind \in {"SEND", "DATA"}
  PROVE  \E c \in DOMAIN items[s] : /\ a < c /\ items[s][c].kind = "DONE"
                                    /\ \A m \in DOMAIN items[s] : a < m /\ m < c => items[s][m].kind = "DATA"
<1> DEFINE q == items[s]
           T == {c \in DOMAIN q : a < c /\ q[c].kind # "DATA"}
<1>1. \A k \in DOMAIN q : q[k].kind \in {"SEND", "DATA"} => k + 1 \in DOMAIN q /\ q[k + 1].kind \in Frames
  BY DEF Compliant
<1>2. q \in Seq(Items)
  BY ItemsTyped
<1> HIDE DEF q
<1>3. DOMAIN q = 1..Len(q) /\ Len(q) \in Nat /\ a \in DOMAIN q
  BY <1>2 DEF q
<1>4. T # {}
  <2>1. a + 1 \in DOMAIN q
    BY <1>1 DEF q
  <2>2. a < Len(q) /\ Len(q) \in DOMAIN q
    BY <1>3, <2>1
  <2>3. Len(q) + 1 \notin DOMAIN q
    BY <1>3
  <2>4. q[Len(q)].kind # "DATA"
    BY <1>1, <2>2, <2>3
  <2> QED BY <2>2, <2>4
<1>5. PICK c \in T : \A y \in T : ~(y < c)
  <2>1. T \subseteq Nat
    BY <1>3
  <2> HIDE DEF T
  <2> QED BY <1>4, <2>1, LeastNumber
<1>6. c - 1 \in DOMAIN q /\ a <= c - 1 /\ (c - 1) + 1 = c /\ c - 1 < c
  BY <1>3, <1>5
<1>7. q[c - 1].kind \in {"SEND", "DATA"}
  <2>1. CASE c - 1 = a
    BY <2>1 DEF q
  <2>2. CASE a < c - 1
    BY <1>5, <1>6, <2>2
  <2> QED BY <1>3, <1>6, <2>1, <2>2
<1>8. q[c].kind \in Frames
  BY <1>1, <1>6, <1>7
<1>9. q[c].kind = "DONE"
  BY <1>5, <1>8 DEF Frames
<1>10. \A m \in DOMAIN q : a < m /\ m < c => q[m].kind = "DATA"
  BY <1>5
<1> QED
  BY <1>5, <1>9, <1>10 DEF q

\* A WRTE that begins in a push holds no request after it.
LEMMA NoNewRequest ==
  ASSUME TypeOK, NEW s \in Streams, Compliant(items[s]), NEW a \in DOMAIN items[s],
         items[s][a].kind \in {"SEND", "DATA"}, sent[s] < After(items[s][a]) + HeaderSize,
         NEW h \in Nat, EndsAnswered(s, h), NEW m \in DOMAIN items[s],
         items[s][m].kind \in Requests, a < m
  PROVE  h <= items[s][m].at
<1>1. PICK c \in DOMAIN items[s] :
        /\ a < c /\ items[s][c].kind = "DONE"
        /\ \A n \in DOMAIN items[s] : a < n /\ n < c => items[s][n].kind = "DATA"
  BY PushEnds
<1>2. items[s] \in Seq(Items)
  BY ItemsTyped
<1>3. a \in Nat /\ c \in Nat /\ m \in Nat
  BY <1>2
<1>4. c < m
  <2>1. m # c /\ ~(m < c)
    BY <1>1 DEF Requests
  <2> QED BY <1>3, <2>1
<1>5. After(items[s][c]) <= items[s][m].at /\ After(items[s][a]) <= items[s][c].at
  BY <1>1, <1>4, ItemsInOrder
<1>6. /\ After(items[s][c]) = items[s][c].at + HeaderSize + items[s][c].len
      /\ items[s][c].at \in Nat /\ items[s][c].len \in Nat /\ items[s][m].at \in Nat
      /\ After(items[s][a]) \in Nat /\ After(items[s][c]) \in Nat
  BY ItemsTyped, ItemsInOrder
<1>7. HeaderSize \in Nat /\ sent[s] \in Nat
  BY SyncAssumption DEF TypeOK
<1>8. sent[s] < After(items[s][c])
  BY <1>5, <1>6, <1>7
<1>9. ~(After(items[s][c]) < h)
  BY <1>1, <1>8 DEF EndsAnswered
<1> QED
  BY <1>5, <1>6, <1>9

\* The receiver is in the frame after some item of the push, or in the item.
LEMMA InItem ==
  ASSUME Inv, NEW s \in Streams, InReceive(s)
  PROVE  \E a \in DOMAIN items[s] :
           /\ items[s][a].kind \in {"SEND", "DATA"} /\ items[s][a].at < NextByte(s)
           /\ NextByte(s) < After(items[s][a]) + HeaderSize
           /\ NextByte(s) < After(items[s][a]) => items[s][a].kind = "DATA"
<1>1. Synced(s) /\ TypeOK /\ receiver[s] \in Receivers
  BY DEF Inv, InSync, Synced, TypeOK
<1>2. PICK i \in ItemsOf(s) :
        /\ i.kind \in {"SEND", "DATA"} /\ i.at < NextByte(s) /\ NextByte(s) < After(i) + HeaderSize
        /\ NextByte(s) < After(i) => i.kind = "DATA"
  <2>1. HeaderSize \in Nat \ {0} /\ NextByte(s) \in Nat
    BY <1>1, SyncAssumption DEF TypeOK, NextByte
  <2>2. Len(receiver[s].left) \in Nat /\ receiver[s].remaining \in Nat
    BY <1>1 DEF Receivers
  <2>3. \A i \in ItemsOf(s) : /\ i.at \in Nat /\ i.len \in Nat /\ After(i) \in Nat
                              /\ After(i) = i.at + HeaderSize + i.len
    BY <1>1, ItemsTyped
  <2>4. PICK i \in ItemsOf(s), n \in Nat :
          \/ i.kind \in {"SEND", "DATA"} /\ n < HeaderSize /\ NextByte(s) = After(i) + n
          \/ i.kind = "DATA" /\ n <= i.len /\ NextByte(s) + n = After(i)
    <3>1. CASE receiver[s].st = "Header"
      <4>1. PICK i \in ItemsOf(s) : i.kind \in {"SEND", "DATA"} /\ NextByte(s) = After(i)
        BY <1>1, <3>1 DEF Synced
      <4>2. NextByte(s) = After(i) + 0 /\ 0 < HeaderSize
        BY <2>1, <4>1
      <4> QED BY <4>1, <4>2
    <3>2. CASE receiver[s].st = "PartialHeader"
      BY <1>1, <2>2, <3>2 DEF Synced
    <3>3. CASE receiver[s].st = "Data"
      BY <1>1, <2>2, <3>3 DEF Synced
    <3> QED BY <1>1, <3>1, <3>2, <3>3 DEF Receivers
  <2>5. i.at \in Nat /\ i.len \in Nat /\ After(i) = i.at + HeaderSize + i.len
    BY <2>3
  <2>6. i.at < NextByte(s) /\ NextByte(s) < After(i) + HeaderSize
    BY <2>1, <2>4, <2>5
  <2>7. NextByte(s) < After(i) => i.kind = "DATA"
    BY <2>1, <2>4, <2>5
  <2> QED BY <2>4, <2>6, <2>7
<1> QED
  BY <1>2 DEF ItemsOf

\* What a step of one stream leaves of the others.
Only(s) ==
  /\ items' = items /\ cur.on \in {s, "none"} /\ cur'.on \in {s, "none"}
  /\ \A t \in Streams \ {s} :
       /\ sent'[t] = sent[t] /\ acked'[t] = acked[t] /\ state'[t] = state[t]
       /\ sender'[t] = sender[t] /\ waiting'[t] = waiting[t] /\ answers'[t] = answers[t]

\* Continue is a step of one stream.
LEMMA ContinueOnly ==
  ASSUME TypeOK, NEW s \in Streams, NEW snd, Continue(s, snd)
  PROVE  \A t \in Streams \ {s} : /\ state'[t] = state[t] /\ sender'[t] = sender[t]
                                  /\ waiting'[t] = waiting[t] /\ answers'[t] = answers[t]
<1>1. CASE snd.done
  BY <1>1 DEF Continue, TypeOK
<1>2. CASE ~snd.done
  <2>1. PICK f : /\ Reply(s, f)
                 /\ state' = [state EXCEPT ![s] = "Sending"]
                 /\ sender' = [sender EXCEPT ![s] = [snd EXCEPT !.off = @ + Len(f.data),
                                                                !.done = f.id # "DATA"]]
                 /\ waiting' = [waiting EXCEPT ![s] = TRUE]
    BY <1>2, Zenon DEF Continue
  <2> QED BY <2>1 DEF Reply, TypeOK
<1> QED
  BY <1>1, <1>2

\* Every step is of one stream.
LEMMA OnlyOne ==
  ASSUME Inv, NEW s \in Streams,
         \/ \E h \in 1..End(items[s]) : Wrte(s, h)
         \/ GiveUp(s) \/ HandleOkay(s) \/ HandleClse(s) \/ Handle(s)
  PROVE  Only(s)
<1>0. TypeOK /\ cur.on \in Streams \cup {"none"}
  BY DEF Inv, TypeOK
<1>1. ASSUME NEW h, Wrte(s, h)
      PROVE  Only(s)
  BY <1>0, <1>1 DEF Wrte, Only, Free, TypeOK
<1>2. CASE GiveUp(s)
  BY <1>0, <1>2 DEF GiveUp, Only, Free, TypeOK
<1>3. CASE HandleOkay(s)
  <2>1. /\ cur = Free /\ acked' = [acked EXCEPT ![s] = @ + 1] /\ UNCHANGED <<items, sent, cur>>
    BY <1>3 DEF HandleOkay
  <2>2. \A t \in Streams \ {s} : /\ state'[t] = state[t] /\ sender'[t] = sender[t]
                                 /\ waiting'[t] = waiting[t] /\ answers'[t] = answers[t]
    <3>1. CASE state[s] = "Sending"
      BY <1>0, <1>3, <3>1, ContinueOnly DEF HandleOkay
    <3>2. CASE state[s] # "Sending"
      BY <1>0, <1>3, <3>2 DEF HandleOkay, TypeOK
    <3> QED BY <3>1, <3>2
  <2> QED BY <1>0, <2>1, <2>2 DEF Only, Free, TypeOK
<1>4. CASE HandleClse(s)
  BY <1>0, <1>4 DEF HandleClse, Only, Free, TypeOK, hostVars
<1>5. CASE InvalidRequest(s) \/ HandleLstat(s) \/ HandleQuit(s)
  <2>1. /\ cur.on = s /\ cur' = Free /\ UNCHANGED <<items, sent, acked, sender, waiting>>
    BY <1>5 DEF InvalidRequest, HandleLstat, HandleQuit, Handling, Return, hostVars
  <2>2. \/ (\E a : Reply(s, a)) /\ state' = state
        \/ state' = [state EXCEPT ![s] = "Closed"] /\ answers' = answers
    BY <1>5, Zenon DEF InvalidRequest, HandleLstat, HandleQuit
  <2>3. \A t \in Streams \ {s} : state'[t] = state[t] /\ answers'[t] = answers[t]
    BY <1>0, <2>2 DEF Reply, TypeOK
  <2> QED BY <2>1, <2>3 DEF Only, Free
<1>6. CASE HandleRecv(s)
  <2>1. /\ cur.on = s /\ cur' = Free /\ UNCHANGED <<items, sent, acked>>
    BY <1>6 DEF HandleRecv, Handling, Return, hostVars
  <2>2. \A t \in Streams \ {s} : /\ state'[t] = state[t] /\ sender'[t] = sender[t]
                                 /\ waiting'[t] = waiting[t] /\ answers'[t] = answers[t]
    <3>1. PICK i : \/ (\E why : Reply(s, Fail(why))) /\ UNCHANGED <<state, sender, waiting>>
                   \/ /\ state' = [state EXCEPT ![s] = "Sending"]
                      /\ sender' = [sender EXCEPT ![s] = NewSender(dir[i.path])]
                      /\ UNCHANGED <<waiting, answers>>
                   \/ Continue(s, NewSender(dir[i.path]))
      BY <1>6, Zenon DEF HandleRecv
    <3>2. CASE (\E why : Reply(s, Fail(why))) /\ UNCHANGED <<state, sender, waiting>>
      BY <1>0, <3>2 DEF Reply, TypeOK
    <3>3. CASE /\ state' = [state EXCEPT ![s] = "Sending"]
               /\ sender' = [sender EXCEPT ![s] = NewSender(dir[i.path])]
               /\ UNCHANGED <<waiting, answers>>
      BY <1>0, <3>3 DEF TypeOK
    <3>4. CASE Continue(s, NewSender(dir[i.path]))
      BY <1>0, <3>4, ContinueOnly
    <3> QED BY <3>1, <3>2, <3>3, <3>4
  <2> QED BY <2>1, <2>2 DEF Only, Free
<1>7. CASE HandleSend(s)
  <2>1. /\ cur.on = s /\ UNCHANGED <<items, sent, acked, state, sender, waiting>>
    BY <1>7 DEF HandleSend, Handling, hostVars
  <2>2. \/ cur' = Free /\ \E a : Reply(s, a)
        \/ answers' = answers /\ \E n : cur' = [cur EXCEPT !.pos = n, !.leftover = TRUE]
    BY <1>7, Zenon DEF HandleSend, Return
  <2>3. \A t \in Streams \ {s} : answers'[t] = answers[t]
    BY <1>0, <2>2 DEF Reply, TypeOK
  <2>4. cur'.on \in {s, "none"}
    <3>1. CASE cur' = Free
      BY <3>1 DEF Free
    <3>2. ASSUME NEW n, cur' = [cur EXCEPT !.pos = n, !.leftover = TRUE]
          PROVE  cur'.on = s
      <4>1. cur \in [on : Streams \cup {"none"}, pos : Nat, hi : Nat, leftover : BOOLEAN]
        BY <1>0 DEF TypeOK
      <4> QED BY <2>1, <3>2, <4>1
    <3> QED BY <2>2, <3>1, <3>2
  <2> QED BY <2>1, <2>3, <2>4 DEF Only
<1>8. CASE ReceiveHeader(s) \/ ReceiveData(s) \/ ReceiveEnd(s)
  <2>1. /\ cur.on = s /\ UNCHANGED <<items, sent, acked, sender, waiting>>
    BY <1>8 DEF ReceiveHeader, ReceiveData, ReceiveEnd, Receiving, hostVars
  <2>2. \/ \E a : ReceiveDone(s, a)
        \/ ReceiveMore(s) /\ answers' = answers
        \/ UNCHANGED <<state, answers>> /\ \E n : cur' = [cur EXCEPT !.pos = n]
    <3>1. CASE ReceiveHeader(s)
      BY <3>1, Zenon DEF ReceiveHeader, Header, Finalize, Keep
    <3>2. CASE ReceiveData(s)
      BY <3>2, Zenon DEF ReceiveData
    <3>3. CASE ReceiveEnd(s)
      BY <3>3 DEF ReceiveEnd
    <3> QED BY <1>8, <3>1, <3>2, <3>3
  <2>3. CASE \E a : ReceiveDone(s, a)
    BY <1>0, <2>1, <2>3 DEF ReceiveDone, Return, Free, Only, Reply, TypeOK
  <2>4. CASE ReceiveMore(s) /\ answers' = answers
    BY <1>0, <2>1, <2>4 DEF ReceiveMore, Return, Free, Only, TypeOK
  <2>5. CASE UNCHANGED <<state, answers>> /\ \E n : cur' = [cur EXCEPT !.pos = n]
    BY <1>0, <2>1, <2>5 DEF Only, TypeOK
  <2> QED BY <2>2, <2>3, <2>4, <2>5
<1> QED
  BY <1>1, <1>2, <1>3, <1>4, <1>5, <1>6, <1>7, <1>8, Zenon DEF Handle

\* A step of one stream changes nothing of another's turn and exchanges.
LEMMA OtherTurn ==
  ASSUME NEW s \in Streams, Only(s), NEW t \in Streams \ {s}
  PROVE  /\ Turn(t) => Turn(t)'
         /\ Exchange(t) => Exchange(t)'
         /\ Compliant(items'[t]) = Compliant(items[t]) /\ state'[t] = state[t]
<1>1. /\ items'[t] = items[t] /\ sent'[t] = sent[t] /\ acked'[t] = acked[t] /\ state'[t] = state[t]
      /\ sender'[t] = sender[t] /\ waiting'[t] = waiting[t] /\ answers'[t] = answers[t]
      /\ cur.on # t /\ cur'.on # t
  BY SyncAssumption DEF Only
<1>2. Turn(t) => Turn(t)'
  BY <1>1 DEF Turn, HasRead
<1>3. Begun(t)' = Begun(t)
  BY <1>1 DEF Begun
<1>4. \A k : LastBegun(t, k)' <=> LastBegun(t, k)
  BY <1>1, <1>3 DEF LastBegun
<1>5. AllSettled(t)' <=> AllSettled(t)
  BY <1>1, <1>3 DEF AllSettled
<1>6. ~Handling(t) /\ ~Handling(t)' /\ (InReceive(t)' <=> InReceive(t))
  BY <1>1 DEF Handling, InReceive
<1>7. Exchange(t) => Exchange(t)'
  BY <1>1, <1>4, <1>5, <1>6 DEF Exchange
<1> QED
  BY <1>1, <1>2, <1>7

\* An answer is put behind the others.
LEMMA ReplyIs ==
  ASSUME TypeOK, NEW s \in Streams, NEW a, Reply(s, a)
  PROVE  /\ answers'[s] = Append(answers[s], a) /\ Len(answers[s]) \in Nat
         /\ Len(answers'[s]) = Len(answers[s]) + 1 /\ answers'[s][Len(answers[s]) + 1] = a
         /\ \A n \in 1..Len(answers[s]) : answers'[s][n] = answers[s][n]
<1>1. answers'[s] = Append(answers[s], a) /\ answers[s] \in Seq(Answers)
  BY DEF Reply, TypeOK
<1> DEFINE q == answers[s]
<1>2. q \in Seq(Answers \cup {a}) /\ Len(q) \in Nat
  BY <1>1
<1> HIDE DEF q
<1>3. /\ Len(Append(q, a)) = Len(q) + 1 /\ Append(q, a)[Len(q) + 1] = a
      /\ \A n \in 1..Len(q) : Append(q, a)[n] = q[n]
  BY <1>2
<1> QED
  BY <1>1, <1>2, <1>3 DEF q

\* The next frame of a pull, or the failure to read it.
FrameOf(snd, f) == (f.id = "FAIL" /\ f.data = << >>) \/ f = NextFrame(snd)

\* maybe_submit_wrte_sync on a transfer that is not done.
LEMMA ContinueDoes ==
  ASSUME TypeOK, NEW s \in Streams, NEW snd \in Senders, ~snd.done, Continue(s, snd)
  PROVE  /\ state'[s] = "Sending"
         /\ \E f : /\ FrameOf(snd, f) /\ Reply(s, f)
                   /\ sender'[s] = [snd EXCEPT !.off = @ + Len(f.data), !.done = f.id # "DATA"]
<1>1. PICK f : /\ \/ \E why : f = Fail(why)
                  \/ f = NextFrame(snd)
               /\ Reply(s, f)
               /\ state' = [state EXCEPT ![s] = "Sending"]
               /\ sender' = [sender EXCEPT ![s] = [snd EXCEPT !.off = @ + Len(f.data),
                                                              !.done = f.id # "DATA"]]
  BY Zenon DEF Continue
<1>2. \A why : Fail(why).id = "FAIL" /\ Fail(why).data = << >>
  BY DEF Fail, Answer
<1>3. FrameOf(snd, f)
  BY <1>1, <1>2, Zenon DEF FrameOf
<1>4. state'[s] = "Sending"
  BY <1>1 DEF TypeOK
<1>5. sender'[s] = [snd EXCEPT !.off = @ + Len(f.data), !.done = f.id # "DATA"]
  BY <1>1 DEF TypeOK
<1> QED
  BY <1>1, <1>3, <1>4, <1>5

\* An answer that is no frame of a pull.
PlainReply(s) == \E a : a.id # "DATA" /\ Reply(s, a)

\* What an iteration of handle() does to its stream.
LEMMA HandleDoes ==
  ASSUME Inv, NEW s \in Streams, Handle(s)
  PROVE  /\ cur.on = s /\ UNCHANGED <<items, sent, acked>>
         /\ \/ /\ UNCHANGED <<sender, waiting>> /\ cur' = Free /\ PlainReply(s)
               /\ state'[s] \in {state[s], "Idle"}
            \/ UNCHANGED <<sender, waiting, answers>> /\ state'[s] \in {state[s], "Receiving"}
            \/ UNCHANGED <<sender, waiting, answers>> /\ cur' = Free /\ state'[s] = "Closed"
            \/ cur' = Free /\ waiting[s]
            \/ /\ cur' = Free /\ UNCHANGED <<dir, files>>
               /\ \E i \in RequestsIn(s, cur.pos, cur.hi) :
                    i.kind = "RECV" /\ dir[i.path] # 0 /\ Continue(s, NewSender(dir[i.path]))
<1>0. \A why : Fail(why).id # "DATA"
  BY DEF Fail, Answer
<1>1. CASE InvalidRequest(s) \/ HandleLstat(s)
  <2>1. Answer("STAT", "none", << >>).id # "DATA"
    BY DEF Answer
  <2>2. PlainReply(s)
    BY <1>0, <1>1, <2>1, Zenon DEF InvalidRequest, HandleLstat, PlainReply
  <2>3. cur.on = s /\ Return /\ UNCHANGED <<items, sent, acked, sender, waiting, state>>
    BY <1>1 DEF InvalidRequest, HandleLstat, Handling, hostVars
  <2> QED BY <2>2, <2>3 DEF Return
<1>2. CASE HandleQuit(s)
  BY <1>2 DEF HandleQuit, Handling, hostVars, Return, Inv, TypeOK
<1>3. CASE HandleRecv(s)
  <2>1. /\ cur.on = s /\ cur' = Free /\ UNCHANGED <<items, sent, acked, dir, files>>
    BY <1>3 DEF HandleRecv, Handling, Return, hostVars, fsVars
  <2>2. \/ (\E why : Reply(s, Fail(why))) /\ UNCHANGED <<state, sender, waiting>>
        \/ waiting[s]
        \/ \E i \in RequestsIn(s, cur.pos, cur.hi) :
             i.kind = "RECV" /\ dir[i.path] # 0 /\ Continue(s, NewSender(dir[i.path]))
    BY <1>3, Zenon DEF HandleRecv
  <2>3. (\E why : Reply(s, Fail(why))) => PlainReply(s)
    BY <1>0, Zenon DEF PlainReply
  <2> QED BY <2>1, <2>2, <2>3
<1>4. CASE HandleSend(s)
  <2>1. /\ cur.on = s /\ UNCHANGED <<items, sent, acked, state, sender, waiting>>
    BY <1>4 DEF HandleSend, Handling, hostVars
  <2>2. \/ cur' = Free /\ \E why : Reply(s, Fail(why))
        \/ answers' = answers
    BY <1>4, Zenon DEF HandleSend, Return
  <2>3. (\E why : Reply(s, Fail(why))) => PlainReply(s)
    BY <1>0, Zenon DEF PlainReply
  <2> QED BY <2>1, <2>2, <2>3
<1>5. CASE ReceiveHeader(s) \/ ReceiveData(s) \/ ReceiveEnd(s)
  <2>1. /\ cur.on = s /\ UNCHANGED <<items, sent, acked, sender, waiting>>
    BY <1>5 DEF ReceiveHeader, ReceiveData, ReceiveEnd, Receiving, hostVars
  <2>2. \/ \E a : ReceiveDone(s, a) /\ a.id # "DATA"
        \/ ReceiveMore(s) /\ answers' = answers
        \/ UNCHANGED <<state, answers>>
    <3>1. CASE ReceiveHeader(s)
      <4>1. Answer("OKAY", "none", << >>).id # "DATA"
        BY DEF Answer
      <4> QED BY <1>0, <3>1, <4>1, Zenon DEF ReceiveHeader, Header, Finalize, Keep
    <3>2. CASE ReceiveData(s)
      BY <1>0, <3>2, Zenon DEF ReceiveData
    <3>3. CASE ReceiveEnd(s)
      BY <3>3 DEF ReceiveEnd
    <3> QED BY <1>5, <3>1, <3>2, <3>3
  <2>3. CASE \E a : ReceiveDone(s, a) /\ a.id # "DATA"
    <3>1. PlainReply(s) /\ cur' = Free
      BY <2>3 DEF ReceiveDone, Return, PlainReply
    <3>2. state'[s] \in {state[s], "Idle"}
      BY <2>3 DEF ReceiveDone, Inv, TypeOK
    <3> QED BY <2>1, <3>1, <3>2
  <2>4. CASE ReceiveMore(s) /\ answers' = answers
    BY <2>1, <2>4 DEF ReceiveMore, Inv, TypeOK
  <2>5. CASE UNCHANGED <<state, answers>>
    BY <2>1, <2>5
  <2> QED BY <2>2, <2>3, <2>4, <2>5
<1> QED
  BY <1>1, <1>2, <1>3, <1>4, <1>5, Zenon DEF Handle

\* The file that a pull begins to send.
LEMMA NewPull ==
  ASSUME Inv, NEW s \in Streams, NEW i \in RequestsIn(s, cur.pos, cur.hi)
  PROVE  /\ NewSender(dir[i.path]) \in Senders /\ ~NewSender(dir[i.path]).done
         /\ NewSender(dir[i.path]).off = 0 /\ NewSender(dir[i.path]).file = dir[i.path]
         /\ i \in ItemsOf(s)
<1>1. i \in ItemsOf(s)
  BY DEF RequestsIn, ItemAt, ItemsOf
<1>2. i.path \in Paths
  BY <1>1, ItemsTyped DEF Inv
<1>3. dir[i.path] \in Nat
  BY <1>2 DEF Inv, TypeOK
<1> QED
  BY <1>1, <1>3 DEF NewSender, Senders

\* InTurn at the start.
LEMMA InitTurn == Init => InTurn
BY SyncAssumption DEF Init, InTurn, Turn, Free

\* InTurn, step by step.
LEMMA NextTurn ==
  ASSUME Inv, InTurn, "join" \notin Cuts, [Next]_vars
  PROVE  InTurn'
<1>1. CASE UNCHANGED vars
  BY <1>1 DEF InTurn, Turn, HasRead, vars, hostVars
<1>2. ASSUME NEW s \in Streams,
             \/ \E h \in 1..End(items[s]) : Wrte(s, h)
             \/ GiveUp(s) \/ HandleOkay(s) \/ HandleClse(s) \/ Handle(s)
      PROVE  InTurn'
  <2>0. TypeOK /\ Turn(s) /\ s # "none" /\ Free.on = "none"
    BY SyncAssumption DEF Inv, InTurn, Free
  <2>1. SUFFICES Turn(s)'
    <3>1. \A t \in Streams \ {s} : Turn(t)'
      BY <1>2, OnlyOne, OtherTurn DEF InTurn
    <3> QED BY <3>1 DEF InTurn
  <2>2. acked[s] \in Nat /\ Len(answers[s]) \in Nat /\ state[s] \in {"Idle", "Sending", "Receiving", "Closed"}
    BY <2>0 DEF TypeOK
  <2>3. ASSUME NEW h, Wrte(s, h)
        PROVE  Turn(s)'
    <3>1. /\ HasRead(s) /\ state[s] # "Closed" /\ UNCHANGED <<acked, answers, state, waiting>>
      BY <2>3 DEF Wrte
    <3>2. state[s] \in {"Idle", "Receiving"}
      BY <2>0, <2>2, <3>1 DEF Turn, HasRead
    <3> QED BY <2>0, <3>1, <3>2 DEF Turn, HasRead
  <2>4. CASE GiveUp(s)
    BY <2>0, <2>4 DEF GiveUp, Turn, HasRead
  <2>5. CASE HandleClse(s)
    BY <2>0, <2>5 DEF HandleClse, Turn, HasRead, TypeOK
  <2>6. CASE HandleOkay(s)
    <3>1. cur'.on = "none" /\ acked'[s] = acked[s] + 1
      BY <2>0, <2>6 DEF HandleOkay, TypeOK
    <3>2. CASE state[s] # "Sending"
      BY <2>0, <2>6, <3>1, <3>2 DEF HandleOkay, Turn, TypeOK
    <3>3. CASE state[s] = "Sending" /\ sender[s].done
      BY <2>0, <2>6, <3>1, <3>3 DEF HandleOkay, Continue, Turn, TypeOK
    <3>4. CASE state[s] = "Sending" /\ ~sender[s].done
      <4>1. sender[s] \in Senders
        BY <2>0 DEF TypeOK, Senders
      <4>2. state'[s] = "Sending" /\ \E f : Reply(s, f)
        BY <2>0, <2>6, <3>4, <4>1, ContinueDoes DEF HandleOkay
      <4>3. Len(answers'[s]) = Len(answers[s]) + 1
        BY <2>0, <4>2, ReplyIs
      <4> QED BY <2>0, <2>2, <3>1, <3>4, <4>2, <4>3 DEF Turn
    <3> QED BY <3>2, <3>3, <3>4
  <2>7. CASE Handle(s)
    <3>1. cur.on = s /\ UNCHANGED <<items, sent, acked>>
      BY <2>7, HandleDoes
    <3>2. HasRead(s) /\ state[s] \in {"Idle", "Receiving"} /\ ~waiting[s]
      BY <2>0, <3>1 DEF Turn
    <3>3. CASE /\ UNCHANGED <<sender, waiting>> /\ cur' = Free /\ state'[s] \in {state[s], "Idle"}
      BY <2>0, <3>2, <3>3 DEF Turn
    <3>4. CASE UNCHANGED <<sender, waiting, answers>> /\ state'[s] \in {state[s], "Receiving"}
      BY <2>0, <3>1, <3>2, <3>4 DEF Turn, HasRead
    <3>5. CASE cur' = Free /\ state'[s] = "Closed"
      BY <2>0, <3>5 DEF Turn
    <3>6. ASSUME NEW i \in RequestsIn(s, cur.pos, cur.hi), cur' = Free, Continue(s, NewSender(dir[i.path]))
          PROVE  Turn(s)'
      <4>1. state'[s] = "Sending" /\ \E f : Reply(s, f)
        BY <2>0, <3>6, NewPull, ContinueDoes
      <4>2. Len(answers'[s]) = Len(answers[s]) + 1
        BY <2>0, <4>1, ReplyIs
      <4> QED BY <2>0, <3>1, <3>2, <3>6, <4>1, <4>2 DEF Turn, HasRead
    <3> QED BY <2>7, <3>2, <3>3, <3>4, <3>5, <3>6, HandleDoes
  <2> QED BY <1>2, <2>3, <2>4, <2>5, <2>6, <2>7
<1> QED
  BY <1>1, <1>2 DEF Next

\* Items are known by where they begin.
LEMMA ItemsApart ==
  ASSUME TypeOK, NEW s \in Streams, NEW a \in DOMAIN items[s], NEW b \in DOMAIN items[s]
  PROVE  /\ items[s][a].at \in Nat /\ After(items[s][a]) \in Nat /\ items[s][a].at < After(items[s][a])
         /\ items[s][a].at < After(items[s][b]) /\ items[s][b].at <= items[s][a].at => a = b
         /\ a < b => items[s][a].at < items[s][b].at
<1>1. /\ \A c \in DOMAIN items[s] :
           /\ items[s][c].at \in Nat /\ items[s][c].len \in Nat /\ After(items[s][c]) \in Nat
           /\ After(items[s][c]) = items[s][c].at + HeaderSize + items[s][c].len
      /\ items[s] \in Seq(Items)
  BY ItemsTyped, ItemsInOrder
<1>2. HeaderSize \in Nat \ {0}
  BY SyncAssumption
<1>3. ASSUME NEW c \in DOMAIN items[s]
      PROVE  items[s][c].at < After(items[s][c]) /\ items[s][c].at \in Nat /\ After(items[s][c]) \in Nat
  <2>1. /\ items[s][c].at \in Nat /\ items[s][c].len \in Nat /\ After(items[s][c]) \in Nat
        /\ After(items[s][c]) = items[s][c].at + HeaderSize + items[s][c].len
    BY <1>1
  <2> QED BY <1>2, <2>1
<1>4. a \in Nat /\ b \in Nat
  BY <1>1
<1>5. /\ a < b => After(items[s][a]) <= items[s][b].at
      /\ b < a => After(items[s][b]) <= items[s][a].at
  BY ItemsInOrder
<1>6. /\ items[s][a].at < After(items[s][a]) /\ items[s][a].at \in Nat /\ After(items[s][a]) \in Nat
      /\ items[s][b].at < After(items[s][b]) /\ items[s][b].at \in Nat /\ After(items[s][b]) \in Nat
  BY <1>3
<1> QED
  BY <1>4, <1>5, <1>6

\* Every byte of a session is in an item.
LEMMA ByteInItem ==
  ASSUME TypeOK, NEW s \in Streams, NEW p \in Nat, p < End(items[s])
  PROVE  \E k \in DOMAIN items[s] : items[s][k].at <= p /\ p < After(items[s][k])
<1> DEFINE q == items[s]
           T == {k \in DOMAIN q : p < After(q[k])}
<1>1. q \in Seq(Items)
  BY ItemsTyped
<1>2. q # << >> /\ p < After(q[Len(q)])
  BY DEF End
<1>3. /\ q # << >> => q[1].at = 0
      /\ \A k \in 1..(Len(q) - 1) : q[k + 1].at = After(q[k])
  BY SessionAssumption DEF TypeOK
<1>4. \A k \in DOMAIN q : After(q[k]) \in Nat
  BY ItemsApart
<1> HIDE DEF q
<1>5. Len(q) \in Nat /\ DOMAIN q = 1..Len(q) /\ Len(q) \in DOMAIN q
  BY <1>1, <1>2
<1>6. PICK k \in T : \A y \in T : ~(y < k)
  <2>1. T \subseteq Nat /\ T # {}
    BY <1>2, <1>5
  <2> HIDE DEF T
  <2> QED BY <2>1, LeastNumber
<1>7. CASE k = 1
  <2>1. q[k].at <= p
    BY <1>2, <1>3, <1>7
  <2> QED BY <1>6, <2>1 DEF q
<1>8. CASE k # 1
  <2>1. k - 1 \in 1..(Len(q) - 1) /\ k - 1 \in DOMAIN q /\ k - 1 < k /\ (k - 1) + 1 = k
    BY <1>5, <1>6, <1>8
  <2>2. ~(p < After(q[k - 1])) /\ q[k].at = After(q[k - 1]) /\ After(q[k - 1]) \in Nat
    BY <1>3, <1>4, <1>6, <2>1
  <2>3. q[k].at <= p
    BY <2>2
  <2> QED BY <1>6, <2>3 DEF q
<1> QED
  BY <1>7, <1>8

\* The requests begun in the session of one stream, as numbers.
LEMMA BegunIs ==
  ASSUME TypeOK, NEW s \in Streams
  PROVE  Begun(s) \subseteq Nat /\ Begun(s) \subseteq DOMAIN items[s] /\ sent[s] \in Nat
<1>1. items[s] \in Seq(Items)
  BY ItemsTyped
<1> QED
  BY <1>1 DEF Begun, TypeOK

\* The answer of the last request settles all.
LEMMA EndsExchange ==
  ASSUME Inv, NEW s \in Streams, NEW k \in DOMAIN items[s], LastBegun(s, k),
         items[s][k].kind # "QUIT", NEW a, a.id \in AnswersTo(items[s][k].kind),
         Reply(s, a), UNCHANGED <<items, sent>>
  PROVE  AllSettled(s)'
<1>1. answers'[s] = Append(answers[s], a) /\ answers[s] \in Seq(Answers)
  BY ReplyIs DEF Inv, TypeOK
<1>2. Begun(s)' = Begun(s)
  BY DEF Begun
<1>3. k \in Begun(s) /\ \A j \in Begun(s) : j <= k
  BY DEF LastBegun, Begun
<1>4. Matches(answers[s], items[s], Begun(s) \ {k})
  BY DEF LastBegun
<1>5. Begun(s) \subseteq Nat
  BY BegunIs DEF Inv
<1> DEFINE w == answers[s]
           q == items[s]
           K == Begun(s)
<1> HIDE DEF w, q, K
<1>6. Matches(Append(w, a), q, K)
  <2>1. /\ w \in Seq(Answers) /\ k \in K /\ K \subseteq Nat /\ \A j \in K : j <= k
        /\ a.id \in AnswersTo(q[k].kind) /\ Matches(w, q, K \ {k})
    BY <1>1, <1>3, <1>4, <1>5 DEF w, q, K
  <2> QED BY <2>1, MatchesEnd
<1> QED
  BY <1>1, <1>2, <1>6 DEF AllSettled, w, q, K

\* A frame of a pull leaves its request open.
LEMMA DataExchange ==
  ASSUME Inv, NEW s \in Streams, NEW k \in DOMAIN items[s], LastBegun(s, k),
         NEW a, a.id = "DATA", Reply(s, a), UNCHANGED <<items, sent>>
  PROVE  LastBegun(s, k)'
<1>1. answers'[s] = Append(answers[s], a) /\ answers[s] \in Seq(Answers)
  BY ReplyIs DEF Inv, TypeOK
<1>2. Begun(s)' = Begun(s)
  BY DEF Begun
<1>3. Matches(answers[s], items[s], Begun(s) \ {k})
  BY DEF LastBegun
<1>4. Matches(Append(answers[s], a), items[s], Begun(s) \ {k})
  <2> DEFINE w == answers[s]
             q == items[s]
             K == Begun(s) \ {k}
  <2>1. w \in Seq(Answers) /\ Matches(w, q, K)
    BY <1>1, <1>3
  <2> HIDE DEF w, q, K
  <2>2. Matches(Append(w, a), q, K)
    BY <2>1, MatchesMore
  <2> QED BY <2>2 DEF w, q, K
<1> QED
  BY <1>1, <1>2, <1>4 DEF LastBegun

\* Nothing is answered: what was open stays open.
LEMMA SameExchange ==
  ASSUME NEW s, answers'[s] = answers[s], items' = items, Begun(s)' = Begun(s)
  PROVE  /\ AllSettled(s)' <=> AllSettled(s)
         /\ sent'[s] = sent[s] => \A k : LastBegun(s, k)' <=> LastBegun(s, k)
BY DEF AllSettled, LastBegun

\* A session that has answered is settled.
LEMMA SettledExchange ==
  ASSUME NEW s \in Streams, AllSettled(s)', cur' = Free,
         state'[s] = "Idle" \/ (state'[s] = "Sending" /\ sender'[s].done)
  PROVE  Exchange(s)'
BY SyncAssumption DEF Exchange, Free, Handling, InReceive

-----------------------------------------------------------------------------
\* A WRTE in a push brings no new request.
LEMMA PushBegun ==
  ASSUME Inv, NEW s \in Streams, Compliant(items[s]), InReceive(s), cur.on # s,
         NEW h \in Nat, sent[s] < h, EndsAnswered(s, h), sent' = [sent EXCEPT ![s] = h], items' = items
  PROVE  Begun(s)' = Begun(s)
<1>1. TypeOK
  BY DEF Inv
<1>2. PICK a \in DOMAIN items[s] :
        /\ items[s][a].kind \in {"SEND", "DATA"} /\ items[s][a].at < sent[s]
        /\ sent[s] < After(items[s][a]) + HeaderSize
  BY InItem DEF NextByte
<1>3. sent[s] \in Nat /\ sent'[s] = h /\ items[s] \in Seq(Items)
  BY <1>1, ItemsTyped DEF TypeOK
<1>4. ASSUME NEW m \in DOMAIN items[s], items[s][m].kind \in Requests
      PROVE  items[s][m].at < h <=> items[s][m].at < sent[s]
  <2>1. items[s][m].at \in Nat /\ items[s][a].at \in Nat
    BY <1>1, ItemsApart
  <2>2. a \in Nat /\ m \in Nat
    BY <1>3
  <2>3. CASE a < m
    <3>1. h <= items[s][m].at
      BY <1>1, <1>2, <1>4, <2>3, NoNewRequest
    <3> QED BY <1>3, <2>1, <3>1
  <2>4. CASE m <= a
    <3>1. items[s][m].at <= items[s][a].at
      <4>1. m < a => items[s][m].at < items[s][a].at
        BY <1>1, ItemsApart
      <4> QED BY <2>1, <2>2, <2>4, <4>1
    <3> QED BY <1>2, <1>3, <2>1, <3>1
  <2> QED BY <2>2, <2>3, <2>4
<1> QED
  BY <1>3, <1>4 DEF Begun

\* A WRTE of a session that is Idle begins with a request, and brings no other.
LEMMA RequestBegun ==
  ASSUME Inv, NEW s \in Streams, Compliant(items[s]), ~InPush(s), NEW h \in Nat, sent[s] < h,
         h <= End(items[s]), Whole(s, h), EndsAnswered(s, h), sent' = [sent EXCEPT ![s] = h],
         items' = items
  PROVE  \E k \in DOMAIN items[s] :
           /\ items[s][k].at = sent[s] /\ items[s][k].kind \in Requests
           /\ After(items[s][k]) <= h
           /\ k \notin Begun(s) /\ Begun(s)' \ {k} = Begun(s) /\ \A j \in Begun(s)' : j <= k
<1>1. TypeOK
  BY DEF Inv
<1>2. sent[s] \in Nat /\ sent'[s] = h /\ items[s] \in Seq(Items) /\ sent[s] < End(items[s])
  <2>1. sent[s] \in Nat /\ sent'[s] = h /\ items[s] \in Seq(Items)
    BY <1>1, ItemsTyped DEF TypeOK
  <2>2. End(items[s]) \in Nat
    <3>1. items[s] # << >> => Len(items[s]) \in DOMAIN items[s]
      BY <2>1
    <3> QED BY <1>1, <3>1, ItemsApart DEF End
  <2> QED BY <2>1, <2>2
<1>3. PICK k \in DOMAIN items[s] : items[s][k].at <= sent[s] /\ sent[s] < After(items[s][k])
  BY <1>1, <1>2, ByteInItem
<1>4. items[s][k].at \in Nat /\ After(items[s][k]) \in Nat
  BY <1>1, ItemsApart
<1>5. items[s][k].kind \notin Frames /\ ~(items[s][k].at < sent[s])
  BY <1>3 DEF InPush
<1>6. items[s][k].at = sent[s]
  BY <1>2, <1>3, <1>4, <1>5
<1>7. items[s][k].kind \in Requests
  <2>1. items[s][k] \in Items
    BY <1>2
  <2>2. items[s][k].kind \in Requests \cup Frames
    BY <2>1 DEF Items
  <2> QED BY <1>5, <2>2
<1>8. After(items[s][k]) <= h
  <2>1. ~(items[s][k].at < h /\ h < After(items[s][k]))
    BY <1>7 DEF Whole
  <2> QED BY <1>4, <1>6, <2>1
<1>9. ASSUME NEW m \in DOMAIN items[s], items[s][m].kind \in Requests
      PROVE  /\ m < k => items[s][m].at < sent[s] /\ items[s][m].at < h
             /\ k < m => ~(items[s][m].at < h)
  <2>1. items[s][m].at \in Nat
    BY <1>1, ItemsApart
  <2>2. m < k => items[s][m].at < items[s][k].at
    BY <1>1, ItemsApart
  <2>3. ASSUME k < m
        PROVE  h <= items[s][m].at
    <3>1. CASE items[s][k].kind = "SEND"
      <4>1. sent[s] < After(items[s][k]) + HeaderSize
        BY <1>2, <1>3, <1>4, SyncAssumption
      <4> QED BY <1>1, <1>9, <2>3, <3>1, <4>1, NoNewRequest
    <3>2. CASE items[s][k].kind # "SEND"
      <4>1. items[s][k].kind \notin {"SEND", "DATA"}
        BY <1>7, <3>2 DEF Requests
      <4>2. ~(After(items[s][k]) < h)
        BY <1>3, <4>1 DEF EndsAnswered
      <4>3. After(items[s][k]) <= items[s][m].at
        BY <1>1, <2>3, ItemsInOrder
      <4> QED BY <1>4, <2>1, <4>2, <4>3
    <3> QED BY <3>1, <3>2
  <2> QED BY <1>2, <1>6, <2>1, <2>2, <2>3
<1>10. \A m \in DOMAIN items[s] : m \in Nat
  BY <1>2
<1>11. k \notin Begun(s)
  BY <1>5, <1>6 DEF Begun
<1>12. \A j \in Begun(s)' : j \in DOMAIN items[s] /\ items[s][j].kind \in Requests \ {"QUIT"} /\ items[s][j].at < h
  BY <1>2 DEF Begun
<1>13. \A j \in Begun(s)' : j <= k
  BY <1>9, <1>10, <1>12
<1>14. Begun(s)' \ {k} = Begun(s)
  <2>1. ASSUME NEW j \in Begun(s)', j # k
        PROVE  j \in Begun(s)
    <3>1. j < k
      BY <1>10, <1>12, <1>13, <2>1
    <3> QED BY <1>9, <1>12, <3>1 DEF Begun
  <2>2. ASSUME NEW j \in Begun(s)
        PROVE  j \in Begun(s)' /\ j # k
    <3>1. j \in DOMAIN items[s] /\ items[s][j].kind \in Requests \ {"QUIT"} /\ items[s][j].at < sent[s]
      BY DEF Begun
    <3>2. items[s][j].at \in Nat
      BY <1>1, <3>1, ItemsApart
    <3>3. items[s][j].at < h
      BY <1>2, <3>1, <3>2
    <3> QED BY <1>2, <1>11, <3>1, <3>3 DEF Begun
  <2> QED BY <2>1, <2>2
<1> QED
  BY <1>6, <1>7, <1>8, <1>11, <1>13, <1>14

\* A host that gives up a push goes on at the next request.
LEMMA GiveUpBegun ==
  ASSUME Inv, NEW s \in Streams, GiveUp(s)
  PROVE  Begun(s)' = Begun(s)
<1>1. TypeOK
  BY DEF Inv
<1>2. PICK h \in Stops(s) : /\ h > sent[s] /\ \A g \in Stops(s) : g > sent[s] => h <= g
                            /\ sent' = [sent EXCEPT ![s] = h]
  BY DEF GiveUp
<1>3. PICK k \in DOMAIN items[s] : /\ items[s][k].at <= sent[s] /\ sent[s] < After(items[s][k])
                                   /\ items[s][k].kind \in Frames \/ items[s][k].at < sent[s]
  BY DEF GiveUp, InPush
<1>4. sent[s] \in Nat /\ sent'[s] = h /\ items' = items /\ items[s] \in Seq(Items)
  BY <1>1, <1>2, ItemsTyped DEF TypeOK, GiveUp
<1>5. h \in Nat
  <2>1. items[s] # << >> => Len(items[s]) \in DOMAIN items[s]
    BY <1>4
  <2>2. End(items[s]) \in Nat
    BY <1>1, <2>1, ItemsApart DEF End
  <2> QED BY <1>1, <2>2, ItemsApart DEF Stops
<1>6. ASSUME NEW m \in DOMAIN items[s], items[s][m].kind \in Requests
      PROVE  items[s][m].at < h <=> items[s][m].at < sent[s]
  <2>1. items[s][m].at \in Nat /\ items[s][m].at \in Stops(s)
    BY <1>1, <1>6, ItemsApart DEF Stops
  <2>2. items[s][m].at # sent[s]
    <3>1. SUFFICES ASSUME items[s][m].at = sent[s]
                   PROVE  FALSE
      OBVIOUS
    <3>2. m = k
      BY <1>1, <1>3, <3>1, ItemsApart
    <3>3. ~(sent[s] < sent[s])
      BY <1>4
    <3> QED BY <1>3, <1>6, <3>1, <3>2, <3>3 DEF Requests, Frames
  <2>3. items[s][m].at > sent[s] => h <= items[s][m].at
    BY <1>2, <2>1
  <2> QED BY <1>2, <1>4, <1>5, <2>1, <2>2, <2>3
<1> QED
  BY <1>4, <1>6 DEF Begun

\* The host's steps.
LEMMA HostExchange ==
  ASSUME Inv, InTurn, Cuts = {}, ~Persists, NEW s \in Streams, Compliant(items[s]), Exchange(s),
         (\E h \in 1..End(items[s]) : Wrte(s, h)) \/ GiveUp(s)
  PROVE  Exchange(s)'
<1>0. TypeOK /\ Turn(s) /\ s # "none" /\ Free.on = "none" /\ ~Free.leftover
  BY SyncAssumption DEF Inv, InTurn, Free
<1>1. CASE GiveUp(s)
  <2>1. /\ cur = Free /\ state[s] \notin {"Receiving", "Closed"} /\ HasRead(s)
        /\ UNCHANGED <<items, cur, state, sender, answers>>
    BY <1>1 DEF GiveUp
  <2>2. acked[s] \in Nat /\ state[s] \in {"Idle", "Sending", "Receiving", "Closed"}
    BY <1>0 DEF TypeOK
  <2>3. state[s] = "Idle"
    BY <1>0, <2>1, <2>2 DEF Turn, HasRead
  <2>4. AllSettled(s)'
    <3>1. Begun(s)' = Begun(s)
      BY <1>1, GiveUpBegun
    <3>2. AllSettled(s)
      BY <1>0, <2>1, <2>3 DEF Exchange
    <3> QED BY <2>1, <3>1, <3>2, SameExchange
  <2> QED BY <2>1, <2>3, <2>4, SettledExchange
<1>2. ASSUME NEW h \in 1..End(items[s]), Wrte(s, h)
      PROVE  Exchange(s)'
  <2>1. /\ cur = Free /\ state[s] # "Closed" /\ sent[s] < h /\ Whole(s, h) /\ HasRead(s)
        /\ EndsAnswered(s, h) /\ (InPush(s) => state[s] = "Receiving")
        /\ cur' = [on |-> s, pos |-> sent[s], hi |-> h, leftover |-> FALSE]
        /\ sent' = [sent EXCEPT ![s] = h]
        /\ UNCHANGED <<items, state, sender, answers>>
    BY <1>2 DEF Wrte
  <2>2. h \in Nat /\ h <= End(items[s]) /\ sent[s] \in Nat /\ sent'[s] = h /\ cur.on # s
    <3>1. items[s] \in Seq(Items)
      BY <1>0, ItemsTyped
    <3>2. items[s] # << >> => Len(items[s]) \in DOMAIN items[s]
      BY <3>1
    <3>3. End(items[s]) \in Nat
      BY <1>0, <3>2, ItemsApart DEF End
    <3> QED BY <1>0, <2>1, <3>3 DEF TypeOK
  <2>3. acked[s] \in Nat /\ state[s] \in {"Idle", "Sending", "Receiving", "Closed"}
    BY <1>0 DEF TypeOK
  <2>4. state[s] \in {"Idle", "Receiving"}
    BY <1>0, <2>1, <2>3 DEF Turn, HasRead
  <2>5. CASE state[s] = "Receiving"
    <3>1. InReceive(s)
      BY <2>5 DEF InReceive
    <3>2. Begun(s)' = Begun(s)
      BY <2>1, <2>2, <3>1, PushBegun
    <3>3. PICK k \in DOMAIN items[s] : LastBegun(s, k) /\ items[s][k].kind = "SEND"
      BY <3>1 DEF Exchange
    <3>4. items[s][k].at < h
      <4>1. items[s][k].at < sent[s] /\ items[s][k].at \in Nat
        BY <1>0, <3>3, ItemsApart DEF LastBegun
      <4> QED BY <2>1, <2>2, <4>1
    <3>5. LastBegun(s, k)'
      BY <2>1, <2>2, <3>2, <3>3, <3>4 DEF LastBegun
    <3>6. ~Handling(s)' /\ state'[s] = "Receiving" /\ cur'.on = s
      BY <2>1, <2>5 DEF Handling
    <3> QED BY <2>1, <3>3, <3>5, <3>6 DEF Exchange
  <2>6. CASE state[s] = "Idle"
    <3>1. ~InPush(s)
      BY <2>1, <2>6
    <3>2. PICK k \in DOMAIN items[s] :
            /\ items[s][k].at = sent[s] /\ items[s][k].kind \in Requests
            /\ After(items[s][k]) <= h
            /\ k \notin Begun(s) /\ Begun(s)' \ {k} = Begun(s) /\ \A j \in Begun(s)' : j <= k
      BY <2>1, <2>2, <3>1, RequestBegun
    <3>3. AllSettled(s)
      BY <2>2, <2>6 DEF Exchange
    <3>4. LastBegun(s, k)'
      BY <2>1, <2>2, <3>2, <3>3 DEF LastBegun, AllSettled
    <3>5. cur'.pos = items'[s][k].at /\ After(items'[s][k]) <= cur'.hi
      BY <2>1, <3>2
    <3>6. cur'.on = s /\ state'[s] = "Idle" /\ ~InReceive(s)'
      BY <2>1, <2>6 DEF InReceive
    <3> QED BY <2>1, <3>2, <3>4, <3>5, <3>6 DEF Exchange
  <2> QED BY <2>4, <2>5, <2>6
<1> QED
  BY <1>1, <1>2

\* Which answers end a request.
LEMMA AnswersEnd ==
  /\ \A kind \in {"RECV", "SEND", "OTHER"} : "FAIL" \in AnswersTo(kind)
  /\ "STAT" \in AnswersTo("STAT") /\ "OKAY" \in AnswersTo("SEND") /\ "DONE" \in AnswersTo("RECV")
BY DEF AnswersTo

\* FAIL ends any request but STAT.
LEMMA FailExchange ==
  ASSUME Inv, NEW s \in Streams, NEW k \in DOMAIN items[s], LastBegun(s, k),
         items[s][k].kind \in {"RECV", "SEND", "OTHER"}, NEW why, Reply(s, Fail(why)),
         UNCHANGED <<items, sent>>
  PROVE  AllSettled(s)'
<1>1. Fail(why).id = "FAIL"
  BY DEF Fail, Answer
<1>2. Fail(why).id \in AnswersTo(items[s][k].kind) /\ items[s][k].kind # "QUIT"
  BY <1>1, AnswersEnd
<1> DEFINE a == Fail(why)
<1>3. Reply(s, a) /\ a.id \in AnswersTo(items[s][k].kind)
  BY <1>2
<1> HIDE DEF a
<1> QED
  BY <1>2, <1>3, EndsExchange

\* A frame of a pull, or what ends it.
LEMMA FrameExchange ==
  ASSUME Inv, NEW s \in Streams, NEW k \in DOMAIN items[s], LastBegun(s, k),
         items[s][k].kind = "RECV", NEW snd \in Senders, ~snd.done, Continue(s, snd), cur' = Free,
         UNCHANGED <<items, sent>>
  PROVE  Exchange(s)'
<1>1. TypeOK /\ s # "none"
  BY SyncAssumption DEF Inv
<1>2. state'[s] = "Sending"
  BY <1>1, ContinueDoes
<1>3. PICK f : /\ FrameOf(snd, f) /\ Reply(s, f)
               /\ sender'[s] = [snd EXCEPT !.off = @ + Len(f.data), !.done = f.id # "DATA"]
  BY <1>1, ContinueDoes
<1>4. sender'[s].done = (f.id # "DATA")
  BY <1>3 DEF Senders
<1>5. f.id \in {"FAIL", "DATA", "DONE"}
  <2>1. NextFrame(snd).id \in {"DATA", "DONE"}
    BY DEF NextFrame, Answer
  <2> QED BY <1>3, <2>1 DEF FrameOf
<1>6. CASE f.id = "DATA"
  <2>1. LastBegun(s, k)'
    BY <1>3, <1>6, DataExchange
  <2>2. ~Handling(s)' /\ ~InReceive(s)' /\ ~sender'[s].done
    BY <1>1, <1>2, <1>4, <1>6 DEF Handling, InReceive, Free
  <2>3. k \in DOMAIN items'[s] /\ items'[s][k].kind = "RECV"
    OBVIOUS
  <2> QED BY <1>2, <2>1, <2>2, <2>3 DEF Exchange
<1>7. CASE f.id # "DATA"
  <2>1. f.id \in AnswersTo(items[s][k].kind)
    BY <1>5, <1>7, AnswersEnd
  <2>2. AllSettled(s)'
    BY <1>3, <2>1, EndsExchange
  <2> QED BY <1>2, <1>4, <1>7, <2>2, SettledExchange
<1> QED
  BY <1>6, <1>7

\* The request handle() looks at is the one at the next byte.
LEMMA RequestIs ==
  ASSUME Inv, NEW s \in Streams, NEW k \in DOMAIN items[s], cur.pos = items[s][k].at,
         After(items[s][k]) <= cur.hi
  PROVE  /\ \A i \in RequestsIn(s, cur.pos, cur.hi) : i = items[s][k]
         /\ items[s][k].kind \in {"STAT", "RECV", "SEND", "QUIT"} =>
              items[s][k] \in RequestsIn(s, cur.pos, cur.hi)
<1>1. TypeOK /\ cur.pos \in Nat /\ cur.hi \in Nat /\ IdSize \in Nat \ {0}
  BY SyncAssumption DEF Inv, TypeOK
<1>2. ASSUME NEW i \in RequestsIn(s, cur.pos, cur.hi)
      PROVE  i = items[s][k]
  <2>1. i \in ItemsOf(s) /\ i.at = cur.pos
    BY <1>1, <1>2, ItemAtBegins DEF RequestsIn
  <2>2. PICK b \in DOMAIN items[s] : i = items[s][b]
    BY <2>1 DEF ItemsOf
  <2>3. items[s][k].at \in Nat /\ items[s][b].at < After(items[s][b])
    BY <1>1, ItemsApart
  <2>4. items[s][k].at < After(items[s][b]) /\ items[s][b].at <= items[s][k].at
    BY <2>1, <2>2, <2>3
  <2> QED BY <1>1, <2>2, <2>4, ItemsApart
<1>3. items[s][k] \in ItemAt(s, Bytes(s, cur.pos, IdSize))
  <2>1. Len(Bytes(s, cur.pos, IdSize)) = IdSize
    BY <1>1, BytesAre
  <2> QED BY <2>1 DEF ItemAt
<1>4. cur.pos + IdSize <= cur.hi
  <2>1. /\ After(items[s][k]) = items[s][k].at + HeaderSize + items[s][k].len
        /\ items[s][k].at \in Nat /\ items[s][k].len \in Nat
    BY <1>1, ItemsTyped, ItemsInOrder
  <2>2. HeaderSize \in Nat /\ HeaderSize > IdSize
    BY SyncAssumption
  <2> QED BY <1>1, <2>1, <2>2
<1> QED
  BY <1>2, <1>3, <1>4 DEF RequestsIn

\* A request is answered, or begins a push or a pull.
LEMMA RequestExchange ==
  ASSUME Inv, InTurn, NEW s \in Streams, Exchange(s),
         InvalidRequest(s) \/ HandleLstat(s) \/ HandleRecv(s) \/ HandleSend(s)
  PROVE  Exchange(s)'
<1>0. TypeOK /\ Turn(s) /\ s # "none" /\ Free.on = "none"
  BY SyncAssumption DEF Inv, InTurn, Free
<1>1. Handling(s) /\ UNCHANGED <<items, sent>>
  BY DEF InvalidRequest, HandleLstat, HandleRecv, HandleSend, hostVars
<1>2. PICK k \in DOMAIN items[s] :
        LastBegun(s, k) /\ cur.pos = items[s][k].at /\ After(items[s][k]) <= cur.hi
  BY <1>1 DEF Exchange
<1>3. cur.on = s /\ state[s] = "Idle" /\ ~waiting[s]
  BY <1>0, <1>1 DEF Handling, Turn
<1>4. items[s][k].kind \in Requests
  BY <1>2 DEF LastBegun
<1>5. \A i \in RequestsIn(s, cur.pos, cur.hi) : i = items[s][k]
  BY <1>2, RequestIs
<1>6. CASE InvalidRequest(s)
  <2>1. items[s][k].kind \in {"RECV", "SEND", "OTHER"}
    <3>1. \A i \in RequestsIn(s, cur.pos, cur.hi) : i.kind = "SEND"
      BY <1>6 DEF InvalidRequest
    <3>2. items[s][k].kind \in {"STAT", "RECV", "SEND", "QUIT"} => items[s][k].kind = "SEND"
      BY <1>2, <3>1, RequestIs
    <3> QED BY <1>4, <3>2 DEF Requests
  <2>2. (\E why : Reply(s, Fail(why))) /\ cur' = Free /\ state' = state
    BY <1>6, Zenon DEF InvalidRequest, Return
  <2>3. AllSettled(s)'
    BY <1>1, <1>2, <2>1, <2>2, FailExchange
  <2> QED BY <1>3, <2>2, <2>3, SettledExchange
<1>7. CASE HandleLstat(s)
  <2>1. items[s][k].kind = "STAT"
    BY <1>5, <1>7 DEF HandleLstat
  <2>2. Reply(s, Answer("STAT", "none", << >>)) /\ cur' = Free /\ state' = state
    BY <1>7 DEF HandleLstat, Return
  <2>3. Answer("STAT", "none", << >>).id \in AnswersTo(items[s][k].kind)
    BY <2>1, AnswersEnd DEF Answer
  <2>4. AllSettled(s)'
    <3> DEFINE a == Answer("STAT", "none", << >>)
    <3>1. Reply(s, a) /\ a.id \in AnswersTo(items[s][k].kind) /\ items[s][k].kind # "QUIT"
      BY <2>1, <2>2, <2>3
    <3> HIDE DEF a
    <3> QED BY <1>1, <1>2, <3>1, EndsExchange
  <2> QED BY <1>3, <2>2, <2>4, SettledExchange
<1>8. CASE HandleRecv(s)
  <2>1. cur' = Free
    BY <1>8 DEF HandleRecv, Return
  <2>2. PICK i \in RequestsIn(s, cur.pos, cur.hi) :
          /\ i.kind = "RECV"
          /\ \/ (\E why : Reply(s, Fail(why))) /\ state' = state
             \/ Continue(s, NewSender(dir[i.path]))
    BY <1>3, <1>8, Zenon DEF HandleRecv
  <2>3. items[s][k].kind = "RECV"
    BY <1>5, <2>2
  <2>4. CASE (\E why : Reply(s, Fail(why))) /\ state' = state
    <3>1. AllSettled(s)'
      BY <1>1, <1>2, <2>3, <2>4, FailExchange
    <3> QED BY <1>3, <2>1, <2>4, <3>1, SettledExchange
  <2>5. CASE Continue(s, NewSender(dir[i.path]))
    BY <1>1, <1>2, <2>1, <2>3, <2>5, NewPull, FrameExchange
  <2> QED BY <2>2, <2>4, <2>5
<1>9. CASE HandleSend(s)
  <2>1. items[s][k].kind = "SEND" /\ UNCHANGED state
    BY <1>5, <1>9 DEF HandleSend
  <2>2. \/ cur' = Free /\ \E why : Reply(s, Fail(why))
        \/ answers' = answers /\ \E n : cur' = [cur EXCEPT !.pos = n, !.leftover = TRUE]
    BY <1>9, Zenon DEF HandleSend, Return
  <2>3. CASE cur' = Free /\ \E why : Reply(s, Fail(why))
    <3>1. AllSettled(s)'
      BY <1>1, <1>2, <2>1, <2>3, FailExchange
    <3> QED BY <1>3, <2>1, <2>3, <3>1, SettledExchange
  <2>4. ASSUME answers' = answers, NEW n, cur' = [cur EXCEPT !.pos = n, !.leftover = TRUE]
        PROVE  Exchange(s)'
    <3>1. cur'.on = s /\ cur'.leftover
      <4>1. cur \in [on : Streams \cup {"none"}, pos : Nat, hi : Nat, leftover : BOOLEAN]
        BY <1>0 DEF TypeOK
      <4> QED BY <1>3, <2>4, <4>1
    <3>2. Begun(s)' = Begun(s)
      BY <1>1 DEF Begun
    <3>3. LastBegun(s, k)' /\ k \in DOMAIN items'[s] /\ items'[s][k].kind = "SEND"
      BY <1>1, <1>2, <2>1, <2>4, <3>2, SameExchange
    <3> QED BY <1>3, <2>1, <3>1, <3>3 DEF Exchange, Handling
  <2> QED BY <2>2, <2>3, <2>4
<1> QED
  BY <1>6, <1>7, <1>8, <1>9

\* A frame of a push leaves it open or ends it with its answer.
LEMMA ReceiveExchange ==
  ASSUME Inv, InTurn, NEW s \in Streams, Exchange(s), ReceiveHeader(s) \/ ReceiveData(s) \/ ReceiveEnd(s)
  PROVE  Exchange(s)'
<1>0. TypeOK /\ Turn(s) /\ s # "none" /\ Free.on = "none"
  BY SyncAssumption DEF Inv, InTurn, Free
<1>1. Receiving(s) /\ UNCHANGED <<items, sent>>
  BY DEF ReceiveHeader, ReceiveData, ReceiveEnd, hostVars
<1>2. cur.on = s /\ state[s] \in {"Idle", "Receiving"} /\ InReceive(s)
  BY <1>0, <1>1 DEF Receiving, Turn, InReceive
<1>3. PICK k \in DOMAIN items[s] : LastBegun(s, k) /\ items[s][k].kind = "SEND"
  BY <1>2 DEF Exchange
<1>4. \/ \E a : ReceiveDone(s, a) /\ a.id \in {"FAIL", "OKAY"}
      \/ ReceiveMore(s) /\ answers' = answers
      \/ UNCHANGED <<state, answers>> /\ \E n : cur' = [cur EXCEPT !.pos = n]
  <2>1. (\A why : Fail(why).id = "FAIL") /\ Answer("OKAY", "none", << >>).id = "OKAY"
    BY DEF Fail, Answer
  <2>2. CASE ReceiveHeader(s)
    <3>1. \/ \E why : ReceiveDone(s, Fail(why))
          \/ ReceiveDone(s, Answer("OKAY", "none", << >>))
          \/ ReceiveMore(s) /\ answers' = answers
          \/ UNCHANGED <<state, answers>> /\ \E n : cur' = [cur EXCEPT !.pos = n]
      BY <2>2, Zenon DEF ReceiveHeader, Header, Finalize, Keep
    <3>2. \A a : a.id = "FAIL" \/ a.id = "OKAY" => a.id \in {"FAIL", "OKAY"}
      OBVIOUS
    <3> QED BY <2>1, <3>1, <3>2, Zenon
  <2>3. CASE ReceiveData(s)
    <3>1. \/ \E why : ReceiveDone(s, Fail(why))
          \/ UNCHANGED <<state, answers>> /\ \E n : cur' = [cur EXCEPT !.pos = n]
      BY <2>3, Zenon DEF ReceiveData
    <3>2. \A a : a.id = "FAIL" => a.id \in {"FAIL", "OKAY"}
      OBVIOUS
    <3> QED BY <2>1, <3>1, <3>2, Zenon
  <2>4. CASE ReceiveEnd(s)
    BY <2>4 DEF ReceiveEnd
  <2> QED BY <2>2, <2>3, <2>4
<1>5. ASSUME NEW a, ReceiveDone(s, a), a.id \in {"FAIL", "OKAY"}
      PROVE  Exchange(s)'
  <2>1. Reply(s, a) /\ cur' = Free
    BY <1>5 DEF ReceiveDone, Return
  <2>2. a.id \in AnswersTo(items[s][k].kind) /\ items[s][k].kind # "QUIT"
    BY <1>3, <1>5, AnswersEnd
  <2>3. AllSettled(s)'
    BY <1>1, <1>3, <2>1, <2>2, EndsExchange
  <2>4. state'[s] = "Idle"
    BY <1>0, <1>1, <1>2, <1>5 DEF ReceiveDone, Receiving, Inv, CurOK, TypeOK
  <2> QED BY <2>1, <2>3, <2>4, SettledExchange
<1>6. ASSUME answers' = answers
      PROVE  \A j : LastBegun(s, j)' <=> LastBegun(s, j)
  <2>1. Begun(s)' = Begun(s)
    BY <1>1 DEF Begun
  <2> QED BY <1>1, <1>6, <2>1, SameExchange
<1>7. CASE ReceiveMore(s) /\ answers' = answers
  <2>1. cur' = Free /\ state'[s] = "Receiving"
    BY <1>0, <1>7 DEF ReceiveMore, Return, TypeOK
  <2>2. LastBegun(s, k)' /\ items'[s][k].kind = "SEND" /\ k \in DOMAIN items'[s]
    BY <1>1, <1>3, <1>6, <1>7
  <2> QED BY <1>0, <2>1, <2>2 DEF Exchange, Handling
<1>8. ASSUME UNCHANGED <<state, answers>>, NEW n, cur' = [cur EXCEPT !.pos = n]
      PROVE  Exchange(s)'
  <2>1. cur'.on = s /\ cur'.leftover = cur.leftover
    <3>1. cur \in [on : Streams \cup {"none"}, pos : Nat, hi : Nat, leftover : BOOLEAN]
      BY <1>0 DEF TypeOK
    <3> QED BY <1>2, <1>8, <3>1
  <2>2. ~Handling(s)'
    BY <1>1, <1>8, <2>1 DEF Handling, Receiving
  <2>3. LastBegun(s, k)' /\ items'[s][k].kind = "SEND" /\ k \in DOMAIN items'[s]
    BY <1>1, <1>3, <1>6, <1>8
  <2> QED BY <1>2, <1>8, <2>1, <2>2, <2>3 DEF Exchange
<1> QED
  BY <1>4, <1>5, <1>7, <1>8

\* An OKAY of the host makes a pull go on.
LEMMA OkayExchange ==
  ASSUME Inv, NEW s \in Streams, Exchange(s), HandleOkay(s)
  PROVE  Exchange(s)'
<1>0. TypeOK /\ s # "none" /\ Free.on = "none" /\ ~Free.leftover
  BY SyncAssumption DEF Inv, Free
<1>1. cur = Free /\ cur' = cur /\ UNCHANGED <<items, sent>>
  BY DEF HandleOkay
<1>2. Begun(s)' = Begun(s)
  BY <1>1 DEF Begun
<1>3. CASE state[s] # "Sending"
  <2>1. UNCHANGED <<state, sender, answers>>
    BY <1>3 DEF HandleOkay
  <2>2. AllSettled(s)' <=> AllSettled(s)
    BY <1>1, <1>2, <2>1, SameExchange
  <2>3. \A k : LastBegun(s, k)' <=> LastBegun(s, k)
    BY <1>1, <1>2, <2>1, SameExchange
  <2>4. ~Handling(s)' /\ (InReceive(s)' <=> InReceive(s))
    BY <1>0, <1>1, <2>1 DEF Handling, InReceive
  <2> QED BY <1>1, <1>3, <2>1, <2>2, <2>3, <2>4 DEF Exchange
<1>4. CASE state[s] = "Sending" /\ sender[s].done
  <2>1. state'[s] = "Idle" /\ UNCHANGED answers
    BY <1>0, <1>4 DEF HandleOkay, Continue, TypeOK
  <2>2. AllSettled(s)'
    BY <1>1, <1>2, <1>4, <2>1, SameExchange DEF Exchange
  <2> QED BY <1>1, <2>1, <2>2, SettledExchange
<1>5. CASE state[s] = "Sending" /\ ~sender[s].done
  <2>1. sender[s] \in Senders /\ Continue(s, sender[s])
    BY <1>0, <1>5 DEF TypeOK, Senders, HandleOkay
  <2>2. PICK k \in DOMAIN items[s] : LastBegun(s, k) /\ items[s][k].kind = "RECV"
    BY <1>5 DEF Exchange
  <2> QED BY <1>1, <1>5, <2>1, <2>2, FrameExchange
<1> QED
  BY <1>3, <1>4, <1>5

\* InExchange at the start: nothing is begun.
LEMMA InitExchange == Init => InExchange
<1>1. SUFFICES ASSUME Init, NEW s \in Streams
               PROVE  Exchange(s)
  BY DEF InExchange
<1>2. TypeOK /\ s # "none"
  BY <1>1, InitInv, SyncAssumption DEF Inv
<1>3. Begun(s) = {}
  <2>1. sent[s] = 0
    BY <1>1 DEF Init
  <2>2. \A k \in DOMAIN items[s] : ~(items[s][k].at < 0)
    <3>1. ASSUME NEW k \in DOMAIN items[s]
          PROVE  ~(items[s][k].at < 0)
      <4>1. items[s][k].at \in Nat
        BY <1>2, ItemsApart
      <4> QED BY <4>1
    <3> QED BY <3>1
  <2> QED BY <2>1, <2>2 DEF Begun
<1>4. answers[s] = << >> /\ DOMAIN answers[s] = {}
  BY <1>1 DEF Init
<1>5. AllSettled(s)
  <2> DEFINE g == [k \in {} |-> 0]
  <2>1. g \in [{} -> DOMAIN answers[s]]
    OBVIOUS
  <2> QED BY <1>3, <1>4, <2>1 DEF AllSettled, Matches
<1>6. cur = Free /\ state[s] = "Idle"
  BY <1>1 DEF Init
<1> QED
  BY <1>2, <1>5, <1>6 DEF Exchange, Handling, InReceive, Free

\* InExchange, step by step.
LEMMA NextExchange ==
  ASSUME Inv, InTurn, InExchange, Cuts = {}, ~Persists, [Next]_vars
  PROVE  InExchange'
<1>1. CASE UNCHANGED vars
  <2>1. /\ UNCHANGED <<items, sent, cur, state, sender, answers>>
    BY <1>1 DEF vars, hostVars
  <2>2. \A s : Begun(s)' = Begun(s)
    BY <2>1 DEF Begun
  <2>3. \A s : (AllSettled(s)' <=> AllSettled(s)) /\ \A k : LastBegun(s, k)' <=> LastBegun(s, k)
    BY <2>1, <2>2, SameExchange
  <2>4. \A s : (Handling(s)' <=> Handling(s)) /\ (InReceive(s)' <=> InReceive(s))
    BY <2>1 DEF Handling, InReceive
  <2>5. \A s : Exchange(s) => Exchange(s)'
    BY <2>1, <2>3, <2>4 DEF Exchange
  <2> QED BY <2>1, <2>5 DEF InExchange
<1>2. ASSUME NEW s \in Streams,
             \/ \E h \in 1..End(items[s]) : Wrte(s, h)
             \/ GiveUp(s) \/ HandleOkay(s) \/ HandleClse(s) \/ Handle(s)
      PROVE  InExchange'
  <2>1. Only(s)
    BY <1>2, OnlyOne
  <2>2. \A t \in Streams \ {s} : Compliant(items'[t]) /\ state'[t] # "Closed" => Exchange(t)'
    BY <2>1, OtherTurn DEF InExchange
  <2>3. ASSUME Compliant(items'[s]), state'[s] # "Closed"
        PROVE  Exchange(s)'
    <3>1. items' = items /\ TypeOK
      BY <2>1 DEF Only, Inv, TypeOK
    <3>2. Compliant(items[s])
      BY <2>3, <3>1
    <3>3. state[s] # "Closed"
      <4>1. CASE Handle(s)
        <5>1. Turn(s) /\ cur.on = s
          BY <4>1, HandleDoes DEF InTurn
        <5> QED BY <5>1 DEF Turn
      <4>2. CASE ~Handle(s)
        BY <1>2, <4>2 DEF Wrte, GiveUp, HandleOkay, HandleClse
      <4> QED BY <4>1, <4>2
    <3>4. Exchange(s)
      BY <3>2, <3>3 DEF InExchange
    <3>5. ~HandleClse(s) /\ ~HandleQuit(s)
      BY <2>3, <3>1 DEF HandleClse, HandleQuit, TypeOK
    <3> QED BY <1>2, <3>2, <3>4, <3>5, HostExchange, OkayExchange, RequestExchange, ReceiveExchange DEF Handle
  <2> QED BY <2>2, <2>3 DEF InExchange
<1> QED
  BY <1>1, <1>2 DEF Next

\* A session whose exchanges are whole and read is settled.
LEMMA ReadIsSettled ==
  ASSUME Inv, InTurn, InExchange
  PROVE  AnsweredOnce
<1>1. SUFFICES ASSUME cur.on = "none", NEW s \in Streams, Compliant(items[s]), HasRead(s), ~InPush(s),
                      state[s] # "Closed"
               PROVE  Settled(s, Begun(s))
  BY DEF AnsweredOnce
<1>2. TypeOK /\ Turn(s) /\ s # "none" /\ Exchange(s)
  BY <1>1, SyncAssumption DEF Inv, InTurn, InExchange
<1>3. acked[s] \in Nat /\ state[s] \in {"Idle", "Sending", "Receiving", "Closed"}
  BY <1>2 DEF TypeOK
<1>4. state[s] # "Sending"
  BY <1>1, <1>2, <1>3 DEF Turn, HasRead
<1>5. state[s] # "Receiving"
  <2>1. SUFFICES ASSUME state[s] = "Receiving"
                 PROVE  FALSE
    OBVIOUS
  <2>2. InReceive(s) /\ NextByte(s) = sent[s]
    BY <1>1, <1>2, <2>1 DEF InReceive, NextByte
  <2>3. PICK a \in DOMAIN items[s] :
          /\ items[s][a].kind \in {"SEND", "DATA"} /\ items[s][a].at < sent[s]
          /\ sent[s] < After(items[s][a]) + HeaderSize
          /\ sent[s] < After(items[s][a]) => items[s][a].kind = "DATA"
    BY <2>2, InItem
  <2>4. sent[s] \in Nat /\ HeaderSize \in Nat
    BY <1>2, SyncAssumption DEF TypeOK
  <2>5. items[s][a].at \in Nat /\ After(items[s][a]) \in Nat
    BY <1>2, ItemsApart
  <2>6. CASE sent[s] < After(items[s][a])
    <3>1. items[s][a].at <= sent[s] /\ items[s][a].kind \in Frames
      BY <2>3, <2>4, <2>5, <2>6 DEF Frames
    <3> QED BY <1>1, <2>6, <3>1 DEF InPush
  <2>7. CASE ~(sent[s] < After(items[s][a]))
    <3>1. a + 1 \in DOMAIN items[s] /\ items[s][a + 1].kind \in Frames
      BY <1>1, <2>3 DEF Compliant
    <3>2. items[s][a + 1].at = After(items[s][a])
      <4>1. items[s] \in Seq(Items)
        BY <1>2, ItemsTyped
      <4>2. a \in 1..(Len(items[s]) - 1)
        BY <3>1, <4>1
      <4> QED BY <1>2, <4>2, ItemsInOrder
    <3>3. /\ After(items[s][a + 1]) = items[s][a + 1].at + HeaderSize + items[s][a + 1].len
          /\ items[s][a + 1].len \in Nat
      BY <1>2, <3>1, ItemsTyped, ItemsInOrder
    <3>4. items[s][a + 1].at <= sent[s] /\ sent[s] < After(items[s][a + 1])
      BY <2>3, <2>4, <2>5, <2>7, <3>2, <3>3
    <3> QED BY <1>1, <3>1, <3>4 DEF InPush
  <2> QED BY <2>6, <2>7
<1>6. AllSettled(s)
  BY <1>1, <1>2, <1>3, <1>4, <1>5 DEF Exchange
<1> QED
  BY <1>6 DEF AllSettled, Matches, Settled

\* handle(): a host that sends whole requests, waits for the answer of each and
\* does not go on with a push that has failed gets one answer for each exchange,
\* in their order, whatever fails on the device and wherever the frames of a
\* push are cut.
THEOREM OneAnswerEach ==
  ASSUME Cuts = {}, ~Persists
  PROVE  Spec => []AnsweredOnce
<1> DEFINE All == Inv /\ InTurn /\ InExchange
<1>1. Init => All
  BY InitInv, InitTurn, InitExchange
<1>2. All /\ [Next]_vars => All'
  BY NextInv, NextTurn, NextExchange
<1>3. All => AnsweredOnce
  BY ReadIsSettled
<1> HIDE DEF All
<1> QED
  BY <1>1, <1>2, <1>3, PTL DEF Spec

-----------------------------------------------------------------------------
(* What a pull has delivered.                                              *)

\* The answers w end with the frames of a pull that has delivered the file f up
\* to offset x.
Delivered(w, f, x) ==
  \E from \in 1..(Len(w) + 1) : \E o \in [from..(Len(w) + 1) -> 0..Len(f)] :
    /\ from = 1 \/ w[from - 1].id # "DATA"
    /\ o[from] = 0 /\ o[Len(w) + 1] = x
    /\ \A m \in from..Len(w) : /\ w[m].id = "DATA" /\ o[m] < o[m + 1]
                               /\ w[m].data = SubSeq(f, o[m] + 1, o[m + 1])

\* What PullIsWhole says of the answers w.
DeliveredAll(w, f) ==
  \E from \in 1..Len(w) : \E o \in [from..Len(w) -> 0..Len(f)] :
    /\ from - 1 = 0 \/ w[from - 1].id # "DATA"
    /\ o[from] = 0
    /\ \A m \in from..(Len(w) - 1) : /\ w[m].id = "DATA" /\ o[m] < o[m + 1]
                                     /\ w[m].data = SubSeq(f, o[m] + 1, o[m + 1])
    /\ o[Len(w)] = Len(f)

\* What a stream has delivered of the file it sends; between pulls, no frame of
\* one is the last answer.
Pulling(s) ==
  /\ state[s] \in {"Idle", "Receiving"} => Before(s, Len(answers[s]))
  /\ state[s] = "Sending" =>
       LET f == files[sender[s].file]
       IN /\ \E k \in DOMAIN items[s] :
               items[s][k].kind = "RECV" /\ dir[items[s][k].path] = sender[s].file
          /\ ~sender[s].done => Delivered(answers[s], f, sender[s].off)
          /\ sender[s].done =>
               /\ Before(s, Len(answers[s]))
               /\ answers[s][Len(answers[s])].id = "DONE" => DeliveredAll(answers[s], f)

PullInv == \A s \in Streams : Pulling(s)

\* No stream pushes to a path that another pulls.
OwnPulls ==
  \A script \in Scripts, s, t \in Streams :
    s # t => \A k \in DOMAIN script[s], m \in DOMAIN script[t] :
               script[s][k].kind = "RECV" /\ script[t][m].kind = "SEND" =>
                 script[s][k].path # script[t][m].path

\* A pull that begins has delivered nothing.
LEMMA DeliveredNone ==
  ASSUME NEW w \in Seq(Answers), NEW f \in Seq(FileBytes), Len(w) = 0 \/ w[Len(w)].id # "DATA"
  PROVE  Delivered(w, f, 0)
<1> DEFINE n == Len(w) + 1
           o == [m \in n..n |-> 0]
<1>1. Len(w) \in Nat /\ Len(f) \in Nat /\ n \in 1..n /\ n - 1 = Len(w) /\ n \in n..n
  OBVIOUS
<1>2. o \in [n..n -> 0..Len(f)] /\ o[n] = 0
  BY <1>1
<1>3. n = 1 \/ w[n - 1].id # "DATA"
  BY <1>1
<1>4. n..Len(w) = {}
  BY <1>1
<1> HIDE DEF n, o
<1>5. \E from \in 1..n : \E x \in [from..n -> 0..Len(f)] :
        /\ from = 1 \/ w[from - 1].id # "DATA"
        /\ x[from] = 0 /\ x[n] = 0
        /\ \A m \in from..Len(w) : /\ w[m].id = "DATA" /\ x[m] < x[m + 1]
                                   /\ w[m].data = SubSeq(f, x[m] + 1, x[m + 1])
  BY <1>1, <1>2, <1>3, <1>4
<1> QED
  BY <1>5 DEF Delivered, n

\* A frame delivers what it carries.
LEMMA DeliveredMore ==
  ASSUME NEW w \in Seq(Answers), NEW f \in Seq(FileBytes), NEW x \in Nat, NEW y \in Nat,
         x < y, y <= Len(f), Delivered(w, f, x), NEW a, a.id = "DATA", a.data = SubSeq(f, x + 1, y)
  PROVE  Delivered(Append(w, a), f, y)
<1> DEFINE n == Len(w) + 1
           v == Append(w, a)
<1>0. PICK from \in 1..n : \E o \in [from..n -> 0..Len(f)] :
        /\ from = 1 \/ w[from - 1].id # "DATA"
        /\ o[from] = 0 /\ o[n] = x
        /\ \A m \in from..Len(w) : /\ w[m].id = "DATA" /\ o[m] < o[m + 1]
                                   /\ w[m].data = SubSeq(f, o[m] + 1, o[m + 1])
  BY DEF Delivered
<1>1. PICK o \in [from..n -> 0..Len(f)] :
        /\ from = 1 \/ w[from - 1].id # "DATA"
        /\ o[from] = 0 /\ o[n] = x
        /\ \A m \in from..Len(w) : /\ w[m].id = "DATA" /\ o[m] < o[m + 1]
                                   /\ w[m].data = SubSeq(f, o[m] + 1, o[m + 1])
  BY <1>0
<1>2. w \in Seq(Answers \cup {a})
  OBVIOUS
<1>3. /\ Len(w) \in Nat /\ Len(f) \in Nat /\ Len(v) = n /\ v[n] = a
      /\ \A m \in 1..Len(w) : v[m] = w[m]
  BY <1>2
<1> DEFINE z == [m \in from..(n + 1) |-> IF m = n + 1 THEN y ELSE o[m]]
<1>4. n \in Nat /\ from \in Nat /\ 1 <= from /\ from <= n /\ Len(w) = n - 1
  BY <1>3
<1>5. z \in [from..(n + 1) -> 0..Len(f)]
  <2>1. y \in 0..Len(f)
    BY <1>3
  <2>2. \A m \in from..(n + 1) : m # n + 1 => m \in from..n
    BY <1>4
  <2>3. \A m \in from..n : o[m] \in 0..Len(f)
    OBVIOUS
  <2> QED BY <2>1, <2>2, <2>3
<1>6. z[n + 1] = y /\ \A m \in from..n : z[m] = o[m]
  BY <1>4
<1> HIDE DEF z, v, n
<1>7. z[from] = 0
  BY <1>1, <1>4, <1>6
<1>8. from = 1 \/ v[from - 1].id # "DATA"
  BY <1>1, <1>3, <1>4
<1>9. ASSUME NEW m \in from..n
      PROVE  /\ v[m].id = "DATA" /\ z[m] < z[m + 1]
             /\ v[m].data = SubSeq(f, z[m] + 1, z[m + 1])
  <2>1. CASE m = n
    <3>1. v[m] = a /\ z[m] = x /\ z[m + 1] = y
      BY <1>1, <1>3, <1>4, <1>6, <2>1
    <3> QED BY <3>1
  <2>2. CASE m # n
    <3>1. m \in from..Len(w) /\ m \in 1..Len(w) /\ m + 1 \in from..n
      BY <1>4, <2>2
    <3>2. v[m] = w[m] /\ z[m] = o[m] /\ z[m + 1] = o[m + 1]
      BY <1>3, <1>6, <3>1
    <3> QED BY <1>1, <3>1, <3>2
  <2> QED BY <2>1, <2>2
<1>10. from \in 1..(n + 1)
  BY <1>4
<1>11. Delivered(v, f, y)
  <2>1. \A m \in from..Len(v) : /\ v[m].id = "DATA" /\ z[m] < z[m + 1]
                                /\ v[m].data = SubSeq(f, z[m] + 1, z[m + 1])
    BY <1>3, <1>9
  <2>2. from \in 1..(Len(v) + 1) /\ z \in [from..(Len(v) + 1) -> 0..Len(f)] /\ z[Len(v) + 1] = y
    BY <1>3, <1>5, <1>6, <1>10
  <2> QED BY <1>7, <1>8, <2>1, <2>2, Zenon DEF Delivered
<1> QED
  BY <1>11 DEF v

\* DONE after the last byte.
LEMMA DeliveredEnd ==
  ASSUME NEW w \in Seq(Answers), NEW f \in Seq(FileBytes), Delivered(w, f, Len(f)), NEW a
  PROVE  DeliveredAll(Append(w, a), f)
<1> DEFINE n == Len(w) + 1
           v == Append(w, a)
<1>0. PICK from \in 1..n : \E o \in [from..n -> 0..Len(f)] :
        /\ from = 1 \/ w[from - 1].id # "DATA"
        /\ o[from] = 0 /\ o[n] = Len(f)
        /\ \A m \in from..Len(w) : /\ w[m].id = "DATA" /\ o[m] < o[m + 1]
                                   /\ w[m].data = SubSeq(f, o[m] + 1, o[m + 1])
  BY DEF Delivered
<1>1. PICK o \in [from..n -> 0..Len(f)] :
        /\ from = 1 \/ w[from - 1].id # "DATA"
        /\ o[from] = 0 /\ o[n] = Len(f)
        /\ \A m \in from..Len(w) : /\ w[m].id = "DATA" /\ o[m] < o[m + 1]
                                   /\ w[m].data = SubSeq(f, o[m] + 1, o[m + 1])
  BY <1>0
<1>2. w \in Seq(Answers \cup {a})
  OBVIOUS
<1>3. /\ Len(w) \in Nat /\ Len(f) \in Nat /\ Len(v) = n /\ \A m \in 1..Len(w) : v[m] = w[m]
  BY <1>2
<1>4. n \in Nat /\ from \in Nat /\ 1 <= from /\ from <= n /\ Len(w) = n - 1
  BY <1>3
<1> HIDE DEF v, n
<1>5. from - 1 = 0 \/ v[from - 1].id # "DATA"
  <2>1. CASE from = 1
    BY <2>1
  <2>2. CASE from # 1
    <3>1. from - 1 \in 1..Len(w)
      BY <1>4, <2>2
    <3> QED BY <1>1, <1>3, <2>2, <3>1
  <2> QED BY <2>1, <2>2
<1>6. ASSUME NEW m \in from..(n - 1)
      PROVE  /\ v[m].id = "DATA" /\ o[m] < o[m + 1]
             /\ v[m].data = SubSeq(f, o[m] + 1, o[m + 1])
  <2>1. m \in from..Len(w) /\ m \in 1..Len(w)
    BY <1>4
  <2>2. v[m] = w[m]
    BY <1>3, <2>1
  <2> QED BY <1>1, <2>1, <2>2
<1>7. DeliveredAll(v, f)
  BY <1>1, <1>3, <1>5, <1>6 DEF DeliveredAll
<1> QED
  BY <1>7 DEF v

\* FileSender::next_frame: a chunk that is not empty, or DONE at the end.
LEMMA NextFrameIs ==
  ASSUME TypeOK, NEW snd \in Senders, snd.file \in 1..Len(files), snd.off <= Len(files[snd.file])
  PROVE  \/ /\ NextFrame(snd).id = "DATA"
            /\ \E y \in Nat : /\ snd.off < y /\ y <= Len(files[snd.file])
                              /\ NextFrame(snd).data = SubSeq(files[snd.file], snd.off + 1, y)
                              /\ snd.off + Len(NextFrame(snd).data) = y
         \/ NextFrame(snd).id = "DONE" /\ snd.off = Len(files[snd.file])
<1> DEFINE f == files[snd.file]
           rest == IF Len(f) > snd.off THEN Len(f) - snd.off ELSE 0
           n == IF rest < Chunk THEN rest ELSE Chunk
<1>1. f \in Seq(FileBytes) /\ snd.off \in Nat /\ Chunk \in Nat \ {0}
  BY SyncAssumption DEF TypeOK, Senders
<1>2. NextFrame(snd) = IF n = 0 THEN Answer("DONE", "none", << >>)
                       ELSE Answer("DATA", "none", SubSeq(f, snd.off + 1, snd.off + n))
  BY DEF NextFrame
<1> DEFINE L == Len(f)
           x == snd.off
<1>3. L \in Nat /\ x \in Nat /\ x <= L
  BY <1>1
<1>4. n \in Nat /\ (n = 0 => x = L) /\ x + n <= L
  <2> HIDE DEF L, x
  <2>1. rest = L - x
    BY <1>3 DEF L, x
  <2> HIDE DEF rest
  <2> QED BY <1>1, <1>3, <2>1
<1> HIDE DEF n
<1>5. CASE n = 0
  BY <1>2, <1>4, <1>5 DEF Answer
<1>6. CASE n # 0
  <2>1. /\ NextFrame(snd).id = "DATA"
        /\ NextFrame(snd).data = SubSeq(f, x + 1, x + n)
    <3>1. NextFrame(snd) = Answer("DATA", "none", SubSeq(f, x + 1, x + n))
      BY <1>2, <1>6
    <3> DEFINE d == SubSeq(f, x + 1, x + n)
    <3> HIDE DEF d
    <3>2. NextFrame(snd) = Answer("DATA", "none", d)
      BY <3>1 DEF d
    <3>3. NextFrame(snd).id = "DATA" /\ NextFrame(snd).data = d
      BY <3>2 DEF Answer
    <3> QED BY <3>3 DEF d
  <2>2. Len(SubSeq(f, x + 1, x + n)) = n
    <3> HIDE DEF L, x, f
    <3>1. L = Len(f) /\ f \in Seq(FileBytes)
      BY <1>1 DEF L
    <3>2. x + 1 \in 1..(L + 1) /\ x + n \in 0..L /\ x + n \in Nat /\ x + 1 \in Nat
      BY <1>3, <1>4
    <3> QED BY <1>3, <1>4, <1>6, <3>1, <3>2
  <2>3. x < x + n /\ x + n \in Nat
    BY <1>3, <1>4, <1>6
  <2> QED BY <1>4, <2>1, <2>2, <2>3
<1> QED
  BY <1>5, <1>6

\* Which files a step of a stream changes: the one it pushes.
LEMMA FilesChange ==
  ASSUME Inv, PushInv, PlainSessions, NEW s \in Streams,
         \/ \E h \in 1..End(items[s]) : Wrte(s, h)
         \/ GiveUp(s) \/ HandleOkay(s) \/ HandleClse(s) \/ Handle(s)
  PROVE  \/ UNCHANGED <<dir, files>>
         \/ \E j \in DOMAIN items[s] :
              LET P == items[s][j].path
              IN /\ items[s][j].kind = "SEND"
                 /\ \A p \in Paths : p # P => dir'[p] = dir[p]
                 /\ \A f \in 1..Len(files) : f # dir[P] => files'[f] = files[f]
<1>0. /\ TypeOK /\ dir \in [Paths -> Nat] /\ files \in Seq(Seq(FileBytes)) /\ items \in Scripts
  BY DEF Inv, TypeOK
<1>1. CASE (\E h : Wrte(s, h)) \/ GiveUp(s) \/ HandleOkay(s) \/ HandleClse(s)
  BY <1>1 DEF Wrte, GiveUp, HandleOkay, HandleClse, fsVars
<1>2. CASE InvalidRequest(s) \/ HandleLstat(s) \/ HandleRecv(s) \/ HandleQuit(s) \/ ReceiveEnd(s)
  BY <1>2, Zenon DEF InvalidRequest, HandleLstat, HandleRecv, HandleQuit, ReceiveEnd, fsVars
<1>3. CASE HandleSend(s)
  <2>1. PICK i \in RequestsIn(s, cur.pos, cur.hi) :
          i.kind = "SEND" /\ (UNCHANGED <<dir, files>> \/ Create(SendPath(i)))
    BY <1>3, Zenon DEF HandleSend, fsVars
  <2>2. PICK j \in DOMAIN items[s] : i = items[s][j]
    BY NewPull DEF ItemsOf
  <2>3. SendPath(i) = i.path
    BY <1>0, <2>1, <2>2 DEF PlainSessions
  <2>4. i.path \in Paths
    BY <1>0, NewPull, ItemsTyped
  <2>5. CASE Create(i.path)
    <3> DEFINE P == i.path
    <3>1. \/ files' = [files EXCEPT ![dir[P]] = << >>] /\ dir' = dir
          \/ files' = Append(files, << >>) /\ dir' = [dir EXCEPT ![P] = Len(files) + 1]
      BY <2>5 DEF Create
    <3>2. \A p \in Paths : p # P => dir'[p] = dir[p]
      BY <1>0, <2>4, <3>1
    <3>3. \A f \in 1..Len(files) : f # dir[P] => files'[f] = files[f]
      <4> HIDE DEF P
      <4>1. << >> \in Seq(FileBytes)
        OBVIOUS
      <4>2. CASE files' = [files EXCEPT ![dir[P]] = << >>]
        BY <1>0, <4>2
      <4>3. CASE files' = Append(files, << >>)
        BY <1>0, <4>1, <4>3
      <4> QED BY <3>1, <4>2, <4>3
    <3> QED BY <2>1, <2>2, <3>2, <3>3
  <2> QED BY <2>1, <2>3, <2>5
<1>4. CASE ReceiveHeader(s) \/ ReceiveData(s)
  <2>1. Receiving(s)
    BY <1>4 DEF ReceiveHeader, ReceiveData
  <2>2. PICK j \in DOMAIN items[s], k \in DOMAIN items[s] : PushAt(s, j, k)
    BY <2>1, ReceivingPush
  <2>3. /\ items[s][j].kind = "SEND" /\ receiver[s].path = items[s][j].path
        /\ dir[receiver[s].path] = receiver[s].file
    BY <2>2 DEF PushAt, Placed, Holds
  <2>4. Abort(s) \/ UNCHANGED dir
    <3>1. CASE ReceiveHeader(s)
      BY <3>1, Zenon DEF ReceiveHeader, Header, Finalize, Keep
    <3>2. CASE ReceiveData(s)
      BY <3>2, Zenon DEF ReceiveData
    <3> QED BY <1>4, <3>1, <3>2
  <2>5. files' = files \/ \E x : files' = [files EXCEPT ![receiver[s].file] = x]
    BY <1>4, Zenon DEF ReceiveHeader, ReceiveData
  <2>6. \A p \in Paths : p # receiver[s].path => dir'[p] = dir[p]
    BY <1>0, <2>4 DEF Abort
  <2>7. \A f \in 1..Len(files) : f # receiver[s].file => files'[f] = files[f]
    BY <1>0, <2>5
  <2> QED BY <2>3, <2>6, <2>7
<1> QED
  BY <1>1, <1>2, <1>3, <1>4, Zenon DEF Handle

\* A step of one stream leaves what another pulls as it was.
LEMMA OtherPull ==
  ASSUME Inv, PushInv, PlainSessions, OwnPulls, NEW s \in Streams, NEW t \in Streams \ {s}, Pulling(t),
         \/ \E h \in 1..End(items[s]) : Wrte(s, h)
         \/ GiveUp(s) \/ HandleOkay(s) \/ HandleClse(s) \/ Handle(s)
  PROVE  Pulling(t)'
<1>1. /\ items' = items /\ state'[t] = state[t] /\ sender'[t] = sender[t] /\ answers'[t] = answers[t]
  BY OnlyOne DEF Only
<1>2. \A n : Before(t, n)' <=> Before(t, n)
  BY <1>1 DEF Before
<1>3. CASE state[t] # "Sending"
  BY <1>1, <1>2, <1>3 DEF Pulling
<1>4. CASE state[t] = "Sending"
  <2>1. PICK k \in DOMAIN items[t] : items[t][k].kind = "RECV" /\ dir[items[t][k].path] = sender[t].file
    BY <1>4 DEF Pulling
  <2>2. /\ sender[t].file \in 1..Len(files) /\ sender[t].file # 0 /\ items[t][k].path \in Paths
        /\ items \in Scripts
    <3>1. sender[t].file \in 1..Len(files)
      BY <1>4 DEF Inv, FilesOK
    <3>2. items[t][k].path \in Paths
      BY ItemsTyped, ItemsInOrder DEF Inv
    <3> QED BY <3>1, <3>2 DEF Inv, TypeOK
  <2>3. dir'[items[t][k].path] = sender[t].file /\ files'[sender[t].file] = files[sender[t].file]
    <3>1. CASE UNCHANGED <<dir, files>>
      BY <2>1, <3>1
    <3>2. ASSUME NEW j \in DOMAIN items[s], items[s][j].kind = "SEND",
                 \A p \in Paths : p # items[s][j].path => dir'[p] = dir[p],
                 \A f \in 1..Len(files) : f # dir[items[s][j].path] => files'[f] = files[f]
          PROVE  dir'[items[t][k].path] = sender[t].file /\ files'[sender[t].file] = files[sender[t].file]
      <4>1. items[t][k].path # items[s][j].path
        BY <2>1, <2>2, <3>2 DEF OwnPulls
      <4>2. items[s][j].path \in Paths
        BY ItemsTyped, ItemsInOrder DEF Inv
      <4>3. dir[items[s][j].path] # sender[t].file
        BY <2>1, <2>2, <4>1, <4>2 DEF PushInv, OneName
      <4> QED BY <2>1, <2>2, <3>2, <4>1, <4>3
    <3> QED BY <3>1, <3>2, FilesChange
  <2> QED BY <1>1, <1>2, <1>4, <2>1, <2>3 DEF Pulling
<1> QED
  BY <1>3, <1>4

\* The next frame of a pull.
LEMMA FramePull ==
  ASSUME Inv, NEW s \in Streams, NEW snd \in Senders, ~snd.done, snd.file \in 1..Len(files),
         Delivered(answers[s], files[snd.file], snd.off), Continue(s, snd), UNCHANGED <<items, dir, files>>,
         NEW k \in DOMAIN items[s], items[s][k].kind = "RECV", dir[items[s][k].path] = snd.file
  PROVE  Pulling(s)'
<1>0. TypeOK /\ answers[s] \in Seq(Answers) /\ files[snd.file] \in Seq(FileBytes) /\ snd.off \in Nat
  <2>1. TypeOK
    BY DEF Inv
  <2>2. answers[s] \in Seq(Answers) /\ files \in Seq(Seq(FileBytes))
    BY <2>1 DEF TypeOK
  <2>3. snd.off \in Nat
    BY DEF Senders
  <2> QED BY <2>1, <2>2, <2>3
<1>1. PICK f : /\ FrameOf(snd, f) /\ Reply(s, f)
               /\ sender'[s] = [snd EXCEPT !.off = @ + Len(f.data), !.done = f.id # "DATA"]
  BY <1>0, ContinueDoes
<1>2. state'[s] = "Sending"
  BY <1>0, ContinueDoes
<1>3. /\ sender'[s].file = snd.file /\ sender'[s].off = snd.off + Len(f.data)
      /\ sender'[s].done = (f.id # "DATA")
  BY <1>1 DEF Senders
<1>4. /\ answers'[s] = Append(answers[s], f) /\ Len(answers[s]) \in Nat
      /\ Len(answers'[s]) = Len(answers[s]) + 1 /\ answers'[s][Len(answers'[s])] = f
  BY <1>0, <1>1, ReplyIs
<1>5. \E j \in DOMAIN items'[s] : items'[s][j].kind = "RECV" /\ dir'[items'[s][j].path] = sender'[s].file
  BY <1>3
<1>6. snd.off <= Len(files[snd.file])
  <2> DEFINE n == Len(answers[s]) + 1
             F == files[snd.file]
  <2>1. PICK from \in 1..n : \E o \in [from..n -> 0..Len(F)] : o[n] = snd.off
    BY Zenon DEF Delivered
  <2>2. n \in Nat /\ from \in Nat /\ n \in from..n /\ Len(F) \in Nat
    BY <1>0
  <2> HIDE DEF n, F
  <2>3. snd.off \in 0..Len(F)
    BY <2>1, <2>2
  <2>4. snd.off <= Len(F)
    BY <1>0, <2>2, <2>3
  <2> QED BY <2>4 DEF F
<1> DEFINE w == answers[s]
           F == files[snd.file]
           x == snd.off
<1>7. CASE f.id = "DATA"
  <2>1. f = NextFrame(snd)
    BY <1>1, <1>7 DEF FrameOf
  <2>2. PICK y \in Nat : /\ x < y /\ y <= Len(F) /\ f.data = SubSeq(F, x + 1, y)
                         /\ x + Len(f.data) = y
    BY <1>0, <1>6, <1>7, <2>1, NextFrameIs
  <2>3. Delivered(Append(w, f), F, y)
    <3>1. w \in Seq(Answers) /\ F \in Seq(FileBytes) /\ x \in Nat /\ Delivered(w, F, x)
      BY <1>0
    <3> HIDE DEF w, F, x
    <3> QED BY <1>7, <2>2, <3>1, DeliveredMore
  <2>4. Delivered(answers'[s], files'[sender'[s].file], sender'[s].off) /\ ~sender'[s].done
    BY <1>3, <1>4, <1>7, <2>2, <2>3
  <2> QED BY <1>2, <1>5, <2>4 DEF Pulling
<1>8. CASE f.id # "DATA"
  <2>1. Before(s, Len(answers[s]))'
    BY <1>4, <1>8 DEF Before
  <2>2. ASSUME f.id = "DONE"
        PROVE  DeliveredAll(answers'[s], files'[sender'[s].file])
    <3>1. f = NextFrame(snd)
      BY <1>1, <2>2 DEF FrameOf
    <3>2. x = Len(F)
      BY <1>0, <1>6, <2>2, <3>1, NextFrameIs
    <3>3. DeliveredAll(Append(w, f), F)
      <4>1. w \in Seq(Answers) /\ F \in Seq(FileBytes) /\ Delivered(w, F, Len(F))
        BY <1>0, <3>2
      <4> HIDE DEF w, F, x
      <4> QED BY <4>1, DeliveredEnd
    <3> QED BY <1>3, <1>4, <3>3
  <2> QED BY <1>2, <1>3, <1>4, <1>5, <1>8, <2>1, <2>2 DEF Pulling
<1> QED
  BY <1>7, <1>8

\* PullInv at the start.
LEMMA InitPull == Init => PullInv
BY DEF Init, PullInv, Pulling, Before

\* PullInv, step by step.
LEMMA NextPull ==
  ASSUME Inv, PushInv, InTurn, PullInv, PlainSessions, OwnPulls, [Next]_vars
  PROVE  PullInv'
<1>1. CASE UNCHANGED vars
  <2>1. UNCHANGED <<items, state, sender, answers, dir, files>>
    BY <1>1 DEF vars, hostVars, fsVars
  <2>2. \A s, n : Before(s, n)' <=> Before(s, n)
    BY <2>1 DEF Before
  <2> QED BY <2>1, <2>2 DEF PullInv, Pulling
<1>2. ASSUME NEW s \in Streams,
             \/ \E h \in 1..End(items[s]) : Wrte(s, h)
             \/ GiveUp(s) \/ HandleOkay(s) \/ HandleClse(s) \/ Handle(s)
      PROVE  PullInv'
  <2>0. TypeOK /\ Turn(s) /\ Pulling(s) /\ items' = items
    BY <1>2, OnlyOne DEF Inv, InTurn, PullInv, Only
  <2>1. SUFFICES Pulling(s)'
    <3>1. \A t \in Streams \ {s} : Pulling(t)'
      BY <1>2, OtherPull DEF PullInv
    <3> QED BY <3>1 DEF PullInv
  <2>2. ASSUME UNCHANGED <<state, sender, answers, dir, files>>
        PROVE  Pulling(s)'
    <3>1. \A n : Before(s, n)' <=> Before(s, n)
      BY <2>2 DEF Before
    <3> QED BY <2>0, <2>2, <3>1 DEF Pulling
  <2>3. CASE (\E h : Wrte(s, h)) \/ GiveUp(s)
    BY <2>2, <2>3 DEF Wrte, GiveUp, fsVars
  <2>4. CASE HandleClse(s)
    <3>1. state'[s] = "Closed"
      BY <2>0, <2>4 DEF HandleClse, TypeOK
    <3> QED BY <3>1 DEF Pulling
  <2>5. CASE HandleOkay(s)
    <3>1. UNCHANGED <<dir, files>>
      BY <2>5 DEF HandleOkay, fsVars
    <3>2. CASE state[s] # "Sending"
      BY <2>2, <2>5, <3>1, <3>2 DEF HandleOkay
    <3>3. CASE state[s] = "Sending" /\ sender[s].done
      <4>1. state'[s] = "Idle" /\ UNCHANGED answers
        BY <2>0, <2>5, <3>3 DEF HandleOkay, Continue, TypeOK
      <4>2. Before(s, Len(answers[s]))'
        BY <2>0, <3>3, <4>1 DEF Pulling, Before
      <4> QED BY <4>1, <4>2 DEF Pulling
    <3>4. CASE state[s] = "Sending" /\ ~sender[s].done
      <4>1. sender[s] \in Senders /\ Continue(s, sender[s]) /\ sender[s].file \in 1..Len(files)
        BY <2>0, <2>5, <3>4 DEF TypeOK, Senders, HandleOkay, Inv, FilesOK
      <4>2. PICK k \in DOMAIN items[s] : items[s][k].kind = "RECV" /\ dir[items[s][k].path] = sender[s].file
        BY <2>0, <3>4 DEF Pulling
      <4>3. Delivered(answers[s], files[sender[s].file], sender[s].off)
        BY <2>0, <3>4 DEF Pulling
      <4> QED BY <2>0, <3>1, <3>4, <4>1, <4>2, <4>3, FramePull
    <3> QED BY <3>2, <3>3, <3>4
  <2>6. CASE Handle(s)
    <3>1. cur.on = s
      BY <2>6, HandleDoes
    <3>2. state[s] \in {"Idle", "Receiving"} /\ ~waiting[s] /\ Before(s, Len(answers[s]))
      BY <2>0, <3>1 DEF Turn, Pulling
    <3>3. CASE PlainReply(s) /\ state'[s] \in {state[s], "Idle"}
      <4>1. PICK a : a.id # "DATA" /\ Reply(s, a)
        BY <3>3 DEF PlainReply
      <4>2. Len(answers'[s]) = Len(answers[s]) + 1 /\ answers'[s][Len(answers[s]) + 1] = a
        BY <2>0, <4>1, ReplyIs
      <4>3. Before(s, Len(answers[s]))'
        BY <4>1, <4>2 DEF Before
      <4> QED BY <3>2, <3>3, <4>3 DEF Pulling
    <3>4. CASE UNCHANGED answers /\ state'[s] \in {state[s], "Receiving"}
      <4>1. Before(s, Len(answers[s]))'
        BY <3>2, <3>4 DEF Before
      <4> QED BY <3>2, <3>4, <4>1 DEF Pulling
    <3>5. CASE state'[s] = "Closed"
      BY <3>5 DEF Pulling
    <3>6. ASSUME UNCHANGED <<dir, files>>, NEW i \in RequestsIn(s, cur.pos, cur.hi), i.kind = "RECV",
                 dir[i.path] # 0, Continue(s, NewSender(dir[i.path]))
          PROVE  Pulling(s)'
      <4> DEFINE snd == NewSender(dir[i.path])
      <4>1. /\ snd \in Senders /\ ~snd.done /\ snd.off = 0 /\ snd.file = dir[i.path] /\ i \in ItemsOf(s)
        BY NewPull
      <4>2. PICK k \in DOMAIN items[s] : i = items[s][k]
        BY <4>1 DEF ItemsOf
      <4>3. i.path \in Paths
        BY <2>0, <4>1, ItemsTyped
      <4>4. snd.file \in 1..Len(files)
        <5>1. dir[i.path] \in Nat /\ dir[i.path] <= Len(files) /\ Len(files) \in Nat
          BY <4>3 DEF Inv, FilesOK, TypeOK
        <5> QED BY <3>6, <4>1, <5>1
      <4>5. Delivered(answers[s], files[snd.file], snd.off)
        <5>1. answers[s] \in Seq(Answers) /\ files[snd.file] \in Seq(FileBytes)
          BY <2>0, <4>4 DEF TypeOK
        <5>2. Len(answers[s]) = 0 \/ answers[s][Len(answers[s])].id # "DATA"
          BY <3>2 DEF Before
        <5> DEFINE w == answers[s]
                   F == files[snd.file]
        <5>3. Delivered(w, F, 0)
          <6>1. w \in Seq(Answers) /\ F \in Seq(FileBytes) /\ (Len(w) = 0 \/ w[Len(w)].id # "DATA")
            BY <5>1, <5>2
          <6> HIDE DEF w, F
          <6> QED BY <6>1, DeliveredNone
        <5> QED BY <4>1, <5>3
      <4>6. Continue(s, snd)
        BY <3>6
      <4> HIDE DEF snd
      <4> QED BY <2>0, <3>6, <4>1, <4>2, <4>4, <4>5, <4>6, FramePull
    <3> QED BY <2>6, <3>2, <3>3, <3>4, <3>5, <3>6, HandleDoes
  <2> QED BY <1>2, <2>3, <2>4, <2>5, <2>6
<1> QED
  BY <1>1, <1>2 DEF Next

\* FileSender: DONE ends a pull that has delivered the file, all of it, once and
\* in order, however its frames and what the other streams do are interleaved.
\* The hosts are those of OkayIsStored, and none pushes what another pulls.
THEOREM PullIsDelivered ==
  ASSUME PlainSessions, OwnPaths, OwnPulls, "join" \notin Cuts
  PROVE  Spec => []PullIsWhole
<1> DEFINE All == Inv /\ PushInv /\ InTurn /\ PullInv
<1>1. Init => All
  BY InitInv, InitPush, InitTurn, InitPull
<1>2. All /\ [Next]_vars => All'
  BY NextInv, NextPush, NextTurn, NextPull
<1>3. All => PullIsWhole
  <2>1. SUFFICES ASSUME All, NEW s \in Streams, state[s] = "Sending", sender[s].done,
                        answers[s][Len(answers[s])].id = "DONE"
                 PROVE  LET n == Len(answers[s])
                            f == files[sender[s].file]
                        IN \E from \in 1..n : \E o \in [from..n -> 0..Len(f)] :
                             Before(s, from - 1) /\ CutsInto(s, from, o, f) /\ o[n] = Len(f)
    BY DEF PullIsWhole
  <2>2. DeliveredAll(answers[s], files[sender[s].file])
    BY <2>1 DEF PullInv, Pulling
  <2> QED BY <2>2, Zenon DEF DeliveredAll, Before, CutsInto
<1> HIDE DEF All
<1> QED
  BY <1>1, <1>2, <1>3, PTL DEF Spec
=============================================================================
