--------------------------- MODULE MCSyncService ---------------------------
(***************************************************************************)
(* Instances of SyncService for TLC, and the mapping under which it        *)
(* implements FilePush.                                                    *)
(***************************************************************************)
EXTENDS SyncService, SequencesExt

CONSTANTS NoFile,    \* stands for the content of a path where no file is
          Instance   \* which sessions the hosts run

A == <<"/a">>
B == <<"/b">>
Comma == <<"/a", "1">>
MCPaths == {A, B, Comma}
MCOld == {B}

I(kind, len, path) == [kind |-> kind, len |-> len, path |-> path]

\* Gives every item its place in the stream.
Place(q) ==
  LET at[k \in 1..Len(q)] == IF k = 1 THEN 0 ELSE at[k - 1] + HeaderSize + q[k - 1].len
  IN [k \in DOMAIN q |-> [kind |-> q[k].kind, at |-> at[k], len |-> q[k].len,
                          path |-> q[k].path]]

Push(p) == <<I("SEND", 1, p), I("DATA", 2, p), I("DONE", 0, p)>>

\* Two pushes with a STAT between them.
PushStatPush(p) == Push(p) \o <<I("STAT", 1, B)>> \o Push(p)

Both(q, r) == [s \in Streams |-> Place(IF s = "s1" THEN q ELSE r)]

\* One push after the other; empty frames; a frame that is none.
Alone == {<<I("SEND", 1, A), I("DATA", 3, A), I("DATA", 0, A), I("DATA", 1, A),
            I("DONE", 0, A)>>,
          PushStatPush(B),
          <<I("SEND", 1, A), I("DATA", 1, A), I("OTHER", 1, A)>>}

MCScripts ==
  CASE Instance = "sessions" ->
         {Both(q, << >>) : q \in Alone} \cup
         {Both(Push(A) \o <<I("STAT", 1, B), I("QUIT", 0, A)>>,
               <<I("RECV", 1, B), I("OTHER", 1, B), I("RECV", 1, Comma)>>)}
    [] Instance = "pushes" -> {Both(PushStatPush(A), PushStatPush(A))}
    [] Instance = "comma" -> {Both(Push(Comma), Push(Comma))}
    [] Instance = "pull" -> {Both(<<I("RECV", 1, B)>>, << >>)}
    [] Instance = "ahead" -> {Both(<<I("RECV", 1, B), I("STAT", 1, B), I("RECV", 1, B)>>, << >>)}

-----------------------------------------------------------------------------
\* The k-th of the elements of S.
Kth(S, k) == CHOOSE x \in S : Cardinality({y \in S : y <= x}) = k

\* The pushes of a session: where they go, and their bytes.
Sends(s) == {k \in DOMAIN items[s] : items[s][k].kind = "SEND"}
Frame(s, j) == {k \in (j + 1)..Len(items[s]) :
                  \A m \in (j + 1)..k : items[s][m].kind \in Frames}
JobBytes(s, j) ==
  FlattenSeq([n \in 1..Cardinality(Frame(s, j)) |->
                LET i == items[s][Kth(Frame(s, j), n)]
                IN Bytes(s, i.at + HeaderSize, i.len)])
JobsOf(s) == [n \in 1..Cardinality(Sends(s)) |->
                LET j == Kth(Sends(s), n)
                IN [path |-> items[s][j].path, bytes |-> JobBytes(s, j)]]

OfPush(a) == a.id = "OKAY" \/ a.why \in {"cannot create", "write error",
               "cannot set permissions", "invalid sync frame during send"}
VerdictsOf(s) == [n \in 1..Len(SelectSeq(answers[s], OfPush)) |->
                    SelectSeq(answers[s], OfPush)[n].id]

Promise == INSTANCE FilePush WITH
  Clients <- Streams,
  jobs <- [s \in Streams |-> JobsOf(s)],
  busy <- [s \in Streams |-> InReceive(s)],
  verdicts <- [s \in Streams |-> VerdictsOf(s)],
  store <- [p \in Paths |-> IF dir[p] = 0 THEN NoFile ELSE files[dir[p]]]

\* The service, fed byte by byte, keeps the promise of FilePush: what a file
\* holds is at all times a prefix of what was pushed, OKAY comes when it is
\* complete, FAIL when it is gone.
KeepsPromise == Promise!Spec
=============================================================================
