# Formal models of adibi, a Linux adb daemon

adibi (repository `mripard/muadib`) is the device side of the Android Debug
Bridge: a daemon that talks ADB over two USB bulk endpoints and serves shells,
file transfer, port forwarding and reboot. This directory holds TLA+ models of
it, TLC runs and TLAPS proofs. `PROJECT.json` lists components, runs, mutants,
the map from definitions to source lines, findings, hazards and theorems.

## The system

| Component | Source | State | Operations | Hard parts |
|---|---|---|---|---|
| Event loop and command handlers | `src/src/main.rs` (`AdbConnection`) | `version`, `pending_header`, `bulk_out_buf`, the ring | one arm per completion, one handler per ADB command, `submit_*` | completions in any order, several in one batch, linked writes |
| Write-buffer pool | `src/src/buffers.rs` | eight slots | `alloc`, `free` | exhaustion, ownership while the kernel reads a slot |
| Stream table | `src/src/stream.rs` | streams by `local_id`, `next_id` | `open`, `get`, `close` | late completions for closed streams, CLSE from both ends |
| Message framing | `src/src/message.rs`, `run` | `bulk_out_buf`, `pending_header` | `parse_header`, `checksum`, the two bulk-out arms | packets, full buffers, what follows a damaged message |
| Sync service | `src/src/sync.rs` | `SyncState`, `FileSender`, `FileReceiver` | `handle`, `next_frame`, `receive` | requests and frames cut anywhere, answers outside flow control, calls that fail |
| Shell | `src/src/shell.rs` | PTY, child, `read_buf` | spawn, `write_input`, drop | buffer lifetime, blocking write, who holds the terminal |
| Forward | `src/src/forward.rs` | socket, `read_buf` | connect, `write_input`, `shutdown_write` | draining after CLSE, partial and blocking writes |
| FunctionFS events | `src/src/ffs.rs` | the event queue of ep0 | `read_event` | the queue forgets events |
| Gadget | `src/src/ffs.rs` | ConfigFS tree, UDC binding | `setup_gadget`, `find_udc`, `bind_udc`, `unbind_udc` | a run that is cut short, running twice, unbind |
| Lifecycle | `src/src/main.rs` (`run_daemon`, `main`) | file descriptors from systemd | `receive_usb_fds`, `wait_for_enable`, `run_daemon` | disable racing a failed read, enable before the old session has ended |
| Device identity | `src/src/device_info.rs` | none | `from_system` | fallbacks |
| Byte views, build script, units, tests | `usb.rs`, `build.rs`, `systemd/`, `tmt/` | none | | not modelled |

One thread runs everything in the daemon. The concurrency is between it, the
kernel, which completes submitted operations when it likes, and the host at the
other end of the cable. Handlers call the stream table, the pool and the
services directly; all of them push entries on the one submission queue, which
`run` hands to the kernel after each batch of completions.

What makes the parts correct:

* **pool**: two writes never share a slot, a slot is given back exactly when its
  write is done, and there are enough slots;
* **loop**: the bulk-out read and the poll of ep0 are always armed, once; the
  submission queue never overflows; no assertion fails;
* **streams**: an open shell or forward is driven by exactly one thing, host and
  device agree on what an id means, both learn of every close, data arrives
  once, in order, one WRTE at a time, and every request is answered;
* **framing**: messages are handled whole and in order, also after damaged ones;
* **sync**: the receiver always knows where in the stream it is, OKAY is said of
  a complete file, each request has one answer, a pull delivers the whole file;
* **shell and forward**: no byte is lost, the last bytes arrive before the CLSE,
  the loop is not blocked for ever, the end of the other side is noticed;
* **lifecycle**: every host that enables the interface is served, by a session
  that has nothing of an earlier one;
* **gadget**: success of a command means what it says, and every command can be
  repeated after one that was cut short;
* **identity**: each field comes from the first documented source that has it
  (which is not so: `bad_identity`).

## Modules

| Module | Models |
|---|---|
| `BufferManager` | `buffers.rs` as operators on a function from slots to messages |
| `StreamManager` | `stream.rs` as operators on a function from ids to records |
| `AdbHost` | the host (external): what it sends, and what it makes of what arrives |
| `AdbConnection` | `AdbConnection::run` and its handlers, the kernel (external), composed with the three above |
| `MCAdbConnection` | the values of constants its runs share |
| `AdbConnectionProofs` | theorems about the ring of `AdbConnection` (slots, queue, armed reads), about what device and host know of each other's streams, and about the reads of streams |
| `AdbCloseProofs` | theorems about how streams end, the order of messages and flow control |
| `BulkOut` | bulk-out packets, reads and `parse_header`, below the whole messages of `AdbConnection` |
| `BulkOutProofs` | theorems about `BulkOut` |
| `SyncService` | `sync.rs` at the level of bytes, inside one `handle` call of `AdbConnection` |
| `FilePush` | the abstract specification: what the sync service promises about pushed files |
| `MCSyncService` | sessions of hosts, and the refinement mapping from `SyncService` to `FilePush` |
| `SyncServiceProofs` | theorems about `SyncService` |
| `Relay` | the bytes of shells and forwards: `shell.rs`, `forward.rs` and the handlers that move them |
| `MCRelay` | destinations for `Relay` |
| `RelayProofs` | theorems about `Relay` |
| `Lifecycle` | `main`, `run_daemon`, `wait_for_enable`, the end of sessions, FunctionFS and systemd (external) |
| `LifecycleProofs` | theorems about `Lifecycle` |
| `Gadget` | `setup_gadget`, `bind_udc` and the two commands that call them |
| `GadgetProofs` | theorems about `Gadget` |
| `DeviceInfo` | `DeviceInfo::from_system` and its readers |
| `DeviceInfoProofs` | theorems about `DeviceInfo` |

`AdbConnection` is the centre. The other modules are about what it takes as one
step or leaves open: `BulkOut` how a message gets into the buffer, `SyncService`
what `handle` does with a payload, `Relay` what happens to bytes and why a write
may block, `Lifecycle` what starts and ends the connection.

### AdbConnection: how the state corresponds to the code

`sq` is the set of entries pushed since the last submit, `order` the slots of
the headers among them in the order of pushing; `kern` is what the kernel has,
`bulk_in` the writes queued on the endpoint; `cq` the completions posted,
`batch` those that the current `for cqe in cq` has not handled yet. An operation
is `[op, data, after]`: the two halves of `UserData`, and for a linked payload
the slot of the header it waits for. A slot of `buffers` remembers the message
whose header or payload bytes it holds. `daemon` is `"running"`, how `run`
returned, or the message of the panic.

`tx` counts the WRTEs a stream has sent. The code has no such counter: it
numbers payloads, so that order and flow control can be stated, and bounds the
model. Payload bytes, sizes and paths are left out.

Each arm of the `match` in `run` is one action that takes one completion out of
`batch` and does all the arm does. `io` is the record of what the `submit_*`
functions change; handlers are written as functions from `io` to `io` and
committed at the end (`Commit`), after the read that every bulk-out arm ends
with (`Finish`). The first panic is recorded in `daemon` and no further step is
taken.

Completions are handled in any order. The doc of `Stream::waiting_for_okay`
allows the completion of a write to be posted after the host has reacted to
it; TLC therefore considers every order within a batch.

### AdbConnection: the kernel and the host

The kernel completes operations one at a time. A write reaches the host when it
completes. A linked payload is queued on the endpoint only when its header has
completed: io_uring starts a linked entry after its predecessor. Unlinked
writes complete in the order they were queued, or in any order when `Reorder`
is TRUE, since io_uring promises none. A failing header takes its linked payload
with it. Once the interface is gone (`~usb`) everything on the endpoints fails.

The host opens streams in order, writes only when its last WRTE is acknowledged,
makes sync requests only when the previous one is answered, acknowledges what it
receives, closes streams of the services in `Closers` at any time and answers
CLSE with CLSE. With `Restarts` it may be started anew and begin again with a
CNXN (`HostRestart`), which is what the device makes of a second CNXN: the
version is set, the streams stay. `HostNoise` adds damaged headers, damaged
payloads and unknown commands. `host[r].bad` records a message with no place in the host's state.
When another transfer arrives where a payload is due, `wire.torn` is set and the
host gives up: properties about later behaviour then say nothing, and
`FramingKept` states that it should not happen.

### BulkOut

A message is a header transfer and, when it has one, a payload transfer, each a
sequence of packets of which only the last is not full. The host sends the parts of
its messages in order, so the bus is known by its first packet, `front`; `sent` says
how far it goes. `buf` has the packets of the read that is armed and `got` counts
their bytes; the read ends at a packet that is not full or when the
buffer is. `want` is which of the two completions the read will be, `pending` is
`pending_header`. The model assumes, as the code does, that a host ends a
transfer whose length is a multiple of the packet size with an empty packet; the
code itself never compares the number of bytes
it got with `data_length`. After a payload that fills the buffer the empty packet
is what the next read gets, and it is dropped as a header that does not parse.

### SyncService, FilePush and the refinement

A byte is known by its position in what the host sends, so a header is
recognised exactly where an item begins, a WRTE is an interval, and `PartialHeader`
really holds the bytes it has kept. `handle` is taken apart into the iterations
of the loop in `receive`; `cur` holds what is left of the WRTE and no other step
is taken meanwhile. `files` are the contents, `dir` says which file is at a path,
so a file that is removed while it is open is still written to. Opening,
creating, writing, reading and `set_permissions` may each fail.

The host cuts its bytes into WRTEs anywhere inside a push. Whether it also cuts
requests (`"split"`), sends on behind an answered exchange (`"join"`), or goes on
with a push that has failed (`Persists`) are constants, because the code does not
cope with them.

`FilePush` knows only clients, jobs, verdicts and the store. `MCSyncService`
maps a push to a job, the answers that end pushes to verdicts, `Receiving` (and a
`SEND` whose WRTE is still being handled) to `busy`, and `dir` with `files` to the
store; `KeepsPromise` is the abstract specification under that mapping. Everything
about headers, remaining counts and WRTEs is a stutter, as are pulls and STAT.

### Relay

Bytes are counted at every place they can be. `busy` is the write the loop is
making: one `write(2)` takes what fits, and until the rest is written the loop
does nothing else, while kernel and destinations go on. `rd` is the one read of a
stream: armed, done, sent to the host and not acknowledged, or at its end.
Destinations answer before they read on (`echo`), read and write independently
(`reader`), or do not read (`deaf`). A shell that exits may leave a process that
keeps the terminal open (`tty`). `Drop` is what dropping the service does. The host
acknowledges what it gets until it has sent its CLSE; from then on it may and need
not, which takes in the host of `AdbHost`, which does not.

### Lifecycle

`ep0` is FunctionFS's event queue, which drops events when others come (`Kept`,
`KeptOf`);
`epoch` counts enumerations and `serves` says for which one the session was
started, which no variable of the code does. `Fault` is a read of ep0 that fails,
an unknown event or a panic.

### Gadget and DeviceInfo

`Steps` are the operations of `setup_gadget` in their order; `tree` is what exists
with its right value. A command is killed or fails at any operation and may be
run again. `DeviceInfo` has one step, over all contents of the files within the
bounds. An `Option` is the set of what it holds, and a file that cannot be read is
the empty one; a value is the name of its source, or empty; a line has a key, or
none when it lacks the separator.

## Runs

| Run | Module | Question | States |
|---|---|---|---|
| `one_stream` | `MCAdbConnection` | one stream of any service, any request, any version: does the session obey the protocol (`ProtocolObeyed`, `FlowControl`), do both ends learn of a close, is every stream driven by one thing (`Driven`), does any assertion fail (`NoPanic`) | 102 000 |
| `two_streams` | `MCAdbConnection` | a shell and a forward with writes completing in any order: `SessionsAgree`, `InOrderDelivery` | 1.9 million |
| `ring` | `MCAdbConnection` | two slots, five queue entries, failing calls and writes, damaged messages, USB events and a host that starts anew: `WritesOwnTheirSlot`, `LoopArmed`, `SqNeverFull`, `Driven` | 2.4 million |
| `progress` | `MCAdbConnection` | liveness: `OpenAnswered`, `WriteAcked`, `SyncAnswered`, `ClosedStreamsReleased` | 5 600 |
| `sync` | `MCSyncService` | pushes cut everywhere, beside a pull, with failing calls and hosts that go away: `InSync`, `AnsweredOnce`, `PullIsWhole`, `OkayMeansStored`, `HandlerReturns`, `PullEnds`, and the refinement `KeepsPromise` | 21 800 |
| `relay` | `MCRelay` | a shell beside an echoing forward: `NothingLost`, `DrainIsComplete`, `LoopReturns`, `Delivered`, `Answered`, `EndIsSeen` | 108 000 |
| `plug` | `Lifecycle` | three enumerations with faults: `EnableNotLost`, `SessionIsFresh`, `HostIsServed` | 12 600 |
| `setup` | `Gadget` | four commands, two faults: `SetupIsWhole`, `SetupRepeats`, `BindIsTrue` | 31 000 |
| `bulk_out` | `BulkOut` | three messages, two of them damaged: `MessagesWhole`, `AllHandled` | 100 000 |
| `bad_framing` | `MCAdbConnection` | do the transfers of a message arrive together? No: an OKAY gets between a header and its payload | violated |
| `bad_read_buf` | `MCAdbConnection` | does `read_buf` outlive the read into it? No: a CLSE of the host drops it | violated |
| `bad_identity` | `DeviceInfo` | does each field come from the first documented source that has it? No: a line without a separator, such as the empty one behind every processor of `/proc/cpuinfo`, hides what follows | violated |

`CHECK_DEADLOCK FALSE` is set in all of them, because all of them may really
stop: the budgets of hosts, messages and commands run out, a daemon that has
stopped, failed or panicked takes no step in `AdbConnection`, `from_system`
returns once.

### Where code and documentation disagree

The three `bad_*` runs state what a comment of the code says, and the findings in
`PROJECT.json` quote them. The other `Bad*.cfg` files ask questions of the same
kind. They are not among the runs; `tlc -config X.cfg M`, with the module of the
table, answers each with a counterexample within seconds.

| Configuration | Module | Property | What TLC shows, and the line that says otherwise |
|---|---|---|---|
| `BadSlots` | `MCAdbConnection` | `SlotsSuffice` | three shells exhaust eight slots and `alloc` panics (`buffers.rs:26`, "all write slots in use") |
| `BadDrain` | `MCAdbConnection` | `ClosedStreamsReleased` | a forward closed by a host that does not acknowledge the last WRTE is kept for ever (`stream.rs:66`, "finally closed when `SocketRead` returns 0 or an error") |
| `BadFlow` | `MCAdbConnection` | `FlowControl` | frames after a failed push are each answered at once, two WRTEs are unacknowledged (`stream.rs:41`) |
| `BadStat` | `MCAdbConnection` | `NoPanic` | LSTAT of a file of 4 GiB panics (`sync.rs:518`, "File too large for 32-bits") |
| `BadLostWrite` | `MCAdbConnection` | `OpenSurvivesFault` | the OKAY of an OPEN is lost with a failed write and never sent again (`main.rs:568`, "not fatal") |
| `BadRestart` | `MCAdbConnection` | `OneSession` | a second CNXN leaves the first session's streams in the table (`main.rs:147`, "State for a single ADB session") |
| `BadSplit` | `MCSyncService` | `AnsweredOnce` | a request cut over two WRTEs is answered with FAIL twice (`sync.rs:4`) |
| `BadJoined` | `MCSyncService` | `AnsweredOnce` | a request behind DONE in one WRTE is dropped (`sync.rs:4`, `sync.rs:10`) |
| `BadFailedPush` | `MCSyncService` | `AnsweredOnce` | the rest of a failed push is taken for requests, each answered with FAIL (`sync.rs:330`) |
| `BadComma` | `MCSyncService` | `OkayMeansStored` | a push to `a,1` is stored at `a` (`sync.rs:114`) |
| `BadOverlap` | `MCSyncService` | `OkayMeansStored` | two pushes to one path both get OKAY (`sync.rs:16`) |
| `BadPayload` | `MCSyncService` | `PayloadFits` | a pull's WRTE exceeds the payload of V0 (`message.rs:90`) |
| `BadAhead` | `MCSyncService` | `PullIsWhole` | the answer to a STAT sent behind a RECV comes between two frames of the pull (`sync.rs:11`, "DATA(chunk)* DONE") |
| `BadReplug` | `Lifecycle` | `HostIsServed` | the Enable is read by the old session, which then exits; the host is not served (`README.md:58`) |
| `BadStale` | `Lifecycle` | `SessionIsFresh` | FunctionFS drops the Disable and the old session serves the new host (`main.rs:147`) |
| `BadEcho` | `MCRelay` | `LoopReturns` | `write_input` and an echoing destination wait for each other, from five unanswered bytes on (`forward.rs:6`) |
| `BadStall` | `MCRelay` | `Delivered` | one destination that does not read stops every stream (`stream.rs:3`, "independent conversations") |
| `BadUnbind` | `Gadget` | `UnbindUnbinds` | an empty `fs::write` writes nothing, the gadget stays bound (`ffs.rs:172`) |
| `BadFirst` | `Gadget` | `BindsAvailable` | the first controller is taken though another gadget uses it (`ffs.rs:143`, "first available") |

Where a passing run checks the same property, its instance leaves the case out,
and the difference is one constant: `Requests`, `Closers`, `MaxFaults`, `Cuts`, `Persists`,
`Hasty`, `Window`, `Dest`, or the paths and requests of the instance. A hazard of
`PROJECT.json` that the code does not meet names no property of a passing run; its
note names the counterexample. `Identity.cfg` checks with `DeviceInfo` what the code
does instead of `FromItsSources`: `FromReadableLines`, over 2.3 million states.

### Bounds

`AdbConnection`: `MaxWrites`, `MaxTx` are WRTEs per stream and direction; two of
each are enough for one to be in flight while another is acknowledged, and for
every state of a sync session. `MaxBus` is transfers of the host not read yet; the
device reads one at a time, so more only delays. `MaxFaults`, `MaxEvents`,
`MaxNoise`: one of each in `ring`. `MaxSlots` and `SqSize` have the code's values,
8 and 32, except in `ring`, where two slots make every kind of contention for them
happen, and the queue has the smallest size `ConnectionAssumption` allows. Remote
ids differ from the device's ids (7, 8, 9 against 1, 2, 3), so that mixing them up
shows. `progress` has no forward: the host closes shells (`Closers`), whose
streams the code removes at once; `BadDrain` is about forwards.

`SyncService`: headers of three bytes of which one is the id (8 and 4 in the
code), so that a header can be cut before, in and after the id and in two places;
frames of 0 to 3 bytes; a chunk of two bytes for a file of three, so that a pull
has a full frame, a short one and DONE.

`Relay`: buffers of one byte against WRTEs of up to three make every write
partial and able to block. The window of the echo's host is three bytes; the
two buffers, `read_buf` and the destination together hold four, and a fifth stays in
the write while nobody can move (`BadEcho`). `BulkOut`: packets of two bytes,
headers of three, a buffer of six; payloads of 1, 4 and 6 bytes end in a short
packet, fill their last packet and fill the buffer. `Lifecycle`: three
enumerations, the second and third of which find something left by the one before.
`Gadget`: four commands with two faults, two controllers. `DeviceInfo`: two lines or
structures, so that one can stand before the one that is sought.

### Fairness

* `AdbConnection`: weak fairness of `Device` (`run` waits for nothing but
  completions), of `KernelProgress` (the kernel completes the oldest write and an
  armed read for which the host has sent something; a forwarded socket ends some
  time after its write side was shut down), and of `HostProgress` (the host
  acknowledges what it received and answers a CLSE; it need not open, write or
  close). Nothing is assumed of shells or of failures. Every liveness property
  excuses `Trouble`: a torn wire, a failed write, a disabled interface, a stopped
  daemon.
* `SyncService`: `handle` runs on, and the host acknowledges what it reads.
* `Lifecycle`: systemd starts the daemon when ep0 has an event, and the daemon
  runs. Nothing is asked of the host. `Fault` is not fair, and a host hit by one is
  excused until it enables the interface again.
* `Relay`: the loop runs, the kernel completes reads, a destination that is not
  deaf reads, writes and closes at the end of its input, a process that keeps the
  terminal ends, the host sends what it has and acknowledges on every stream it has
  not closed. `DestExit`, `HandleClse` and acknowledgements after the host's own CLSE
  are not fair: they may happen or not. `EndIsSeen` therefore excuses a stream that
  is owed an acknowledgement for ever (`Owed`): that one stays, which is `BadDrain`.
* `BulkOut`: packets are sent and read, completions handled.
* `Gadget` and `DeviceInfo` state no liveness.

## Proofs

### AdbConnection: the ring

`AdbConnectionProofs` proves, for every number of slots, streams, services,
writes, faults and events, with and without reordering:

* `TypeCorrect`: `Spec => []TypeOK`;
* `SlotsAreOwned`: `Spec => []WritesOwnTheirSlot`;
* `LoopStaysArmed`: `Spec => []LoopArmed`;
* `SqCannotOverflow`: `Spec => []SqNeverFull`.

The assumptions are the named ones on the constants: a pool that is not empty, a
queue with at least three entries more than the pool has slots (the code has 32
and 8), natural-number bounds.

The four follow from one inductive invariant, `Inv`. To the four properties it
adds `SqShape` and `Fed`. The queue bound needs `SqShape`: besides writes, of
which there is at most one per slot, the queue holds the poll of ep0 and, only
when a bulk-out completion has been handled in this batch, one bulk-out read and
at most one stream read. That in turn needs `LoopArmed`: there is only one
bulk-out completion in a batch, so only one command is handled and only one
stream read can be pushed. The number of writes is bounded by the pool because
of `WritesOwnTheirSlot`. So none of the properties is inductive without the
others. `Fed` says that a completion of ep0 or bulk-out has an event or a
transfer to deliver, which the types need.

The proof has a layer for the pool and the queue (`SubmitPartOwns`,
`SubmitMessageOwns`, `PushOwns`: what pushing does to an `io` that is owned), one
for the handlers (`Ready` before the last read is pushed, `Armed` after it;
`CommandHandled` for all of them), and one lemma per action.

### AdbConnection: device and host

The second part of `AdbConnectionProofs` proves, for every number of streams and slots, with failing
calls and writes, damaged messages and any order of completions:

* `SessionsStayInAgreement`: `Spec => []SessionsAgree`;
* `OnlySlotsPanic`: `Spec => [](SlotsSuffice => NoPanic)`.

Both assume `~Restarts`. A host that is started anew uses its ids again while the
device has kept the old streams under them (`BadRestart`), and the agreement does
not hold. `OnlySlotsPanic` also assumes that the host asks for no file whose size
does not fit 32 bits (`"stathuge" \notin Requests`), since that panics
(`BadStat`). That the slots suffice is not so in general (`BadSlots`): the theorem says
that the panic of an exhausted pool is the only one there is.

The inductive invariant is `Inv /\ Agree`. That table and host agree about a
stream is a matter of what is under way between them, so `Agree` speaks of every
message: an id of the device in a message of the host is below `next_id` and, if it
is the id of an open stream, that stream's `remote_id` is the sender (`Knows`);
an OPEN under way is for a stream that the host has begun; a WRTE or OKAY is never
for `reboot`, and only messages that have a payload have one (`MsgsAgree`, for the
transfers sent, read and the pending header). `AnswersAgree` says the same of OKAY
and WRTE in the slots, `StreamsAgree` of the table, `HostsAgree` of what the host has
heard. Ids are never used again because `next_id` only grows, which is why `Knows`
survives the close of a stream. `AssertionsHold` then follows in each handler: the
`assert!`, the check of `remote_id` and the `unreachable!` are about exactly these
facts.

### AdbConnection: the flow of data

The third part of `AdbConnectionProofs` proves, again for `~Restarts` and everything else arbitrary:

* `OneReadAtATime`: a shell or forward stream that may send has exactly one read
  on its way through queue, kernel, completions and batch; one that waits for an
  OKAY has none;
* `StreamsAreDriven`: `Spec => []Driven`, which adds that a sync stream waits for an
  OKAY exactly while it sends a file. This one also assumes `NoMix`.

The invariant `FlowInv` (on top of `Inv /\ Agree`, and only while the daemon runs)
says where the one WRTE of a stream is: on its way to the host, with the host, its
OKAY on its way back, or lost. Per stream (`Flows`):

* `AckOnce`, `OneAck`: at most one OKAY is under way, and only while the stream
  waits and no write carries a WRTE of it. Otherwise a second OKAY would start a
  second read into the same `read_buf`.
* `OneWrte`: the writes of a WRTE are the header and payload of the last one, both
  pushed or both in the kernel, and linked. The host could otherwise acknowledge
  a WRTE of which a half is still to come.
* `Counted`: `tx`, and what the host has got and acknowledged, differ by at most
  one, in the way each of the four places allows. It connects the device's flag
  to the host's count.
* `OneRead`: the theorem itself.

Around them `Queued` (each unlinked write is queued once), `PayloadsDue`, `WrtesKnown`,
`ReadsKnown` (reads of closed streams stay reads of no open one, since ids are not
used again) and `HostsFresh`. The lemmas are layered as in the ring: what a
handler adds to the ring (`Adds`), what it does to a stream (`Stays`, `Effect`),
then one lemma per action.

`NoMix` says that a host does not both push files in pieces and pull files. With
both, and calls that fail, `Driven` is not invariant: a host that sends on after the
FAIL of its push and then pulls has an old FAIL acknowledged while the file is being
sent, and the flag no longer tells the two WRTEs apart. `one_stream` checks the mix
with calls that succeed, `ring` checks `Driven` with failing calls, pushes only and
a host that starts anew; neither combination is in the theorem.

### AdbConnection: how streams end

`AdbCloseProofs` goes on from there, for `~Restarts`, any number of streams and
slots, and any order of completions:

* `HostIsToldOfClose`: `Spec => []HostLearnsOfClose`;
* `DeviceIsToldOfClose`: `Spec => []DeviceLearnsOfClose`.

The invariant is `Inv /\ Agree /\ FlowInv /\ CloseInv` (theorem `StreamEnds`).
`CloseInv` speaks of two lines of messages: `Out`, the slots on their way to the
host, and `Line`, the transfers on their way to the device with the one it has
just read in front. Its parts, per stream `r` of the host:

* `OneEnd`: all who name the device's end of `r` (the table, a message, the host)
  name the same, and there is none while the OPEN is due. Without it the CLSE of
  an earlier stream could be taken for that of a later one.
* `OneClose`, `OneOkay`: at most one CLSE and one OKAY to `r` are on their way, the
  first only when the table has dropped the stream, the second only while the host
  waits for it. They are what crossing closes could break: the device closes on
  its own, and then finds the CLSE of the host.
* `Heeded`: what the host has closed and the table has is marked `remote_closed`, or
  the CLSE is still due. This is `DeviceLearnsOfClose`, and holds whatever fails.
* `Answers`: what the host has open and the table has not has a CLSE on its way; for
  a stream that the host is still opening, a CLSE for every OKAY on its way. This is
  `HostLearnsOfClose`. It holds while `Calm`: a write that failed is not repeated
  (`BadLostWrite`), and a host that got a payload for a header gives up.

Around them `Framed` (behind every header with a payload comes that payload, so the
device never takes one for the other), `TalkKnown` (the host names only ends it has
been told), `Linked` and `Online`. What a handler does is summed up once (`Says`:
the messages it hands over, the stream it changes, the message it took), and the
parts are shown to follow from the summary, not from each handler again.

### AdbConnection: the order of messages

Where the kernel runs unlinked writes in the order of their submission (`~Reorder`),
also in `AdbCloseProofs`:

* `DeviceObeysProtocol`: `Spec => [](faults = 0 => ProtocolObeyed)`;
* `WritesArriveInOrder`: `Spec => InOrderDelivery`, with `MaxFaults = 0`.

`MessagesInOrder` adds `OrderInv`. `Queue`, the headers in the kernel and behind them
the ones pushed, is the order in which the host will get them. `Introduced`: the OKAY
of an OPEN precedes all other messages to its stream; `Last`: the CLSE follows them.
`Rising`, `Dense`, `Numbers`: the WRTEs in the queue are numbered upwards, without a
gap, beginning behind what the host has. `Complete` and `OneLink` tie the queue to the
entries: every unlinked write is in it, and a header has one payload. A payload is
never in the queue, and its header may have left it: then it is what `wire.expect`
waits for, which is the one exception in `Rising` and `Dense`.

Both hypotheses are needed. io_uring promises no order for unlinked writes, and with
`Reorder` the OKAY of an OPEN and the first WRTE of its shell may change places. On a
failed write the count of the host has a gap. `two_streams` checks `InOrderDelivery`
with `Reorder` too, for shells and forwards, where the OKAY between two WRTEs keeps
them apart; the theorem does not cover that, but covers sync answers, of which
several may be on their way.

### AdbConnection: flow control

* `FlowIsControlled`: `Spec => []OthersControlled`: on every stream that is not a sync
  one, all WRTEs but the last are acknowledged, whatever is reordered or fails, and
  also in a daemon that has stopped;
* `FlowIsControlledWithoutSync`: `Spec => []FlowControl` for hosts that open no sync
  stream.

`Counted` of `FlowInv` gives it for a stream whose other end the host knows;
`OneEnd` and `Heeded` for the others, where the host is still opening or has closed.
A step that stops the daemon may have sent a WRTE first, so that case is carried
by what the step did to the table and not by `FlowInv`, which is about a running
daemon. Sync streams are left out because there the claim is about the host: the
frames it sends after a failed push are each answered at once (`BadFlow`).

### SyncService

`SyncServiceProofs` proves, for any streams, items, sizes of headers, frames and
chunks, and any cuts into WRTEs:

* `TypeCorrect`: `Spec => []TypeOK`;
* `ReceiverInSync`: `Spec => []InSync`.

The invariant adds `CurOK` (what is left of the WRTE being handled ends where the
bytes sent end, and nothing is left over while receiving) and `FilesOK` (paths and
senders name files that exist). `InSync` needs `CurOK` because the
receiver's place is counted from what is left of the WRTE. What carries the proof
are the lemmas on bytes (`BytesAre`, `BytesJoin`): the bytes a `PartialHeader` has kept
and those that follow make one stretch, so a header put together from pieces is
the header that was sent.

* `OkayIsStored`: `Spec => OkayMeansStored`, for any calls that fail, and any cuts of
  requests and frames.

It assumes of the sessions `PlainSessions` (no comma in the path of a push, no body
in a DONE), `OwnPaths` (two streams do not push to one path, and no file has two
names at the start) and that what follows an item that is answered waits for the
answer (`"join" \notin Cuts`). `BadComma` and `BadOverlap` refute the property without
the first two; without the third a WRTE may hold a second push behind the DONE of the
first, which is dropped (`BadJoined`), and the one OKAY is not about what was sent last.

The invariant `PushInv` says of a receiving session between which items it is
(`Placed`: SEND at `j`, DATA frames up to `k`) and what it has written (`Holds`: the
file at the path has exactly the bytes of these bodies that have come, in rising
order, and the next is written at its end). `OneName` keeps the write of one push out
of the files of the others; `EndsInTurn` that the DONE which is found ends the WRTE.
`UpToEnd`, `UpToNext`, `UpToMore` say how the set of bytes grows with a header and with
a frame; `OverlayEnd` that a write at the end of the file adds them in order.
That the items of a session lie one behind the other, however many there are,
is an induction, done through the least counterexample (`LeastNumber`).

`OneAnswerEach` is `Spec => []AnsweredOnce`: each exchange that the host has begun
(a STAT, a RECV, or a SEND with its frames) has its answer, in their order, and
there is no other. It assumes a host that sends a request in one WRTE, waits for
answers and gives up a push that has failed (`Cuts = {}`, `~Persists`); a request
that is split is answered with FAIL twice (`BadSplit`), and what follows a failed push is answered
on its own (`BadFailedPush`). `InTurn` says that the host has at most one exchange open and is not
ahead of it: what is being handled ends with the item that is answered. `InExchange`
says of a session which exchange it is in: none (`AllSettled`), the one whose WRTE is being
handled, or a push or pull that is not yet answered, with all earlier ones settled
(`Matches` pairs exchanges with the answers that end them). Closing, failing calls and
giving up move between these cases and never skip one.

`PullIsDelivered` is `Spec => []PullIsWhole`: when DONE ends a pull, the DATA frames
since the RECV are the file, cut without a gap. It assumes what `OkayIsStored` does
and `OwnPulls`: no stream pushes to a path that a session pulls, since a file
that is written while it is read has no one content. The invariant `PullInv` is that the
frames so far are cut from the file up to where the sender has read
(`Delivered`), and that a sender which is done has reached the end (`DeliveredAll`);
`InTurn` keeps any other answer from coming between them.

### BulkOut

`BulkOutProofs` proves `MessagesAreWhole` (`Spec => []MessagesWhole`) for any sizes of
packets, headers, payloads and the buffer, any number of messages and any of them
damaged. It uses of `BulkOutAssumption` that a header is smaller than the buffer and
a payload not larger. The code never looks at how much a read got, so the proof
has to show that a read is one part and all of it. `BufOK` says so: a read that
goes on has the beginning of the part on the bus (`PartlyRead`), one that is over has a
whole part, or the empty packet behind a payload as large as the buffer
(`WhollyRead`). `InStep` says that the reader waits for a payload exactly when one
comes whose header was good; a payload that comes while a header is waited for is one
whose header was damaged, or that empty packet. `HandledUpTo(Decided)` then says of every
message before the one that is read whether it was handled. There is one lemma per
action; `ArrivesSize`, `ArrivedBuf` and `ArrivedFront` are the three things a packet does.

### DeviceInfo

`DeviceInfoProofs` proves `IdentityFromReadableLines`
(`Spec => []FromReadableLines`) for any files, of any length and with any lines, absent
ones included: the identity is the documented one of the lines that precede the first
without a separator. This is what `FromItsSources` promises, less exactly what stands
behind such a line (`bad_identity`). Nothing happens after `from_system`, so the
invariant is only that the files are files and that `info` is what the readers make of
them; the work is in the readers. `FieldFound`: the line at which a loop stops is the
first with the key among the readable ones, or there is none; `DmiFound` the same of
DMI structures; `BestOfThree`: a chain of `or_else` takes the first value that is
not empty.

### Lifecycle

`LifecycleProofs` proves `EnableIsServed` (`Spec => []EnableNotLost`) and
`SessionsAreFresh` (`Spec => SessionIsFresh`) for any number of enumerations, events
and faults, of a host that comes back only after the session has noticed that it
was gone (`~Hasty`; with such a host `BadReplug` and `BadStale` refute both).
`QueueIsCurrent` is needed first: an event of the kind that changes the state of the
interface is in the queue only if it is the last of them, because FunctionFS drops
the earlier ones. With it `SessionIsCurrent` (a session is for the current
enumeration, or its end is in the queue) is inductive, and so is `EnableNotLost`.
What `KeptOf` leaves of a queue is shown by induction on its length, through the
set of lengths for which it holds (`SetInduction`).

### Relay

`RelayProofs` proves, for any streams, kinds of destination, sizes of buffers and
payloads, `BuffersHold` (`TypeOK`), `NoByteIsLost` (`NothingLost`) and
`EndComesLast` (`DrainIsComplete`), from `RelayAssumption`. `NothingLost` is an
equation between the places a byte can be, and two facts are needed to keep it.
`WriteShape`: the host's WRTE is in the message or in the write, never in both,
and unacknowledged while it is; otherwise a second WRTE could replace the first.
`ReadShape`: `read_buf` is empty while a read is armed, so a read overwrites
nothing; an end is read only when the socket is empty and nobody can write.
`DrainIsComplete` follows from the two at the moment a read ends.

### Gadget

`GadgetProofs` proves `SetupLeavesAll`, `SetupCanBeRepeated` and
`BindTellsTheTruth` (`SetupIsWhole`, `SetupRepeats`, `BindIsTrue`) for any number
of commands, faults and controllers. The invariant adds `DoneSteps` (what the
running `setup_gadget` has passed is there) and `LinkIsLast` (the link exists only
in a complete tree, which is why a bind that the kernel accepts is of a complete
gadget). `StepsInOrder` is what they rest on: every operation comes after the one
that makes its directory, and the link comes last.

### What is left to TLC

* Liveness: fairness and ENABLED are out of the prover's reach.
* The refinement of `FilePush` (`KeepsPromise`): its mapping collects the answers of a
  session with `SelectSeq` and the bytes of a push with `FlattenSeq`, and what a recursively defined operator returns
  for every sequence takes induction theorems with an operator as parameter. The proofs
  do use induction on numbers (`LeastNumber`, `SetInduction`). What `FilePush`
  promises about a file whose push was answered with OKAY is proved as `OkayIsStored`,
  and that there is one answer for each push as `OneAnswerEach`.
* `FlowControl` on sync streams, `Driven` of a host that starts anew or mixes pushes in
  pieces with pulls, and `InOrderDelivery` with `Reorder`: see above.

## Not modelled

* The layout of headers as bytes and the sum of the checksum: a header parses or
  not, a checksum holds or not.
* Bytes of a file that look like a request or a frame: in `SyncService` a header
  is recognised only where an item begins.
* A write to a file that takes a part and then fails, and a failing `remove_file`
  of an unfinished push, which the code only logs.
* The wrap of `next_id` after 2^32 streams.
* systemd's limit on how often it starts a service; what the units order is in the
  environment of `Lifecycle` and `Gadget`.
* `usb.rs` (structures seen as bytes) and `build.rs` (two constant blobs made at
  build time): no state and no control.
* What a shell or a destination does with its input, beyond the three kinds of
  `Relay`.

## Plan

1. Done: all modules above and their runs; the proofs of the ring, of what device
   and host know of each other, of the flow of data, the end of streams and the order
   of messages, of `BulkOut`, `SyncService`, `Relay`, `Lifecycle`, `Gadget` and `DeviceInfo`.
2. Next: `InOrderDelivery` with `Reorder`, from the one OKAY between two WRTEs of a
   shell or forward.
