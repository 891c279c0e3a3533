----------------------------- MODULE Lifecycle -----------------------------
(***************************************************************************)
(* From the plug to the session: main(), receive_usb_fds, run_daemon and   *)
(* wait_for_enable of src/src/main.rs, how a session ends, the events of   *)
(* src/src/ffs.rs, and around them (external) FunctionFS, whose event      *)
(* queue forgets, and systemd, which starts the daemon when ep0 has an     *)
(* event to read and keeps the descriptors when the daemon exits.          *)
(*                                                                         *)
(* What happens inside a session is module AdbConnection; here it is its   *)
(* two ends, the read of bulk-out that is armed while it waits, and the    *)
(* enumeration of the interface it was started for.                        *)
(***************************************************************************)
EXTENDS Naturals, Sequences

CONSTANTS FdCounts,  \* what LISTEN_FDS may say
          Hasty,     \* whether the interface may come back (Bind, Enable) before
                     \* the session of the last time has seen it go away
          MaxEpochs, \* bound: how often the host enables the interface
          MaxMinor,  \* bound: Suspend, Resume and Setup events
          MaxFaults  \* bound: reads of ep0 that fail, sessions that panic

ASSUME LifecycleAssumption ==
  /\ FdCounts \subseteq Nat /\ Hasty \in BOOLEAN
  /\ MaxEpochs \in Nat /\ MaxMinor \in Nat /\ MaxFaults \in Nat

Minor == {"Suspend", "Resume", "Setup"}
Major == {"Bind", "Unbind", "Enable", "Disable"}

VARIABLES
  proc,   \* the daemon: "off", "waiting" for Enable, or in a "session"
  ep0,    \* the events FunctionFS has not handed out
  usb,    \* the function: "unbound", "bound", or "enabled" by the host
  epoch,  \* how often it was enabled
  serves, \* the epoch the session was started for
  read,   \* bulk-out: "none", "armed", "busy" (data being handled), "failed"
  fds,    \* LISTEN_FDS
  faults, \* how many faults there were,
  hit,    \* and the epoch of the last one
  minor

procVars == <<proc, serves, read>>
busVars == <<ep0, usb, epoch, minor>>
faultVars == <<fds, faults, hit>>
vars == <<procVars, busVars, faultVars>>

Init == /\ proc = "off" /\ ep0 = << >> /\ usb = "unbound"
        /\ epoch = 0 /\ serves = 0 /\ read = "none" /\ minor = 0
        /\ fds \in FdCounts /\ faults = 0 /\ hit = 0

-----------------------------------------------------------------------------
(* The bus, as FunctionFS sees it (external).                              *)

\* What an event leaves of the queue: Bind, Unbind, Enable and Disable all
\* but power management, Resume no Suspend, the others nothing like them.
Kept(e, old) ==
  CASE e \in Major -> old \in {"Suspend", "Resume"}
    [] e = "Resume" -> old \notin {"Suspend", "Resume"}
    [] OTHER -> old # e

\* What is left of the first i events of the queue q; SelectSeq, written out
\* because the proofs need its definition.
KeptOf(e, q) ==
  LET left[i \in 0..Len(q)] == IF i = 0 THEN << >>
                               ELSE IF Kept(e, q[i]) THEN Append(left[i - 1], q[i])
                               ELSE left[i - 1]
  IN left[Len(q)]

Event(e) == ep0' = Append(KeptOf(e, ep0), e)

\* The session has an event or a failed read it has not looked at yet.
Pending == proc = "session" /\ (ep0 # << >> \/ read \in {"busy", "failed"})

MayComeBack == epoch < MaxEpochs /\ (Pending => Hasty)

Bind == /\ usb = "unbound" /\ MayComeBack
        /\ usb' = "bound" /\ Event("Bind")
        /\ UNCHANGED <<procVars, epoch, minor, faultVars>>

Enable == /\ usb = "bound" /\ MayComeBack
          /\ usb' = "enabled" /\ epoch' = epoch + 1 /\ Event("Enable")
          /\ UNCHANGED <<procVars, minor, faultVars>>

\* The endpoints go away: the read that is armed fails.
Down(to, e) == /\ usb' = to /\ Event(e)
               /\ read' = IF read = "armed" THEN "failed" ELSE read
               /\ UNCHANGED <<proc, serves, epoch, minor, faultVars>>

Disable == usb = "enabled" /\ Down("bound", "Disable")

Unbind == usb = "bound" /\ Down("unbound", "Unbind")

MinorEvent == /\ usb # "unbound" /\ minor < MaxMinor /\ minor' = minor + 1
              /\ \E e \in Minor : Event(e)
              /\ UNCHANGED <<procVars, usb, epoch, faultVars>>

\* The host sends a message: the read completes.
Data == /\ proc = "session" /\ read = "armed" /\ usb = "enabled"
        /\ read' = "busy"
        /\ UNCHANGED <<proc, serves, busVars, faultVars>>

-----------------------------------------------------------------------------
(* The daemon.                                                             *)

\* Mutant: the read outlives the process.
ExitArmed == proc' = "off" /\ UNCHANGED <<serves, read>>

\* The process ends, and with its ring every read.
Exit == proc' = "off" /\ read' = "none" /\ UNCHANGED serves

\* systemd starts adibi.service; receive_usb_fds wants ep0 and two endpoints.
Activate == /\ proc = "off" /\ ep0 # << >>
            /\ proc' = IF fds = 3 THEN "waiting" ELSE "off"
            /\ UNCHANGED <<serves, read, busVars, faultVars>>

\* Mutant: any event is taken for the host's.
EnablesAny(e) == TRUE

Enables(e) == e = "Enable"

\* wait_for_enable reads one event; with Enable run_daemon starts the session.
WaitEvent == /\ proc = "waiting" /\ ep0 # << >>
             /\ ep0' = Tail(ep0)
             /\ IF Enables(Head(ep0))
                THEN proc' = "session" /\ serves' = epoch /\ read' = "armed"
                ELSE UNCHANGED procVars
             /\ UNCHANGED <<usb, epoch, minor, faultVars>>

\* Mutant: Disable is one of the events that do not matter.
StopsUnbind(e) == e = "Unbind"

\* handle_ep0_event: what ends a session.
Stops(e) == e \in {"Disable", "Unbind"}

\* The loop of the session reads one event; no other ends or renews it.
SessionEvent == /\ proc = "session" /\ read # "busy" /\ ep0 # << >>
                /\ ep0' = Tail(ep0)
                /\ IF Stops(Head(ep0)) THEN Exit ELSE UNCHANGED procVars
                /\ UNCHANGED <<usb, epoch, minor, faultVars>>

\* The failed read of bulk-out ends the session with an error.
ReadFailed == /\ proc = "session" /\ read = "failed" /\ Exit
              /\ UNCHANGED <<busVars, faultVars>>

\* The message is handled and the next read submitted.  If the interface is
\* disabled it waits until it is enabled.
ReadOn == /\ proc = "session" /\ read = "busy"
          /\ read' = "armed"
          /\ UNCHANGED <<proc, serves, busVars, faultVars>>

\* A read of ep0 fails or brings an unknown event, or the session panics:
\* the process ends.
Fault == /\ proc # "off" /\ faults < MaxFaults
         /\ faults' = faults + 1 /\ hit' = epoch
         /\ ep0' \in IF ep0 = << >> THEN {ep0} ELSE {ep0, Tail(ep0)}
         /\ Exit
         /\ UNCHANGED <<usb, epoch, minor, fds>>

Daemon == Activate \/ WaitEvent \/ SessionEvent \/ ReadFailed \/ ReadOn

Next == Bind \/ Enable \/ Disable \/ Unbind \/ MinorEvent \/ Data \/ Daemon \/ Fault

Spec == Init /\ [][Next]_vars

\* systemd and the daemon run; nothing is asked of the host.
Fairness == WF_vars(Activate) /\ WF_vars(WaitEvent) /\ WF_vars(SessionEvent)
              /\ WF_vars(ReadFailed) /\ WF_vars(ReadOn)

FairSpec == Spec /\ Fairness

-----------------------------------------------------------------------------
(* Properties.                                                             *)

InQueue(e) == \E i \in DOMAIN ep0 : ep0[i] = e

\* The state has the shape the code's types give it.
TypeOK == /\ proc \in {"off", "waiting", "session"}
          /\ ep0 \in Seq(Major \cup Minor)
          /\ usb \in {"unbound", "bound", "enabled"}
          /\ epoch \in Nat /\ serves \in Nat /\ minor \in Nat
          /\ fds \in FdCounts /\ faults \in Nat /\ hit \in Nat
          /\ read \in {"none", "armed", "busy", "failed"}
          /\ proc # "session" <=> read = "none"

\* The host that has enabled the interface is being served, or the event
\* that will get it served is still in the queue: it is never handed to a
\* process that then exits, unless that one is hit by a fault.
EnableNotLost ==
  usb = "enabled" /\ hit # epoch =>
    (proc = "session" /\ serves = epoch) \/ InQueue("Enable")

\* A session reads messages of the enumeration it was started for: no
\* stream of an earlier one is still open (doc of AdbConnection, "State for
\* a single ADB session over USB").
SessionIsFresh == [][read = "armed" /\ read' = "busy" => serves = epoch]_vars

\* Whenever the host enables the interface it gets a session, unless it
\* disables it again first or a fault hits the daemon while it is enabled: a
\* daemon that crashed serves the host that comes back.
HostIsServed ==
  \A e \in 1..MaxEpochs :
    fds = 3 /\ usb = "enabled" /\ epoch = e
      ~> (proc = "session" /\ serves = e) \/ ~(usb = "enabled" /\ epoch = e) \/ hit = e
=============================================================================
