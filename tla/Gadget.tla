------------------------------- MODULE Gadget -------------------------------
(***************************************************************************)
(* The commands that run before the daemon: adibi setup-gadget and adibi   *)
(* bind-udc (main() of src/src/main.rs; setup_gadget, find_udc, bind_udc   *)
(* and unbind_udc of src/src/ffs.rs).                                      *)
(*                                                                         *)
(* setup_gadget is a sequence of file operations in ConfigFS, each of      *)
(* which may fail and after each of which the process may be killed; the   *)
(* commands may be run again at any time.  ConfigFS, FunctionFS and the    *)
(* USB device controllers (UDCs) are external.                             *)
(***************************************************************************)
EXTENDS Naturals, Sequences

CONSTANTS Udcs,      \* the controllers the device may have
          NoUdc,     \* the gadget is not bound
          MaxRuns,   \* bound: commands that are run
          MaxFaults  \* bound: operations that fail, processes that are killed

ASSUME GadgetAssumption ==
  NoUdc \notin Udcs /\ MaxRuns \in Nat /\ MaxFaults \in Nat

\* What setup_gadget does, in its order: the kind of operation, the file or
\* directory it makes, and where that is.
Op(do, name, in) == [do |-> do, name |-> name, in |-> in]

Steps == <<Op("mkdir", "ffs", "run"),
           Op("mkdir", "gadget", "usb_gadget"),
           Op("write", "idVendor", "gadget"),
           Op("write", "idProduct", "gadget"),
           Op("mkdir", "strings", "gadget"),
           Op("write", "manufacturer", "strings"),
           Op("write", "product", "strings"),
           Op("write", "serialnumber", "strings"),
           Op("mkdir", "config", "gadget"),
           Op("mkdir", "config strings", "config"),
           Op("write", "configuration", "config strings"),
           Op("mkdir", "function", "gadget"),
           Op("link", "link", "config")>>

Tree == {Steps[k].name : k \in DOMAIN Steps}

VARIABLES
  cmd,    \* the command that runs: "none", "setup", "unbind" or "bind"
  at,     \* the next step of setup_gadget
  tree,   \* what is there, with the value it should have
  ready,  \* FunctionFS is mounted and has its descriptors
  udcs,   \* the entries of /sys/class/udc
  taken,  \* those that another gadget uses
  bound,  \* the controller the gadget is bound to
  last,   \* the command that ended last, how, and whether a fault hit it
  runs, faults

world == <<ready, udcs, taken>>
vars == <<cmd, at, tree, world, bound, last, runs, faults>>

Init == /\ cmd = "none" /\ at = 1 /\ tree = {} /\ ready = FALSE
        /\ udcs \in SUBSET Udcs /\ taken \in SUBSET udcs
        /\ bound = NoUdc /\ last = [cmd |-> "none", ok |-> TRUE, fault |-> FALSE]
        /\ runs = 0 /\ faults = 0

-----------------------------------------------------------------------------
(* The command line.                                                       *)

Start(c) == /\ cmd = "none" /\ runs < MaxRuns /\ runs' = runs + 1
            /\ cmd' = c /\ at' = 1
            /\ UNCHANGED <<tree, world, bound, last, faults>>

\* adibi setup-gadget; adibi bind-udc, which unbinds first.
SetupGadget == Start("setup")
BindUdc == Start("unbind")

\* main() returns what the command returned.
Ends(ok, fault) ==
  cmd' = "none" /\ last' = [cmd |-> cmd, ok |-> ok, fault |-> fault]

-----------------------------------------------------------------------------
(* setup_gadget.                                                           *)

\* Mutant: the link is made without looking whether it is there.
NeedlessNothing(op) == FALSE

\* The link that is there already is left alone.
Needless(op) == op.do = "link" /\ op.name \in tree

\* A file cannot be written where its directory is missing, nor a link made
\* under a name that is taken (create_dir_all makes what it needs).
Refused(op) == \/ op.do # "mkdir" /\ op.in \notin tree
               \/ op.do = "link" /\ op.name \in tree

\* Mutant: an operation that is refused is passed over.
SetupStepOn ==
  /\ cmd = "setup" /\ at <= Len(Steps) /\ at' = at + 1
  /\ tree' \in {tree, tree \cup {Steps[at].name}}
  /\ UNCHANGED <<cmd, last, faults, world, bound, runs>>

\* One operation: it is done, or it fails and setup_gadget returns its error.
SetupStep ==
  /\ cmd = "setup" /\ at <= Len(Steps)
  /\ LET op == Steps[at]
     IN IF Refused(op) /\ ~Needless(op)
        THEN Ends(FALSE, FALSE) /\ UNCHANGED <<at, tree, faults>>
        ELSE \/ /\ tree' = tree \cup {op.name} /\ at' = at + 1
                /\ UNCHANGED <<cmd, last, faults>>
             \/ /\ faults < MaxFaults /\ faults' = faults + 1
                /\ Ends(FALSE, TRUE) /\ UNCHANGED <<at, tree>>
  /\ UNCHANGED <<world, bound, runs>>

SetupDone == /\ cmd = "setup" /\ at > Len(Steps)
             /\ Ends(TRUE, FALSE)
             /\ UNCHANGED <<at, tree, world, bound, runs, faults>>

-----------------------------------------------------------------------------
(* bind-udc.                                                               *)

\* unbind_udc: fs::write opens UDC and, having nothing to write, writes
\* nothing.
UnbindUdc ==
  /\ cmd = "unbind"
  /\ IF "gadget" \in tree THEN cmd' = "bind" /\ UNCHANGED last
     ELSE Ends(FALSE, FALSE)
  /\ UNCHANGED <<at, tree, world, bound, runs, faults>>

\* What the kernel answers to a controller's name written to UDC.
Accepts(u) == /\ bound = NoUdc /\ "link" \in tree /\ ready /\ u \notin taken

\* Mutant: the error of the write is not returned.
BindToSilent(u) ==
  /\ bound' = IF Accepts(u) THEN u ELSE bound
  /\ Ends(TRUE, FALSE)

\* The write of the name.
BindTo(u) ==
  IF Accepts(u) THEN bound' = u /\ Ends(TRUE, FALSE)
  ELSE Ends(FALSE, FALSE) /\ UNCHANGED bound

\* find_udc takes the entry that is listed first, whichever it is.
BindFirst ==
  /\ cmd = "bind"
  /\ IF udcs = {} THEN Ends(FALSE, FALSE) /\ UNCHANGED bound
     ELSE \E u \in udcs : BindTo(u)
  /\ UNCHANGED <<at, tree, world, runs, faults>>

-----------------------------------------------------------------------------
(* The world (external).                                                   *)

Killed == /\ cmd # "none" /\ faults < MaxFaults /\ faults' = faults + 1
          /\ Ends(FALSE, TRUE)
          /\ UNCHANGED <<at, tree, world, bound, runs>>

\* The socket unit mounts FunctionFS, which needs the function and the mount
\* point, and its service's descriptors are written.
Mount == /\ ~ready /\ {"ffs", "function"} \subseteq tree
         /\ ready' = TRUE
         /\ UNCHANGED <<cmd, at, tree, udcs, taken, bound, last, runs, faults>>

\* A controller's driver is loaded; another gadget lets go of one.
Appears == /\ \E u \in Udcs \ udcs : udcs' = udcs \cup {u}
           /\ UNCHANGED <<cmd, at, tree, ready, taken, bound, last, runs, faults>>

Released == /\ \E u \in taken : taken' = taken \ {u}
            /\ UNCHANGED <<cmd, at, tree, ready, udcs, bound, last, runs, faults>>

Next == \/ SetupGadget \/ BindUdc \/ SetupStep \/ SetupDone \/ UnbindUdc \/ BindFirst
        \/ Killed \/ Mount \/ Appears \/ Released

Spec == Init /\ [][Next]_vars

-----------------------------------------------------------------------------
(* Properties.                                                             *)

\* The state has the shape the code's types give it.
TypeOK == /\ cmd \in {"none", "setup", "unbind", "bind"}
          /\ at \in 1..(Len(Steps) + 1) /\ tree \subseteq Tree
          /\ ready \in BOOLEAN /\ udcs \subseteq Udcs /\ taken \subseteq udcs
          /\ bound \in Udcs \cup {NoUdc}
          /\ last \in [cmd : {"none", "setup", "unbind", "bind"}, ok : BOOLEAN, fault : BOOLEAN]
          /\ runs \in Nat /\ faults \in Nat

\* setup-gadget that has said it succeeded has left the whole tree, whatever
\* earlier runs of it were cut short (doc of setup_gadget).
SetupIsWhole == last.cmd = "setup" /\ last.ok => tree = Tree

\* setup-gadget can be run again, after a run that succeeded, failed or was
\* killed at any step: it fails only where an operation of its own does.
SetupRepeats == last.cmd = "setup" /\ ~last.ok => last.fault

\* bind-udc that has said it succeeded has bound a gadget that is complete.
BindIsTrue == last.cmd = "bind" /\ last.ok => bound # NoUdc /\ tree = Tree

\* After unbind_udc the gadget is not bound (its doc).
UnbindUnbinds == [][cmd = "unbind" /\ cmd' = "bind" => bound' = NoUdc]_vars

\* bind-udc binds the gadget when a controller is available to it ("Binds the
\* USB gadget to the first available UDC").
BindsAvailable ==
  [][cmd = "bind" /\ cmd' = "none" /\ faults' = faults
       /\ bound = NoUdc /\ tree = Tree /\ ready /\ udcs # taken => last'.ok]_vars
=============================================================================
