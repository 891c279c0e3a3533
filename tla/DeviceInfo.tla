----------------------------- MODULE DeviceInfo -----------------------------
(***************************************************************************)
(* The identity of the device: DeviceInfo::from_system of                  *)
(* src/src/device_info.rs and the readers it tries one after the other.    *)
(*                                                                         *)
(* An Option is the set of what it holds: None is empty, Some(v) has one   *)
(* element.  So is a file: None when it cannot be read, and otherwise what *)
(* its reader tells apart: a value that is "" when nothing is left of it   *)
(* after trimming, a sequence of lines with or without the separator, or   *)
(* a sequence of DMI structures.                                           *)
(***************************************************************************)
EXTENDS Naturals, Sequences, FiniteSetsExt

CONSTANTS MaxLines,  \* bound: lines of /proc/cpuinfo and /etc/os-release
          MaxStructs \* bound: structures of the DMI table

None == {}
Some(v) == {v}

\* The empty text.  Other values name the place they come from, so that a
\* wrong one is seen.
Empty == ""

Value(v) == {Empty, v}

\* The files with one of the contents C.
File(C) == {None} \cup {Some(c) : c \in C}

\* A line with the separator has a key and a value, one without has no key:
\* it is empty, as between the processors of /proc/cpuinfo, or a comment.
Lines(keys, v) == [key : {None, Some("other")}, value : {"other"}]
                    \cup [key : {Some(k) : k \in keys}, value : Value(v)]
Structs == [kind : {"other", "bad"}, product : {Empty}, serial : {Empty}]
             \cup [kind : {"system"}, product : Value("dmi"), serial : Value("dmi")]

VARIABLES dmi, cpuinfo, osRelease, machineId, deviceTree, hostname, \* the files
          info                                                      \* what was found

sources == <<dmi, cpuinfo, osRelease, machineId, deviceTree, hostname>>
vars == <<sources, info>>

UpTo(n, S) == UNION {[1..m -> S] : m \in 0..n}

Init == /\ dmi \in File(UpTo(MaxStructs, Structs))
        /\ cpuinfo \in File(UpTo(MaxLines, Lines({"Serial", "Model"}, "cpuinfo")))
        /\ osRelease \in File(UpTo(MaxLines, Lines({"PRETTY_NAME"}, "os-release")))
        /\ machineId \in File(Value("machine-id")) /\ deviceTree \in File(Value("device-tree"))
        /\ hostname \in File(Value("hostname"))
        /\ info = None

-----------------------------------------------------------------------------
(* The readers.                                                            *)

non_empty(v) == IF v = Empty THEN None ELSE Some(v)
or_else(a, b) == IF a # None THEN a ELSE b
unwrap_or(a, v) == IF a # None THEN CHOOSE x \in a : TRUE ELSE v

\* read_dmi: the first system structure; others, and bad ones, are skipped.
\* Without one, product and serial are None.
DmiField(field) ==
  UNION {LET found == {k \in DOMAIN table : table[k].kind = "system"}
         IN IF found = {} THEN None ELSE non_empty(table[Min(found)][field]) :
           table \in dmi}

\* The loop of read_cpuinfo_field and read_os_pretty_name: it ends at the
\* field, and at a line without the separator.
FieldOf(lines, field) ==
  LET ends == {k \in DOMAIN lines : lines[k].key \in {Some(field), None}}
      last == lines[Min(ends)]
  IN IF ends = {} \/ last.key = None THEN None ELSE non_empty(last.value)

read_field(file, field) == UNION {FieldOf(lines, field) : lines \in file}

\* read_device_tree_model, read_machine_id, read_hostname.
read_value(file) == UNION {non_empty(v) : v \in file}

Default == "adibi"  \* DEFAULT_NAME

Serial == unwrap_or(or_else(or_else(DmiField("serial"), read_field(cpuinfo, "Serial")),
                            read_value(machineId)), Default)

Model == unwrap_or(or_else(or_else(DmiField("product"), read_field(cpuinfo, "Model")),
                           read_value(deviceTree)), Default)

Name == unwrap_or(read_field(osRelease, "PRETTY_NAME"), Default)

Device == unwrap_or(read_value(hostname), Default)

\* DeviceInfo::from_system.
FromSystem ==
  /\ info = None
  /\ info' = Some([serial |-> Serial, name |-> Name, model |-> Model, device |-> Device])
  /\ UNCHANGED sources

Next == FromSystem

Spec == Init /\ [][Next]_vars

-----------------------------------------------------------------------------
(* Properties.                                                             *)

\* The first of the values q that is not empty.
Best(q) ==
  IF \A k \in DOMAIN q : q[k] = Empty THEN Default
  ELSE q[CHOOSE k \in DOMAIN q : q[k] # Empty /\ \A j \in 1..(k - 1) : q[j] = Empty]

\* What is in a file; a file that cannot be read has nothing to say.
Text(file) == unwrap_or(file, Empty)
Content(file) == unwrap_or(file, << >>)

\* What a source says, by its own format: the value of the first line with
\* the key, whatever other lines there are; the field of the first system
\* structure.
Says(lines, field) ==
  IF \A k \in DOMAIN lines : lines[k].key # Some(field) THEN Empty
  ELSE LET k == CHOOSE k \in DOMAIN lines :
                  /\ lines[k].key = Some(field)
                  /\ \A j \in 1..(k - 1) : lines[j].key # Some(field)
       IN lines[k].value
DmiSays(table, field) ==
  IF \A k \in DOMAIN table : table[k].kind # "system" THEN Empty
  ELSE LET k == CHOOSE k \in DOMAIN table :
                  table[k].kind = "system" /\ \A j \in 1..(k - 1) : table[j].kind # "system"
       IN table[k][field]

\* The identity, if /proc/cpuinfo and os-release have the lines cpu and os:
\* each field comes from the first of the sources the documentation of
\* DeviceInfo names for it that has a value.
Identity(cpu, os) ==
  [serial |-> Best(<<DmiSays(Content(dmi), "serial"), Says(cpu, "Serial"), Text(machineId)>>),
   name |-> Best(<<Says(os, "PRETTY_NAME")>>),
   model |-> Best(<<DmiSays(Content(dmi), "product"), Says(cpu, "Model"), Text(deviceTree)>>),
   device |-> Best(<<Text(hostname)>>)]

\* The documentation of DeviceInfo: the serial is "from DMI, /proc/cpuinfo,
\* or /etc/machine-id", the model "from DMI product, /proc/cpuinfo, or
\* device-tree", the name "from /etc/os-release PRETTY_NAME".
FromItsSources ==
  info # None => info = Some(Identity(Content(cpuinfo), Content(osRelease)))

\* The lines before the first without a separator: of /proc/cpuinfo those of
\* the first processor, which an empty line ends.
Readable(lines) ==
  [k \in {j \in DOMAIN lines : \A i \in 1..j : lines[i].key # None} |-> lines[k]]

\* What the code does, of any files: it is the documented identity of files
\* that end at their first line without a separator.
FromReadableLines ==
  info # None => info = Some(Identity(Readable(Content(cpuinfo)), Readable(Content(osRelease))))
=============================================================================
