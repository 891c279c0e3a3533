-------------------------- MODULE DeviceInfoProofs --------------------------
(***************************************************************************)
(* Proofs about DeviceInfo, for files of any length and any lines: where   *)
(* each field of the identity comes from.                                  *)
(***************************************************************************)
EXTENDS DeviceInfo, WellFoundedInduction, NaturalsInduction, TLAPS

-----------------------------------------------------------------------------
(* First elements.                                                         *)

\* A nonempty set of naturals has a least element, and Min is it.
LEMMA MinIsLeast ==
  ASSUME NEW T, T \subseteq Nat, T # {}
  PROVE  Min(T) \in T /\ \A t \in T : Min(T) <= t
PROOF
<1> DEFINE Less == {ss \in Nat \X Nat : ss[1] < ss[2]}
<1>1. IsWellFoundedOn(Less, Nat)
  BY NatLessThanWellFounded DEF OpToRel
<1>2. \E x \in T : \A y \in T : ~ (<<y, x>> \in Less)
  <2> HIDE DEF Less
  <2> QED BY <1>1, WFMin
<1>3. \A x, y \in Nat : y < x => <<y, x>> \in Less
  OBVIOUS
<1> HIDE DEF Less
<1>4. PICK x \in T : \A y \in T : ~ (<<y, x>> \in Less)
  BY <1>2
<1>5. \A y \in T : x \in Nat /\ y \in Nat /\ ~ (y < x)
  BY <1>3, <1>4
<1>6. \A y \in T : x <= y
  BY <1>5
<1>7. \E x1 \in T : \A y \in T : x1 <= y
  BY <1>6
<1> QED BY <1>7, Zenon DEF Min

\* The first index with a property is the least of them.
LEMMA FirstIsMin ==
  ASSUME NEW n \in Nat, NEW T, T \subseteq 1..n, T # {}
  PROVE  Min(T) \in T /\ Min(T) = CHOOSE k \in 1..n : k \in T /\ \A j \in 1..(k - 1) : j \notin T
PROOF
<1> DEFINE m == Min(T)
           k0 == CHOOSE k \in 1..n : k \in T /\ \A j \in 1..(k - 1) : j \notin T
<1>1. m \in T /\ (\A t \in T : m <= t) /\ m \in 1..n
  <2>1. T \subseteq Nat
    OBVIOUS
  <2>2. m \in T /\ (\A t \in T : m <= t)
    BY <2>1, MinIsLeast
  <2> QED BY <2>2
<1> HIDE DEF m
<1>2. \A j \in 1..(m - 1) : j \notin T
  BY <1>1
<1>3. k0 \in 1..n /\ k0 \in T /\ \A j \in 1..(k0 - 1) : j \notin T
  BY <1>1, <1>2
<1> HIDE DEF k0
<1>4. m <= k0
  BY <1>1, <1>3
<1>5. ~(m < k0)
  <2> SUFFICES ASSUME m < k0 PROVE FALSE
    OBVIOUS
  <2>1. m \in 1..(k0 - 1)
    BY <1>1, <1>3
  <2> QED BY <1>1, <1>3, <2>1
<1>6. m = k0
  BY <1>1, <1>3, <1>4, <1>5
<1> QED BY <1>1, <1>6 DEF m, k0

-----------------------------------------------------------------------------
(* What the readers find.                                                  *)

\* Files of any length, made of lines or structures.
Numbered(c) == \E n \in Nat : DOMAIN c = 1..n
OptionOK(file) == file = None \/ \E c : file = Some(c)
FileOK(file) == file = None \/ \E c : file = Some(c) /\ Numbered(c)

\* The loop finds what the lines up to the first without a separator say.
LEMMA FieldFound ==
  ASSUME NEW lines, NEW field, Numbered(lines)
  PROVE  FieldOf(lines, field) = non_empty(Says(Readable(lines), field))
PROOF
<1>1. PICK n \in Nat : DOMAIN lines = 1..n
  BY DEF Numbered
<1> DEFINE key(k) == lines[k].key
           T == {k \in 1..n : key(k) \in {Some(field), None}}
           R == {j \in 1..n : \A i \in 1..j : key(i) # None}
           F == {k \in R : key(k) = Some(field)}
<1>2. Some(field) # None
  BY DEF Some, None
<1>3. FieldOf(lines, field)
        = IF T = {} \/ key(Min(T)) = None THEN None ELSE non_empty(lines[Min(T)].value)
  BY <1>1 DEF FieldOf
<1>4. Readable(lines) = [k \in R |-> lines[k]]
  BY <1>1 DEF Readable
<1>5. DOMAIN Readable(lines) = R /\ \A k \in R : Readable(lines)[k] = lines[k]
  BY <1>4
<1>6. CASE F = {}
  <2>1. Says(Readable(lines), field) = Empty
    BY <1>5, <1>6 DEF Says
  <2>2. ASSUME T # {}, key(Min(T)) # None PROVE FALSE
    <3>1. Min(T) \in T /\ \A t \in T : Min(T) <= t
      <4>1. T \subseteq Nat
        OBVIOUS
      <4> HIDE DEF T
      <4> QED BY <2>2, <4>1, MinIsLeast
    <3> DEFINE m == Min(T)
    <3>2. m \in 1..n /\ key(m) = Some(field) /\ \A t \in T : m <= t
      BY <2>2, <3>1
    <3> HIDE DEF m
    <3>3. \A i \in 1..m : i \in 1..n /\ (i = m \/ i < m)
      BY <3>2
    <3>4. \A i \in 1..m : key(i) # None
      <4> TAKE i \in 1..m
      <4>1. i \in 1..n /\ (i = m \/ i < m)
        BY <3>3
      <4>2. CASE i = m
        BY <1>2, <3>2, <4>2
      <4>3. CASE i < m
        <5>1. i \notin T
          BY <3>2, <4>1, <4>3
        <5> QED BY <4>1, <5>1
      <4> QED BY <4>1, <4>2, <4>3
    <3>5. m \in F
      BY <3>2, <3>4
    <3> QED BY <1>6, <3>5
  <2>3. FieldOf(lines, field) = None
    BY <1>3, <2>2
  <2> QED BY <2>1, <2>3 DEF non_empty
<1>7. CASE F # {}
  <2> DEFINE Line(k) == /\ Readable(lines)[k].key = Some(field)
                        /\ \A j \in 1..(k - 1) : Readable(lines)[j].key # Some(field)
             m == Min(T)
  <2>1. F \subseteq T
    OBVIOUS
  <2>2. m \in T /\ \A t \in T : m <= t
    <3>1. T \subseteq Nat /\ T # {}
      BY <1>7, <2>1
    <3> HIDE DEF T
    <3> QED BY <3>1, MinIsLeast
  <2>3. PICK k0 \in F : TRUE
    BY <1>7
  <2>4. m \in 1..n /\ m <= k0 /\ k0 \in 1..n /\ \A i \in 1..k0 : key(i) # None
    BY <2>1, <2>2, <2>3
  <2> HIDE DEF m
  <2>5. \A i \in 1..m : i \in 1..k0
    BY <2>4
  <2>6. m \in R
    BY <2>4, <2>5
  <2>7. key(m) = Some(field)
    <3>1. m \in 1..k0
      BY <2>4
    <3> QED BY <2>2, <2>4, <3>1
  <2>8. Line(m)
    <3>1. Readable(lines)[m].key = Some(field)
      BY <1>5, <2>6, <2>7
    <3>2. \A j \in 1..(m - 1) : j \in R /\ j \notin T /\ j \in 1..n
      <4> TAKE j \in 1..(m - 1)
      <4>1. j \in 1..n /\ j \in 1..m /\ j < m
        BY <2>4
      <4>2. j \notin T
        BY <2>2, <2>4, <4>1
      <4>3. \A i \in 1..j : i \in 1..m
        BY <2>4, <4>1
      <4>4. j \in R
        BY <2>6, <4>1, <4>3
      <4> QED BY <4>1, <4>2, <4>4
    <3>3. \A j \in 1..(m - 1) : Readable(lines)[j].key # Some(field)
      BY <1>5, <3>2
    <3> QED BY <3>1, <3>3
  <2>9. \A k \in R : Line(k) => k = m
    <3> SUFFICES ASSUME NEW k \in R, Line(k) PROVE k = m
      OBVIOUS
    <3>1. k \in 1..n /\ key(k) = Some(field)
      BY <1>5
    <3>2. m <= k
      BY <2>2, <3>1
    <3>3. ASSUME m < k PROVE FALSE
      <4>1. m \in 1..(k - 1)
        BY <2>4, <3>1, <3>3
      <4>2. Readable(lines)[m].key # Some(field)
        BY <4>1
      <4> QED BY <1>5, <2>6, <2>7, <4>2
    <3> QED BY <2>4, <3>1, <3>2, <3>3
  <2>10. (CHOOSE k \in R : Line(k)) = m
    <3> HIDE DEF Line, R
    <3> QED BY <2>6, <2>8, <2>9
  <2>11. Says(Readable(lines), field) = Readable(lines)[CHOOSE k \in R : Line(k)].value
    <3>1. ~ \A k \in DOMAIN Readable(lines) : Readable(lines)[k].key # Some(field)
      BY <1>5, <2>6, <2>7
    <3>2. DOMAIN Readable(lines) = R
      BY <1>5
    <3> HIDE DEF R
    <3> QED BY <3>1, <3>2 DEF Says
  <2>12. Says(Readable(lines), field) = lines[m].value
    BY <1>5, <2>6, <2>10, <2>11
  <2>13. FieldOf(lines, field) = non_empty(lines[m].value)
    BY <1>2, <1>3, <2>2, <2>7 DEF m
  <2> QED BY <2>12, <2>13
<1> QED BY <1>6, <1>7

\* read_dmi finds what the first system structure says.
LEMMA DmiFound ==
  ASSUME NEW table, NEW field, Numbered(table)
  PROVE  LET found == {k \in DOMAIN table : table[k].kind = "system"}
         IN (IF found = {} THEN None ELSE non_empty(table[Min(found)][field]))
              = non_empty(DmiSays(table, field))
PROOF
<1>1. PICK n \in Nat : DOMAIN table = 1..n
  BY DEF Numbered
<1> DEFINE T == {k \in DOMAIN table : table[k].kind = "system"}
<1>2. CASE T = {}
  <2>1. DmiSays(table, field) = Empty
    BY <1>2 DEF DmiSays
  <2> QED BY <1>2, <2>1 DEF non_empty
<1>3. CASE T # {}
  <2> DEFINE First(k) == k \in T /\ \A j \in 1..(k - 1) : j \notin T
             System(k) == /\ table[k].kind = "system"
                          /\ \A j \in 1..(k - 1) : table[j].kind # "system"
  <2>1. \A k \in 1..n : First(k) <=> System(k)
    BY <1>1
  <2>2. Min(T) \in T /\ Min(T) = CHOOSE k \in 1..n : First(k)
    BY <1>1, <1>3, FirstIsMin
  <2>3. ~ \A k \in DOMAIN table : table[k].kind # "system"
    BY <1>3
  <2>4. DmiSays(table, field) = table[CHOOSE k \in 1..n : System(k)][field]
    BY <1>1, <2>3 DEF DmiSays
  <2> HIDE DEF First, System
  <2>5. (CHOOSE k \in 1..n : First(k)) = CHOOSE k \in 1..n : System(k)
    BY <2>1
  <2>6. DmiSays(table, field) = table[Min(T)][field]
    BY <2>2, <2>4, <2>5
  <2> QED BY <1>3, <2>6
<1> QED BY <1>2, <1>3

\* What is in a file that can be read.
LEMMA Unwrapped ==
  ASSUME NEW v, NEW d
  PROVE  unwrap_or(Some(v), d) = v /\ unwrap_or(None, d) = d
PROOF
<1>1. Some(v) # None /\ \A x : x \in Some(v) <=> x = v
  BY DEF Some, None
<1>2. (CHOOSE x \in Some(v) : TRUE) = v
  BY <1>1
<1> QED BY <1>1, <1>2 DEF unwrap_or

\* read_cpuinfo_field, read_os_pretty_name, read_dmi of a file, or of none.
LEMMA FileFound ==
  ASSUME NEW file, NEW field, FileOK(file)
  PROVE  read_field(file, field) = non_empty(Says(Readable(Content(file)), field))
PROOF
<1>1. CASE file = None
  <2>1. Content(file) = << >>
    BY <1>1, Unwrapped DEF Content
  <2>2. DOMAIN Readable(<< >>) = {}
    BY DEF Readable
  <2>3. Says(Readable(<< >>), field) = Empty
    BY <2>2 DEF Says
  <2>4. read_field(file, field) = None
    BY <1>1 DEF read_field, None
  <2> QED BY <2>1, <2>3, <2>4 DEF non_empty
<1>2. CASE file # None
  <2>1. PICK c : file = Some(c) /\ Numbered(c)
    BY <1>2 DEF FileOK
  <2>2. Content(file) = c
    BY <2>1, Unwrapped DEF Content
  <2>3. read_field(file, field) = FieldOf(c, field)
    BY <2>1 DEF read_field, Some
  <2> QED BY <2>1, <2>2, <2>3, FieldFound
<1> QED BY <1>1, <1>2

LEMMA TableFound ==
  ASSUME NEW field, FileOK(dmi)
  PROVE  DmiField(field) = non_empty(DmiSays(Content(dmi), field))
PROOF
<1> DEFINE found(t) == {k \in DOMAIN t : t[k].kind = "system"}
           Of(t) == IF found(t) = {} THEN None ELSE non_empty(t[Min(found(t))][field])
<1>0. DmiField(field) = UNION {Of(t) : t \in dmi}
  BY DEF DmiField
<1>1. CASE dmi = None
  <2>1. Content(dmi) = << >>
    BY <1>1, Unwrapped DEF Content
  <2>2. DmiSays(<< >>, field) = Empty
    BY DEF DmiSays
  <2>3. DmiField(field) = None
    BY <1>0, <1>1 DEF None
  <2> QED BY <2>1, <2>2, <2>3 DEF non_empty
<1>2. CASE dmi # None
  <2>1. PICK c : dmi = Some(c) /\ Numbered(c)
    BY <1>2 DEF FileOK
  <2>2. Content(dmi) = c
    BY <2>1, Unwrapped DEF Content
  <2>3. Of(c) = non_empty(DmiSays(c, field))
    BY <2>1, DmiFound
  <2> HIDE DEF Of
  <2>4. DmiField(field) = Of(c)
    BY <1>0, <2>1 DEF Some
  <2> QED BY <2>2, <2>3, <2>4
<1> QED BY <1>1, <1>2

\* read_machine_id, read_device_tree_model and read_hostname find what the
\* file has.
LEMMA ValueFound ==
  ASSUME NEW file, OptionOK(file)
  PROVE  read_value(file) = non_empty(Text(file))
PROOF
<1>1. CASE file = None
  <2>1. Text(file) = Empty
    BY <1>1, Unwrapped DEF Text
  <2>2. read_value(file) = None
    BY <1>1 DEF read_value, None
  <2> QED BY <2>1, <2>2 DEF non_empty
<1>2. CASE file # None
  <2>1. PICK c : file = Some(c)
    BY <1>2 DEF OptionOK
  <2>2. Text(file) = c
    BY <2>1, Unwrapped DEF Text
  <2>3. read_value(file) = non_empty(c)
    BY <2>1 DEF read_value, Some
  <2> QED BY <2>2, <2>3
<1> QED BY <1>1, <1>2

-----------------------------------------------------------------------------
(* Which of the values is taken.                                           *)

\* or_else, one after the other, takes the first value that is not empty.
LEMMA BestOfThree ==
  ASSUME NEW a, NEW b, NEW c
  PROVE  unwrap_or(or_else(or_else(non_empty(a), non_empty(b)), non_empty(c)), Default)
           = Best(<<a, b, c>>)
PROOF
<1>0. /\ \A v : Some(v) # None /\ unwrap_or(Some(v), Default) = v
      /\ unwrap_or(None, Default) = Default
  BY Unwrapped DEF Some, None
<1> DEFINE q == <<a, b, c>>
           First(k) == q[k] # Empty /\ \A j \in 1..(k - 1) : q[j] = Empty
<1>1. DOMAIN q = 1..3 /\ q[1] = a /\ q[2] = b /\ q[3] = c
  OBVIOUS
<1>2. Best(q) = IF \A k \in DOMAIN q : q[k] = Empty THEN Default
                ELSE q[CHOOSE k \in DOMAIN q : First(k)]
  BY DEF Best
<1> HIDE DEF q
<1>3. \A k \in DOMAIN q : k = 1 \/ k = 2 \/ k = 3
  BY <1>1
<1>4. CASE a # Empty
  <2>1. First(1) /\ 1 \in DOMAIN q
    BY <1>1, <1>4
  <2>2. \A k \in DOMAIN q : First(k) => k = 1
    BY <1>1, <1>3, <1>4
  <2>3. Best(q) = a
    <3> HIDE DEF First
    <3>1. (CHOOSE k \in DOMAIN q : First(k)) = 1
      BY <2>1, <2>2
    <3>2. ~ \A k \in DOMAIN q : q[k] = Empty
      BY <1>1, <1>4, <2>1
    <3> QED BY <1>1, <1>2, <3>1, <3>2
  <2> QED BY <1>0, <1>4, <2>3 DEF q, or_else, non_empty
<1>5. CASE a = Empty /\ b # Empty
  <2>1. First(2) /\ 2 \in DOMAIN q
    BY <1>1, <1>5
  <2>2. \A k \in DOMAIN q : First(k) => k = 2
    BY <1>1, <1>3, <1>5
  <2>3. Best(q) = b
    <3> HIDE DEF First
    <3>1. (CHOOSE k \in DOMAIN q : First(k)) = 2
      BY <2>1, <2>2
    <3>2. ~ \A k \in DOMAIN q : q[k] = Empty
      BY <1>1, <1>5, <2>1
    <3> QED BY <1>1, <1>2, <3>1, <3>2
  <2> QED BY <1>0, <1>5, <2>3 DEF q, or_else, non_empty
<1>6. CASE a = Empty /\ b = Empty /\ c # Empty
  <2>1. First(3) /\ 3 \in DOMAIN q
    BY <1>1, <1>6
  <2>2. \A k \in DOMAIN q : First(k) => k = 3
    BY <1>1, <1>3, <1>6
  <2>3. Best(q) = c
    <3> HIDE DEF First
    <3>1. (CHOOSE k \in DOMAIN q : First(k)) = 3
      BY <2>1, <2>2
    <3>2. ~ \A k \in DOMAIN q : q[k] = Empty
      BY <1>1, <1>6, <2>1
    <3> QED BY <1>1, <1>2, <3>1, <3>2
  <2> QED BY <1>0, <1>6, <2>3 DEF q, or_else, non_empty
<1>7. CASE a = Empty /\ b = Empty /\ c = Empty
  <2>1. \A k \in DOMAIN q : q[k] = Empty
    BY <1>1, <1>3, <1>7
  <2>2. Best(q) = Default
    BY <1>2, <2>1
  <2> QED BY <1>0, <1>7, <2>2 DEF q, or_else, non_empty
<1> QED BY <1>4, <1>5, <1>6, <1>7

LEMMA BestOfOne ==
  ASSUME NEW a
  PROVE  unwrap_or(non_empty(a), Default) = Best(<<a>>)
PROOF
<1>0. Some(a) # None /\ unwrap_or(Some(a), Default) = a /\ unwrap_or(None, Default) = Default
  BY Unwrapped DEF Some, None
<1> DEFINE q == <<a>>
<1>1. DOMAIN q = {1} /\ q[1] = a
  OBVIOUS
<1> HIDE DEF q
<1>2. CASE a = Empty
  <2>1. Best(q) = Default
    BY <1>1, <1>2 DEF Best
  <2> QED BY <1>0, <1>2, <2>1 DEF q, non_empty
<1>3. CASE a # Empty
  <2>1. Best(q) = a
    BY <1>1, <1>3 DEF Best
  <2> QED BY <1>0, <1>3, <2>1 DEF q, non_empty
<1> QED BY <1>2, <1>3

-----------------------------------------------------------------------------
(* The invariant, and the theorem.                                         *)

SourcesOK == /\ FileOK(dmi) /\ FileOK(cpuinfo) /\ FileOK(osRelease)
             /\ OptionOK(machineId) /\ OptionOK(deviceTree) /\ OptionOK(hostname)

\* What from_system makes of the sources.
Found == [serial |-> Serial, name |-> Name, model |-> Model, device |-> Device]

Inv == SourcesOK /\ (info # None => info = Some(Found))

LEMMA FilesAreOK ==
  ASSUME NEW n, NEW S, NEW file \in File(UpTo(n, S))
  PROVE  FileOK(file)
PROOF
<1> SUFFICES ASSUME file # None PROVE \E c : file = Some(c) /\ Numbered(c)
  BY DEF FileOK
<1>1. PICK c \in UpTo(n, S) : file = Some(c)
  BY DEF File
<1>2. PICK m \in 0..n : c \in [1..m -> S]
  BY DEF UpTo
<1>3. m \in Nat /\ DOMAIN c = 1..m
  BY <1>2
<1> QED BY <1>1, <1>3 DEF Numbered

LEMMA InitInv == Init => Inv
PROOF
<1> SUFFICES ASSUME Init PROVE Inv
  OBVIOUS
<1>1. FileOK(dmi) /\ FileOK(cpuinfo) /\ FileOK(osRelease)
  BY FilesAreOK DEF Init
<1>2. OptionOK(machineId) /\ OptionOK(deviceTree) /\ OptionOK(hostname)
  BY DEF Init, File, OptionOK
<1> QED BY <1>1, <1>2 DEF Init, Inv, SourcesOK

LEMMA NextInv ==
  ASSUME Inv, [Next]_vars
  PROVE  Inv'
PROOF
<1>1. UNCHANGED sources
  BY DEF Next, FromSystem, vars
<1>2. /\ dmi' = dmi /\ cpuinfo' = cpuinfo /\ osRelease' = osRelease
      /\ machineId' = machineId /\ deviceTree' = deviceTree /\ hostname' = hostname
  BY <1>1 DEF sources
<1>3. SourcesOK'
  BY <1>2 DEF Inv, SourcesOK, FileOK, OptionOK
<1>4. Found' = Found
  BY <1>2 DEF Found, Serial, Model, Name, Device, DmiField
<1>5. info' = info \/ info' = Some(Found)
  BY DEF Next, FromSystem, vars, Found
<1> QED BY <1>3, <1>4, <1>5 DEF Inv

\* The readers and the order they are tried in give the documented identity
\* of the lines that are read.
LEMMA FoundIsBest ==
  ASSUME Inv
  PROVE  FromReadableLines
PROOF
<1> DEFINE cpu == Readable(Content(cpuinfo))
           os == Readable(Content(osRelease))
           table == Content(dmi)
<1> SUFFICES ASSUME info # None PROVE info = Some(Identity(cpu, os))
  BY DEF FromReadableLines
<1>1. SourcesOK /\ info = Some(Found)
  BY DEF Inv
<1>2. /\ DmiField("serial") = non_empty(DmiSays(table, "serial"))
      /\ DmiField("product") = non_empty(DmiSays(table, "product"))
  BY <1>1, TableFound DEF SourcesOK
<1>3. /\ read_field(cpuinfo, "Serial") = non_empty(Says(cpu, "Serial"))
      /\ read_field(cpuinfo, "Model") = non_empty(Says(cpu, "Model"))
      /\ read_field(osRelease, "PRETTY_NAME") = non_empty(Says(os, "PRETTY_NAME"))
  BY <1>1, FileFound DEF SourcesOK
<1>4. /\ read_value(machineId) = non_empty(Text(machineId))
      /\ read_value(deviceTree) = non_empty(Text(deviceTree))
      /\ read_value(hostname) = non_empty(Text(hostname))
  BY <1>1, ValueFound DEF SourcesOK
<1> HIDE DEF cpu, os, table
<1>5. Serial = Best(<<DmiSays(table, "serial"), Says(cpu, "Serial"), Text(machineId)>>)
  BY <1>2, <1>3, <1>4, BestOfThree DEF Serial
<1>6. Model = Best(<<DmiSays(table, "product"), Says(cpu, "Model"), Text(deviceTree)>>)
  BY <1>2, <1>3, <1>4, BestOfThree DEF Model
<1>7. Name = Best(<<Says(os, "PRETTY_NAME")>>) /\ Device = Best(<<Text(hostname)>>)
  BY <1>3, <1>4, BestOfOne DEF Name, Device
<1>8. Found = Identity(cpu, os)
  BY <1>5, <1>6, <1>7 DEF Found, Identity, table
<1> QED BY <1>1, <1>8

\* Whatever the six sources hold, in any number of lines and structures, the
\* identity from_system finds is the documented one of the lines that stand
\* before the first without a separator: no source is passed over, none is
\* taken out of turn, and the early return of the loops is all that is
\* between the code and its documentation.
THEOREM IdentityFromReadableLines ==
  Spec => []FromReadableLines
PROOF
<1>1. Inv /\ [Next]_vars => Inv'
  BY NextInv
<1>2. Inv => FromReadableLines
  BY FoundIsBest
<1> QED BY InitInv, <1>1, <1>2, PTL DEF Spec
=============================================================================
