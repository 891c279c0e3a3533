-------------------------- MODULE LifecycleProofs --------------------------
(***************************************************************************)
(* Proofs about the daemon from the plug to the session (module Lifecycle),*)
(* for any number of enumerations, events and faults, of a host that comes *)
(* back only after the session has seen it go away (Hasty is FALSE; with   *)
(* such a host both properties fail).                                      *)
(***************************************************************************)
EXTENDS Lifecycle, NaturalsInduction, WellFoundedInduction, SequenceTheorems, TLAPS

Events == Major \cup Minor

-----------------------------------------------------------------------------
(* The event queue of FunctionFS.                                          *)

\* A set that holds 0 and with every number the next holds every number.
LEMMA SetInduction ==
  ASSUME NEW S, 0 \in S, \A n \in Nat : n \in S => n + 1 \in S
  PROVE  Nat \subseteq S
<1> DEFINE T == Nat \ S
           Less == {ss \in Nat \X Nat : ss[1] < ss[2]}
<1>1. SUFFICES ASSUME T # {} PROVE FALSE
  OBVIOUS
<1>2. IsWellFoundedOn(Less, Nat)
  BY NatLessThanWellFounded DEF OpToRel
<1>3. \A x, y \in Nat : y < x => <<y, x>> \in Less
  OBVIOUS
<1>4. T \subseteq Nat
  OBVIOUS
<1>5. PICK x \in T : \A y \in T : ~ (<<y, x>> \in Less)
  <2> HIDE DEF Less, T
  <2> QED BY <1>1, <1>2, <1>4, WFMin
<1> HIDE DEF Less
<1>6. x \in Nat /\ x # 0
  OBVIOUS
<1>7. x - 1 \in Nat /\ x - 1 < x /\ (x - 1) + 1 = x
  BY <1>6
<1>8. x - 1 \in S
  BY <1>3, <1>5, <1>6, <1>7
<1> QED
  BY <1>7, <1>8

\* What KeptOf makes of the first i events.
Step(e, q, f, i) == IF i = 0 THEN << >>
                    ELSE IF Kept(e, q[i]) THEN Append(f[i - 1], q[i]) ELSE f[i - 1]

\* The recursive function of KeptOf exists.
LEMMA LeftExists ==
  ASSUME NEW e, NEW q \in Seq(Events)
  PROVE  \E f : f = [i \in 0..Len(q) |-> Step(e, q, f, i)]
<1> DEFINE Good(n) == \E f : f = [i \in 0..n |-> Step(e, q, f, i)]
           S == {n \in Nat : Good(n)}
<1>1. Good(0)
  <2> DEFINE g == [i \in 0..0 |-> << >>]
  <2>1. g = [i \in 0..0 |-> Step(e, q, g, i)]
    BY DEF Step
  <2> QED BY <2>1
<1>2. ASSUME NEW n \in Nat, Good(n)
      PROVE  Good(n + 1)
  <2>1. PICK f : f = [i \in 0..n |-> Step(e, q, f, i)]
    BY <1>2
  <2> DEFINE last == Step(e, q, f, n + 1)
             g == [i \in 0..(n + 1) |-> IF i = n + 1 THEN last ELSE f[i]]
  <2>2. \A i \in 0..n : f[i] = Step(e, q, f, i)
    <3> HIDE DEF Step
    <3> QED BY <2>1
  <2>3. \A i \in 0..n : g[i] = f[i]
    BY DEF g
  <2>4. ASSUME NEW i \in 0..(n + 1)
        PROVE  Step(e, q, g, i) = Step(e, q, f, i)
    <3>1. CASE i = 0
      BY <3>1 DEF Step
    <3>2. CASE i # 0
      <4>1. i - 1 \in 0..n
        BY <3>2
      <4>2. g[i - 1] = f[i - 1]
        BY <4>1, <2>3
      <4> HIDE DEF g
      <4> QED BY <4>2 DEF Step
    <3> QED BY <3>1, <3>2
  <2>5. \A i \in 0..(n + 1) : (IF i = n + 1 THEN last ELSE f[i]) = Step(e, q, g, i)
    <3> HIDE DEF g, Step
    <3> QED BY <2>2, <2>4
  <2>6. g = [i \in 0..(n + 1) |-> Step(e, q, g, i)]
    <3> DEFINE h == [i \in 0..(n + 1) |-> Step(e, q, g, i)]
    <3>1. g = [i \in 0..(n + 1) |-> IF i = n + 1 THEN last ELSE f[i]]
      OBVIOUS
    <3> HIDE DEF g, Step, last
    <3> QED BY <2>5, <3>1
  <2> QED BY <2>6
<1>3. 0 \in S /\ \A n \in Nat : n \in S => n + 1 \in S
  BY <1>1, <1>2
<1>4. Nat \subseteq S
  <2> HIDE DEF S
  <2> QED BY <1>3, SetInduction
<1> QED
  BY <1>4

\* The queue that is left holds the events that are kept, and no others.
LEMMA KeptOfKeeps ==
  ASSUME NEW e, NEW q \in Seq(Events)
  PROVE  /\ KeptOf(e, q) \in Seq(Events)
         /\ \A j \in 1..Len(KeptOf(e, q)) :
              \E k \in 1..Len(q) : KeptOf(e, q)[j] = q[k] /\ Kept(e, q[k])
         /\ \A k \in 1..Len(q) : Kept(e, q[k]) =>
              \E j \in 1..Len(KeptOf(e, q)) : KeptOf(e, q)[j] = q[k]
<1> DEFINE left == CHOOSE f : f = [i \in 0..Len(q) |-> Step(e, q, f, i)]
<1>1. KeptOf(e, q) = left[Len(q)]
  BY DEF KeptOf, Step
<1>2. left = [i \in 0..Len(q) |-> Step(e, q, left, i)]
  <2> HIDE DEF Step
  <2> QED BY LeftExists
<1> HIDE DEF left
<1>3. Len(q) \in Nat /\ DOMAIN q = 1..Len(q) /\ \A k \in 1..Len(q) : q[k] \in Events
  OBVIOUS
<1>4. \A i \in 0..Len(q) : left[i] = Step(e, q, left, i)
  <2> HIDE DEF Step
  <2> QED BY <1>2
<1> DEFINE Good(n) ==
             /\ left[n] \in Seq(Events)
             /\ \A j \in 1..Len(left[n]) :
                  \E k \in 1..n : left[n][j] = q[k] /\ Kept(e, q[k])
             /\ \A k \in 1..n : Kept(e, q[k]) =>
                  \E j \in 1..Len(left[n]) : left[n][j] = q[k]
           S == {n \in Nat : n <= Len(q) => Good(n)}
<1>5. Good(0)
  <2>1. 0 \in 0..Len(q)
    BY <1>3
  <2>2. left[0] = << >>
    BY <2>1, <1>4 DEF Step
  <2>3. << >> \in Seq(Events) /\ 1..Len(<< >>) = {} /\ 1..0 = {}
    OBVIOUS
  <2> QED BY <2>2, <2>3
<1>6. ASSUME NEW n \in Nat, n + 1 <= Len(q), Good(n)
      PROVE  Good(n + 1)
  <2>1. n + 1 \in 1..Len(q) /\ n + 1 \in 0..Len(q) /\ n + 1 # 0 /\ (n + 1) - 1 = n
    BY <1>3, <1>6
  <2>2. left[n + 1] = IF Kept(e, q[n + 1]) THEN Append(left[n], q[n + 1]) ELSE left[n]
    BY <2>1, <1>4 DEF Step
  <2>3. q[n + 1] \in Events
    BY <2>1, <1>3
  <2> DEFINE p == left[n]
             r == left[n + 1]
             x == q[n + 1]
  <2>4. p \in Seq(Events) /\ Len(p) \in Nat
    BY <1>6
  <2>5. CASE ~Kept(e, x)
    <3>1. r = p
      BY <2>2, <2>5
    <3>2. \A k \in 1..(n + 1) : Kept(e, q[k]) => k \in 1..n
      BY <2>5
    <3>3. \A k \in 1..n : k \in 1..(n + 1)
      OBVIOUS
    <3> HIDE DEF p, r, x
    <3> QED BY <1>6, <3>1, <3>2, <3>3 DEF p, r
  <2>6. CASE Kept(e, x)
    <3>1. r = Append(p, x)
      BY <2>2, <2>6
    <3>2. /\ r \in Seq(Events) /\ Len(r) = Len(p) + 1 /\ r[Len(p) + 1] = x
          /\ \A j \in 1..Len(p) : r[j] = p[j]
      <4> HIDE DEF p, r, x
      <4> QED BY <3>1, <2>3, <2>4 DEF x
    <3>3. ASSUME NEW j \in 1..Len(r)
          PROVE  \E k \in 1..(n + 1) : r[j] = q[k] /\ Kept(e, q[k])
      <4>1. CASE j \in 1..Len(p)
        <5>1. PICK k \in 1..n : p[j] = q[k] /\ Kept(e, q[k])
          BY <1>6, <4>1
        <5>2. k \in 1..(n + 1) /\ r[j] = q[k]
          BY <5>1, <4>1, <3>2
        <5> QED BY <5>1, <5>2
      <4>2. CASE j \notin 1..Len(p)
        <5>1. j = Len(p) + 1
          BY <4>2, <3>2, <2>4
        <5>2. n + 1 \in 1..(n + 1) /\ r[j] = q[n + 1] /\ Kept(e, q[n + 1])
          BY <5>1, <3>2, <2>6
        <5> HIDE DEF p, r
        <5> QED BY <5>2
      <4> QED BY <4>1, <4>2
    <3>4. ASSUME NEW k \in 1..(n + 1), Kept(e, q[k])
          PROVE  \E j \in 1..Len(r) : r[j] = q[k]
      <4>1. CASE k \in 1..n
        <5>1. PICK j \in 1..Len(p) : p[j] = q[k]
          BY <1>6, <4>1, <3>4
        <5>2. j \in 1..Len(r) /\ r[j] = q[k]
          <6> HIDE DEF p, r, x
          <6> QED BY <5>1, <3>2, <2>4
        <5> HIDE DEF p, r, x
        <5> QED BY <5>2
      <4>2. CASE k \notin 1..n
        <5>1. k = n + 1
          BY <4>2
        <5>2. Len(r) \in 1..Len(r) /\ r[Len(r)] = q[k]
          <6> HIDE DEF p, r
          <6> QED BY <5>1, <3>2, <2>4
        <5> HIDE DEF p, r, x
        <5> QED BY <5>2
      <4> QED BY <4>1, <4>2
    <3> QED BY <3>2, <3>3, <3>4
  <2> QED BY <2>5, <2>6
<1>7. 0 \in S /\ \A n \in Nat : n \in S => n + 1 \in S
  <2>1. \A n \in Nat : n + 1 <= Len(q) => n <= Len(q)
    BY <1>3
  <2> HIDE DEF Good
  <2> QED BY <1>5, <1>6, <2>1
<1>8. Nat \subseteq S
  <2> HIDE DEF S
  <2> QED BY <1>7, SetInduction
<1>9. Good(Len(q))
  <2> HIDE DEF Good
  <2> QED BY <1>8, <1>3
<1> QED
  BY <1>9, <1>1

\* A new event is the last of the queue; before it are the events it keeps.
LEMMA EventQueues ==
  ASSUME NEW e \in Events, ep0 \in Seq(Events), Event(e)
  PROVE  /\ ep0' \in Seq(Events)
         /\ InQueue(e)'
         /\ \A j \in DOMAIN ep0' : \/ ep0'[j] = e
                                   \/ \E k \in DOMAIN ep0 : ep0'[j] = ep0[k] /\ Kept(e, ep0[k])
         /\ \A x : InQueue(x) /\ Kept(e, x) => InQueue(x)'
<1> DEFINE p == KeptOf(e, ep0)
<1>1. /\ p \in Seq(Events)
      /\ \A j \in 1..Len(p) : \E k \in 1..Len(ep0) : p[j] = ep0[k] /\ Kept(e, ep0[k])
      /\ \A k \in 1..Len(ep0) : Kept(e, ep0[k]) => \E j \in 1..Len(p) : p[j] = ep0[k]
  BY KeptOfKeeps
<1>2. ep0' = Append(p, e)
  BY DEF Event
<1> HIDE DEF p
<1>3. /\ ep0' \in Seq(Events) /\ Len(p) \in Nat /\ DOMAIN ep0' = 1..(Len(p) + 1)
      /\ ep0'[Len(p) + 1] = e /\ \A j \in 1..Len(p) : ep0'[j] = p[j]
  BY <1>1, <1>2
<1>4. DOMAIN ep0 = 1..Len(ep0)
  OBVIOUS
<1>5. \A j \in DOMAIN ep0' : j \in 1..Len(p) \/ j = Len(p) + 1
  BY <1>3
<1>6. \A j \in 1..Len(p) : j \in DOMAIN ep0'
  BY <1>3
<1>7. InQueue(e)'
  BY <1>3 DEF InQueue
<1>8. ASSUME NEW j \in DOMAIN ep0'
      PROVE  \/ ep0'[j] = e
             \/ \E k \in DOMAIN ep0 : ep0'[j] = ep0[k] /\ Kept(e, ep0[k])
  BY <1>1, <1>3, <1>4, <1>5
<1>9. ASSUME NEW x, InQueue(x), Kept(e, x)
      PROVE  InQueue(x)'
  <2>1. PICK k \in 1..Len(ep0) : ep0[k] = x
    BY <1>4, <1>9 DEF InQueue
  <2>2. PICK j \in 1..Len(p) : p[j] = x
    BY <1>1, <1>9, <2>1
  <2>3. j \in DOMAIN ep0' /\ ep0'[j] = x
    BY <1>3, <1>6, <2>2
  <2> QED BY <2>3 DEF InQueue
<1> QED
  BY <1>3, <1>7, <1>8, <1>9

\* Reading the first event leaves the others.
LEMMA TailLeaves ==
  ASSUME NEW q \in Seq(Events), q # << >>
  PROVE  /\ Tail(q) \in Seq(Events) /\ Head(q) \in Events /\ Head(q) = q[1] /\ 1 \in DOMAIN q
         /\ \A j \in DOMAIN Tail(q) : j + 1 \in DOMAIN q /\ Tail(q)[j] = q[j + 1]
         /\ \A k \in DOMAIN q : k # 1 => k - 1 \in DOMAIN Tail(q) /\ Tail(q)[k - 1] = q[k]
  OBVIOUS

-----------------------------------------------------------------------------
(* The inductive invariant.                                                *)

\* Of Bind, Unbind, Enable and Disable the queue holds the last one at most.
QueueIsCurrent ==
  \A j \in DOMAIN ep0 : ep0[j] \in Major =>
    \/ usb = "enabled" /\ ep0[j] = "Enable"
    \/ usb = "bound" /\ ep0[j] \in {"Bind", "Disable"}
    \/ usb = "unbound" /\ ep0[j] = "Unbind"

\* A session is for the enumeration that lasts, or the event that will end
\* it is in the queue.
SessionIsCurrent ==
  proc = "session" =>
    \/ usb = "enabled" /\ serves = epoch /\ read # "failed"
    \/ usb # "enabled" /\ (InQueue("Disable") \/ InQueue("Unbind"))

Inv == TypeOK /\ QueueIsCurrent /\ SessionIsCurrent /\ EnableNotLost

\* A Bind, Unbind, Enable or Disable is the only one left in the queue.
LEMMA MajorQueues ==
  ASSUME NEW e \in Major, ep0 \in Seq(Events), Event(e)
  PROVE  /\ ep0' \in Seq(Events) /\ InQueue(e)'
         /\ \A j \in DOMAIN ep0' : ep0'[j] \in Major => ep0'[j] = e
<1>1. e \in Events
  BY DEF Events
<1>2. /\ ep0' \in Seq(Events) /\ InQueue(e)'
      /\ \A j \in DOMAIN ep0' : \/ ep0'[j] = e
                                \/ \E k \in DOMAIN ep0 : ep0'[j] = ep0[k] /\ Kept(e, ep0[k])
  BY <1>1, EventQueues
<1>3. \A x : Kept(e, x) => x \in {"Suspend", "Resume"}
  BY DEF Kept, Major
<1>4. \A x \in {"Suspend", "Resume"} : x \notin Major
  BY DEF Major
<1> QED
  BY <1>2, <1>3, <1>4

\* A Suspend, Resume or Setup removes nothing but events of these kinds.
LEMMA MinorQueues ==
  ASSUME NEW e \in Minor, ep0 \in Seq(Events), Event(e)
  PROVE  /\ ep0' \in Seq(Events)
         /\ \A x \in Major : InQueue(x) => InQueue(x)'
         /\ \A j \in DOMAIN ep0' : ep0'[j] \in Major =>
              \E k \in DOMAIN ep0 : ep0'[j] = ep0[k]
<1>1. e \in Events /\ e \notin Major
  BY DEF Events, Minor, Major
<1>2. /\ ep0' \in Seq(Events)
      /\ \A j \in DOMAIN ep0' : \/ ep0'[j] = e
                                \/ \E k \in DOMAIN ep0 : ep0'[j] = ep0[k] /\ Kept(e, ep0[k])
      /\ \A x : InQueue(x) /\ Kept(e, x) => InQueue(x)'
  BY <1>1, EventQueues
<1>3. \A x \in Major : Kept(e, x)
  BY DEF Kept, Major, Minor
<1> QED
  BY <1>1, <1>2, <1>3

\* A read of ep0 removes one event and adds none.
LEMMA ReadQueues ==
  ASSUME ep0 \in Seq(Events), ep0 # << >>, ep0' = Tail(ep0)
  PROVE  /\ ep0' \in Seq(Events) /\ InQueue(Head(ep0))
         /\ \A x : InQueue(x) => x = Head(ep0) \/ InQueue(x)'
         /\ \A j \in DOMAIN ep0' : \E k \in DOMAIN ep0 : ep0'[j] = ep0[k]
<1>1. /\ Tail(ep0) \in Seq(Events) /\ Head(ep0) = ep0[1] /\ 1 \in DOMAIN ep0
      /\ \A j \in DOMAIN Tail(ep0) : j + 1 \in DOMAIN ep0 /\ Tail(ep0)[j] = ep0[j + 1]
      /\ \A k \in DOMAIN ep0 : k # 1 => k - 1 \in DOMAIN Tail(ep0) /\ Tail(ep0)[k - 1] = ep0[k]
  BY TailLeaves
<1>2. InQueue(Head(ep0))
  BY <1>1 DEF InQueue
<1>3. ASSUME NEW x, InQueue(x), x # Head(ep0)
      PROVE  InQueue(x)'
  <2>1. PICK k \in DOMAIN ep0 : ep0[k] = x
    BY <1>3 DEF InQueue
  <2>2. k # 1
    BY <1>1, <1>3, <2>1
  <2>3. k - 1 \in DOMAIN ep0' /\ ep0'[k - 1] = x
    BY <1>1, <2>1, <2>2
  <2> QED BY <2>3 DEF InQueue
<1>4. \A j \in DOMAIN ep0' : \E k \in DOMAIN ep0 : ep0'[j] = ep0[k]
  BY <1>1
<1> QED
  BY <1>1, <1>2, <1>3, <1>4

-----------------------------------------------------------------------------
(* The steps.                                                              *)

\* The interface is bound again: the session of the last time is gone.
LEMMA BindKeeps == ASSUME Inv, ~Hasty, Bind PROVE Inv'
<1>1. Event("Bind") /\ "Bind" \in Major /\ ep0 \in Seq(Events)
  BY DEF Bind, Major, Inv, TypeOK, Events
<1>2. /\ ep0' \in Seq(Events) /\ InQueue("Bind")'
      /\ \A j \in DOMAIN ep0' : ep0'[j] \in Major => ep0'[j] = "Bind"
  BY <1>1, MajorQueues
<1>3. usb = "unbound" /\ usb' = "bound" /\ (Pending => Hasty)
      /\ UNCHANGED <<proc, serves, read, epoch, minor, fds, faults, hit>>
  BY DEF Bind, MayComeBack, procVars, faultVars
<1>4. proc # "session"
  <2>1. SUFFICES ASSUME proc = "session" PROVE FALSE
    OBVIOUS
  <2>2. InQueue("Disable") \/ InQueue("Unbind")
    BY <2>1, <1>3 DEF Inv, SessionIsCurrent
  <2>3. ep0 # << >>
    BY <2>2 DEF InQueue
  <2> QED BY <2>1, <2>3, <1>3 DEF Pending
<1> QED
  BY <1>2, <1>3, <1>4 DEF Inv, TypeOK, QueueIsCurrent, SessionIsCurrent, EnableNotLost, Events

\* The interface is enabled again: the session of the last time is gone.
LEMMA EnableKeeps == ASSUME Inv, ~Hasty, Enable PROVE Inv'
<1>1. Event("Enable") /\ "Enable" \in Major /\ ep0 \in Seq(Events)
  BY DEF Enable, Major, Inv, TypeOK, Events
<1>2. /\ ep0' \in Seq(Events) /\ InQueue("Enable")'
      /\ \A j \in DOMAIN ep0' : ep0'[j] \in Major => ep0'[j] = "Enable"
  BY <1>1, MajorQueues
<1>3. usb = "bound" /\ usb' = "enabled" /\ epoch' = epoch + 1 /\ (Pending => Hasty)
      /\ UNCHANGED <<proc, serves, read, minor, fds, faults, hit>>
  BY DEF Enable, MayComeBack, procVars, faultVars
<1>4. proc # "session"
  <2>1. SUFFICES ASSUME proc = "session" PROVE FALSE
    OBVIOUS
  <2>2. InQueue("Disable") \/ InQueue("Unbind")
    BY <2>1, <1>3 DEF Inv, SessionIsCurrent
  <2>3. ep0 # << >>
    BY <2>2 DEF InQueue
  <2> QED BY <2>1, <2>3, <1>3 DEF Pending
<1> QED
  BY <1>2, <1>3, <1>4 DEF Inv, TypeOK, QueueIsCurrent, SessionIsCurrent, EnableNotLost, Events

\* The interface goes away: the event that says so ends the session.
LEMMA DownKeeps ==
  ASSUME Inv, Disable \/ Unbind
  PROVE  Inv'
<1>1. PICK e \in {"Disable", "Unbind"} :
        /\ Event(e) /\ usb' = IF e = "Disable" THEN "bound" ELSE "unbound"
        /\ read' = IF read = "armed" THEN "failed" ELSE read
        /\ UNCHANGED <<proc, serves, epoch, minor, fds, faults, hit>>
  BY DEF Disable, Unbind, Down, faultVars
<1>2. e \in Major /\ ep0 \in Seq(Events)
  BY DEF Major, Inv, TypeOK, Events
<1>3. /\ ep0' \in Seq(Events) /\ InQueue(e)'
      /\ \A j \in DOMAIN ep0' : ep0'[j] \in Major => ep0'[j] = e
  BY <1>1, <1>2, MajorQueues
<1>4. TypeOK'
  BY <1>1, <1>3 DEF Inv, TypeOK, Events
<1>5. QueueIsCurrent'
  BY <1>1, <1>3 DEF QueueIsCurrent
<1>6. SessionIsCurrent' /\ EnableNotLost'
  BY <1>1, <1>3 DEF SessionIsCurrent, EnableNotLost
<1> QED BY <1>4, <1>5, <1>6 DEF Inv

\* A minor event does not take the place of one that matters.
LEMMA MinorKeeps == ASSUME Inv, MinorEvent PROVE Inv'
<1>1. PICK e \in Minor : Event(e)
  BY DEF MinorEvent
<1>2. minor' = minor + 1 /\ UNCHANGED <<proc, serves, read, usb, epoch, fds, faults, hit>>
  BY DEF MinorEvent, procVars, faultVars
<1>3. /\ ep0' \in Seq(Events)
      /\ \A x \in Major : InQueue(x) => InQueue(x)'
      /\ \A j \in DOMAIN ep0' : ep0'[j] \in Major =>
           \E k \in DOMAIN ep0 : ep0'[j] = ep0[k]
  <2>1. ep0 \in Seq(Events)
    BY DEF Inv, TypeOK, Events
  <2> QED BY <1>1, <2>1, MinorQueues
<1>4. TypeOK'
  BY <1>2, <1>3 DEF Inv, TypeOK, Events
<1>5. QueueIsCurrent'
  BY <1>2, <1>3 DEF Inv, QueueIsCurrent
<1>6. {"Enable", "Disable", "Unbind"} \subseteq Major
  BY DEF Major
<1>7. SessionIsCurrent' /\ EnableNotLost'
  BY <1>2, <1>3, <1>6 DEF Inv, SessionIsCurrent, EnableNotLost
<1> QED BY <1>4, <1>5, <1>7 DEF Inv

\* What does not touch the queue, the bus or the session.
LEMMA QuietKeeps ==
  ASSUME Inv, Data \/ ReadOn \/ Activate \/ ReadFailed
  PROVE  Inv'
<1>1. UNCHANGED <<ep0, usb, epoch, minor, fds, faults, hit, serves>>
  BY DEF Data, ReadOn, Activate, ReadFailed, Exit, busVars, faultVars
<1>2. \/ proc = "session" /\ proc' = "session" /\ read' \in {"armed", "busy"}
      \/ proc = "off" /\ proc' \in {"off", "waiting"} /\ read' = read
      \/ proc = "session" /\ proc' = "off" /\ read = "failed" /\ read' = "none"
  BY DEF Data, ReadOn, Activate, ReadFailed, Exit
<1>3. TypeOK'
  BY <1>1, <1>2 DEF Inv, TypeOK
<1>4. QueueIsCurrent' /\ SessionIsCurrent'
  BY <1>1, <1>2 DEF Inv, QueueIsCurrent, SessionIsCurrent, InQueue
<1>5. EnableNotLost'
  BY <1>1, <1>2 DEF Inv, EnableNotLost, SessionIsCurrent, InQueue
<1> QED BY <1>3, <1>4, <1>5 DEF Inv

\* The Enable that is read is that of the enumeration that lasts.
LEMMA WaitKeeps == ASSUME Inv, WaitEvent PROVE Inv'
<1>1. /\ proc = "waiting" /\ ep0 # << >> /\ ep0' = Tail(ep0)
      /\ UNCHANGED <<usb, epoch, minor, fds, faults, hit>>
  BY DEF WaitEvent, faultVars
<1>2. \/ Head(ep0) = "Enable" /\ proc' = "session" /\ serves' = epoch /\ read' = "armed"
      \/ Head(ep0) # "Enable" /\ UNCHANGED <<proc, serves, read>>
  BY DEF WaitEvent, Enables, procVars
<1>3. /\ ep0' \in Seq(Events) /\ InQueue(Head(ep0))
      /\ \A x : InQueue(x) => x = Head(ep0) \/ InQueue(x)'
      /\ \A j \in DOMAIN ep0' : \E k \in DOMAIN ep0 : ep0'[j] = ep0[k]
  <2>1. ep0 \in Seq(Events)
    BY DEF Inv, TypeOK, Events
  <2> QED BY <1>1, <2>1, ReadQueues
<1>4. TypeOK'
  BY <1>1, <1>2, <1>3 DEF Inv, TypeOK, Events
<1>5. QueueIsCurrent'
  BY <1>1, <1>3 DEF Inv, QueueIsCurrent
<1>6. Head(ep0) = "Enable" => usb = "enabled"
  BY <1>3 DEF Inv, QueueIsCurrent, InQueue, Major
<1>7. SessionIsCurrent' /\ EnableNotLost'
  BY <1>1, <1>2, <1>3, <1>6 DEF Inv, SessionIsCurrent, EnableNotLost
<1> QED BY <1>4, <1>5, <1>7 DEF Inv

\* A session ends on Disable or Unbind, and then the interface is disabled.
LEMMA SessionKeeps == ASSUME Inv, SessionEvent PROVE Inv'
<1>1. /\ proc = "session" /\ ep0 # << >> /\ ep0' = Tail(ep0)
      /\ UNCHANGED <<usb, epoch, minor, fds, faults, hit, serves>>
  BY DEF SessionEvent, faultVars, Exit, procVars
<1>2. \/ Head(ep0) \in {"Disable", "Unbind"} /\ proc' = "off" /\ read' = "none"
      \/ Head(ep0) \notin {"Disable", "Unbind"} /\ UNCHANGED <<proc, read>>
  BY DEF SessionEvent, Stops, procVars, Exit
<1>3. /\ ep0' \in Seq(Events) /\ InQueue(Head(ep0))
      /\ \A x : InQueue(x) => x = Head(ep0) \/ InQueue(x)'
      /\ \A j \in DOMAIN ep0' : \E k \in DOMAIN ep0 : ep0'[j] = ep0[k]
  <2>1. ep0 \in Seq(Events)
    BY DEF Inv, TypeOK, Events
  <2> QED BY <1>1, <2>1, ReadQueues
<1>4. TypeOK'
  BY <1>1, <1>2, <1>3 DEF Inv, TypeOK, Events
<1>5. QueueIsCurrent'
  BY <1>1, <1>3 DEF Inv, QueueIsCurrent
<1>6. Head(ep0) \in {"Disable", "Unbind"} => usb # "enabled"
  BY <1>3 DEF Inv, QueueIsCurrent, InQueue, Major
<1>7. SessionIsCurrent'
  BY <1>1, <1>2, <1>3 DEF Inv, SessionIsCurrent
<1>8. EnableNotLost'
  BY <1>1, <1>2, <1>6 DEF Inv, SessionIsCurrent, EnableNotLost
<1> QED BY <1>4, <1>5, <1>7, <1>8 DEF Inv

\* A fault is remembered with the enumeration it hits.
LEMMA FaultKeeps == ASSUME Inv, Fault PROVE Inv'
<1>1. /\ proc' = "off" /\ read' = "none" /\ hit' = epoch /\ faults' = faults + 1
      /\ UNCHANGED <<usb, epoch, minor, fds, serves>>
      /\ ep0' \in IF ep0 = << >> THEN {ep0} ELSE {ep0, Tail(ep0)}
  BY DEF Fault, Exit
<1>2. ep0' \in Seq(Events) /\ \A j \in DOMAIN ep0' : \E k \in DOMAIN ep0 : ep0'[j] = ep0[k]
  <2>1. ep0 \in Seq(Events)
    BY DEF Inv, TypeOK, Events
  <2>2. CASE ep0' = ep0
    BY <2>1, <2>2
  <2>3. CASE ep0 # << >> /\ ep0' = Tail(ep0)
    BY <2>1, <2>3, ReadQueues
  <2> QED BY <1>1, <2>2, <2>3
<1>3. TypeOK'
  BY <1>1, <1>2 DEF Inv, TypeOK, Events
<1>4. QueueIsCurrent'
  BY <1>1, <1>2 DEF Inv, QueueIsCurrent
<1>5. SessionIsCurrent' /\ EnableNotLost'
  BY <1>1 DEF SessionIsCurrent, EnableNotLost
<1> QED BY <1>3, <1>4, <1>5 DEF Inv

\* Nothing is queued and no process runs at the start.
LEMMA InitInv == Init => Inv
  BY LifecycleAssumption
  DEF Init, Inv, TypeOK, QueueIsCurrent, SessionIsCurrent, EnableNotLost, InQueue

\* Every step keeps the invariant.
LEMMA NextInv == Inv /\ ~Hasty /\ [Next]_vars => Inv'
<1> SUFFICES ASSUME Inv, ~Hasty, [Next]_vars PROVE Inv'
  OBVIOUS
<1>1. CASE UNCHANGED vars
  BY <1>1 DEF vars, procVars, busVars, faultVars, Inv, TypeOK, QueueIsCurrent,
              SessionIsCurrent, EnableNotLost, InQueue
<1>2. CASE Bind
  BY <1>2, BindKeeps
<1>3. CASE Enable
  BY <1>3, EnableKeeps
<1>4. CASE Disable \/ Unbind
  BY <1>4, DownKeeps
<1>5. CASE MinorEvent
  BY <1>5, MinorKeeps
<1>6. CASE Data \/ ReadOn \/ Activate \/ ReadFailed
  BY <1>6, QuietKeeps
<1>7. CASE WaitEvent
  BY <1>7, WaitKeeps
<1>8. CASE SessionEvent
  BY <1>8, SessionKeeps
<1>9. CASE Fault
  BY <1>9, FaultKeeps
<1> QED
  BY <1>1, <1>2, <1>3, <1>4, <1>5, <1>6, <1>7, <1>8, <1>9 DEF Next, Daemon

\* The invariant holds throughout.
LEMMA Invariance == ASSUME ~Hasty PROVE Spec => []Inv
<1>1. Inv /\ [Next]_vars => Inv'
  BY NextInv
<1> QED
  BY <1>1, InitInv, PTL DEF Spec

-----------------------------------------------------------------------------
(* The theorems.                                                           *)

\* run_daemon, wait_for_enable: the event of the host that has enabled the
\* interface is in the queue until a session for it has begun, however
\* suspends, restarts of the daemon and earlier enumerations interleave.
THEOREM EnableIsServed == ASSUME ~Hasty PROVE Spec => []EnableNotLost
<1>1. Inv => EnableNotLost
  BY DEF Inv
<1> QED
  BY <1>1, Invariance, PTL

\* run: no session handles a message of an enumeration it was not started for.
THEOREM SessionsAreFresh == ASSUME ~Hasty PROVE Spec => SessionIsFresh
<1>1. Inv /\ [Next]_vars => [read = "armed" /\ read' = "busy" => serves = epoch]_vars
  <2> SUFFICES ASSUME Inv, Next, read = "armed", read' = "busy"
               PROVE  serves = epoch
    OBVIOUS
  <2>1. Data
    BY DEF Next, Daemon, Bind, Enable, Disable, Unbind, Down, MinorEvent, Activate,
           WaitEvent, SessionEvent, ReadFailed, ReadOn, Fault, Exit, procVars
  <2> QED BY <2>1 DEF Data, Inv, SessionIsCurrent
<1> QED
  BY <1>1, Invariance, PTL DEF Spec, SessionIsFresh
=============================================================================
