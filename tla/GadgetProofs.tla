---------------------------- MODULE GadgetProofs ----------------------------
(***************************************************************************)
(* Proofs about setup-gadget and bind-udc (module Gadget), for any number  *)
(* of controllers, commands, failing operations and killed processes.      *)
(***************************************************************************)
EXTENDS Gadget, TLAPS

\* The steps setup_gadget has done are there.
DoneSteps == cmd = "setup" => \A k \in 1..(at - 1) : Steps[k].name \in tree

\* The link is the last thing that is made.
LinkIsLast == "link" \in tree => tree = Tree

Inv == /\ TypeOK /\ DoneSteps /\ LinkIsLast
       /\ SetupIsWhole /\ SetupRepeats /\ BindIsTrue

-----------------------------------------------------------------------------
(* The steps of setup_gadget.                                              *)

\* There are thirteen; those that need a directory come after the one that
\* makes it, and the link, made last, is the only one that can be refused
\* because it is there.
LEMMA StepsInOrder ==
  /\ Len(Steps) = 13 /\ DOMAIN Steps = 1..13
  /\ \A k \in 1..13 :
       /\ Steps[k].name \in Tree
       /\ Steps[k].do # "mkdir" => \E j \in 1..(k - 1) : Steps[j].name = Steps[k].in
       /\ Steps[k].name = "link" => k = 13
<1>1. Len(Steps) = 13 /\ DOMAIN Steps = 1..13
  BY DEF Steps
<1>2. \A k \in 1..13 : Steps[k].name \in Tree
  BY <1>1 DEF Tree
<1>3. \A k \in {1, 2, 5, 9, 10, 12} : Steps[k].do = "mkdir" /\ Steps[k].name # "link"
  <2>1. /\ Steps[1].do = "mkdir" /\ Steps[1].name # "link"
        /\ Steps[2].do = "mkdir" /\ Steps[2].name # "link"
        /\ Steps[5].do = "mkdir" /\ Steps[5].name # "link"
        /\ Steps[9].do = "mkdir" /\ Steps[9].name # "link"
        /\ Steps[10].do = "mkdir" /\ Steps[10].name # "link"
        /\ Steps[12].do = "mkdir" /\ Steps[12].name # "link"
    BY DEF Steps, Op
  <2> QED BY <2>1
<1>4. \A k \in {3, 4} : Steps[k].in = Steps[2].name /\ Steps[k].name # "link"
  <2>1. /\ Steps[3].in = Steps[2].name /\ Steps[3].name # "link"
        /\ Steps[4].in = Steps[2].name /\ Steps[4].name # "link"
    BY DEF Steps, Op
  <2> QED BY <2>1
<1>5. \A k \in {6, 7, 8} : Steps[k].in = Steps[5].name /\ Steps[k].name # "link"
  <2>1. /\ Steps[6].in = Steps[5].name /\ Steps[6].name # "link"
        /\ Steps[7].in = Steps[5].name /\ Steps[7].name # "link"
        /\ Steps[8].in = Steps[5].name /\ Steps[8].name # "link"
    BY DEF Steps, Op
  <2> QED BY <2>1
<1>6. Steps[11].in = Steps[10].name /\ Steps[11].name # "link"
  BY DEF Steps, Op
<1>7. Steps[13].in = Steps[9].name
  BY DEF Steps, Op
<1>8. ASSUME NEW k \in 1..13
      PROVE  k \in {1, 2, 5, 9, 10, 12} \/ k \in {3, 4} \/ k \in {6, 7, 8} \/ k = 11 \/ k = 13
  OBVIOUS
<1>9. ASSUME NEW k \in 1..13
      PROVE  /\ Steps[k].do # "mkdir" => \E j \in 1..(k - 1) : Steps[j].name = Steps[k].in
             /\ Steps[k].name = "link" => k = 13
  <2>1. CASE k \in {1, 2, 5, 9, 10, 12}
    BY <1>3, <2>1
  <2>2. CASE k \in {3, 4}
    BY <1>4, <2>2, 2 \in 1..(k - 1)
  <2>3. CASE k \in {6, 7, 8}
    BY <1>5, <2>3, 5 \in 1..(k - 1)
  <2>4. CASE k = 11
    BY <1>6, <2>4, 10 \in 1..(k - 1)
  <2>5. CASE k = 13
    BY <1>7, <2>5, 9 \in 1..(k - 1)
  <2> QED BY <1>8, <2>1, <2>2, <2>3, <2>4, <2>5
<1> QED BY <1>1, <1>2, <1>9

\* A tree that has what all thirteen steps make is the whole tree.
LEMMA AllSteps ==
  ASSUME NEW T, T \subseteq Tree, \A k \in 1..13 : Steps[k].name \in T
  PROVE  T = Tree
BY StepsInOrder DEF Tree

-----------------------------------------------------------------------------
(* The invariant.                                                          *)

\* The invariant holds before the first command.
LEMMA InitInv == Init => Inv
<1> SUFFICES ASSUME Init PROVE Inv
  OBVIOUS
<1>1. TypeOK
  <2>1. at \in 1..(Len(Steps) + 1)
    BY StepsInOrder DEF Init
  <2>2. ready \in BOOLEAN
    BY Zenon DEF Init
  <2>3. last \in [cmd : {"none", "setup", "unbind", "bind"}, ok : BOOLEAN, fault : BOOLEAN]
    BY DEF Init
  <2> QED BY <2>1, <2>2, <2>3 DEF Init, TypeOK
<1> QED BY <1>1 DEF Init, Inv, DoneSteps, LinkIsLast, SetupIsWhole, SetupRepeats, BindIsTrue

\* No operation of setup_gadget is refused: its directory is there.
LEMMA NotRefused ==
  ASSUME Inv, cmd = "setup", at <= Len(Steps)
  PROVE  ~(Refused(Steps[at]) /\ ~Needless(Steps[at]))
<1>1. at \in 1..13
  BY StepsInOrder DEF Inv, TypeOK
<1>2. Steps[at].do # "mkdir" => Steps[at].in \in tree
  BY <1>1, StepsInOrder DEF Inv, DoneSteps
<1> QED BY <1>2 DEF Refused, Needless

\* One operation of setup_gadget keeps it, whether it fails or not.
LEMMA SetupStepInv == Inv /\ SetupStep => Inv'
<1> SUFFICES ASSUME Inv, SetupStep PROVE Inv'
  OBVIOUS
<1>1. at \in 1..13 /\ cmd = "setup" /\ at <= Len(Steps)
  BY StepsInOrder DEF Inv, TypeOK, SetupStep
<1>2. /\ UNCHANGED <<world, bound, runs>>
      /\ \/ /\ tree' = tree \cup {Steps[at].name} /\ at' = at + 1
            /\ UNCHANGED <<cmd, last, faults>>
         \/ /\ faults' = faults + 1 /\ Ends(FALSE, TRUE) /\ UNCHANGED <<at, tree>>
  BY <1>1, NotRefused DEF SetupStep
<1>3. CASE tree' = tree \cup {Steps[at].name} /\ at' = at + 1 /\ UNCHANGED <<cmd, last, faults>>
  <2>1. Steps[at].name \in Tree
    BY <1>1, StepsInOrder
  <2>2. TypeOK'
    BY <1>1, <1>2, <1>3, <2>1, StepsInOrder DEF Inv, TypeOK, world
  <2>3. \A k \in 1..at : Steps[k].name \in tree'
    BY <1>1, <1>3 DEF Inv, DoneSteps
  <2>4. DoneSteps'
    BY <1>1, <1>3, <2>3 DEF DoneSteps
  <2>5. tree = Tree => tree' = Tree
    BY <1>3, <2>1
  <2>6. CASE "link" \in tree
    BY <1>2, <1>3, <2>2, <2>4, <2>5, <2>6
       DEF Inv, LinkIsLast, SetupIsWhole, SetupRepeats, BindIsTrue
  <2>7. CASE "link" \notin tree
    <3>1. LinkIsLast'
      <4> SUFFICES ASSUME "link" \in tree' PROVE tree' = Tree
        BY DEF LinkIsLast
      <4>1. Steps[at].name = "link"
        BY <1>3, <2>7
      <4>2. at = 13
        BY <1>1, <4>1, StepsInOrder
      <4> QED BY <4>2, <2>2, <2>3, AllSteps DEF TypeOK
    <3> QED BY <1>2, <1>3, <2>2, <2>4, <2>5, <3>1
            DEF Inv, SetupIsWhole, SetupRepeats, BindIsTrue
  <2> QED BY <2>6, <2>7
<1>4. CASE faults' = faults + 1 /\ Ends(FALSE, TRUE) /\ UNCHANGED <<at, tree>>
  BY <1>1, <1>2, <1>4 DEF Inv, TypeOK, DoneSteps, LinkIsLast, SetupIsWhole, SetupRepeats,
                          BindIsTrue, Ends, world
<1> QED BY <1>2, <1>3, <1>4

\* When setup_gadget returns Ok every step has been done.
LEMMA SetupDoneInv == Inv /\ SetupDone => Inv'
<1> SUFFICES ASSUME Inv, SetupDone PROVE Inv'
  OBVIOUS
<1>1. cmd = "setup" /\ at = 14
  BY StepsInOrder DEF SetupDone, Inv, TypeOK
<1>2. \A k \in 1..13 : Steps[k].name \in tree
  BY <1>1 DEF Inv, DoneSteps
<1>3. tree = Tree
  BY <1>2, AllSteps DEF Inv, TypeOK
<1> QED BY <1>1, <1>3 DEF SetupDone, Inv, TypeOK, DoneSteps, LinkIsLast, SetupIsWhole,
                          SetupRepeats, BindIsTrue, Ends, world

\* bind_udc binds only what has its link.
LEMMA BindFirstInv == Inv /\ BindFirst => Inv'
<1> SUFFICES ASSUME Inv, BindFirst PROVE Inv'
  OBVIOUS
<1>1. cmd = "bind" /\ UNCHANGED <<at, tree, world, runs, faults>>
  BY DEF BindFirst
<1>2. \/ Ends(FALSE, FALSE) /\ UNCHANGED bound
      \/ \E u \in udcs : "link" \in tree /\ bound' = u /\ Ends(TRUE, FALSE)
  BY DEF BindFirst, BindTo, Accepts
<1>3. CASE Ends(FALSE, FALSE) /\ UNCHANGED bound
  BY <1>1, <1>3 DEF Inv, TypeOK, DoneSteps, LinkIsLast, SetupIsWhole, SetupRepeats,
                    BindIsTrue, Ends, world
<1>4. ASSUME NEW u \in udcs, "link" \in tree, bound' = u, Ends(TRUE, FALSE)
      PROVE  Inv'
  <2>1. u \in Udcs /\ u # NoUdc
    BY GadgetAssumption DEF Inv, TypeOK
  <2> QED BY <1>1, <1>4, <2>1 DEF Inv, TypeOK, DoneSteps, LinkIsLast, SetupIsWhole,
                                  SetupRepeats, BindIsTrue, Ends, world
<1> QED BY <1>2, <1>3, <1>4

\* Every step keeps it: one case per action.
LEMMA NextInv == Inv /\ [Next]_vars => Inv'
<1> SUFFICES ASSUME Inv, [Next]_vars PROVE Inv'
  OBVIOUS
<1> USE DEF Inv, TypeOK, DoneSteps, LinkIsLast, SetupIsWhole, SetupRepeats, BindIsTrue
<1>1. CASE SetupGadget
  BY <1>1, StepsInOrder DEF SetupGadget, Start, world
<1>2. CASE BindUdc
  BY <1>2, StepsInOrder DEF BindUdc, Start, world
<1>3. CASE SetupStep
  BY <1>3, SetupStepInv
<1>4. CASE SetupDone
  BY <1>4, SetupDoneInv
<1>5. CASE UnbindUdc
  <2>1. CASE cmd' = "bind" /\ UNCHANGED last
    BY <1>5, <2>1 DEF UnbindUdc, world
  <2>2. CASE Ends(FALSE, FALSE)
    BY <1>5, <2>2 DEF UnbindUdc, Ends, world
  <2> QED BY <1>5, <2>1, <2>2 DEF UnbindUdc
<1>6. CASE BindFirst
  BY <1>6, BindFirstInv
<1>7. CASE Killed
  BY <1>7 DEF Killed, Ends, world
<1>8. CASE Mount
  BY <1>8 DEF Mount
<1>9. CASE Appears
  BY <1>9 DEF Appears
<1>10. CASE Released
  BY <1>10 DEF Released
<1>11. CASE UNCHANGED vars
  BY <1>11 DEF vars, world
<1> QED BY <1>1, <1>2, <1>3, <1>4, <1>5, <1>6, <1>7, <1>8, <1>9, <1>10, <1>11 DEF Next

\* The invariant holds in every state.
LEMMA Invariant == Spec => []Inv
BY InitInv, NextInv, PTL DEF Spec

-----------------------------------------------------------------------------
(* The theorems.                                                           *)

\* setup-gadget that returns success has left the whole tree, however many
\* runs of it were cut short before and wherever.
THEOREM SetupLeavesAll == Spec => []SetupIsWhole
<1>1. Inv => SetupIsWhole
  BY DEF Inv
<1> QED BY <1>1, Invariant, PTL

\* setup-gadget fails only where one of its operations is made to: what an
\* earlier run left is never in its way.
THEOREM SetupCanBeRepeated == Spec => []SetupRepeats
<1>1. Inv => SetupRepeats
  BY DEF Inv
<1> QED BY <1>1, Invariant, PTL

\* bind-udc that returns success has bound a gadget that is complete.
THEOREM BindTellsTheTruth == Spec => []BindIsTrue
<1>1. Inv => BindIsTrue
  BY DEF Inv
<1> QED BY <1>1, Invariant, PTL
=============================================================================
