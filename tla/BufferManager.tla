--------------------------- MODULE BufferManager ---------------------------
(***************************************************************************)
(* The write-buffer pool of src/src/buffers.rs: MAX_BUFFER_SLOTS slots,    *)
(* numbered from 1, each empty or holding the bytes of one USB transfer.   *)
(* A transfer is one part (header or payload) of an ADB message, and a     *)
(* used slot remembers the message it is a part of.                        *)
(***************************************************************************)
EXTENDS Naturals

CONSTANT MaxSlots  \* MAX_BUFFER_SLOTS, 8 in the code

ASSUME MaxSlotsAssumption == MaxSlots \in Nat \ {0}

Slots == 1..MaxSlots

\* The content of an empty slot (None); it has the fields of a message.
NoMsg == [cmd |-> "none", arg0 |-> 0, arg1 |-> 0, payload |-> 0, fin |-> FALSE]

NoBuffers == [s \in Slots |-> NoMsg]

Used(b) == {s \in Slots : b[s].cmd # "none"}

HasFree(b) == \E s \in Slots : s \notin Used(b)

\* Mutant: the search tests Option::is_some and hands out a slot in use.
FirstFreeUsed(b) == IF Used(b) # {} THEN CHOOSE s \in Used(b) : TRUE ELSE 1

\* The slot that iter().position(Option::is_none) finds.
FirstFree(b) == CHOOSE s \in Slots \ Used(b) : \A t \in Slots \ Used(b) : s <= t

Alloc(b, s, m) == [b EXCEPT ![s] = m]

\* Mutant: a completed write does not give its slot back.
FreeNothing(b, s) == b

Free(b, s) == [b EXCEPT ![s] = NoMsg]
=============================================================================
