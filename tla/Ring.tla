-------------------------------- MODULE Ring --------------------------------
(***************************************************************************)
(* boost::circular_buffer as childproc::commands uses it.  A ring is given  *)
(* by its content, a sequence of jobs, and by the slot its front is in; an  *)
(* iterator is a slot, whatever the slot holds meanwhile.  m_last is the    *)
(* slot the next push_back goes to: an iterator incremented on to it        *)
(* becomes end(), wherever m_last has moved to since the loop began.        *)
(***************************************************************************)
EXTENDS Integers, Sequences

CONSTANT BufferSize

Slots == 0 .. BufferSize - 1
NoSlot == BufferSize

Slot(n) == n % BufferSize
PastLast(ring, first) == Slot(first + Len(ring))

(* How far behind the front slot s is, and whether a job lives there.       *)
Offset(first, s) == Slot(s + BufferSize - first)
Live(ring, first, s) == Offset(first, s) < Len(ring)

(* The jobs behind the one in slot s, those that are still there.           *)
Behind(ring, first, s) ==
  SubSeq(ring, IF Live(ring, first, s) THEN Offset(first, s) + 2 ELSE 1, Len(ring))

=============================================================================
