------------------------------- MODULE CmdFifo -------------------------------
(***************************************************************************)
(* What Cmd_queue promises its users: a bounded first-in first-out queue.  *)
(* `queued' holds the slots created and not yet done, oldest first, and    *)
(* `leaving' the slot that is done and about to be freed.                  *)
(***************************************************************************)
EXTENDS Naturals, Sequences

CONSTANTS Slots, NoSlot, Capacity

VARIABLES queued, leaving

Init == queued = <<>> /\ leaving = NoSlot

InUse == {queued[i] : i \in DOMAIN queued} \cup ({leaving} \ {NoSlot})

Enqueue(s) ==
  /\ s \notin InUse
  /\ Len(queued) + (IF leaving = NoSlot THEN 0 ELSE 1) < Capacity
  /\ queued' = Append(queued, s)
  /\ UNCHANGED leaving

Leave ==
  /\ queued # <<>> /\ leaving = NoSlot
  /\ queued' = Tail(queued)
  /\ leaving' = Head(queued)

Free == leaving # NoSlot /\ leaving' = NoSlot /\ UNCHANGED queued

Next == (\E s \in Slots : Enqueue(s)) \/ Leave \/ Free

Spec == Init /\ [][Next]_<<queued, leaving>>
=============================================================================
