------------------------------- MODULE CmdRing -------------------------------
(***************************************************************************)
(* The host-side command queue, class Cmd_queue of cmd.h, as operators.    *)
(*                                                                         *)
(* A ring of Entries slots with three cursors.  A slot is handed out by    *)
(* create(), leaves the working part of the ring with cmd_work_done() and  *)
(* becomes free again with cmd_destruct().  The payload of a slot (the Cmd *)
(* itself) belongs to the users of the ring; only its `enqueued' flag is   *)
(* ring state and kept here, as the set q.enqueued of slot numbers.        *)
(***************************************************************************)
EXTENDS Integers

CONSTANT Entries        \* number of slots, 32 in the code

ASSUME EntriesAssumption == Entries \in Nat /\ Entries > 1

Slots == 0 .. Entries - 1

NoSlot == -1            \* nullptr

Queues == [create : Slots, working : Slots, destruct : Slots,
           enqueued : SUBSET Slots]

EmptyQueue == [create |-> 0, working |-> 0, destruct |-> 0, enqueued |-> {}]

WrapAround_Missing(i) == i
WrapAround(i) == i % Entries

\* Number of slots from cursor a up to, and not including, cursor b.
Distance(a, b) == IF a <= b THEN b - a ELSE b + Entries - a

IsFull_Never(q) == FALSE
IsFull(q) == WrapAround(q.create + 1) = q.destruct

\* The slot create() hands out, when it neither fails nor throws.
CanCreate(q) == ~IsFull(q)

Created(q) == [q EXCEPT !.create = WrapAround(q.create + 1),
                        !.enqueued = @ \cup {q.create}]

\* create() throws "Command queue entry not destroyed" on a slot in use.
CreateThrows(q) == q.create \in q.enqueued

Working_Newest(q) == IF q.working = q.create THEN NoSlot
                     ELSE (q.create + Entries - 1) % Entries
Working(q) == IF q.working = q.create THEN NoSlot ELSE q.working

\* cmd_work_done() throws "Queue disorder (working != cmd)" otherwise.
WorkDoneAllowed_Any(q, s) == s # NoSlot
WorkDoneAllowed(q, s) == Working(q) = s

WorkDone(q) == [q EXCEPT !.working = WrapAround(q.working + 1)]

\* cmd_destruct() throws "Queue disorder (destruct == working)" otherwise.
DestructAllowed(q, s) == s \in q.enqueued /\ q.destruct # q.working

Destructed(q, s) == [q EXCEPT !.destruct = WrapAround(q.destruct + 1),
                              !.enqueued = @ \ {s}]

\* A ring between two calls of its users: cursors in range, the flags are those
\* of the slots from destruct to create, and nothing is half retired.
RingOK(q) ==
  /\ q \in Queues
  /\ q.enqueued = {s \in Slots : Distance(q.destruct, s)
                                   < Distance(q.destruct, q.create)}
  /\ q.working = q.destruct
=============================================================================
