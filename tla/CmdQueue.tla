------------------------------ MODULE CmdQueue ------------------------------
(***************************************************************************)
(* The command queue as a state machine of its own, under the usage its    *)
(* callers follow: work_done() may be tried by the holder of any slot at   *)
(* any time, and destruct() is only reached when work_done() did not throw *)
(* (flush(), inout_data(), handle_irq_inout() and start_device_scan() call *)
(* the two in a row).                                                      *)
(***************************************************************************)
EXTENDS CmdRing

-----------------------------------------------------------------------------
VARIABLES
  ring,         \* the queue
  retiring,     \* slot whose work_done() succeeded and destruct() is to come
  fault         \* what the ring itself threw, "" when nothing

vars == <<ring, retiring, fault>>

Faults == {"entry not destroyed", "was not created", "destruct == working"}

Init == ring = EmptyQueue /\ retiring = NoSlot /\ fault = ""

\* Cmd_queue::create(): the cursor has moved by the time the check throws.
Create ==
  /\ CanCreate(ring)
  /\ ring' = Created(ring)
  /\ fault' = IF CreateThrows(ring) THEN "entry not destroyed" ELSE fault
  /\ UNCHANGED retiring

\* Cmd_queue::cmd_work_done() by the holder of slot s.  Tried out of turn it
\* throws and changes nothing.
CmdWorkDone(s) ==
  /\ retiring = NoSlot
  /\ WorkDoneAllowed(ring, s)
  /\ ring' = WorkDone(ring)
  /\ retiring' = s
  /\ UNCHANGED fault

\* Cmd_queue::cmd_destruct(): the flag is cleared before the check throws.
CmdDestruct(s) ==
  /\ retiring = s
  /\ IF DestructAllowed(ring, s)
       THEN ring' = Destructed(ring, s) /\ UNCHANGED fault
       ELSE /\ ring' = [ring EXCEPT !.enqueued = @ \ {s}]
            /\ fault' = IF s \in ring.enqueued THEN "destruct == working"
                                               ELSE "was not created"
  /\ retiring' = NoSlot

Next == \/ Create
        \/ \E s \in Slots : CmdWorkDone(s) \/ CmdDestruct(s)

Spec == Init /\ [][Next]_vars

-----------------------------------------------------------------------------
TypeOK == /\ ring \in Queues
          /\ retiring \in Slots \cup {NoSlot}
          /\ fault \in Faults \cup {""}

\* The slots flagged `enqueued' are exactly those from the destruct cursor up
\* to the create cursor: create(), cmd_work_done() and cmd_destruct() keep the
\* flag of every Cmd and the three cursors of the ring consistent.
FlagsMatchCursors ==
  ring.enqueued = {s \in Slots : Distance(ring.destruct, s)
                                   < Distance(ring.destruct, ring.create)}

\* The working cursor never leaves the occupied part of the ring, and trails
\* destruct by exactly the one slot between its work_done() and its destruct().
CursorsInOrder ==
  /\ Distance(ring.destruct, ring.working)
       <= Distance(ring.destruct, ring.create)
  /\ retiring = NoSlot => ring.destruct = ring.working
  /\ retiring # NoSlot => /\ retiring = ring.destruct
                          /\ ring.working = WrapAround(ring.destruct + 1)

\* create() never hands out a slot in use and destruct() never overtakes
\* working: neither internal check of the queue (cmd.h:290, cmd.h:320) can fire,
\* in whatever order the commands are created and retired.
NoFault == fault = ""

\* The slots between working and create, oldest first.
Queued == [i \in 1 .. Distance(ring.working, ring.create) |->
             WrapAround(ring.working + i - 1)]

Fifo == INSTANCE CmdFifo WITH Capacity <- Entries - 1,
                              queued <- Queued, leaving <- retiring

\* Cmd_queue is a first-in first-out queue of Entries - 1 commands: slots are
\* worked off and freed in the order create() handed them out, and a slot is
\* handed out again only after its destruct().
ImplementsFifo == Fifo!Spec
=============================================================================
