----------------------------- MODULE BlockDevice -----------------------------
(***************************************************************************)
(* What the driver promises libblock-device (Block_device::Device): a read *)
(* or write request it accepted is answered through its callback exactly   *)
(* once, requests are answered in the order they were accepted, and at     *)
(* most Capacity of them are outstanding.                                  *)
(***************************************************************************)
EXTENDS Naturals, Sequences

CONSTANTS Reqs, Capacity

VARIABLES pending,      \* accepted and unanswered requests, oldest first
          answer        \* the last answer each request got, "none" before it

Init == pending = <<>> /\ answer = [r \in Reqs |-> "none"]

Outstanding == {pending[i] : i \in DOMAIN pending}

\* inout_data() returns L4_EOK.
Accept(r) ==
  /\ r \notin Outstanding /\ Len(pending) < Capacity
  /\ pending' = Append(pending, r)
  /\ answer' = [answer EXCEPT ![r] = "none"]

\* The callback of the oldest request is called.
Answer ==
  /\ pending # <<>>
  /\ pending' = Tail(pending)
  /\ \E a \in {"ok", "eio"} : answer' = [answer EXCEPT ![Head(pending)] = a]

Next == (\E r \in Reqs : Accept(r)) \/ Answer

SafeSpec == Init /\ [][Next]_<<pending, answer>>
Answers == WF_<<pending, answer>>(Answer)
Spec == SafeSpec /\ Answers
=============================================================================
