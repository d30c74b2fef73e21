------------------------------- MODULE Delivery -------------------------------
(***************************************************************************)
(* What the messenger promises about a message, whatever route it takes:   *)
(* it is sent at most once, then it is shown once or it is lost, and never  *)
(* afterwards anything else.  A process that stops may lose several at once. *)
(***************************************************************************)
CONSTANT Msg

VARIABLE status

Init == status = [m \in Msg |-> "new"]

Send(m) == status[m] = "new"  /\ status' = [status EXCEPT ![m] = "sent"]
Show(m) == status[m] = "sent" /\ status' = [status EXCEPT ![m] = "shown"]

Lose(S) ==
  /\ \A m \in S : status[m] = "sent"
  /\ status' = [m \in Msg |-> IF m \in S THEN "lost" ELSE status[m]]

Next ==
  \/ \E m \in Msg : Send(m) \/ Show(m)
  \/ \E S \in SUBSET Msg : Lose(S)

Spec == Init /\ [][Next]_status
=============================================================================
