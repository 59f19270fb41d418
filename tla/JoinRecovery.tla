------------------------------ MODULE JoinRecovery ------------------------------
(***************************************************************************)
(* What recovery promises a tab that shows a task, whatever the socket and *)
(* the server do: one join counts at a time, every join has a number of    *)
(* its own by which the answer of an older one is told apart, and a        *)
(* recovery asked for while a join counts is kept until another join       *)
(* starts or the task is closed.                                           *)
(***************************************************************************)
EXTENDS Naturals

VARIABLES
  phase,   \* closed, waiting for the socket, joining or settled
  wanted,  \* another recovery is kept
  number   \* of the last recovery

Init == phase = "closed" /\ wanted = FALSE /\ number = 0

\* While a join counts another one starts only for the recovery that was kept.
Start ==
  /\ phase = "joining" => wanted
  /\ phase' = "joining" /\ wanted' = FALSE /\ number' = number + 1

\* Without a socket a recovery waits, and what was kept stays kept.
Await ==
  /\ phase' = "waiting" /\ wanted' \in {wanted, TRUE} /\ UNCHANGED number

Keep == phase = "joining" /\ wanted' = TRUE /\ UNCHANGED <<phase, number>>

Settle == phase \in {"joining", "waiting"} /\ phase' = "settled" /\ UNCHANGED <<wanted, number>>

Close == phase # "closed" /\ phase' = "closed" /\ wanted' = FALSE /\ number' = number + 1

Next == Start \/ Await \/ Keep \/ Settle \/ Close

Spec == Init /\ [][Next]_<<phase, wanted, number>>
=============================================================================
