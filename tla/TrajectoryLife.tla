--------------------------- MODULE TrajectoryLife ---------------------------
(***************************************************************************)
(* What the task path promises about trajectories, whoever writes them and *)
(* in whatever order.  A trajectory is a set of parts, stored one by one   *)
(* and never taken back.  Its completion is announced at most once, and    *)
(* only when every part is there.  The agent learns from a trajectory at   *)
(* most once, and only after the announcement.                             *)
(***************************************************************************)
EXTENDS Naturals

CONSTANTS Trajectories, Parts

VARIABLES
  parts,      \* the parts stored of each trajectory
  announced,  \* trajectories whose completion has been announced
  learned     \* how often the agent has learned from each trajectory

vars == <<parts, announced, learned>>

Init ==
  /\ parts = [k \in Trajectories |-> {}]
  /\ announced = {}
  /\ learned = [k \in Trajectories |-> 0]

Store(k, p) ==
  /\ parts' = [parts EXCEPT ![k] = @ \union {p}]
  /\ UNCHANGED <<announced, learned>>

Announce(k) ==
  /\ parts[k] = Parts /\ k \notin announced
  /\ announced' = announced \union {k}
  /\ UNCHANGED <<parts, learned>>

Learn(k) ==
  /\ k \in announced /\ learned[k] = 0
  /\ learned' = [learned EXCEPT ![k] = 1]
  /\ UNCHANGED <<parts, announced>>

Next == \E k \in Trajectories : (\E p \in Parts : Store(k, p)) \/ Announce(k) \/ Learn(k)

Spec == Init /\ [][Next]_vars

-----------------------------------------------------------------------------
(* Properties. *)

TypeOK ==
  /\ parts \in [Trajectories -> SUBSET Parts]
  /\ announced \subseteq Trajectories
  /\ learned \in [Trajectories -> Nat]

\* the agent learns from a trajectory once, and from a complete one: what it reads from the store
\* (AgentContext.observe_reward) has every part
LearnedOnceAndComplete ==
  \A k \in Trajectories : learned[k] <= 1 /\ (learned[k] = 1 => parts[k] = Parts)

=============================================================================
