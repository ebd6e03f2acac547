------------------------------ MODULE MCDeposit ------------------------------
(* Instances of DepositLifecycle for TLC. *)
EXTENDS DepositLifecycle, TLC

CONSTANTS u1, web2,
  Scenes    \* the scenes of this instance, see below

\* Every session belongs to the first student.
SameOwner == [o \in Ops |-> u1]

\* The seeded policies (services/seed.py), 5 points counted as one: plastic and
\* paper in 1 and 3, metal in 2, and "other" in 4, which earns nothing.
SeedPolicy == [p \in Positions |-> CASE p = 2 -> 2 [] p = 4 -> 0 [] OTHER -> 1]

\* Operations are interchangeable when one student owns them all.
OpSymmetry == Permutations(Ops)

\* Everything at once is too many states: a behaviour is one of two scenes.  In
\* "uploads" both request threads take uploads while one other thread completes;
\* in "closings" only the first does, while the second cancels, the MQTT thread
\* reports telemetry, and both complete deposits.
VARIABLE scene

MCInit == Init /\ scene \in Scenes

MCNext ==
  /\ Next
  /\ UNCHANGED scene
  /\ scene = "uploads" => \A w \in Workers :
       /\ job'[w].at \notin {"cancel", "phase"}
       /\ w = web2 => job'[w].at \notin {"reject", "award"}
  /\ scene = "closings" =>
       \A w \in Workers : w = web2 => job'[w].at \notin {"analyze", "classify"}

MCSpec == MCInit /\ [][MCNext]_<<vars, scene>>
=============================================================================
