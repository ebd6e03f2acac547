------------------------------- MODULE MCPhone -------------------------------
(***************************************************************************)
(* The phone's two waits, in one run: for the session a tablet claims with *)
(* its QR code (Handoff), and for the outcome of a session it watches      *)
(* (LiveWatch).  part picks the one a behaviour explores, and of the first *)
(* either the tablets with their tokens, or the sessions that close and    *)
(* open again while answers are on their way.                              *)
(***************************************************************************)
EXTENDS Handoff, LiveWatch

VARIABLE part

ASSUME WatchAssumption

MCInit == part \in {"claims", "reopens", "watch"} /\ Init /\ WatchInit

HandoffPart ==
  /\ part # "watch" /\ Next
  /\ part = "claims" => UNCHANGED hold
  /\ part = "reopens" => UNCHANGED <<token, stale, job>>
  /\ UNCHANGED <<part, watchVars>>
WatchPart == part = "watch" /\ WatchNext /\ UNCHANGED <<part, vars>>

MCSpec ==
  /\ MCInit /\ [][HandoffPart \/ WatchPart]_<<part, vars, watchVars>>
  /\ part # "watch" => Fairness
  /\ part = "watch" => WatchFairness
=============================================================================
