--------------------------- MODULE StationContract ---------------------------
(***************************************************************************)
(* What a station owes the backend, whatever mechanism is inside it        *)
(* (docs/station-mechanism-abstraction.md): it takes one route at a time   *)
(* and answers each route it took with one terminal deposit_result, in the *)
(* order it took them; and the gates of the backend that judge a terminal  *)
(* (deposit_service._physical_failure).                                    *)
(***************************************************************************)
EXTENDS Integers, Sequences

CONSTANTS Ops, MinWeight   \* operations; settings.min_deposit_weight_grams

VARIABLES
  taken,     \* operations in the order the station took their routes
  answered   \* operations in the order their terminals were sent

Init == taken = <<>> /\ answered = <<>>

Take(o) ==
  /\ answered = taken
  /\ taken' = Append(taken, o)
  /\ UNCHANGED answered

Answer ==
  /\ Len(answered) < Len(taken)
  /\ answered' = Append(answered, taken[Len(answered) + 1])
  /\ UNCHANGED taken

Next == (\E o \in Ops : Take(o)) \/ Answer

Spec == Init /\ [][Next]_<<taken, answered>>

\* A state of the lifecycle and the states transition() lets it enter.
Errors == {"JAMMED", "WRONG_POSITION", "UNDERWEIGHT", "SENSOR_ERROR", "TIMEOUT"}

Allowed(state) ==
  CASE state = "IDLE"              -> {"ROUTING"}
    [] state = "ROUTING"           -> {"MOVING"}
    [] state = "MOVING"            -> {"POSITIONED"} \cup (Errors \ {"UNDERWEIGHT"})
    [] state = "POSITIONED"        -> {"READY_FOR_DEPOSIT", "JAMMED", "WRONG_POSITION"}
    [] state = "READY_FOR_DEPOSIT" -> {"DETECTING"}
    [] state = "DETECTING"         -> {"MEASURING", "SENSOR_ERROR"}
    [] state = "MEASURING"         -> {"DEPOSIT_CONFIRMED", "UNDERWEIGHT", "SENSOR_ERROR"}
    [] state = "RESETTING"         -> {"IDLE"}
    [] OTHER                       -> {"RESETTING"}

\* _physical_failure finds nothing against terminal e of a session that
\* expects the waste at position p.
Accepts(e, p) ==
  /\ e.status = "confirmed"
  /\ e.actual = p
  /\ e.weight >= MinWeight
  /\ e.stable /\ e.beam /\ e.mechanical
  /\ e.carriage = e.actual
=============================================================================
