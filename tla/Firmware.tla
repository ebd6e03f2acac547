------------------------------- MODULE Firmware -------------------------------
(***************************************************************************)
(* The station firmware firmware/carriage-v1: the boot and the loop of     *)
(* main.cpp, the machine of station_fsm.cpp, the open-loop carriage of     *)
(* carriage_controller.cpp and the MQTT layer of mqtt_station.cpp.         *)
(*                                                                         *)
(* It is one thread: a command is handled inside mqttLayer.loop(), at the  *)
(* head of the loop, and one deposit runs from settling to its terminal    *)
(* without returning there.  The link to the broker is lost at any moment. *)
(* AccelStepper, PubSubClient and the HX711 scale are external; a publish  *)
(* without a link is dropped.  Weights are grams.                          *)
(***************************************************************************)
EXTENDS Integers, Sequences, FiniteSets

CONSTANTS
  Ops,        \* operations whose routes the backend publishes
  NoOp,       \* the empty operation id
  Slots,      \* compartments, 1 is where the carriage homes
  Loads,      \* what a deposited item weighs
  MaxRoutes   \* bound on the routes taken

ASSUME FirmwareAssumption ==
  /\ NoOp \notin Ops
  /\ Slots \subseteq 1..4 /\ 1 \in Slots
  /\ Loads \subseteq Nat
  /\ MaxRoutes \in Nat

MinDeposit == 1   \* MIN_DEPOSIT_G, and settings.min_deposit_weight_grams

VARIABLES
  mode,      \* "setup"; "loop"; "reconnect", blocked until there is a link;
             \* "safe", enterSafeState from the loop; "failed", from setup()
  fsm,       \* StationFsm.state_
  carriage,  \* CarriageController.status_
  here,      \* the slot of currentMm_: where the firmware believes it is
  target,    \* the slot of targetMm_
  active,    \* activeOperation
  dest,      \* routedPosition, 0 is none
  lastRoute, \* lastRouteOperation_
  linked,    \* the TCP link to the broker is up
  deaf,      \* the link has no subscription to the command topic
  item,      \* the item on the carriage and what the scale says of it
  said,      \* the state in the last frame that carried one
  taken,     \* operations of the routes taken, in order
  results    \* deposit_result terminals handed to publishTerminal

vars == <<mode, fsm, carriage, here, target, active, dest, lastRoute, linked,
          deaf, item, said, taken, results>>

link == <<linked, deaf, lastRoute>>
motion == <<carriage, here, target>>
command == <<active, dest, taken>>

Contract == INSTANCE StationContract
  WITH MinWeight <- MinDeposit,
       answered <- [i \in 1..Len(results) |-> results[i].op]

Moving == carriage \in {"MOVING", "HOMING"}

\* transition() to s, whose refusal every caller ignores.
Go(s) == fsm' = IF s \in Contract!Allowed(fsm) THEN s ELSE fsm

\* transition() and the publishState after it.
GoAndSay(s) == Go(s) /\ said' = s

NoItem == [load |-> 0, weighed |-> 0, released |-> FALSE, gone |-> FALSE]

Init ==
  /\ mode = "setup" /\ fsm = "IDLE" /\ said = "IDLE"
  /\ carriage = "HOMING" /\ here = 1 /\ target = 1
  /\ active = NoOp /\ dest = 0 /\ lastRoute = NoOp
  /\ linked = FALSE /\ deaf = TRUE
  /\ item = NoItem
  /\ taken = <<>> /\ results = <<>>

-----------------------------------------------------------------------------
(* Motion: tick(), called by setup() and by every pass of the loop.         *)

\* The home switch closes: referenced, and backing off 3 mm.
HomeHit ==
  /\ mode = "setup" /\ carriage = "HOMING"
  /\ carriage' = "MOVING"
  /\ UNCHANGED <<mode, fsm, here, target, link, command, item, said, results>>

\* The switch never closes: emergencyStop, and setup() enters the safe state.
HomeTimeout ==
  /\ mode = "setup" /\ carriage = "HOMING"
  /\ carriage' = "ESTOP" /\ mode' = "failed"
  /\ UNCHANGED <<fsm, here, target, link, command, item, said, results>>

ArriveBlind ==         \* variant: currentMm_ is not updated
  /\ mode \in {"setup", "loop"} /\ carriage = "MOVING"
  /\ carriage' = "IDLE"
  /\ UNCHANGED <<mode, fsm, here, target, link, command, item, said, results>>

Arrive ==
  /\ mode \in {"setup", "loop"} /\ carriage = "MOVING"
  /\ carriage' = "IDLE" /\ here' = target
  /\ UNCHANGED <<mode, fsm, target, link, command, item, said, results>>

\* The 6 s watchdog.
Stall ==
  /\ mode \in {"setup", "loop"} /\ carriage = "MOVING"
  /\ carriage' = "JAMMED"
  /\ mode' = IF mode = "setup" THEN "failed" ELSE mode
  /\ UNCHANGED <<fsm, here, target, link, command, item, said, results>>

\* The end of setup(): mqttLayer.begin, which connects if the broker answers
\* and subscribes to nothing, and onRoute is set.
SetupDone ==
  /\ mode = "setup" /\ carriage = "IDLE"
  /\ mode' = "loop"
  /\ linked' \in BOOLEAN
  /\ UNCHANGED <<fsm, motion, command, lastRoute, deaf, item, said, results>>

-----------------------------------------------------------------------------
(* The link.                                                                *)

Drop ==
  /\ linked
  /\ linked' = FALSE /\ deaf' = TRUE
  /\ UNCHANGED <<mode, fsm, motion, command, lastRoute, item, said, results>>

\* Where the firmware is about to call mqttLayer.loop().
AtHead ==
  \/ mode \in {"safe", "failed"}
  \/ (mode = "loop" /\ (fsm = "IDLE" \/ Moving))

\* mqttLayer.loop() finds no link and stays in reconnect(); the motor stands,
\* and nothing checks that it was moving.
LinkLost ==
  /\ mode = "loop" /\ AtHead /\ ~linked
  /\ mode' = "reconnect"
  /\ UNCHANGED <<fsm, motion, link, command, item, said, results>>

Reconnect ==
  /\ mode \in {"reconnect", "safe", "failed"} /\ ~linked
  /\ linked' = TRUE /\ deaf' = FALSE
  /\ mode' = IF mode = "reconnect" THEN "loop" ELSE mode
  /\ UNCHANGED <<fsm, motion, command, lastRoute, item, said, results>>

\* The check behind tick(), which the link must be lost just before.
LoseMoving ==
  /\ mode = "loop" /\ ~linked /\ Moving
  /\ mode' = "safe"
  /\ UNCHANGED <<fsm, motion, link, command, item, said, results>>

-----------------------------------------------------------------------------
(* Commands: _staticOnMessage and onRoute.                                  *)

Listening == AtHead /\ linked /\ ~deaf

\* onRoute takes the route; the rest of it is Depart.  Its publishState passes
\* an `extra`, for which doc.to<JsonObject>() clears the document: that frame
\* holds the destination alone, neither the state nor the operation.
TakeRoute(o, d) ==
  /\ active' = o /\ dest' = d
  /\ Go("ROUTING")
  /\ taken' = Append(taken, o)
  /\ UNCHANGED <<mode, motion, linked, deaf, item, said, results>>

RouteAny(o, d) ==      \* variant: onRoute does not ask for IDLE
  /\ Listening /\ mode # "failed" /\ o # lastRoute /\ Len(taken) < MaxRoutes
  /\ lastRoute' = o
  /\ TakeRoute(o, d)

Route(o, d) ==
  /\ Listening /\ mode # "failed" /\ o # lastRoute /\ Len(taken) < MaxRoutes
  /\ fsm = "IDLE"
  /\ lastRoute' = o
  /\ TakeRoute(o, d)

\* onRoute is busy, or setup() failed before it was set: the route is dropped
\* and remembered in the place of the one being served.
RouteRefused(o) ==
  /\ Listening /\ o # lastRoute
  /\ fsm # "IDLE" \/ mode = "failed"
  /\ lastRoute' = o
  /\ UNCHANGED <<mode, fsm, motion, command, linked, deaf, item, said, results>>

\* The end of onRoute: MOVING, the item is weighed (0 when the scale does not
\* answer) and routeToPosition starts, unless the carriage is there already;
\* then a jam stays a jam.
Depart ==
  /\ fsm = "ROUTING"
  /\ GoAndSay("MOVING")
  /\ \E w \in Loads : \E weighed \in {w, 0} :
       item' = [NoItem EXCEPT !.load = w, !.weighed = weighed]
  /\ IF here = dest THEN UNCHANGED motion
     ELSE carriage' = "MOVING" /\ target' = dest /\ UNCHANGED here
  /\ UNCHANGED <<mode, link, command, results>>

-----------------------------------------------------------------------------
(* driveOperation: one pass from the end of the motion to the terminal.     *)
(* Its WRONG_POSITION and SENSOR_ERROR branches are never taken, see        *)
(* ArrivedMeansThere and TypeOK.                                            *)

\* publishResult: carriagePosition() goes out as mechanism_position, so the
\* carriage_position that the backend asks for is absent, which it reads as 0.
Terminal(status, grams, sound, gone) ==
  [op |-> active, status |-> status, actual |-> here, weight |-> grams,
   stable |-> sound, beam |-> gone, mechanical |-> status = "confirmed",
   carriage |-> 0, mechanism |-> here, routed |-> dest, item |-> item]

Report(t) == results' = Append(results, t)

Driving == mode = "loop" /\ fsm = "MOVING" /\ ~Moving

JammedRetry ==         \* variant: a jam is tried again instead of reported
  /\ Driving /\ carriage = "JAMMED"
  /\ carriage' = "MOVING"
  /\ UNCHANGED <<mode, fsm, here, target, link, command, item, said, results>>

Jammed ==
  /\ Driving /\ carriage = "JAMMED"
  /\ GoAndSay("JAMMED")
  /\ Report(Terminal("jam", 0, FALSE, FALSE))
  /\ UNCHANGED <<mode, motion, link, command, item>>

Settle ==
  /\ Driving /\ carriage = "IDLE"
  /\ GoAndSay("POSITIONED")
  /\ UNCHANGED <<mode, motion, link, command, item, results>>

Ready ==
  /\ fsm = "POSITIONED"
  /\ GoAndSay("READY_FOR_DEPOSIT")
  /\ UNCHANGED <<mode, motion, link, command, item, results>>

Detect ==
  /\ fsm = "READY_FOR_DEPOSIT"
  /\ GoAndSay("DETECTING")
  /\ UNCHANGED <<mode, motion, link, command, item, results>>

Distance(a, b) == IF a < b THEN b - a ELSE a - b

\* What one reading of the scale tells the loop that waits for the unloading.
SeemsGone(now) ==
  /\ Distance(now, item.weighed) <= 2 * MinDeposit
  /\ now < MinDeposit \/ Distance(now, item.weighed) > MinDeposit

\* The 4 s of readings: the load until it is released, 0 after it or when the
\* scale does not answer.
Measure ==
  /\ fsm = "DETECTING"
  /\ \E released \in BOOLEAN : \E readings \in SUBSET {item.load, 0} :
       /\ readings # {}
       /\ released => 0 \in readings
       /\ item' = [item EXCEPT !.released = released,
                               !.gone = \E now \in readings : SeemsGone(now)]
  /\ GoAndSay("MEASURING")
  /\ UNCHANGED <<mode, motion, link, command, results>>

Sound == item.weighed >= MinDeposit /\ item.gone

\* UNDERWEIGHT is entered and reported, but not published as a state.
Underweight ==
  /\ fsm = "MEASURING" /\ ~Sound
  /\ Go("UNDERWEIGHT")
  /\ Report(Terminal("underweight", item.weighed, FALSE, item.gone))
  /\ UNCHANGED <<mode, motion, link, command, item, said>>

ConfirmUnweighed ==    \* variant: the weight measured on the way is not asked
  /\ fsm = "MEASURING" /\ item.gone
  /\ GoAndSay("DEPOSIT_CONFIRMED")
  /\ Report(Terminal("confirmed", item.weighed, TRUE, item.gone))
  /\ UNCHANGED <<mode, motion, link, command, item>>

Confirm ==
  /\ fsm = "MEASURING" /\ Sound
  /\ GoAndSay("DEPOSIT_CONFIRMED")
  /\ Report(Terminal("confirmed", item.weighed, TRUE, item.gone))
  /\ UNCHANGED <<mode, motion, link, command, item>>

\* resetToIdle.
Reset ==
  /\ fsm \in {"JAMMED", "UNDERWEIGHT", "DEPOSIT_CONFIRMED"}
  /\ GoAndSay("RESETTING")
  /\ UNCHANGED <<mode, motion, link, command, item, results>>

Rest ==
  /\ fsm = "RESETTING"
  /\ GoAndSay("IDLE")
  /\ active' = NoOp /\ dest' = 0
  /\ item' = NoItem
  /\ UNCHANGED <<mode, motion, link, taken, results>>

-----------------------------------------------------------------------------
Tick == HomeHit \/ HomeTimeout \/ Arrive \/ Stall \/ SetupDone

Drive ==
  \/ Depart \/ Jammed \/ Settle \/ Ready \/ Detect \/ Measure \/ Underweight
  \/ Confirm \/ Reset \/ Rest

Next ==
  \/ Tick \/ Drive
  \/ Drop \/ LinkLost \/ Reconnect \/ LoseMoving
  \/ \E o \in Ops :
       \/ \E d \in Slots : Route(o, d)
       \/ RouteRefused(o)

Spec == Init /\ [][Next]_vars

\* The loop runs on: each pass calls tick(), whose watchdog bounds the motion
\* even if the link comes and goes between the passes.  A broker that was lost
\* is reachable again some time.
Fairness == SF_vars(Tick) /\ WF_vars(Drive) /\ WF_vars(Reconnect)

FairSpec == Spec /\ Fairness

-----------------------------------------------------------------------------
(* Properties.                                                              *)

Grams == Loads \cup {0}
Scale == [load : Grams, weighed : Grams, released : BOOLEAN, gone : BOOLEAN]

TerminalType ==
  [op : Ops, status : {"confirmed", "underweight", "jam"}, actual : Slots,
   weight : Grams, stable : BOOLEAN, beam : BOOLEAN, mechanical : BOOLEAN,
   carriage : {0}, mechanism : Slots, routed : Slots, item : Scale]

\* The types of the variables; the carriage of a station that left setup() is
\* referenced, so that its loop never sees the states of the boot.
TypeOK ==
  /\ mode \in {"setup", "loop", "reconnect", "safe", "failed"}
  /\ fsm \in {"IDLE", "ROUTING", "MOVING", "POSITIONED", "READY_FOR_DEPOSIT",
              "DETECTING", "MEASURING", "DEPOSIT_CONFIRMED", "RESETTING",
              "JAMMED", "UNDERWEIGHT"}
  /\ carriage \in IF mode \in {"setup", "failed"}
                  THEN {"HOMING", "MOVING", "IDLE", "JAMMED", "ESTOP"}
                  ELSE {"IDLE", "MOVING", "JAMMED"}
  /\ here \in Slots /\ target \in Slots
  /\ active \in Ops \cup {NoOp} /\ dest \in Slots \cup {0}
  /\ lastRoute \in Ops \cup {NoOp}
  /\ linked \in BOOLEAN /\ deaf \in BOOLEAN /\ (linked \/ deaf)
  /\ item \in Scale
  /\ taken \in Seq(Ops) /\ results \in Seq(TerminalType)

\* The state whose frame is the last one out when the machine is in s: the
\* frame of ROUTING is cleared (mqtt_station.cpp:88-91) and UNDERWEIGHT has
\* none (main.cpp:145-146).
LastFrameIn(s) ==
  CASE s = "ROUTING"     -> "IDLE"
    [] s = "UNDERWEIGHT" -> "MEASURING"
    [] OTHER             -> s

\* The backend trusts the state it was told last: it is the machine's, or the
\* one before it where the code publishes none, so every transition() whose
\* result is ignored did succeed.
PublishedIsState == said = LastFrameIn(fsm)

\* A carriage that came to rest without a jam is where the active route sends
\* it, so driveOperation's wrong-position branch is never taken: the carriage
\* is open-loop and has nothing to contradict it.
ArrivedMeansThere ==
  Driving => here = dest \/ carriage = "JAMMED"

\* What the station's parts may rely on between two passes of its loop.
StationInv == TypeOK /\ PublishedIsState /\ ArrivedMeansThere

\* A confirmed terminal carries the weight of an item that was on the carriage
\* and above the minimum: a scale that does not answer confirms nothing.
ConfirmedWasWeighed ==
  \A i \in 1..Len(results) :
    results[i].status = "confirmed" =>
      /\ results[i].weight = results[i].item.load
      /\ results[i].weight >= MinDeposit

\* Each route taken is answered by one terminal before the next is taken.
KeepsContract == Contract!Spec

\* A route ends at rest or in the safe state, whatever the link does.
RouteEnds == fsm # "IDLE" ~> (fsm = "IDLE" \/ mode = "safe")

\* docs/carriage-v1.md:53-54, the simulator (whose default deposit is accepted)
\* is protocol-identical to this firmware: an item that was weighed, carried to
\* its compartment and released is a terminal the backend accepts.
CleanDepositAccepted ==
  \A i \in 1..Len(results) :
    LET r == results[i] IN
    /\ r.actual = r.routed /\ r.status # "jam" /\ r.item.released
    /\ r.item.weighed = r.item.load /\ r.item.load >= MinDeposit
    => Contract!Accepts(r, r.routed)
=============================================================================
