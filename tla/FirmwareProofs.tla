---------------------------- MODULE FirmwareProofs ----------------------------
(***************************************************************************)
(* The carriage firmware keeps its promises for any number of routes,      *)
(* operations, compartments and loads, whatever the link does: what it     *)
(* publishes is its state, a carriage at rest is where it was sent, a      *)
(* confirmed deposit was weighed, and each route taken is answered once,   *)
(* in order (StationContract).                                             *)
(***************************************************************************)
EXTENDS Firmware, TLAPS

\* A route has been taken and not answered.
Serving == {"ROUTING", "MOVING", "POSITIONED", "READY_FOR_DEPOSIT", "DETECTING",
            "MEASURING"}

\* Only the MOVING state moves the carriage, and it moves to the routed
\* compartment or is there; nothing is routed or heard before setup() is over.
RouteInv ==
  /\ mode \in {"setup", "failed"} => fsm = "IDLE"
  /\ mode = "setup" => deaf
  /\ mode \notin {"setup", "failed"} /\ carriage = "MOVING" => fsm = "MOVING"
  /\ fsm # "IDLE" => active \in Ops /\ dest \in Slots
  /\ fsm = "MOVING" =>
       \/ carriage = "JAMMED"
       \/ carriage = "MOVING" /\ target = dest
       \/ carriage = "IDLE" /\ here = dest

\* The scale that answered before the motion told the load.
ScaleInv == item.weighed \in {item.load, 0}

\* The answers given are those of the routes taken, but for the one in service.
OrderInv ==
  /\ Len(taken) = Len(results) + (IF fsm \in Serving THEN 1 ELSE 0)
  /\ \A i \in 1..Len(results) : results[i].op = taken[i]
  /\ fsm \in Serving => active = taken[Len(taken)]

Inv ==
  /\ TypeOK /\ PublishedIsState
  /\ RouteInv /\ ScaleInv /\ OrderInv
  /\ ConfirmedWasWeighed

-----------------------------------------------------------------------------
\* Every transition() whose result the callers ignore is one the table allows.
LEMMA Transitions ==
  /\ Depart => fsm' = "MOVING" /\ said' = "MOVING"
  /\ Jammed => fsm' = "JAMMED" /\ said' = "JAMMED"
  /\ Settle => fsm' = "POSITIONED" /\ said' = "POSITIONED"
  /\ Ready => fsm' = "READY_FOR_DEPOSIT" /\ said' = "READY_FOR_DEPOSIT"
  /\ Detect => fsm' = "DETECTING" /\ said' = "DETECTING"
  /\ Measure => fsm' = "MEASURING" /\ said' = "MEASURING"
  /\ Underweight => fsm' = "UNDERWEIGHT" /\ said' = said
  /\ Confirm => fsm' = "DEPOSIT_CONFIRMED" /\ said' = "DEPOSIT_CONFIRMED"
  /\ Reset => fsm' = "RESETTING" /\ said' = "RESETTING"
  /\ Rest => fsm' = "IDLE" /\ said' = "IDLE"
<1> USE DEF GoAndSay, Go, Contract!Allowed, Contract!Errors
<1>1. Depart => fsm' = "MOVING" /\ said' = "MOVING"
  BY DEF Depart
<1>2. Jammed => fsm' = "JAMMED" /\ said' = "JAMMED"
  BY DEF Jammed, Driving
<1>3. Settle => fsm' = "POSITIONED" /\ said' = "POSITIONED"
  BY DEF Settle, Driving
<1>4. Ready => fsm' = "READY_FOR_DEPOSIT" /\ said' = "READY_FOR_DEPOSIT"
  BY DEF Ready
<1>5. Detect => fsm' = "DETECTING" /\ said' = "DETECTING"
  BY DEF Detect
<1>6. Measure => fsm' = "MEASURING" /\ said' = "MEASURING"
  BY DEF Measure
<1>7. Underweight => fsm' = "UNDERWEIGHT" /\ said' = said
  BY DEF Underweight
<1>8. Confirm => fsm' = "DEPOSIT_CONFIRMED" /\ said' = "DEPOSIT_CONFIRMED"
  BY DEF Confirm
<1>9. Reset => fsm' = "RESETTING" /\ said' = "RESETTING"
  BY DEF Reset
<1>10. Rest => fsm' = "IDLE" /\ said' = "IDLE"
  BY DEF Rest
<1>. QED
  BY <1>1, <1>2, <1>3, <1>4, <1>5, <1>6, <1>7, <1>8, <1>9, <1>10

\* onRoute takes a route only in IDLE, which may enter ROUTING.
LEMMA RouteTaken ==
  ASSUME NEW o \in Ops, NEW d \in Slots, Route(o, d)
  PROVE  /\ fsm = "IDLE" /\ fsm' = "ROUTING" /\ said' = said
         /\ active' = o /\ dest' = d /\ taken' = Append(taken, o)
         /\ mode \notin {"setup", "failed", "reconnect"} /\ lastRoute' = o
         /\ UNCHANGED <<mode, motion, linked, deaf, item, results>>
BY DEF Route, TakeRoute, Go, Contract!Allowed, Listening, AtHead

\* A terminal that is sent in service is of its type, and names the operation
\* and the item it is about.
LEMMA TerminalTyped ==
  ASSUME TypeOK, RouteInv, fsm # "IDLE",
         NEW status \in {"confirmed", "underweight", "jam"},
         NEW grams \in Grams, NEW sound \in BOOLEAN, NEW gone \in BOOLEAN
  PROVE  Terminal(status, grams, sound, gone) \in TerminalType
BY DEF Terminal, TerminalType, TypeOK, RouteInv

\* What a terminal says of the deposit.
LEMMA TerminalNames ==
  ASSUME NEW status, NEW grams, NEW sound, NEW gone
  PROVE  /\ Terminal(status, grams, sound, gone).op = active
         /\ Terminal(status, grams, sound, gone).status = status
         /\ Terminal(status, grams, sound, gone).weight = grams
         /\ Terminal(status, grams, sound, gone).item = item
BY DEF Terminal

-----------------------------------------------------------------------------
\* The first state is typed.
LEMMA StartTypes == Init => TypeOK
<1> HAVE Init
<1>1. taken \in Seq(Ops) /\ results \in Seq(TerminalType)
  BY DEF Init
<1>2. item \in Scale
  BY DEF Init, NoItem, Scale, Grams
<1>. QED
  BY <1>1, <1>2, FirmwareAssumption DEF Init, TypeOK

\* The boot, the motion and the link.
LEMMA QuietTypes ==
  ASSUME TypeOK, RouteInv, Tick \/ Drop \/ LinkLost \/ Reconnect \/ LoseMoving
  PROVE  TypeOK'
<1>1. /\ item \in Scale /\ taken \in Seq(Ops) /\ results \in Seq(TerminalType)
      /\ UNCHANGED <<item, taken, results, active, dest, lastRoute, fsm>>
  BY DEF TypeOK, Tick, HomeHit, HomeTimeout, Arrive, Stall, SetupDone, Drop, LinkLost,
         Reconnect, LoseMoving, link, motion, command
<1>2. CASE Tick
  <2>1. CASE HomeHit \/ HomeTimeout \/ Arrive \/ Stall
    BY <1>1, <2>1 DEF TypeOK, HomeHit, HomeTimeout, Arrive, Stall, link, motion, command
  <2>2. CASE SetupDone
    <3>1. linked' \in BOOLEAN /\ deaf' \in BOOLEAN /\ (linked' \/ deaf')
      BY <2>2 DEF TypeOK, RouteInv, SetupDone
    <3>. QED
      BY <1>1, <2>2, <3>1 DEF TypeOK, SetupDone, motion, command
  <2>. QED
    BY <1>2, <2>1, <2>2 DEF Tick
<1>3. CASE Drop \/ LinkLost \/ Reconnect \/ LoseMoving
  BY <1>1, <1>3 DEF TypeOK, Drop, LinkLost, Reconnect, LoseMoving, link, motion, command
<1>. QED
  BY <1>2, <1>3

\* A route, taken or refused.
LEMMA RouteTypes ==
  ASSUME TypeOK, NEW o \in Ops, (\E d \in Slots : Route(o, d)) \/ RouteRefused(o)
  PROVE  TypeOK'
<1>1. CASE \E d \in Slots : Route(o, d)
  <2>1. PICK d \in Slots : Route(o, d)
    BY <1>1
  <2>. QED
    BY <2>1, RouteTaken DEF TypeOK, motion
<1>2. CASE RouteRefused(o)
  BY <1>2 DEF RouteRefused, TypeOK, motion, command
<1>. QED
  BY <1>1, <1>2

\* The readings of the scale say whether the item is gone, not what it weighed.
LEMMA MeasuredTyped ==
  ASSUME TypeOK, Measure
  PROVE  /\ item' \in Scale /\ item'.load = item.load /\ item'.weighed = item.weighed
         /\ UNCHANGED <<mode, carriage, here, target, linked, deaf, lastRoute, active,
                        dest, taken, results>>
<1>1. PICK released \in BOOLEAN, readings \in SUBSET {item.load, 0} :
        item' = [item EXCEPT !.released = released,
                             !.gone = \E now \in readings : SeemsGone(now)]
  BY DEF Measure
<1>2. (\E now \in readings : SeemsGone(now)) \in BOOLEAN
  OBVIOUS
<1>. QED
  BY <1>1, <1>2 DEF TypeOK, Scale, Measure, motion, link, command

\* The item is weighed on the way; 0 is a scale that does not answer.
LEMMA WeighedTyped ==
  ASSUME TypeOK, Depart
  PROVE  /\ item' \in Scale /\ item'.weighed \in {item'.load, 0}
         /\ UNCHANGED <<mode, here, linked, deaf, lastRoute, active, dest, taken, results>>
<1>1. PICK w \in Loads : \E weighed \in {w, 0} :
        item' = [NoItem EXCEPT !.load = w, !.weighed = weighed]
  BY DEF Depart
<1>2. PICK weighed \in {w, 0} :
        item' = [load |-> w, weighed |-> weighed, released |-> FALSE, gone |-> FALSE]
  BY <1>1 DEF NoItem
<1>. QED
  BY <1>2 DEF Scale, Grams, Depart, motion, link, command

\* The terminals of a deposit.
LEMMA ReportTypes ==
  ASSUME TypeOK, RouteInv, Jammed \/ Underweight \/ Confirm
  PROVE  /\ results' \in Seq(TerminalType)
         /\ UNCHANGED <<mode, carriage, here, target, linked, deaf, lastRoute, active,
                        dest, taken, item>>
<1>1. item.weighed \in Grams /\ 0 \in Grams /\ item.gone \in BOOLEAN
  BY DEF TypeOK, Scale, Grams
<1>2. PICK status \in {"confirmed", "underweight", "jam"}, grams \in Grams,
           sound \in BOOLEAN, gone \in BOOLEAN :
        results' = Append(results, Terminal(status, grams, sound, gone))
  BY <1>1 DEF Jammed, Underweight, Confirm, Report
<1>3. fsm # "IDLE"
  BY DEF Jammed, Underweight, Confirm, Driving
<1>4. Terminal(status, grams, sound, gone) \in TerminalType
  BY <1>3, TerminalTyped
<1>5. results' \in Seq(TerminalType)
  BY <1>2, <1>4 DEF TypeOK
<1>. QED
  BY <1>5 DEF Jammed, Underweight, Confirm, motion, link, command

\* driveOperation keeps the types ...
LEMMA DriveTypes ==
  ASSUME TypeOK, RouteInv, Drive
  PROVE  TypeOK'
<1>1. CASE Depart
  <2>1. mode \notin {"setup", "failed"} /\ dest \in Slots
    BY <1>1 DEF RouteInv, Depart
  <2>2. carriage' \in {"IDLE", "MOVING", "JAMMED"} /\ target' \in Slots
    BY <1>1, <2>1 DEF TypeOK, Depart, motion
  <2>. QED
    BY <1>1, <2>1, <2>2, WeighedTyped, Transitions DEF TypeOK
<1>2. CASE Jammed
  BY <1>2, ReportTypes, Transitions DEF TypeOK
<1>3. CASE Settle
  BY <1>3, Transitions DEF TypeOK, Settle, motion, link, command
<1>4. CASE Ready
  BY <1>4, Transitions DEF TypeOK, Ready, motion, link, command
<1>5. CASE Detect
  BY <1>5, Transitions DEF TypeOK, Detect, motion, link, command
<1>6. CASE Measure
  BY <1>6, MeasuredTyped, Transitions DEF TypeOK
<1>7. CASE Underweight
  BY <1>7, ReportTypes, Transitions DEF TypeOK
<1>8. CASE Confirm
  BY <1>8, ReportTypes, Transitions DEF TypeOK
<1>9. CASE Reset
  BY <1>9, Transitions DEF TypeOK, Reset, motion, link, command
<1>10. CASE Rest
  <2>1. NoItem \in Scale
    BY DEF NoItem, Scale, Grams
  <2>. QED
    BY <2>1, <1>10, Transitions DEF TypeOK, Rest, motion, link
<1>. QED
  BY <1>1, <1>2, <1>3, <1>4, <1>5, <1>6, <1>7, <1>8, <1>9, <1>10 DEF Drive

\* ... and so does every step.
LEMMA TypeStep == TypeOK /\ RouteInv /\ [Next]_vars => TypeOK'
<1> SUFFICES ASSUME TypeOK, RouteInv, [Next]_vars PROVE TypeOK'
  OBVIOUS
<1>1. CASE UNCHANGED vars
  BY <1>1 DEF TypeOK, vars
<1>. QED
  BY <1>1, QuietTypes, RouteTypes, DriveTypes DEF Next

-----------------------------------------------------------------------------
\* The boot, the motion, the link and a refused route leave a deposit alone.
LEMMA QuietFrame ==
  ASSUME \/ Tick \/ Drop \/ LinkLost \/ Reconnect \/ LoseMoving
         \/ \E o \in Ops : RouteRefused(o)
  PROVE  UNCHANGED <<fsm, said, item, active, dest, taken, results>>
BY DEF Tick, HomeHit, HomeTimeout, Arrive, Stall, SetupDone, Drop, LinkLost, Reconnect,
       LoseMoving, RouteRefused, link, motion, command

\* driveOperation leaves the link and, but for Depart, the carriage alone; a
\* deposit keeps its operation until it rests.
LEMMA DriveFrame ==
  ASSUME Drive
  PROVE  /\ UNCHANGED <<mode, taken, linked, deaf>>
         /\ ~Depart => UNCHANGED <<carriage, here, target>>
         /\ ~Rest => UNCHANGED <<active, dest>>
BY DEF Drive, Depart, Jammed, Settle, Ready, Detect, Measure, Underweight, Confirm, Reset,
       Rest, link, motion, command

\* Every step keeps the carriage on its route.
LEMMA RouteStep == TypeOK /\ RouteInv /\ [Next]_vars => RouteInv'
<1> SUFFICES ASSUME TypeOK, RouteInv, [Next]_vars PROVE RouteInv'
  OBVIOUS
<1>1. CASE UNCHANGED vars
  BY <1>1 DEF RouteInv, vars
<1>2. CASE Tick
  <2>1. CASE HomeHit \/ HomeTimeout \/ Arrive \/ Stall
    BY <2>1, <1>2, QuietFrame DEF TypeOK, RouteInv, HomeHit, HomeTimeout, Arrive, Stall, link
  <2>2. CASE SetupDone
    BY <2>2, <1>2, QuietFrame DEF TypeOK, RouteInv, SetupDone, motion
  <2>. QED
    BY <1>2, <2>1, <2>2 DEF Tick
<1>3. CASE Drop
  BY <1>3, QuietFrame DEF RouteInv, Drop, motion
<1>4. CASE LinkLost
  BY <1>4, QuietFrame DEF RouteInv, LinkLost, motion, link
<1>5. CASE Reconnect
  BY <1>5, QuietFrame DEF RouteInv, Reconnect, motion
<1>6. CASE LoseMoving
  BY <1>6, QuietFrame DEF RouteInv, LoseMoving, motion, link
<1>7. ASSUME NEW o \in Ops, RouteRefused(o)
      PROVE  RouteInv'
  BY <1>7, QuietFrame DEF RouteInv, RouteRefused, motion
<1>8. ASSUME NEW o \in Ops, NEW d \in Slots, Route(o, d)
      PROVE  RouteInv'
  BY <1>8, RouteTaken DEF TypeOK, RouteInv, motion
<1>9. CASE Depart
  BY <1>9, Transitions, WeighedTyped DEF TypeOK, RouteInv, Depart, motion
<1>10. CASE Drive /\ ~Depart
  <2>1. fsm # "IDLE" /\ fsm' # "MOVING"
    <3>1. CASE Jammed \/ Settle \/ Ready \/ Detect \/ Measure
      BY <3>1, Transitions DEF Jammed, Settle, Ready, Detect, Measure, Driving
    <3>2. CASE Underweight \/ Confirm \/ Reset \/ Rest
      BY <3>2, Transitions DEF Underweight, Confirm, Reset, Rest
    <3>. QED
      BY <1>10, <3>1, <3>2 DEF Drive
  <2>2. carriage # "MOVING"
    <3>1. fsm = "MOVING" => carriage # "MOVING"
      BY <1>10 DEF Drive, Jammed, Settle, Ready, Detect, Measure, Underweight, Confirm,
         Reset, Rest, Driving, Moving
    <3>. QED
      BY <2>1, <3>1 DEF RouteInv
  <2>3. Rest => fsm' = "IDLE"
    BY Transitions
  <2>. QED
    BY <1>10, <2>1, <2>2, <2>3, DriveFrame DEF RouteInv
<1>. QED
  BY <1>1, <1>2, <1>3, <1>4, <1>5, <1>6, <1>7, <1>8, <1>9, <1>10 DEF Next, Drive

\* An underweight deposit is reported from the measurement.
LEMMA MeasuringLeft == Underweight => fsm = "MEASURING"
BY DEF Underweight

\* Every step leaves the last published state where LastFrameIn says.
LEMMA SaidStep == PublishedIsState /\ [Next]_vars => PublishedIsState'
<1> SUFFICES ASSUME PublishedIsState, [Next]_vars PROVE PublishedIsState'
  OBVIOUS
<1>1. CASE UNCHANGED vars
  BY <1>1 DEF PublishedIsState, vars
<1>2. CASE Drive
  BY <1>2, Transitions, MeasuringLeft DEF PublishedIsState, LastFrameIn, Drive
<1>3. ASSUME NEW o \in Ops, NEW d \in Slots, Route(o, d)
      PROVE  PublishedIsState'
  BY <1>3, RouteTaken DEF PublishedIsState, LastFrameIn
<1>. QED
  BY <1>1, <1>2, <1>3, QuietFrame DEF PublishedIsState, Next

\* No step makes up a weight.
LEMMA ScaleStep == TypeOK /\ ScaleInv /\ [Next]_vars => ScaleInv'
<1> SUFFICES ASSUME TypeOK, ScaleInv, [Next]_vars PROVE ScaleInv'
  OBVIOUS
<1>1. CASE UNCHANGED vars
  BY <1>1 DEF ScaleInv, vars
<1>2. CASE Depart
  BY <1>2, WeighedTyped DEF ScaleInv
<1>3. CASE Measure
  BY <1>3, MeasuredTyped DEF ScaleInv
<1>4. CASE Rest
  BY <1>4 DEF Rest, NoItem, ScaleInv
<1>5. CASE Jammed \/ Settle \/ Ready \/ Detect \/ Underweight \/ Confirm \/ Reset
  BY <1>5 DEF ScaleInv, Jammed, Settle, Ready, Detect, Underweight, Confirm, Reset
<1>6. ASSUME NEW o \in Ops, NEW d \in Slots, Route(o, d)
      PROVE  ScaleInv'
  BY <1>6, RouteTaken DEF ScaleInv
<1>. QED
  BY <1>1, <1>2, <1>3, <1>4, <1>5, <1>6, QuietFrame DEF ScaleInv, Next, Drive

-----------------------------------------------------------------------------
\* A report answers the route in service and ends its service.
LEMMA ReportAnswers ==
  ASSUME Jammed \/ Underweight \/ Confirm
  PROVE  /\ fsm \in Serving /\ fsm' \notin Serving
         /\ \E t : results' = Append(results, t) /\ t.op = active /\ t.item = item
<1>1. fsm \in Serving /\ fsm' \notin Serving
  BY Transitions DEF Jammed, Underweight, Confirm, Driving, Serving
<1>2. PICK status, grams, sound, gone :
        results' = Append(results, Terminal(status, grams, sound, gone))
  BY DEF Jammed, Underweight, Confirm, Report
<1>. QED
  BY <1>1, <1>2, TerminalNames

\* The other steps of driveOperation end no service and send nothing.
LEMMA DriveSilent ==
  ASSUME Drive, ~Jammed, ~Underweight, ~Confirm
  PROVE  UNCHANGED results /\ (fsm' \in Serving <=> fsm \in Serving)
<1>1. UNCHANGED results
  BY DEF Drive, Depart, Settle, Ready, Detect, Measure, Reset, Rest
<1>2. CASE Depart \/ Settle \/ Ready \/ Detect \/ Measure
  <2>1. fsm \in Serving
    BY <1>2 DEF Depart, Settle, Ready, Detect, Measure, Driving, Serving
  <2>2. fsm' \in Serving
    BY <1>2, Transitions DEF Serving
  <2>. QED
    BY <1>1, <2>1, <2>2
<1>3. CASE Reset \/ Rest
  <2>1. fsm \notin Serving
    BY <1>3 DEF Reset, Rest, Serving
  <2>2. fsm' \notin Serving
    BY <1>3, Transitions DEF Serving
  <2>. QED
    BY <1>1, <2>1, <2>2
<1>. QED
  BY <1>2, <1>3 DEF Drive

\* Every step answers what it takes.
LEMMA OrderStep == TypeOK /\ TypeOK' /\ OrderInv /\ [Next]_vars => OrderInv'
<1> SUFFICES ASSUME TypeOK, TypeOK', OrderInv, [Next]_vars PROVE OrderInv'
  OBVIOUS
<1>0. Len(taken) \in Nat /\ Len(results) \in Nat
  BY DEF TypeOK
<1>1. CASE UNCHANGED vars
  BY <1>1 DEF OrderInv, vars
<1>2. CASE Jammed \/ Underweight \/ Confirm
  <2>1. PICK t : results' = Append(results, t) /\ t.op = active
    BY <1>2, ReportAnswers
  <2>2. fsm \in Serving /\ fsm' \notin Serving /\ taken' = taken
    BY <1>2, ReportAnswers, DriveFrame DEF Drive
  <2>3. Len(taken) = Len(results) + 1 /\ active = taken[Len(results) + 1]
    BY <2>2, <1>0 DEF OrderInv
  <2>4. /\ Len(results') = Len(results) + 1
        /\ \A i \in 1..Len(results) : results'[i] = results[i]
        /\ results'[Len(results) + 1] = t
    BY <2>1 DEF TypeOK
  <2>5. \A i \in 1..Len(results') : results'[i].op = taken'[i]
    BY <1>0, <2>1, <2>2, <2>3, <2>4 DEF OrderInv
  <2>. QED
    BY <1>0, <2>2, <2>3, <2>4, <2>5 DEF OrderInv
<1>3. CASE Drive /\ ~Jammed /\ ~Underweight /\ ~Confirm
  <2>1. UNCHANGED <<results, taken>> /\ (fsm' \in Serving <=> fsm \in Serving)
    BY <1>3, DriveSilent, DriveFrame
  <2>2. fsm' \in Serving => active' = active
    BY <1>3, DriveFrame, Transitions DEF Serving
  <2>. QED
    BY <2>1, <2>2 DEF OrderInv
<1>4. ASSUME NEW o \in Ops, NEW d \in Slots, Route(o, d)
      PROVE  OrderInv'
  <2>1. /\ taken' = Append(taken, o) /\ active' = o /\ results' = results
        /\ fsm \notin Serving /\ fsm' \in Serving
    BY <1>4, RouteTaken DEF Serving
  <2>2. /\ Len(taken') = Len(taken) + 1 /\ taken'[Len(taken) + 1] = o
        /\ \A i \in 1..Len(taken) : taken'[i] = taken[i]
    BY <2>1 DEF TypeOK
  <2>. QED
    BY <1>0, <2>1, <2>2 DEF OrderInv
<1>5. CASE \/ Tick \/ Drop \/ LinkLost \/ Reconnect \/ LoseMoving
           \/ \E o \in Ops : RouteRefused(o)
  BY <1>5, QuietFrame DEF OrderInv
<1>. QED
  BY <1>1, <1>2, <1>3, <1>4, <1>5 DEF Next

\* Only Confirm reports a confirmed deposit.
LEMMA WeighedStep ==
  TypeOK /\ ScaleInv /\ ConfirmedWasWeighed /\ [Next]_vars => ConfirmedWasWeighed'
<1> SUFFICES ASSUME TypeOK, ScaleInv, ConfirmedWasWeighed, [Next]_vars
             PROVE  ConfirmedWasWeighed'
  OBVIOUS
<1>1. CASE UNCHANGED results
  BY <1>1 DEF ConfirmedWasWeighed
<1>2. ASSUME NEW status, NEW grams, NEW sound, NEW gone,
             results' = Append(results, Terminal(status, grams, sound, gone)),
             status = "confirmed" => grams = item.load /\ grams >= MinDeposit
      PROVE  ConfirmedWasWeighed'
  <2> DEFINE t == Terminal(status, grams, sound, gone)
  <2>1. t.status = status /\ t.weight = grams /\ t.item = item
    BY DEF Terminal
  <2> HIDE DEF t
  <2>2. results' = Append(results, t)
    BY <1>2 DEF t
  <2>3. /\ Len(results) \in Nat /\ Len(results') = Len(results) + 1
        /\ \A i \in 1..Len(results) : results'[i] = results[i]
        /\ results'[Len(results) + 1] = t
    BY <2>2 DEF TypeOK
  <2>. QED
    BY <1>2, <2>1, <2>3 DEF ConfirmedWasWeighed
<1>3. CASE Jammed
  BY <1>2, <1>3 DEF Jammed, Report
<1>4. CASE Underweight
  BY <1>2, <1>4 DEF Underweight, Report
<1>5. CASE Confirm
  <2>1. item.weighed >= MinDeposit /\ item.weighed = item.load
    BY <1>5 DEF Confirm, Sound, ScaleInv, MinDeposit
  <2>. QED
    BY <1>2, <1>5, <2>1 DEF Confirm, Report
<1>6. CASE Drive /\ ~Jammed /\ ~Underweight /\ ~Confirm
  BY <1>1, <1>6, DriveSilent
<1>7. ASSUME NEW o \in Ops, NEW d \in Slots, Route(o, d)
      PROVE  UNCHANGED results
  BY <1>7, RouteTaken
<1>. QED
  BY <1>1, <1>3, <1>4, <1>5, <1>6, <1>7, QuietFrame DEF Next, vars

-----------------------------------------------------------------------------
\* The inductive invariant holds in every reachable state.
THEOREM Invariance == Spec => []Inv
<1>1. Init => Inv
  <2> HAVE Init
  <2>1. Len(taken) = 0 /\ Len(results) = 0
    BY DEF Init
  <2>. QED
    BY <2>1, StartTypes DEF Init, Inv, PublishedIsState, LastFrameIn, RouteInv, ScaleInv, NoItem,
       OrderInv, Serving, ConfirmedWasWeighed
<1>2. Inv /\ [Next]_vars => Inv'
  BY TypeStep, RouteStep, SaidStep, ScaleStep, OrderStep, WeighedStep DEF Inv
<1>. QED
  BY <1>1, <1>2, PTL DEF Spec

\* The types hold, the last state published is the machine's (or, in ROUTING and
\* UNDERWEIGHT, whose frames carry no state, the one before it), and
\* driveOperation finds the carriage in the routed compartment or jammed.
THEOREM StationSound == Spec => []StationInv
<1>1. Inv => StationInv
  BY DEF Inv, StationInv, ArrivedMeansThere, Driving, Moving, RouteInv
<1>. QED
  BY <1>1, Invariance, PTL

\* A confirmed terminal carries the load that was weighed, above the minimum.
THEOREM ConfirmedIsWeighed == Spec => []ConfirmedWasWeighed
<1>1. Inv => ConfirmedWasWeighed
  BY DEF Inv
<1>. QED
  BY <1>1, Invariance, PTL

-----------------------------------------------------------------------------
\* The contract's answered.
Answered == [i \in 1..Len(results) |-> results[i].op]

\* With nothing in service, what was answered is what was taken.
LEMMA NothingOwed ==
  ASSUME TypeOK, OrderInv, fsm \notin Serving
  PROVE  Answered = taken
<1>1. Len(taken) = Len(results) /\ Len(taken) \in Nat
  BY DEF TypeOK, OrderInv
<1>2. taken = [i \in 1..Len(taken) |-> taken[i]]
  BY DEF TypeOK
<1>. QED
  BY <1>1, <1>2 DEF Answered, OrderInv

\* A terminal answers the one route that is owed an answer.
LEMMA AnswerStep ==
  ASSUME TypeOK, OrderInv, Jammed \/ Underweight \/ Confirm
  PROVE  Contract!Answer
<1>1. PICK t : results' = Append(results, t) /\ t.op = active
  BY ReportAnswers
<1>2. fsm \in Serving /\ taken' = taken
  BY ReportAnswers, DriveFrame DEF Drive
<1>3. /\ Len(results) \in Nat
      /\ Len(taken) = Len(results) + 1 /\ active = taken[Len(results) + 1]
  BY <1>2 DEF TypeOK, OrderInv
<1>4. /\ Len(results') = Len(results) + 1
      /\ \A i \in 1..Len(results) : results'[i] = results[i]
      /\ results'[Len(results) + 1] = t
  BY <1>1 DEF TypeOK
<1>5. /\ DOMAIN Answered = 1..Len(results)
      /\ Answered \in Seq(Ops) /\ Len(Answered) = Len(results)
  <2>1. \A i \in 1..Len(results) : results[i] \in TerminalType
    BY DEF TypeOK
  <2>2. \A r \in TerminalType : r.op \in Ops
    BY DEF TerminalType
  <2>. QED
    BY <1>3, <2>1, <2>2 DEF Answered
<1>6. Answered' = Append(Answered, taken[Len(Answered) + 1])
  <2> DEFINE next == Append(Answered, taken[Len(Answered) + 1])
  <2>1. /\ next = [i \in 1..(Len(results) + 1) |-> next[i]]
        /\ \A i \in 1..Len(results) : next[i] = results[i].op
        /\ next[Len(results) + 1] = active
    BY <1>3, <1>5 DEF Answered
  <2>2. Answered' = [i \in 1..(Len(results) + 1) |-> results'[i].op]
    BY <1>4 DEF Answered
  <2> HIDE DEF next
  <2>3. ASSUME NEW i \in 1..(Len(results) + 1)
        PROVE  next[i] = results'[i].op
    <3>1. CASE i = Len(results) + 1
      BY <1>1, <1>4, <2>1, <3>1
    <3>2. CASE i \in 1..Len(results)
      BY <1>4, <2>1, <3>2
    <3>. QED
      BY <1>3, <3>1, <3>2
  <2>4. Answered' = next
    BY <2>1, <2>2, <2>3
  <2>. QED
    BY <2>4 DEF next
<1>. QED
  BY <1>2, <1>3, <1>5, <1>6 DEF Contract!Answer, Answered

\* The firmware implements the station's contract: it answers every route it
\* took exactly once, in order, before it takes another, through redeliveries,
\* busy refusals, jams, silent scales and losses of the link.
THEOREM ImplementsContract == Spec => KeepsContract
<1>1. Init => Contract!Init
  BY DEF Init, Contract!Init
<1>2. Inv /\ [Next]_vars => [Contract!Next]_<<taken, Answered>>
  <2> SUFFICES ASSUME Inv, [Next]_vars
               PROVE  [Contract!Next]_<<taken, Answered>>
    OBVIOUS
  <2>1. CASE UNCHANGED <<taken, results>>
    BY <2>1 DEF Answered
  <2>2. CASE Jammed \/ Underweight \/ Confirm
    BY <2>2, AnswerStep DEF Inv, Contract!Next
  <2>3. ASSUME NEW o \in Ops, NEW d \in Slots, Route(o, d)
        PROVE  Contract!Take(o)
    <3>1. Answered = taken /\ taken' = Append(taken, o) /\ results' = results
      BY <2>3, RouteTaken, NothingOwed DEF Inv, Serving
    <3>. QED
      BY <3>1 DEF Contract!Take, Answered
  <2>4. CASE Drive /\ ~Jammed /\ ~Underweight /\ ~Confirm
    BY <2>1, <2>4, DriveSilent, DriveFrame
  <2>. QED
    BY <2>1, <2>2, <2>3, <2>4, QuietFrame DEF Next, Contract!Next, vars
<1>. QED
  BY <1>1, <1>2, Invariance, PTL DEF Spec, KeepsContract, Contract!Spec, Answered
=============================================================================
