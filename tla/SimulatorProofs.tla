---------------------------- MODULE SimulatorProofs ----------------------------
(***************************************************************************)
(* The simulator, for any set of operations, slots and shipped scenarios   *)
(* and any number of plans: every terminal is judged as the documentation  *)
(* says of its scenario, from wherever earlier plans left the carriage,    *)
(* and the simulator implements the contract the firmware implements.      *)
(* The same holds with the broker, the backend and their faults around it, *)
(* and there a session is confirmed only by a terminal that was sent.      *)
(***************************************************************************)
EXTENDS Chain, TLAPS

\* Where a plan is: its route is taken and owed a terminal, or answered.
Owing == {"ROUTING", "MOVING", "POSITIONED", "READY_FOR_DEPOSIT", "DETECTING", "MEASURING"}
There == {"POSITIONED", "READY_FOR_DEPOSIT", "DETECTING", "MEASURING"}
Closing == {"JAMMED", "UNDERWEIGHT", "SENSOR_ERROR", "DEPOSIT_CONFIRMED", "RESETTING"}

Places == 1..4

Plans == [goal : {0, 2}, jam : {0, 1}, weight : {0, 18},
          status : {"confirmed", "underweight", "jam"}, twice : BOOLEAN]

Jobs == [op : Ops, scenario : Scenarios, routed : Slots, step : Nat, dest : Slots]

Terminals ==
  [op : Ops, status : {"confirmed", "underweight", "jam"}, actual : Places,
   carriage : Places, weight : {0, 18}, stable : BOOLEAN, beam : BOOLEAN,
   mechanical : BOOLEAN, routed : Slots, scenario : Scenarios, again : BOOLEAN]

TypeOK ==
  /\ machine \in {"IDLE"} \cup Owing \cup Closing
  /\ carriage \in Places /\ sensor = carriage
  /\ job \in Jobs \cup {NoJob}
  /\ taken \in Seq(Ops) /\ answered \in Seq(Ops) /\ results \in Seq(Terminals)

\* The machine is idle when no plan runs; a plan goes where its scenario says,
\* and is there from the moment the machine says so.
JobInv ==
  /\ job = NoJob <=> machine = "IDLE"
  /\ job # NoJob => job.dest = IF plan.goal = 0 THEN job.routed ELSE plan.goal
  /\ machine \in There => carriage = job.dest

\* One terminal is owed while a plan runs, and none after it.
OrderInv ==
  /\ machine \in Owing => taken = Append(answered, job.op)
  /\ machine \notin Owing => taken = answered
  /\ machine \in Closing => results # <<>>

\* The documented outcome of terminal r.
AsDocumented(r) ==
  Contract!Accepts(r, r.routed) <=>
    \/ r.scenario \in {"valid-plastic", "duplicate"}
    \/ r.scenario = "wrong-position" /\ r.routed = 2

Inv == TypeOK /\ JobInv /\ OrderInv /\ ScenarioOutcome

-----------------------------------------------------------------------------
\* The shipped plans.
LEMMA PlanFacts ==
  ASSUME NEW s \in Scenarios
  PROVE  /\ Plan(s) \in Plans
         /\ s \in {"valid-plastic", "duplicate"} =>
              Plan(s).goal = 0 /\ Plan(s).status = "confirmed" /\ Plan(s).weight = 18
         /\ s = "wrong-position" =>
              Plan(s).goal = 2 /\ Plan(s).status = "confirmed" /\ Plan(s).weight = 18
         /\ Plan(s).status = "confirmed" =>
              s \in {"valid-plastic", "duplicate", "wrong-position"}
<1>1. s \in {"valid-plastic", "wrong-position", "underweight", "jam", "duplicate"}
  BY SimulatorAssumption
<1>2. Valid = [goal |-> 0, jam |-> 0, weight |-> 18, status |-> "confirmed",
               twice |-> FALSE]
  BY DEF Valid
<1>3. CASE s = "valid-plastic"
  BY <1>2, <1>3 DEF Plan, Plans
<1>4. CASE s = "wrong-position"
  BY <1>2, <1>4 DEF Plan, Plans
<1>5. CASE s = "underweight"
  BY <1>2, <1>5 DEF Plan, Plans
<1>6. CASE s = "jam"
  BY <1>2, <1>6 DEF Plan, Plans
<1>7. CASE s = "duplicate"
  BY <1>2, <1>7 DEF Plan, Plans
<1>. QED
  BY <1>1, <1>3, <1>4, <1>5, <1>6, <1>7

\* The plan that runs.
LEMMA Planned ==
  ASSUME TypeOK, job # NoJob
  PROVE  job \in Jobs /\ job.scenario \in Scenarios /\ plan \in Plans
<1>1. job \in Jobs /\ job.scenario \in Scenarios
  BY DEF TypeOK, Jobs
<1>. QED
  BY <1>1, PlanFacts DEF plan

\* Every transition of a plan is one the machine allows: no plan is abandoned.
LEMMA Allowance ==
  /\ "ROUTING" \in Contract!Allowed("IDLE")
  /\ "MOVING" \in Contract!Allowed("ROUTING")
  /\ {"POSITIONED", "JAMMED"} \subseteq Contract!Allowed("MOVING")
  /\ "READY_FOR_DEPOSIT" \in Contract!Allowed("POSITIONED")
  /\ "DETECTING" \in Contract!Allowed("READY_FOR_DEPOSIT")
  /\ "MEASURING" \in Contract!Allowed("DETECTING")
  /\ {"DEPOSIT_CONFIRMED", "UNDERWEIGHT", "SENSOR_ERROR"} \subseteq Contract!Allowed("MEASURING")
  /\ "IDLE" \in Contract!Allowed("RESETTING")
  /\ \A s \in {"JAMMED", "UNDERWEIGHT", "SENSOR_ERROR", "DEPOSIT_CONFIRMED"} :
       "RESETTING" \in Contract!Allowed(s)
BY DEF Contract!Allowed, Contract!Errors

\* A terminal is appended and the others stay.
LEMMA Reported ==
  ASSUME TypeOK, ScenarioOutcome, NEW t \in Terminals, AsDocumented(t),
         results' = Append(results, t)
  PROVE  results' \in Seq(Terminals) /\ results' # <<>> /\ ScenarioOutcome'
<1>1. /\ results' \in Seq(Terminals) /\ results' # <<>>
      /\ Len(results') = Len(results) + 1 /\ results'[Len(results) + 1] = t
      /\ \A i \in 1..Len(results) : results'[i] = results[i]
      /\ Len(results) \in Nat
  BY DEF TypeOK
<1>2. \A i \in 1..Len(results) : AsDocumented(results[i])
  BY DEF ScenarioOutcome, AsDocumented
<1>3. \A i \in 1..Len(results') : AsDocumented(results'[i])
  <2>. SUFFICES ASSUME NEW i \in 1..Len(results') PROVE AsDocumented(results'[i])
    OBVIOUS
  <2>1. CASE i = Len(results) + 1
    BY <1>1, <2>1
  <2>2. CASE i \in 1..Len(results)
    BY <1>1, <1>2, <2>2
  <2>. QED
    BY <1>1, <2>1, <2>2
<1>. QED
  BY <1>1, <1>3 DEF ScenarioOutcome, AsDocumented

-----------------------------------------------------------------------------
LEMMA StartStep ==
  ASSUME Inv, NEW o \in Ops, NEW d \in Slots, NEW s \in Scenarios, Start(o, d, s)
  PROVE  Inv' /\ Contract!Take(o)
<1>. DEFINE j == [op |-> o, scenario |-> s, routed |-> d, step |-> 0,
                  dest |-> IF Plan(s).goal = 0 THEN d ELSE Plan(s).goal]
<1>1. machine = "IDLE" /\ taken = answered
  BY DEF Start, Inv, JobInv, OrderInv, Owing
<1>2. machine' = "ROUTING" /\ job' = j
  BY <1>1, Allowance DEF Start, To
<1>3. Plan(s) \in Plans
  BY PlanFacts
<1>4. j \in Jobs /\ j # NoJob
  <2>1. j.dest \in Slots
    BY <1>3, SimulatorAssumption DEF Plans
  <2>2. j \in Jobs
    BY <2>1 DEF Jobs
  <2>. QED
    BY <2>2, SimulatorAssumption DEF Jobs
<1>5. /\ taken' = Append(taken, o)
      /\ UNCHANGED <<carriage, sensor, results, answered>>
  BY DEF Start
<1>6. TypeOK'
  BY <1>2, <1>4, <1>5 DEF Inv, TypeOK, Owing
<1>7. JobInv'
  BY <1>2, <1>4 DEF JobInv, There, plan
<1>8. OrderInv'
  BY <1>1, <1>2, <1>5 DEF OrderInv, Owing, Closing
<1>9. ScenarioOutcome'
  BY <1>5 DEF Inv, ScenarioOutcome
<1>10. Contract!Take(o)
  BY <1>1, <1>5 DEF Contract!Take
<1>. QED
  BY <1>6, <1>7, <1>8, <1>9, <1>10 DEF Inv

\* Neither the queue of routes nor that of terminals moves.
LEMMA QuietStep ==
  ASSUME Inv, Depart \/ Step \/ Settle \/ Proceed \/ Reset
  PROVE  Inv' /\ UNCHANGED <<taken, answered>>
<1>1. UNCHANGED <<taken, results, answered>>
  BY DEF Depart, Step, Settle, Proceed, Reset
<1>2. ScenarioOutcome'
  BY <1>1 DEF Inv, ScenarioOutcome
<1>3. job # NoJob /\ job \in Jobs /\ plan \in Plans
  BY Planned DEF Inv, Depart, Step, Settle, Proceed, Reset, Running
<1>4. ASSUME NEW s \in Owing, job' = job, machine' = s, machine \in Owing,
             UNCHANGED <<carriage, sensor>>,
             s \in There => carriage = job.dest
      PROVE  TypeOK' /\ JobInv' /\ OrderInv'
  BY <1>1, <1>3, <1>4 DEF Inv, TypeOK, JobInv, OrderInv, Owing, There, Closing, plan
<1>5. CASE Depart
  <2>1. machine = "ROUTING" /\ machine' = "MOVING" /\ job' = job /\ UNCHANGED <<carriage, sensor>>
    BY <1>5, Allowance DEF Depart, To, Running
  <2>. QED
    BY <1>1, <1>2, <1>4, <2>1 DEF Inv, Owing, There
<1>6. CASE Settle
  <2>1. /\ machine = "MOVING" /\ machine' = "POSITIONED" /\ job' = job
        /\ UNCHANGED <<carriage, sensor>> /\ carriage = job.dest
    BY <1>6, Allowance DEF Settle, To, Running
  <2>. QED
    BY <1>1, <1>2, <1>4, <2>1 DEF Inv, Owing, There
<1>7. CASE Proceed
  <2>1. /\ machine \in There /\ machine' \in There /\ job' = job
        /\ UNCHANGED <<carriage, sensor>>
    BY <1>7, Allowance DEF Proceed, To, Running, There
  <2>2. carriage = job.dest
    BY <2>1 DEF Inv, JobInv
  <2>. QED
    BY <1>1, <1>2, <1>4, <2>1, <2>2 DEF Inv, Owing, There
<1>8. CASE Step
  <2>1. /\ machine = "MOVING" /\ machine' = machine /\ sensor' = carriage'
        /\ carriage # job.dest
        /\ carriage' = (IF carriage < job.dest THEN carriage + 1 ELSE carriage - 1)
        /\ job' = [job EXCEPT !.step = job.step + 1]
    BY <1>8 DEF Step, Running
  <2>2. job.dest \in Places
    BY <1>3, SimulatorAssumption DEF Jobs, Places
  <2>3. carriage' \in Places
    BY <2>1, <2>2 DEF Inv, TypeOK, Places
  <2>4. /\ job' \in Jobs /\ job' # NoJob
        /\ job'.op = job.op /\ job'.scenario = job.scenario
        /\ job'.routed = job.routed /\ job'.dest = job.dest
    <3>1. job' \in Jobs /\ job'.op = job.op /\ job'.scenario = job.scenario
          /\ job'.routed = job.routed /\ job'.dest = job.dest
      BY <1>3, <2>1 DEF Jobs
    <3>. QED
      BY <3>1, SimulatorAssumption DEF Jobs
  <2>5. TypeOK'
    BY <1>1, <2>1, <2>3, <2>4 DEF Inv, TypeOK
  <2>6. JobInv'
    BY <1>3, <2>1, <2>4 DEF Inv, JobInv, There, plan
  <2>7. OrderInv'
    BY <1>1, <2>1, <2>4 DEF Inv, OrderInv
  <2>. QED
    BY <1>1, <1>2, <2>5, <2>6, <2>7 DEF Inv
<1>9. CASE Reset
  <2>1. /\ machine \in Closing \ {"RESETTING"} /\ machine' = "RESETTING" /\ job' = job
        /\ UNCHANGED <<carriage, sensor>>
    BY <1>9, Allowance DEF Reset, To, Closing
  <2>2. TypeOK' /\ JobInv' /\ OrderInv'
    BY <1>1, <1>3, <2>1 DEF Inv, TypeOK, JobInv, OrderInv, Owing, There, Closing, plan
  <2>. QED
    BY <1>1, <1>2, <2>2 DEF Inv
<1>. QED
  BY <1>5, <1>6, <1>7, <1>8, <1>9

\* The terminal of a plan: it is judged as documented and answers its route.
LEMMA AnswerStep ==
  ASSUME Inv, Jam \/ Refuse \/ Confirm
  PROVE  Inv' /\ Contract!Answer
<1>1. job # NoJob /\ job \in Jobs /\ plan \in Plans /\ job.scenario \in Scenarios
  BY Planned DEF Inv, Jam, Refuse, Confirm, Running
<1>2. PICK t \in Terminals :
        /\ Report(t) /\ t.op = job.op /\ AsDocumented(t)
        /\ machine \in Owing /\ machine' \in Closing /\ job' = job
        /\ UNCHANGED <<carriage, sensor, taken>>
  <2>1. CASE Jam
    <3>. DEFINE t == Terminal("jam", 0, FALSE, carriage)
    <3>1. t \in Terminals /\ t.op = job.op /\ t.status = "jam" /\ t.scenario = job.scenario
      BY <1>1 DEF Terminal, Terminals, Inv, TypeOK, Jobs
    <3>2. plan.jam # 0
      BY <2>1 DEF Jam, Jams
    <3>3. job.scenario = "jam"
      BY <1>1, <3>2, SimulatorAssumption DEF plan, Plan, Valid
    <3>4. AsDocumented(t)
      BY <3>1, <3>3 DEF AsDocumented, Contract!Accepts
    <3>5. /\ machine = "MOVING" /\ machine' = "JAMMED" /\ job' = job
          /\ UNCHANGED <<carriage, sensor, taken>> /\ Report(t)
      BY <2>1, Allowance DEF Jam, To, Running
    <3>. QED
      BY <3>1, <3>4, <3>5 DEF Owing, Closing
  <2>2. CASE Refuse
    <3>. DEFINE t == Terminal(plan.status, plan.weight, FALSE, sensor)
    <3>1. /\ t \in Terminals /\ t.op = job.op /\ t.status = plan.status
          /\ t.scenario = job.scenario
      BY <1>1 DEF Terminal, Terminals, Inv, TypeOK, Jobs, Plans
    <3>2. plan.status # "confirmed"
      BY <2>2 DEF Refuse
    <3>3. job.scenario \notin {"valid-plastic", "duplicate", "wrong-position"}
      BY <1>1, <3>2, PlanFacts DEF plan
    <3>4. AsDocumented(t)
      BY <3>1, <3>2, <3>3 DEF AsDocumented, Contract!Accepts
    <3>5. /\ machine = "MEASURING" /\ machine' \in {"UNDERWEIGHT", "SENSOR_ERROR"} /\ job' = job
          /\ UNCHANGED <<carriage, sensor, taken>> /\ Report(t)
      BY <2>2, Allowance DEF Refuse, To, Running
    <3>. QED
      BY <3>1, <3>4, <3>5 DEF Owing, Closing
  <2>3. CASE Confirm
    <3>. DEFINE t == Terminal("confirmed", plan.weight, TRUE, sensor)
    <3>1. /\ machine = "MEASURING" /\ machine' = "DEPOSIT_CONFIRMED" /\ job' = job
          /\ UNCHANGED <<carriage, sensor, taken>> /\ Report(t)
          /\ plan.status = "confirmed"
      BY <2>3, Allowance DEF Confirm, To, Running
    <3>2. sensor = job.dest /\ sensor \in Places
      BY <3>1 DEF Inv, TypeOK, JobInv, There
    <3>3. /\ job.scenario \in {"valid-plastic", "duplicate", "wrong-position"}
          /\ plan.weight = 18
          /\ job.dest = IF job.scenario = "wrong-position" THEN 2 ELSE job.routed
      BY <1>1, <3>1, PlanFacts DEF plan, Inv, JobInv
    <3>4. t = [op |-> job.op, status |-> "confirmed", actual |-> job.dest,
               carriage |-> job.dest, weight |-> 18, stable |-> TRUE, beam |-> TRUE,
               mechanical |-> TRUE, routed |-> job.routed, scenario |-> job.scenario,
               again |-> FALSE]
      <4>1. (plan.weight >= 1) = TRUE /\ ("confirmed" # "jam") = TRUE
        BY <3>3
      <4>2. t = [op |-> job.op, status |-> "confirmed", actual |-> sensor,
                 carriage |-> sensor, weight |-> plan.weight,
                 stable |-> plan.weight >= 1, beam |-> "confirmed" # "jam",
                 mechanical |-> TRUE, routed |-> job.routed, scenario |-> job.scenario,
                 again |-> FALSE]
        BY DEF Terminal
      <4>. QED
        BY <3>2, <3>3, <4>1, <4>2, Zenon
    <3>5. t \in Terminals /\ t.op = job.op /\ AsDocumented(t)
      <4>. HIDE DEF t
      <4>1. t \in Terminals
        BY <1>1, <3>2, <3>4 DEF Terminals, Jobs
      <4>2. Contract!Accepts(t, t.routed) <=> job.dest = job.routed
        BY <3>4 DEF Contract!Accepts
      <4>3. AsDocumented(t)
        BY <1>1, <3>3, <3>4, <4>2 DEF AsDocumented, Jobs
      <4>. QED
        BY <3>4, <4>1, <4>3
    <3>. QED
      BY <3>1, <3>5 DEF Owing, Closing
  <2>. QED
    BY <2>1, <2>2, <2>3
<1>3. results' = Append(results, t) /\ answered' = Append(answered, job.op)
  BY <1>2 DEF Report
<1>4. taken = Append(answered, job.op) /\ answered \in Seq(Ops) /\ job.op \in Ops
  BY <1>1, <1>2 DEF Inv, OrderInv, TypeOK, Jobs
<1>5. results' \in Seq(Terminals) /\ results' # <<>> /\ ScenarioOutcome'
  BY <1>2, <1>3, Reported DEF Inv
<1>6. TypeOK'
  BY <1>1, <1>2, <1>3, <1>4, <1>5 DEF Inv, TypeOK
<1>7. JobInv'
  BY <1>1, <1>2 DEF Inv, JobInv, There, Closing, plan
<1>8. OrderInv'
  BY <1>2, <1>3, <1>4, <1>5 DEF OrderInv, Owing, Closing
<1>9. Contract!Answer
  <2>1. Len(taken) = Len(answered) + 1 /\ taken[Len(answered) + 1] = job.op
        /\ Len(answered) \in Nat
    BY <1>4
  <2>. QED
    BY <1>2, <1>3, <2>1 DEF Contract!Answer
<1>. QED
  BY <1>5, <1>6, <1>7, <1>8, <1>9 DEF Inv

\* A repeated terminal is judged as the one it repeats.
LEMMA RestStep ==
  ASSUME Inv, Rest
  PROVE  Inv' /\ UNCHANGED <<taken, answered>>
<1>1. /\ machine = "RESETTING" /\ machine' = "IDLE" /\ job' = NoJob
      /\ UNCHANGED <<carriage, sensor, taken, answered>>
  BY Allowance DEF Rest, To, Running
<1>2. results # <<>> /\ results \in Seq(Terminals)
  BY <1>1 DEF Inv, OrderInv, Closing, TypeOK
<1>3. results' \in Seq(Terminals) /\ ScenarioOutcome'
  <2>. DEFINE r == results[Len(results)]
              t == [r EXCEPT !.again = TRUE]
  <2>1. r \in Terminals /\ Len(results) \in 1..Len(results)
    BY <1>2
  <2>2. AsDocumented(r)
    BY <2>1 DEF Inv, ScenarioOutcome, AsDocumented
  <2>3. t \in Terminals /\ AsDocumented(t)
    <3>1. /\ t \in Terminals /\ t.status = r.status /\ t.actual = r.actual
          /\ t.weight = r.weight /\ t.stable = r.stable /\ t.beam = r.beam
          /\ t.mechanical = r.mechanical /\ t.carriage = r.carriage
          /\ t.routed = r.routed /\ t.scenario = r.scenario
      BY <2>1 DEF Terminals
    <3>. HIDE DEF t, r
    <3>. QED
      BY <2>2, <3>1 DEF AsDocumented, Contract!Accepts
  <2>4. CASE results' = Append(results, t)
    BY <2>3, <2>4, Reported DEF Inv
  <2>5. CASE results' = results
    BY <2>5 DEF Inv, TypeOK, ScenarioOutcome
  <2>. QED
    BY <2>4, <2>5 DEF Rest
<1>4. TypeOK' /\ JobInv' /\ OrderInv'
  BY <1>1, <1>3 DEF Inv, TypeOK, JobInv, OrderInv, Owing, There, Closing
<1>. QED
  BY <1>1, <1>3, <1>4 DEF Inv

-----------------------------------------------------------------------------
LEMMA Invariance == Init /\ [][Next]_vars => []Inv
<1>1. Init => Inv
  BY DEF Init, Inv, TypeOK, JobInv, OrderInv, ScenarioOutcome, Places, Owing, There, Closing
<1>2. Inv /\ [Next]_vars => Inv'
  <2>. SUFFICES ASSUME Inv, [Next]_vars PROVE Inv'
    OBVIOUS
  <2>1. CASE UNCHANGED vars
    BY <2>1 DEF vars, Inv, TypeOK, JobInv, OrderInv, ScenarioOutcome, plan
  <2>. QED
    BY <2>1, StartStep, QuietStep, AnswerStep, RestStep DEF Next, Run
<1>. QED
  BY <1>1, <1>2, PTL

\* docs/mqtt-contract.md:72-79: the gates accept a terminal exactly when its
\* scenario ran well in the compartment the backend expects, from wherever
\* earlier plans left the carriage, repeated terminals included.
THEOREM OutcomesAreDocumented == Spec => []ScenarioOutcome
<1>1. Inv => ScenarioOutcome
  BY DEF Inv
<1>. QED
  BY <1>1, Invariance, PTL DEF Spec

\* The simulator stands in for the firmware: it answers every command it took
\* with one first terminal, in order, before it takes another.
THEOREM ImplementsContract == Spec => KeepsContract
<1>1. Init => Contract!Init
  BY DEF Init, Contract!Init
<1>2. Inv /\ [Next]_vars => [Contract!Next]_<<taken, answered>>
  BY StartStep, QuietStep, AnswerStep, RestStep DEF Next, Run, Contract!Next, vars
<1>. QED
  BY <1>1, <1>2, Invariance, PTL DEF Spec, KeepsContract, Contract!Spec

-----------------------------------------------------------------------------
(* The chain: backend, broker and simulator, with any number of faults.     *)

Phases == {"none", "capture", "pending", "confirmed", "rejected"}

Commands ==
  [op : Ops, kind : {"route"}, dest : Slots]
    \cup [op : Ops, kind : {"capture_request"}, dest : {None}]

Messages ==
  [kind : {"sensor", "event", "heartbeat"}, op : Ops \cup {NoJob},
   state : {"", "IDLE"} \cup Owing \cup Closing, position : Places \cup {None},
   result : Terminals \cup {None}]

\* An event in message m is a terminal of those said, of the operation it names.
Genuine(m, said) ==
  m.kind = "event" =>
    \E i \in 1..Len(said) : m.result = said[i] /\ m.op = said[i].op

WellSent(queue, said) ==
  queue \in Seq(Messages) /\ \A i \in 1..Len(queue) : Genuine(queue[i], said)

WireInv ==
  /\ orders \in Seq(Commands) /\ mailbox \in Seq(Commands)
  /\ WellSent(outbox, results) /\ WellSent(news, results)

\* A confirmed session has its terminal.
Backed ==
  \A o \in Ops : phase[o] = "confirmed" =>
    \E i \in 1..Len(results) :
      results[i].op = o /\ Contract!Accepts(results[i], want[o])

SessionInv ==
  /\ phase \in [Ops -> Phases] /\ want \in [Ops -> Slots \cup {None}]
  /\ Backed

ChainInv == Inv /\ WireInv /\ SessionInv

\* Every step of the chain moves the simulator by a step of its own, or not.
LEMMA StationMoves ==
  ASSUME ChainInv, [ChainNext]_vs
  PROVE  [Next]_vars
<1>1. ASSUME NEW s \in Scenarios, Obey(s)
      PROVE  Next
  <2>1. mailbox # <<>> /\ mailbox \in Seq(Commands) /\ Head(mailbox).kind = "route"
    BY <1>1 DEF Obey, ChainInv, WireInv
  <2>2. Head(mailbox) \in Commands
    BY <2>1
  <2>3. Head(mailbox).op \in Ops /\ Head(mailbox).dest \in Slots
    BY <2>1, <2>2 DEF Commands
  <2>. QED
    BY <1>1, <2>3 DEF Obey, Next
<1>2. CASE Work
  BY <1>2 DEF Work, Next
<1>3. CASE \E o \in Ops, d \in Slots : Open(o, d)
  BY <1>3 DEF Open
<1>4. CASE Carry \/ Ship \/ Heartbeat \/ Receive \/ NoPlan \/ Restart
  BY <1>4 DEF Carry, Ship, Heartbeat, Receive, NoPlan, Restart
<1>5. CASE \E d \in Slots : Snap(d)
  BY <1>5 DEF Snap
<1>6. CASE \E c \in Clients : Connect(c) \/ Subscribe(c) \/ Drop(c)
  BY <1>6 DEF Connect, Subscribe, Drop
<1>. QED
  BY <1>1, <1>2, <1>3, <1>4, <1>5, <1>6 DEF ChainNext, vs

LEMMA PlanStep ==
  ASSUME Inv, [Next]_vars
  PROVE  Inv'
<1>1. CASE UNCHANGED vars
  BY <1>1 DEF vars, Inv, TypeOK, JobInv, OrderInv, ScenarioOutcome, plan
<1>. QED
  BY <1>1, StartStep, QuietStep, AnswerStep, RestStep DEF Next, Run

\* Terminals are never taken back.
LEMMA ResultsStay ==
  ASSUME Inv, [Next]_vars
  PROVE  /\ results' \in Seq(Terminals) /\ Len(results') \in Nat /\ Len(results) \in Nat
         /\ Len(results) <= Len(results')
         /\ \A i \in 1..Len(results) : results'[i] = results[i]
<1>1. Inv'
  BY PlanStep
<1>2. \/ results' = results
      \/ \E t : results' = Append(results, t)
  <2>1. ASSUME NEW o \in Ops, NEW d \in Slots, NEW s \in Scenarios, Start(o, d, s)
        PROVE  results' = results
    BY <2>1 DEF Start
  <2>2. CASE Depart \/ Step \/ Settle \/ Proceed \/ Reset
    BY <2>2 DEF Depart, Step, Settle, Proceed, Reset
  <2>3. CASE Jam \/ Refuse \/ Confirm
    BY <2>3 DEF Jam, Refuse, Confirm, Report
  <2>4. CASE Rest
    BY <2>4 DEF Rest
  <2>5. CASE UNCHANGED vars
    BY <2>5 DEF vars
  <2>. QED
    BY <2>1, <2>2, <2>3, <2>4, <2>5 DEF Next, Run
<1>3. results \in Seq(Terminals) /\ results' \in Seq(Terminals)
  BY <1>1 DEF Inv, TypeOK
<1>. QED
  BY <1>2, <1>3

-----------------------------------------------------------------------------
\* What was sent stays what the simulator said.
LEMMA SentStays ==
  ASSUME Inv, [Next]_vars, NEW q, WellSent(q, results)
  PROVE  WellSent(q, results')
BY ResultsStay DEF WellSent, Genuine

\* A client takes the head of a queue, or loses the whole of it.
LEMMA SentTail ==
  ASSUME NEW r, NEW q, WellSent(q, r)
  PROVE  /\ WellSent(<<>>, r)
         /\ q # <<>> => /\ Head(q) \in Messages /\ Genuine(Head(q), r)
                        /\ WellSent(Tail(q), r)
<1>1. q \in Seq(Messages) /\ \A i \in 1..Len(q) : Genuine(q[i], r)
  BY DEF WellSent
<1>2. WellSent(<<>>, r)
  BY DEF WellSent
<1>3. ASSUME q # <<>>
      PROVE  Head(q) \in Messages /\ Genuine(Head(q), r) /\ WellSent(Tail(q), r)
  <2>1. /\ Head(q) \in Messages /\ Head(q) = q[1] /\ 1 \in 1..Len(q)
        /\ Tail(q) \in Seq(Messages)
        /\ \A i \in 1..Len(Tail(q)) : Tail(q)[i] = q[i + 1] /\ i + 1 \in 1..Len(q)
    BY <1>1, <1>3
  <2>2. \A i \in 1..Len(Tail(q)) : Genuine(Tail(q)[i], r)
    BY <1>1, <2>1
  <2>3. Genuine(Head(q), r)
    BY <1>1, <2>1
  <2>. QED
    BY <2>1, <2>2, <2>3 DEF WellSent
<1>. QED
  BY <1>2, <1>3

\* A client queues more.
LEMMA SentMore ==
  ASSUME NEW r, NEW q, WellSent(q, r), NEW p, WellSent(p, r)
  PROVE  WellSent(q \o p, r)
<1>1. /\ q \in Seq(Messages) /\ \A i \in 1..Len(q) : Genuine(q[i], r)
      /\ p \in Seq(Messages) /\ \A i \in 1..Len(p) : Genuine(p[i], r)
  BY DEF WellSent
<1>2. q \o p \in Seq(Messages) /\ Len(q \o p) = Len(q) + Len(p)
  BY <1>1
<1>3. ASSUME NEW i \in 1..Len(q \o p)
      PROVE  Genuine((q \o p)[i], r)
  <2>1. CASE i \in 1..Len(q)
    <3>1. (q \o p)[i] = q[i]
      BY <1>1, <2>1
    <3>. QED
      BY <1>1, <2>1, <3>1
  <2>2. CASE i \notin 1..Len(q)
    <3>1. (q \o p)[i] = p[i - Len(q)] /\ i - Len(q) \in 1..Len(p)
      BY <1>1, <1>2, <2>2
    <3>. QED
      BY <1>1, <3>1
  <2>. QED
    BY <2>1, <2>2
<1>. QED
  BY <1>2, <1>3 DEF WellSent

\* One message, and one more.
LEMMA SentAlone ==
  ASSUME NEW r, NEW m \in Messages, Genuine(m, r)
  PROVE  WellSent(<<m>>, r)
BY DEF WellSent

LEMMA SentOne ==
  ASSUME NEW r, NEW q, WellSent(q, r), NEW m \in Messages, Genuine(m, r)
  PROVE  WellSent(Append(q, m), r)
<1>1. WellSent(<<m>>, r)
  BY SentAlone
<1>2. Append(q, m) = q \o <<m>>
  BY DEF WellSent
<1>. QED
  BY <1>1, <1>2, SentMore

\* A verdict stays backed while no session becomes confirmed.
LEMMA BackedStays ==
  ASSUME ChainInv, [ChainNext]_vs,
         \A o \in Ops : phase'[o] = "confirmed" => phase[o] = "confirmed" /\ want'[o] = want[o]
  PROVE  Backed'
<1>1. ASSUME NEW o \in Ops, phase'[o] = "confirmed"
      PROVE  \E i \in 1..Len(results') :
               results'[i].op = o /\ Contract!Accepts(results'[i], want'[o])
  <2>1. PICK i \in 1..Len(results) :
          results[i].op = o /\ Contract!Accepts(results[i], want[o])
    BY <1>1 DEF ChainInv, SessionInv, Backed
  <2>2. i \in 1..Len(results') /\ results'[i] = results[i]
    BY StationMoves, ResultsStay DEF ChainInv
  <2>. QED
    BY <1>1, <2>1, <2>2
<1>. QED
  BY <1>1 DEF Backed, Contract!Accepts

-----------------------------------------------------------------------------
\* The session's own handlers.
LEMMA OpenStep ==
  ASSUME ChainInv, NEW o \in Ops, NEW d \in Slots, Open(o, d)
  PROVE  WireInv' /\ SessionInv'
<1>1. [ChainNext]_vs
  BY DEF ChainNext
<1>2. /\ orders \in Seq(Commands) /\ phase \in [Ops -> Phases]
      /\ want \in [Ops -> Slots \cup {None}] /\ phase[o] = "none"
      /\ UNCHANGED <<results, mailbox, outbox, news>>
  BY DEF ChainInv, WireInv, SessionInv, Open, vars
<1>3. /\ Command(o, "route", d) \in Commands
      /\ Command(o, "capture_request", None) \in Commands
  BY DEF Command, Commands
<1>4. /\ orders' \in Seq(Commands) /\ phase' \in [Ops -> Phases]
      /\ want' \in [Ops -> Slots \cup {None}]
      /\ \A x \in Ops : phase'[x] = "confirmed" => phase[x] = "confirmed" /\ want'[x] = want[x]
  BY <1>2, <1>3 DEF Open, Phases
<1>5. Backed'
  BY <1>1, <1>4, BackedStays
<1>. QED
  BY <1>2, <1>4, <1>5 DEF ChainInv, WireInv, SessionInv

LEMMA SnapStep ==
  ASSUME ChainInv, NEW d \in Slots, Snap(d)
  PROVE  WireInv' /\ SessionInv'
<1>1. [ChainNext]_vs
  BY DEF ChainNext
<1>. DEFINE o == Head(mailbox).op
<1>2. /\ orders \in Seq(Commands) /\ mailbox \in Seq(Commands) /\ mailbox # <<>>
      /\ phase \in [Ops -> Phases] /\ want \in [Ops -> Slots \cup {None}]
      /\ mailbox' = Tail(mailbox) /\ UNCHANGED <<results, outbox, news>>
  BY DEF ChainInv, WireInv, SessionInv, Snap, vars
<1>3. Head(mailbox) \in Commands /\ mailbox' \in Seq(Commands)
  BY <1>2
<1>4. o \in Ops /\ Command(o, "route", d) \in Commands
  BY <1>3 DEF Command, Commands
<1>5. \/ /\ phase[o] \in {"capture", "pending"}
         /\ phase' = [phase EXCEPT ![o] = "pending"]
         /\ want' = [want EXCEPT ![o] = d]
         /\ orders' = Append(orders, Command(o, "route", d))
      \/ /\ phase' = [phase EXCEPT ![o] = "rejected"]
         /\ UNCHANGED <<want, orders>>
      \/ /\ phase' = [phase EXCEPT ![o] = IF phase[o] = "pending" THEN "capture" ELSE phase[o]]
         /\ UNCHANGED <<want, orders>>
  BY DEF Snap
<1>. HIDE DEF o
<1>6. /\ orders' \in Seq(Commands) /\ phase' \in [Ops -> Phases]
      /\ want' \in [Ops -> Slots \cup {None}]
      /\ \A x \in Ops : phase'[x] = "confirmed" => phase[x] = "confirmed" /\ want'[x] = want[x]
  <2>1. orders' \in Seq(Commands)
    <3>1. \A c \in Commands : Append(orders, c) \in Seq(Commands)
      BY <1>2
    <3>. QED
      BY <1>2, <1>4, <1>5, <3>1, Zenon
  <2>2. \E p \in Phases \ {"confirmed"} :
          phase' = [phase EXCEPT ![o] = p] \/ phase' = [phase EXCEPT ![o] = phase[o]]
    <3>1. {"pending", "rejected", "capture"} \subseteq Phases \ {"confirmed"}
      BY DEF Phases
    <3>. QED
      BY <1>5, <3>1
  <2>3. phase' \in [Ops -> Phases] /\ \A x \in Ops : phase'[x] = "confirmed" => phase[x] = "confirmed"
    BY <1>2, <1>4, <2>2
  <2>4. want' \in [Ops -> Slots \cup {None}]
    BY <1>2, <1>4, <1>5
  <2>5. ASSUME NEW x \in Ops, phase'[x] = "confirmed"
        PROVE  want'[x] = want[x]
    BY <1>2, <1>4, <1>5, <2>5
  <2>. QED
    BY <2>1, <2>3, <2>4, <2>5
<1>7. Backed'
  BY <1>1, <1>6, BackedStays
<1>. QED
  BY <1>2, <1>3, <1>6, <1>7 DEF ChainInv, WireInv, SessionInv

\* The clients, the links and the faults: sessions and terminals stay.
LEMMA LinkStep ==
  ASSUME ChainInv, Carry \/ Ship \/ NoPlan \/ Restart \/ (\E s \in Scenarios : Obey(s))
                   \/ (\E c \in Clients : Connect(c) \/ Subscribe(c) \/ Drop(c))
  PROVE  WireInv' /\ SessionInv'
<1>1. [ChainNext]_vs
  BY DEF ChainNext
<1>2. UNCHANGED <<phase, want, results>>
  BY DEF Carry, Ship, NoPlan, Restart, Obey, Connect, Subscribe, Drop, Start, vars
<1>3. SessionInv'
  BY <1>1, <1>2, BackedStays DEF ChainInv, SessionInv
<1>4. /\ orders \in Seq(Commands) /\ mailbox \in Seq(Commands)
      /\ WellSent(outbox, results) /\ WellSent(news, results)
  BY DEF ChainInv, WireInv
<1>5. /\ <<>> \in Seq(Commands)
      /\ orders # <<>> => /\ Tail(orders) \in Seq(Commands)
                          /\ Append(mailbox, Head(orders)) \in Seq(Commands)
      /\ mailbox # <<>> => Tail(mailbox) \in Seq(Commands)
  BY <1>4
<1>6. /\ WellSent(<<>>, results)
      /\ outbox # <<>> => /\ WellSent(Tail(outbox), results)
                          /\ WellSent(Append(news, Head(outbox)), results)
  BY <1>4, SentTail, SentOne
<1>7. orders' \in Seq(Commands) /\ mailbox' \in Seq(Commands)
  BY <1>4, <1>5
     DEF Carry, Ship, NoPlan, Restart, Obey, Connect, Subscribe, Drop, Hand
<1>8. WellSent(outbox', results) /\ WellSent(news', results)
  BY <1>4, <1>6
     DEF Carry, Ship, NoPlan, Restart, Obey, Connect, Subscribe, Drop, Hand
<1>. QED
  BY <1>2, <1>3, <1>7, <1>8 DEF WireInv, WellSent, Genuine

\* The simulator queues what it says, and a heartbeat says where it is.
LEMMA WorkStep ==
  ASSUME ChainInv, Work \/ Heartbeat
  PROVE  WireInv' /\ SessionInv'
<1>1. [ChainNext]_vs
  BY DEF ChainNext
<1>2. Inv /\ Inv' /\ [Next]_vars
  BY <1>1, StationMoves, PlanStep DEF ChainInv
<1>3. UNCHANGED <<phase, want, orders, mailbox, news>>
  BY DEF Work, Heartbeat
<1>4. SessionInv'
  BY <1>1, <1>3, BackedStays DEF ChainInv, SessionInv
<1>5. WellSent(outbox, results') /\ WellSent(news, results')
  BY <1>2, SentStays DEF ChainInv, WireInv
<1>6. CASE Heartbeat
  <2>. DEFINE m == Message("heartbeat", NoJob, machine, carriage, None)
  <2>1. m \in Messages /\ m.kind # "event"
    BY <1>2 DEF Message, Messages, Inv, TypeOK
  <2>2. Genuine(m, results')
    BY <2>1 DEF Genuine
  <2>3. outbox' = Append(outbox, m)
    BY <1>6 DEF Heartbeat
  <2>4. WellSent(outbox', results')
    <3>. HIDE DEF m
    <3>. QED
      BY <1>5, <2>1, <2>2, <2>3, SentOne
  <2>. QED
    BY <1>3, <1>4, <1>5, <2>4 DEF ChainInv, WireInv
<1>7. CASE Work
  <2>. DEFINE terminals == SubSeq(results', Len(results) + 1, Len(results'))
              weighed == IF machine = "MEASURING"
                         THEN <<Message("sensor", job.op, "", sensor, None)>> ELSE <<>>
              events == [i \in 1..Len(terminals) |->
                           Message("event", terminals[i].op, "", None, terminals[i])]
  <2>1. outbox' = (outbox \o weighed) \o events
    BY <1>7 DEF Work
  <2>2. WellSent(weighed, results')
    <3>1. job # NoJob
      BY <1>7 DEF Work, Run, Depart, Step, Jam, Settle, Proceed, Refuse, Confirm, Reset, Rest,
                  Running
    <3>2. job.op \in Ops /\ sensor \in Places
      BY <1>2, <3>1 DEF Inv, TypeOK, Jobs
    <3>3. /\ Message("sensor", job.op, "", sensor, None) \in Messages
          /\ Message("sensor", job.op, "", sensor, None).kind # "event"
      BY <3>2 DEF Message, Messages
    <3>4. Genuine(Message("sensor", job.op, "", sensor, None), results')
      BY <3>3 DEF Genuine
    <3>5. WellSent(<<>>, results')
      BY <1>5, SentTail
    <3>6. WellSent(<<Message("sensor", job.op, "", sensor, None)>>, results')
      BY <3>3, <3>4, SentAlone
    <3>. QED
      BY <3>5, <3>6
  <2>3. WellSent(events, results')
    <3>1. /\ results' \in Seq(Terminals) /\ Len(results) \in Nat /\ Len(results') \in Nat
          /\ Len(results) <= Len(results')
      BY <1>2, ResultsStay
    <3>2. /\ terminals \in Seq(Terminals) /\ Len(terminals) = Len(results') - Len(results)
          /\ \A i \in 1..Len(terminals) :
               /\ terminals[i] = results'[Len(results) + i]
               /\ Len(results) + i \in 1..Len(results')
      BY <3>1
    <3>. HIDE DEF terminals
    <3>3. ASSUME NEW i \in 1..Len(terminals)
          PROVE  /\ events[i] \in Messages /\ Genuine(events[i], results')
      <4>1. terminals[i] \in Terminals
        BY <3>2
      <4>2. terminals[i].op \in Ops
        BY <4>1 DEF Terminals
      <4>3. /\ Message("event", terminals[i].op, "", None, terminals[i]) \in Messages
            /\ Message("event", terminals[i].op, "", None, terminals[i]).result = terminals[i]
            /\ Message("event", terminals[i].op, "", None, terminals[i]).op = terminals[i].op
        BY <4>1, <4>2 DEF Message, Messages
      <4>. QED
        BY <3>2, <4>3 DEF Genuine
    <3>4. Len(terminals) \in Nat
      BY <3>2
    <3>5. events \in Seq(Messages) /\ Len(events) = Len(terminals)
      <4>1. /\ DOMAIN events = 1..Len(terminals)
            /\ events \in [1..Len(terminals) -> Messages]
        BY <3>3
      <4>. HIDE DEF events
      <4>. QED
        BY <3>4, <4>1
    <3>. QED
      BY <3>3, <3>5 DEF WellSent
  <2>4. WellSent(outbox', results')
    <3>. HIDE DEF weighed, events
    <3>1. WellSent(outbox \o weighed, results')
      BY <1>5, <2>2, SentMore
    <3>. QED
      BY <2>1, <2>3, <3>1, SentMore
  <2>. QED
    BY <1>3, <1>4, <1>5, <2>4 DEF ChainInv, WireInv
<1>. QED
  BY <1>6, <1>7

\* The backend judges a terminal the simulator sent, for its own session.
LEMMA ReceiveStep ==
  ASSUME ChainInv, Receive
  PROVE  WireInv' /\ SessionInv'
<1>. DEFINE m == Head(news)
<1>1. /\ news # <<>> /\ news' = Tail(news) /\ Judge(m)
      /\ UNCHANGED <<results, want, orders, mailbox, outbox>>
  BY DEF Receive, vars
<1>2. m \in Messages /\ Genuine(m, results) /\ WellSent(Tail(news), results)
  BY <1>1, SentTail DEF ChainInv, WireInv
<1>3. WireInv'
  BY <1>1, <1>2 DEF ChainInv, WireInv, WellSent, Genuine
<1>4. phase \in [Ops -> Phases] /\ want \in [Ops -> Slots \cup {None}] /\ Backed
  BY DEF ChainInv, SessionInv
<1>. HIDE DEF m
<1>5. CASE phase' = phase
  BY <1>1, <1>3, <1>4, <1>5 DEF SessionInv, Backed, Contract!Accepts
<1>6. CASE /\ m.kind = "event"
           /\ phase' = [phase EXCEPT ![m.op] = IF Contract!Accepts(m.result, want[m.op])
                                               THEN "confirmed" ELSE "rejected"]
  <2>1. PICK i \in 1..Len(results) : m.result = results[i] /\ m.op = results[i].op
    BY <1>2, <1>6 DEF Genuine
  <2>2. m.op \in Ops
    <3>1. results[i] \in Terminals
      BY DEF ChainInv, Inv, TypeOK
    <3>. QED
      BY <2>1, <3>1 DEF Terminals
  <2>3. phase' \in [Ops -> Phases]
    BY <1>4, <1>6, <2>2 DEF Phases
  <2>4. ASSUME NEW o \in Ops, phase'[o] = "confirmed"
        PROVE  \E k \in 1..Len(results) :
                 results[k].op = o /\ Contract!Accepts(results[k], want[o])
    <3>1. CASE o = m.op
      <4>1. Contract!Accepts(results[i], want[o])
        BY <1>4, <1>6, <2>1, <2>2, <2>4, <3>1
      <4>. QED
        BY <2>1, <3>1, <4>1
    <3>2. CASE o # m.op
      BY <1>4, <1>6, <2>4, <3>2 DEF Backed
    <3>. QED
      BY <3>1, <3>2
  <2>. QED
    <3>1. SessionInv'
      BY <1>1, <1>4, <2>3, <2>4 DEF SessionInv, Backed, Contract!Accepts
    <3>. QED
      BY <1>3, <3>1
<1>7. phase' = phase \/ (/\ m.kind = "event"
           /\ phase' = [phase EXCEPT ![m.op] = IF Contract!Accepts(m.result, want[m.op])
                                               THEN "confirmed" ELSE "rejected"])
  BY <1>1 DEF Judge
<1>. QED
  BY <1>3, <1>5, <1>6, <1>7

LEMMA ChainInvariance == ChainInit /\ [][ChainNext]_vs => []ChainInv /\ [][Next]_vars
<1>1. ChainInit => ChainInv
  <2>1. Init => Inv
    BY DEF Init, Inv, TypeOK, JobInv, OrderInv, ScenarioOutcome, Places, Owing, There, Closing
  <2>. QED
    BY <2>1 DEF ChainInit, ChainInv, WireInv, WellSent, SessionInv, Backed, Phases
<1>2. ChainInv /\ [ChainNext]_vs => ChainInv' /\ [Next]_vars
  <2>. SUFFICES ASSUME ChainInv, [ChainNext]_vs
                PROVE  ChainInv' /\ [Next]_vars
    OBVIOUS
  <2>1. [Next]_vars /\ Inv'
    BY StationMoves, PlanStep DEF ChainInv
  <2>2. CASE UNCHANGED vs
    BY <2>1, <2>2
       DEF vs, vars, chain, ChainInv, WireInv, WellSent, Genuine, SessionInv, Backed,
           Contract!Accepts
  <2>. QED
    BY <2>1, <2>2, OpenStep, SnapStep, LinkStep, WorkStep, ReceiveStep DEF ChainNext, ChainInv
<1>. QED
  BY <1>1, <1>2, PTL

\* End to end, under any number of lost acknowledgements, dropped links and
\* restarts: the terminals are judged as documented, and a session reads
\* confirmed only if the station sent a terminal for that operation which the
\* gates accept in the compartment the session expects.
THEOREM OutcomesAreDelivered == ChainSpec => []OutcomeDelivered
<1>1. ChainInv => OutcomeDelivered
  BY DEF ChainInv, Inv, SessionInv, Backed, OutcomeDelivered
<1>. QED
  BY <1>1, ChainInvariance, PTL DEF ChainSpec

\* The simulator behind its MQTT client, with commands repeated and lost, still
\* implements the contract: one first terminal per route it takes, in order.
THEOREM ChainKeepsContract == ChainSpec => KeepsContract
<1>1. Init => Contract!Init
  BY DEF Init, Contract!Init
<1>2. ChainInv /\ [Next]_vars => [Contract!Next]_<<taken, answered>>
  BY StartStep, QuietStep, AnswerStep, RestStep DEF ChainInv, Next, Run, Contract!Next, vars
<1>3. ChainInit => Init
  BY DEF ChainInit
<1>. QED
  BY <1>1, <1>2, <1>3, ChainInvariance, PTL DEF ChainSpec, KeepsContract, Contract!Spec
=============================================================================
