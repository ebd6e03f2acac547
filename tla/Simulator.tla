------------------------------- MODULE Simulator -------------------------------
(***************************************************************************)
(* The station simulator hardware-simulator/: run_plan of simulator.py     *)
(* with the scenarios of scenarios.py, its state machine, its carriage and *)
(* its position sensor.  It stands in for the firmware.                    *)
(*                                                                         *)
(* A command runs to its end in the thread of the MQTT client, so commands *)
(* queue and nothing is read between two steps but the heartbeat.          *)
(* Weights are whole grams (0.5 g is 0); the scenario "timeout" differs    *)
(* from "valid-plastic" in a sleep alone and is not listed.                *)
(***************************************************************************)
EXTENDS Integers, Sequences

CONSTANTS
  Ops,        \* operations commands are given for
  NoJob,      \* no plan is running
  Slots,      \* sim_config.positions
  Scenarios,  \* names of the plans that are run
  MaxRuns     \* bound on the plans run

ASSUME SimulatorAssumption ==
  /\ 2 \in Slots /\ 1 \in Slots /\ Slots \subseteq 1..4
  /\ MaxRuns \in Nat
  /\ Scenarios \subseteq {"valid-plastic", "wrong-position", "underweight", "jam",
                          "duplicate"}
  /\ NoJob \notin [op : Ops, scenario : Scenarios, routed : Slots, step : Nat, dest : Slots]

VARIABLES
  machine,    \* StateMachine._state
  carriage,   \* Carriage.current_position
  sensor,     \* PositionSensor.current
  job,        \* the plan that is running
  taken,      \* operations of the plans started, in order
  results,    \* terminals published
  answered    \* history: operations in the order of their first terminals

vars == <<machine, carriage, sensor, job, taken, results, answered>>

Contract == INSTANCE StationContract WITH MinWeight <- 1

\* SCENARIOS.  A goal overrides the compartment of the command, which 0 obeys;
\* jam is the step at which the carriage jams, 0 is none.
Valid == [goal |-> 0, jam |-> 0, weight |-> 18, status |-> "confirmed",
          twice |-> FALSE]

Plan(name) ==
  CASE name = "valid-plastic"  -> Valid
    [] name = "wrong-position" -> [Valid EXCEPT !.goal = 2]
    [] name = "underweight"    -> [Valid EXCEPT !.weight = 0, !.status = "underweight"]
    [] name = "jam"            -> [Valid EXCEPT !.goal = 2, !.jam = 1, !.status = "jam"]
    [] name = "duplicate"      -> [Valid EXCEPT !.twice = TRUE]

Init ==
  /\ machine = "IDLE" /\ carriage = 1 /\ sensor = 1
  /\ job = NoJob
  /\ taken = <<>> /\ results = <<>> /\ answered = <<>>

plan == Plan(job.scenario)

\* StateMachine.transition, which raises on what its table does not allow:
\* the plan is then abandoned where it is (_on_command catches everything).
To(state, next) ==
  IF state \in Contract!Allowed(machine)
  THEN machine' = state /\ job' = next
  ELSE UNCHANGED machine /\ job' = NoJob

-----------------------------------------------------------------------------
\* run_plan(o, d, Plan(s)): ROUTING.
Start(o, d, s) ==
  /\ job = NoJob /\ Len(taken) < MaxRuns
  /\ To("ROUTING", [op |-> o, scenario |-> s, routed |-> d, step |-> 0,
                    dest |-> IF Plan(s).goal = 0 THEN d ELSE Plan(s).goal])
  /\ taken' = Append(taken, o)
  /\ UNCHANGED <<carriage, sensor, results, answered>>

Running(state) == job # NoJob /\ machine = state

Depart ==
  /\ Running("ROUTING")
  /\ To("MOVING", job)
  /\ UNCHANGED <<carriage, sensor, taken, results, answered>>

Jams == plan.jam # 0 /\ job.step + 1 = plan.jam

StepUnsensed ==        \* variant: the sensor is not told of the step
  /\ Running("MOVING") /\ carriage # job.dest /\ ~Jams
  /\ carriage' = IF carriage < job.dest THEN carriage + 1 ELSE carriage - 1
  /\ job' = [job EXCEPT !.step = @ + 1]
  /\ UNCHANGED <<machine, sensor, taken, results, answered>>

\* One position of move_to, and the sensor is set to it.
Step ==
  /\ Running("MOVING") /\ carriage # job.dest /\ ~Jams
  /\ carriage' = IF carriage < job.dest THEN carriage + 1 ELSE carriage - 1
  /\ sensor' = carriage'
  /\ job' = [job EXCEPT !.step = @ + 1]
  /\ UNCHANGED <<machine, taken, results, answered>>

\* _terminal.  The beam is reported as seen whatever the plan says.
Terminal(status, weight, mechanical, actual) ==
  [op |-> job.op, status |-> status, actual |-> actual, carriage |-> sensor,
   weight |-> weight, stable |-> weight >= 1, beam |-> status # "jam",
   mechanical |-> mechanical, routed |-> job.routed,
   scenario |-> job.scenario, again |-> FALSE]

Report(t) == results' = Append(results, t) /\ answered' = Append(answered, t.op)

JamSilent ==           \* variant: _jammed sends no terminal
  /\ Running("MOVING") /\ carriage # job.dest /\ Jams
  /\ To("JAMMED", job)
  /\ UNCHANGED <<carriage, sensor, taken, results, answered>>

\* _jammed.  A plan that finds the carriage at its goal does not jam.
Jam ==
  /\ Running("MOVING") /\ carriage # job.dest /\ Jams
  /\ To("JAMMED", job)
  /\ Report(Terminal("jam", 0, FALSE, carriage))
  /\ UNCHANGED <<carriage, sensor, taken>>

Settle ==
  /\ Running("MOVING") /\ carriage = job.dest
  /\ To("POSITIONED", job)
  /\ UNCHANGED <<carriage, sensor, taken, results, answered>>

\* READY_FOR_DEPOSIT, DETECTING, MEASURING in turn.
Proceed ==
  /\ \E s \in {<<"POSITIONED", "READY_FOR_DEPOSIT">>,
               <<"READY_FOR_DEPOSIT", "DETECTING">>, <<"DETECTING", "MEASURING">>} :
       Running(s[1]) /\ To(s[2], job)
  /\ UNCHANGED <<carriage, sensor, taken, results, answered>>

\* The machine believes in no deposit.
Refuse ==
  /\ Running("MEASURING") /\ plan.status # "confirmed"
  /\ To(IF plan.status = "underweight" THEN "UNDERWEIGHT" ELSE "SENSOR_ERROR", job)
  /\ Report(Terminal(plan.status, plan.weight, FALSE, sensor))
  /\ UNCHANGED <<carriage, sensor, taken>>

Confirm ==
  /\ Running("MEASURING") /\ plan.status = "confirmed"
  /\ To("DEPOSIT_CONFIRMED", job)
  /\ Report(Terminal("confirmed", plan.weight, TRUE, sensor))
  /\ UNCHANGED <<carriage, sensor, taken>>

Reset ==
  /\ job # NoJob /\ machine \in {"JAMMED", "UNDERWEIGHT", "SENSOR_ERROR", "DEPOSIT_CONFIRMED"}
  /\ To("RESETTING", job)
  /\ UNCHANGED <<carriage, sensor, taken, results, answered>>

\* The end of _reset and of run_plan; "duplicate" repeats its terminal then.
Rest ==
  /\ Running("RESETTING")
  /\ To("IDLE", NoJob)
  /\ results' = IF plan.twice
                THEN Append(results, [results[Len(results)] EXCEPT !.again = TRUE])
                ELSE results
  /\ UNCHANGED <<carriage, sensor, taken, answered>>

-----------------------------------------------------------------------------
Run == \/ Depart \/ Step \/ Jam \/ Settle \/ Proceed \/ Refuse \/ Confirm
       \/ Reset \/ Rest

Next == Run \/ \E o \in Ops, d \in Slots, s \in Scenarios : Start(o, d, s)

\* The client's thread runs a plan it has started.
Spec == Init /\ [][Next]_vars /\ WF_vars(Run)

-----------------------------------------------------------------------------
(* Properties.                                                              *)

\* docs/mqtt-contract.md:72-79, the backend's outcome per scenario, from
\* wherever earlier plans left the carriage: only a deposit that ran well in
\* the compartment the backend expects is accepted.
ScenarioOutcome ==
  \A i \in 1..Len(results) :
    LET r == results[i] IN
    Contract!Accepts(r, r.routed) <=>
      \/ r.scenario \in {"valid-plastic", "duplicate"}
      \/ r.scenario = "wrong-position" /\ r.routed = 2

\* The simulator answers as the firmware does: one first terminal per command.
KeepsContract == Contract!Spec
=============================================================================
