-------------------------- MODULE DepositLifecycle --------------------------
(***************************************************************************)
(* The deposit session as the backend runs it (services/deposit_service.py *)
(* over services/points_transaction.py and challenge_service.py): rows in  *)
(* PostgreSQL, and request threads that each work on a private ORM copy.   *)
(*                                                                         *)
(* Concurrency.  Every handler loads the session row, decides on the copy, *)
(* and writes later.  The engine runs at READ COMMITTED, the load takes no *)
(* lock, and the UPDATE is keyed by the primary key alone, so the write    *)
(* lands whatever the row has become meanwhile.  A handler is therefore a  *)
(* load step followed by one commit step per transaction, and other        *)
(* threads run in between.  A commit is one atomic step: the rows it       *)
(* writes stay locked from their first UPDATE to the COMMIT and nobody     *)
(* reads them earlier.  SQLAlchemy emits an UPDATE only for the columns    *)
(* whose value differs from the copy; the model keeps that, column by      *)
(* column, because it decides what a concurrent writer loses.              *)
(*                                                                         *)
(* A routing policy is identified with its compartment: one policy per     *)
(* waste class, one class per position (services/seed.py).                 *)
(***************************************************************************)
EXTENDS Integers, FiniteSets, Functions

CONSTANTS
  Ops,            \* operation ids the counter mints
  NoOp,           \* the operation of a thread that serves none
  Users,          \* students
  Owner,          \* Owner[o]: the student the session of o belongs to
  Positions,      \* compartments (1..4 on the real station)
  PolicyPoints,   \* PolicyPoints[p]: potential_points of the policy of p
  LivePhases,     \* statuses the telemetry frames of this instance report
  BonusPosition,  \* the waste class (by compartment) the challenge is about
  BonusTarget,    \* confirmed deposits that complete the challenge
  BonusPoints,    \* its reward_points
  Creators,       \* threads that run create_session (HTTP)
  Capturers,      \* threads that run handle_capture (HTTP, station camera)
  Cancellers,     \* threads that run cancel (HTTP)
  Telemetry,      \* threads that run apply_machine_state (the MQTT thread)
  Completers      \* threads that run complete_from_event (MQTT, HTTP callback)

Terminal == {"confirmed", "rejected", "cancelled", "expired"}
MachineStatus == {"routing", "moving", "ready", "detecting", "measuring"}
Open == {"capture", "analyzing", "pending"} \cup MachineStatus
Absent == "absent"

Workers == Creators \cup Capturers \cup Cancellers \cup Telemetry \cup Completers

\* NULL in expected_position / expected_class / ai_prediction_id; also the
\* missing destination of a capture_request.
NoPosition == 0

ASSUME DepositAssumption ==
  /\ NoOp \notin Ops
  /\ Owner \in [Ops -> Users]
  /\ Positions \subseteq Nat \ {NoPosition}
  /\ PolicyPoints \in [Positions -> Nat]
  /\ LivePhases \subseteq MachineStatus
  /\ BonusPosition \in Positions
  /\ BonusTarget \in Nat \ {0} /\ BonusPoints \in Nat

Rank == [s \in Open |->
  CASE s = "capture"   -> -2
    [] s = "analyzing" -> -1
    [] s = "pending"   -> 0
    [] s = "routing"   -> 1
    [] s = "moving"    -> 2
    [] s = "ready"     -> 3
    [] s = "detecting" -> 4
    [] s = "measuring" -> 5]

VARIABLES
  status,     \* deposit_sessions.status, "absent" before the INSERT
  expected,   \* deposit_sessions.expected_position, NoPosition for NULL
  potential,  \* deposit_sessions.potential_points
  lapsed,     \* the clock has passed deposit_sessions.expires_at
  waste,      \* waste_events, by its UNIQUE operation_id
  points,     \* users.points
  claimed,    \* user_challenges: students whose challenge row exists
  board,      \* leaderboard_entries, scope students: points
  faculty,    \* leaderboard_entries, scope faculties: the balances it sums
  commands,   \* commands handed to the MQTT client, <<operation, destination>>
  job         \* per thread: the handler it is in and its private copies

sessionVars == <<status, expected, potential, lapsed>>
awardVars == <<waste, points, claimed, board, faculty>>
vars == <<sessionVars, awardVars, commands, job>>

\* A waste event: its status, actual_position and points_awarded.
Verdict(v, p, n) == [verdict |-> v, at |-> p, worth |-> n]
NoWaste == Verdict("none", NoPosition, 0)

\* What a thread holds between two of its steps.  seen: the status a capture loaded;
\* to: the status it is going to write; pos, pts: expected_position and
\* potential_points of its copy; act: the event's actual_position; bal: the
\* users.points it read.
Stage == {"idle", "publish", "analyze", "classify", "cancel", "phase",
          "reject", "award"}
JobRecords ==
  [at: Stage, op: Ops \cup {NoOp}, seen: Open, to: Open \cup Terminal,
   pos: Positions \cup {NoPosition}, pts: Nat,
   act: Positions \cup {NoPosition}, bal: Nat]
Jobs == {j \in JobRecords : j.at # "idle" => j.op \in Ops}

Job(stage, o, seen, to, pos, pts, act, bal) ==
  [at |-> stage, op |-> o, seen |-> seen, to |-> to, pos |-> pos, pts |-> pts,
   act |-> act, bal |-> bal]

\* A finished thread holds nothing; one fixed value keeps the states few.
Idle == Job("idle", NoOp, "pending", "pending", NoPosition, 0, NoPosition, 0)

Init ==
  /\ status = [o \in Ops |-> Absent]
  /\ expected = [o \in Ops |-> NoPosition]
  /\ potential = [o \in Ops |-> 0]
  /\ lapsed = [o \in Ops |-> FALSE]
  /\ waste = [o \in Ops |-> NoWaste]
  /\ points = [u \in Users |-> 0]
  /\ claimed = {}
  /\ board = [u \in Users |-> 0]
  /\ faculty = [u \in Users |-> 0]
  /\ commands = {}
  /\ job = [w \in Workers |-> Idle]

-----------------------------------------------------------------------------
\* Steps the handlers share.

Becomes(w, j) == job' = [job EXCEPT ![w] = j]
Finish(w) == Becomes(w, Idle)

\* db.get / repo.get_by_operation_id: the copy of the row as committed now.
Loaded(o, stage, to) ==
  Job(stage, o, "pending", to, expected[o], potential[o], NoPosition, 0)

\* Commit of a single-column UPDATE of deposit_sessions.status.
WriteStatus(w, s) ==
  /\ status' = [status EXCEPT ![job[w].op] = s]
  /\ UNCHANGED <<expected, potential, lapsed, awardVars, commands>>

\* The command still to be handed over: the destination rides in pos, NoPosition for a capture.
ToPublish(o, p) == Job("publish", o, "pending", "pending", p, 0, NoPosition, 0)

-----------------------------------------------------------------------------
\* create_session: the row is committed first, the command follows.

CreateRouted(w, o, p) ==
  /\ w \in Creators /\ job[w].at = "idle" /\ status[o] = Absent
  /\ status' = [status EXCEPT ![o] = "pending"]
  /\ expected' = [expected EXCEPT ![o] = p]
  /\ potential' = [potential EXCEPT ![o] = PolicyPoints[p]]
  /\ Becomes(w, ToPublish(o, p))
  /\ UNCHANGED <<lapsed, awardVars, commands>>

CreateCapture(w, o) ==
  /\ w \in Creators /\ job[w].at = "idle" /\ status[o] = Absent
  /\ status' = [status EXCEPT ![o] = "capture"]
  /\ Becomes(w, ToPublish(o, NoPosition))
  /\ UNCHANGED <<expected, potential, lapsed, awardVars, commands>>

\* publish_route / publish_capture_request: handed to the MQTT client.
Publish(w) ==
  /\ job[w].at = "publish"
  /\ commands' = commands \cup {<<job[w].op, job[w].pos>>}
  /\ Finish(w)
  /\ UNCHANGED <<sessionVars, awardVars>>

-----------------------------------------------------------------------------
\* handle_capture.  Only a terminal session is refused: a retake is accepted
\* in every live phase.

CaptureLoad(w, o) ==
  /\ w \in Capturers /\ job[w].at = "idle" /\ status[o] \in Open
  /\ Becomes(w, Job("analyze", o, status[o], "analyzing", expected[o],
                    potential[o], NoPosition, 0))
  /\ UNCHANGED <<sessionVars, awardVars, commands>>

\* First commit.  A copy that already reads "analyzing" emits no UPDATE.
CaptureAnalyzing(w) ==
  /\ job[w].at = "analyze"
  /\ IF job[w].seen = "analyzing"
     THEN UNCHANGED <<sessionVars, awardVars, commands>>
     ELSE WriteStatus(w, "analyzing")
  /\ Becomes(w, Job("classify", job[w].op, "analyzing", "pending", job[w].pos,
                    job[w].pts, NoPosition, 0))

\* The AI call is out.  AiGateRejection and AiWireError reopen the session.
CaptureRetake(w) ==
  /\ job[w].at = "classify"
  /\ WriteStatus(w, "capture")
  /\ Finish(w)

\* An unknown class or a class without a policy raises ValueError: nothing is
\* written and the session stays where it is.
CaptureUnroutable(w) ==
  /\ job[w].at = "classify"
  /\ Finish(w)
  /\ UNCHANGED <<sessionVars, awardVars, commands>>

\* The prediction columns of the last commit, only those that differ from the
\* copy; no terminal check is made again after the AI call.
WritePrediction(w, p, s) ==
  LET o == job[w].op IN
  /\ status' = [status EXCEPT ![o] = s]
  /\ expected' = IF job[w].pos = p THEN expected
                 ELSE [expected EXCEPT ![o] = p]
  /\ potential' = IF job[w].pts = PolicyPoints[p] THEN potential
                  ELSE [potential EXCEPT ![o] = PolicyPoints[p]]
  /\ UNCHANGED <<lapsed, awardVars, commands>>

CaptureTooLow(w, p) ==
  /\ job[w].at = "classify"
  /\ WritePrediction(w, p, "rejected")
  /\ Finish(w)

CaptureRoutedEarly(w, p) ==    \* variant: publishes ahead of the commit
  /\ job[w].at = "classify"
  /\ commands' = commands \cup {<<job[w].op, p>>}
  /\ UNCHANGED <<sessionVars, awardVars, job>>

CaptureRouted(w, p) ==
  /\ job[w].at = "classify"
  /\ WritePrediction(w, p, "pending")
  /\ Becomes(w, ToPublish(job[w].op, p))

-----------------------------------------------------------------------------
\* cancel and apply_machine_state.

CancelLoadClosed(w, o) ==      \* variant: no terminal check
  /\ w \in Cancellers /\ job[w].at = "idle" /\ status[o] # Absent
  /\ Becomes(w, Loaded(o, "cancel", "cancelled"))
  /\ UNCHANGED <<sessionVars, awardVars, commands>>

CancelLoad(w, o) ==
  /\ w \in Cancellers /\ job[w].at = "idle" /\ status[o] \in Open
  /\ Becomes(w, Loaded(o, "cancel", "cancelled"))
  /\ UNCHANGED <<sessionVars, awardVars, commands>>

\* Rank keeps a frame from moving the status back, as of the load.
PhaseLoad(w, o, target) ==
  /\ w \in Telemetry /\ job[w].at = "idle" /\ status[o] \in Open
  /\ Rank[target] > Rank[status[o]]
  /\ Becomes(w, Loaded(o, "phase", target))
  /\ UNCHANGED <<sessionVars, awardVars, commands>>

StatusCommit(w) ==
  /\ job[w].at \in {"cancel", "phase"}
  /\ WriteStatus(w, job[w].to)
  /\ Finish(w)

-----------------------------------------------------------------------------
\* complete_from_event.  An event is what the gates read of it.

Events == [ours: BOOLEAN,                          \* station match
           claim: {"confirmed", "fault"},          \* the machine's status
           actual: Positions \cup {NoPosition},
           sound: BOOLEAN,    \* weight, stability, beam and mechanics all pass
           carriage: Positions \cup {NoPosition}]

PhysicallyValidAnywhere(e, pos) ==   \* variant: no compartment gate
  /\ e.claim = "confirmed"
  /\ pos # NoPosition
  /\ e.sound
  /\ e.carriage = e.actual

\* _physical_failure, on the loaded copy.  A missing actual_position reads 0,
\* which no compartment is and a NULL expected_position does not equal.
PhysicallyValid(e, pos) ==
  /\ e.claim = "confirmed"
  /\ e.actual = pos /\ pos # NoPosition
  /\ e.sound
  /\ e.carriage = e.actual

\* The station is matched first, then the terminal check, expiry and gates;
\* on a terminal session both a mismatch and a duplicate change nothing.
ResultLoad(w, o, e) ==
  /\ w \in Completers /\ job[w].at = "idle" /\ status[o] \in Open
  /\ LET verdict == IF ~e.ours THEN "rejected"
                    ELSE IF lapsed[o] THEN "expired"
                    ELSE IF PhysicallyValid(e, expected[o]) THEN "confirmed"
                    ELSE "rejected"
     IN Becomes(w, IF verdict = "confirmed"
                   THEN Job("award", o, "pending", verdict, expected[o],
                            potential[o], e.actual, points[Owner[o]])
                   ELSE Loaded(o, "reject", verdict))
  /\ UNCHANGED <<sessionVars, awardVars, commands>>

RefusedNull(o, pos) == pos = NoPosition   \* variant: no UNIQUE operation_id

\* What waste_events refuses: a second row of the operation (UNIQUE) and a
\* NULL prediction (NOT NULL).  The whole transaction is then rolled back.
Refused(o, pos) == waste[o] # NoWaste \/ pos = NoPosition

\* record_rejection: the audit row and the closing status.
RejectCommitSplit(w) ==        \* variant: closes in a transaction of its own
  /\ job[w].at = "reject"
  /\ status' = [status EXCEPT ![job[w].op] = job[w].to]
  /\ Finish(w)
  /\ UNCHANGED <<expected, potential, lapsed, awardVars, commands>>

RejectCommit(w) ==
  /\ job[w].at = "reject"
  /\ LET o == job[w].op IN
     IF ~Refused(o, job[w].pos)
     THEN /\ waste' = [waste EXCEPT ![o] = Verdict("rejected", NoPosition, 0)]
          /\ status' = [status EXCEPT ![o] = job[w].to]
          /\ UNCHANGED <<expected, potential, lapsed, points, claimed, board,
                         faculty>>
     ELSE UNCHANGED <<sessionVars, awardVars>>
  /\ Finish(w)
  /\ UNCHANGED commands

BonusDueAnyClass(o, p) ==      \* variant: progress is not kept per waste class
  LET mine == {q \in Ops : Owner[q] = Owner[o] /\ waste[q].verdict = "confirmed"}
  IN /\ p = BonusPosition
     /\ Owner[o] \notin claimed
     /\ Cardinality(mine \cup {o}) >= BonusTarget

\* ChallengeService.on_deposit_confirmed: the row of the challenge is due
\* when the student's confirmed deposits, this one included, reach it.
BonusDue(o, p) ==
  LET mine == {q \in Ops : /\ Owner[q] = Owner[o]
                           /\ waste[q].verdict = "confirmed"
                           /\ waste[q].at = BonusPosition}
  IN /\ p = BonusPosition
     /\ Owner[o] \notin claimed
     /\ Cardinality(mine \cup {o}) >= BonusTarget

Upsert(rows, u, total) == [rows EXCEPT ![u] = total]

\* award_points and the challenge, one transaction.  users.points is written
\* from the balance read at the load; an award worth nothing writes nothing.
\* The leaderboards are upserted before the bonus is added.
AwardCommit(w) ==
  /\ job[w].at = "award"
  /\ LET o == job[w].op
         u == Owner[o]
         due == BonusDue(o, job[w].pos)
         awarded == job[w].bal + job[w].pts
         gain == job[w].pts + (IF due THEN BonusPoints ELSE 0)
     IN IF ~Refused(o, job[w].pos)
        THEN /\ waste' = [waste EXCEPT ![o] =
                            Verdict("confirmed", job[w].act, job[w].pts)]
             /\ status' = [status EXCEPT ![o] = "confirmed"]
             /\ points' = IF gain = 0 THEN points
                          ELSE [points EXCEPT ![u] = job[w].bal + gain]
             /\ claimed' = IF due THEN claimed \cup {u} ELSE claimed
             /\ board' = Upsert(board, u, awarded)
             /\ faculty' = [points EXCEPT ![u] = awarded]
             /\ UNCHANGED <<expected, potential, lapsed>>
        ELSE UNCHANGED <<sessionVars, awardVars>>
  /\ Finish(w)
  /\ UNCHANGED commands

\* Any other exception in the award (a leaderboard row inserted meanwhile, a
\* deadlock, a lost connection) rolls it back and is logged.
AwardAbort(w) ==
  /\ job[w].at = "award"
  /\ Finish(w)
  /\ UNCHANGED <<sessionVars, awardVars, commands>>

-----------------------------------------------------------------------------
\* Time and restarts.

Lapse(o) ==
  /\ status[o] # Absent /\ ~lapsed[o]
  /\ lapsed' = [lapsed EXCEPT ![o] = TRUE]
  /\ UNCHANGED <<status, expected, potential, awardVars, commands, job>>

\* The backend process dies: open transactions and pending publishes are lost.
Restart ==
  /\ job' = [w \in Workers |-> Idle]
  /\ UNCHANGED <<sessionVars, awardVars, commands>>

Create(w) ==
  \E o \in Ops : CreateCapture(w, o) \/ \E p \in Positions : CreateRouted(w, o, p)

Capture(w) ==
  \/ \E o \in Ops : CaptureLoad(w, o)
  \/ CaptureAnalyzing(w)
  \/ CaptureRetake(w)
  \/ CaptureUnroutable(w)
  \/ \E p \in Positions : CaptureTooLow(w, p) \/ CaptureRouted(w, p)

Complete(w) ==
  \/ \E o \in Ops, e \in Events : ResultLoad(w, o, e)
  \/ RejectCommit(w)
  \/ AwardCommit(w)
  \/ AwardAbort(w)

Next ==
  \/ \E w \in Workers :
        \/ Create(w)
        \/ Publish(w)
        \/ Capture(w)
        \/ \E o \in Ops : CancelLoad(w, o)
        \/ \E o \in Ops, t \in LivePhases : PhaseLoad(w, o, t)
        \/ StatusCommit(w)
        \/ Complete(w)
  \/ \E o \in Ops : Lapse(o)
  \/ Restart

Spec == Init /\ [][Next]_vars

-----------------------------------------------------------------------------
\* Type invariant of the rows and of the threads' private copies.
TypeOK ==
  /\ status \in [Ops -> Open \cup Terminal \cup {Absent}]
  /\ expected \in [Ops -> Positions \cup {NoPosition}]
  /\ potential \in [Ops -> Nat]
  /\ lapsed \in [Ops -> BOOLEAN]
  /\ waste \in [Ops -> [verdict: {"none", "confirmed", "rejected"},
                        at: Positions \cup {NoPosition}, worth: Nat]]
  /\ points \in [Users -> Nat]
  /\ claimed \subseteq Users
  /\ board \in [Users -> Nat]
  /\ faculty \in [Users -> Nat]
  /\ commands \subseteq Ops \X (Positions \cup {NoPosition})
  /\ job \in [Workers -> Jobs]

\* A session reads "confirmed" only while a confirmed waste event backs it,
\* and "expired" only while a rejected one does, whatever the threads that
\* cancel, capture or report telemetry for it do meanwhile: the UNIQUE
\* operation_id and the single transaction of award_points / record_rejection.
VerdictBacked ==
  \A o \in Ops :
    /\ status[o] = "confirmed" => waste[o].verdict = "confirmed"
    /\ status[o] = "expired" => waste[o].verdict = "rejected"

\* The verdict on an operation is given once: a duplicate deposit_result, on
\* the MQTT thread or on the HTTP callback, racing a timeout or a rejection,
\* never replaces it or awards again (waste_events.uq_waste_operation_id).
OneVerdict ==
  [][\A o \in Ops : waste[o] # NoWaste => waste'[o] = waste[o]]_vars

\* What a student's confirmed deposits are worth, and the challenge once as
\* many of its class as it asks for are among them.
Earned(u) ==
  LET mine == {o \in Ops : Owner[o] = u /\ waste[o].verdict = "confirmed"}
      worth == [o \in Ops |-> waste[o].worth]
      done == Cardinality({o \in mine : waste[o].at = BonusPosition}) >= BonusTarget
  IN SumFunctionOnSet(worth, mine) + (IF done THEN BonusPoints ELSE 0)

\* An award in hand for u whose balance has been overtaken since it was read.
Overtaken(w, u) ==
  job[w].at = "award" /\ Owner[job[w].op] = u /\ job[w].bal # points[u]

\* Every commit moves a balance by exactly what the student's confirmed
\* deposits gained with it, the challenge once its target is reached: no deposit
\* is lost or paid twice and no bonus is early, in whatever order events, duplicates
\* and crashes come.  The one exception is an award written from a balance that
\* another thread's award overtook (award_points reads without a lock): it puts
\* back the balance it read.  The upsert of the leaderboards comes before the
\* challenge, so a row written then is behind by the bonus at most.
LedgerMoves ==
  [][\A u \in Users :
       /\ points'[u] # points[u] => points'[u] - board'[u] \in {0, BonusPoints}
       /\ LET gained == Earned(u)' - Earned(u) IN
          \/ points'[u] = points[u] + gained
          \/ \E w \in Completers : /\ Overtaken(w, u) /\ job'[w] # job[w]
                                   /\ points'[u] = job[w].bal + gained]_vars

\* p and n are the compartment and the points of one policy, or no prediction.
Priced(p, n) == p = NoPosition \/ (p \in Positions /\ n = PolicyPoints[p])

\* The session of o, an award in hand for it and its confirmed deposit are each
\* worth what the policy of their compartment says, and the machine's compartment
\* is the predicted one.
AsPromised(o) ==
  /\ Priced(expected[o], potential[o])
  /\ \A w \in Workers : job[w].at = "award" /\ job[w].op = o =>
       /\ job[w].act = job[w].pos /\ job[w].pos # NoPosition
       /\ Priced(job[w].pos, job[w].pts)
  /\ waste[o].verdict = "confirmed" =>
       /\ waste[o].at \in Positions
       /\ waste[o].worth = PolicyPoints[waste[o].at]

\* The last commit of an upload whose prediction columns another upload rewrote
\* after it loaded them: it skips the column its stale copy agrees with.
StaleUpload(w, o) ==
  /\ job[w].at = "classify" /\ job[w].op = o /\ job'[w] # job[w]
  /\ <<job[w].pos, job[w].pts>> # <<expected[o], potential[o]>>

\* The points of a confirmed deposit are those of the policy of the compartment
\* it physically landed in, although expected_position and potential_points are
\* separate columns a retake rewrites: price and compartment come apart in no
\* step but the commit of one of two overlapping uploads.
AwardMatchesPolicy ==
  [][\A o \in Ops : AsPromised(o) =>
       AsPromised(o)' \/ \E w \in Capturers : StaleUpload(w, o)]_vars

\* A route command leaves the backend only after the prediction it carries
\* out has been committed, so the event it provokes can be validated.
RoutedAfterCommit ==
  \A o \in Ops, p \in Positions : <<o, p>> \in commands => expected[o] # NoPosition

\* Handlers that loaded the session of o while it was open and have not written
\* it yet.
InFlight(o) ==
  {w \in Workers : job[w].op = o /\ job[w].at \notin {"idle", "publish"}}

\* Points were awarded for o exactly when its session reads "confirmed".
Agrees(o) == waste[o].verdict = "confirmed" <=> status[o] = "confirmed"

\* Award and session agree in both directions, and come apart only when a handler
\* that had loaded the session before the award writes it afterwards: once it
\* reads "confirmed" nobody new gets hold of it, so with those few gone it stands.
ConfirmedStands ==
  [][\A o \in Ops : Agrees(o) =>
       \/ /\ Agrees(o)'
          /\ status[o] = "confirmed" => InFlight(o)' \subseteq InFlight(o)
       \/ /\ status[o] = "confirmed"
          /\ \E w \in InFlight(o) : job'[w] # job[w]]_vars
=============================================================================
