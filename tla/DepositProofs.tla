---------------------------- MODULE DepositProofs ----------------------------
(***************************************************************************)
(* Theorems about DepositLifecycle for every set of operations, students,  *)
(* compartments and threads, proved by one inductive invariant per         *)
(* property.  TypeOK types the rows and the private copies; the other      *)
(* invariants say what a thread's copy is still worth when it commits.     *)
(* No theorem limits the number of threads.  Three of the properties fail   *)
(* in one kind of step each (a write to a session loaded before its award, *)
(* the commit of a stale upload, an award overtaken by another), and the   *)
(* theorems say that no other step breaks them.                            *)
(***************************************************************************)
EXTENDS DepositLifecycle, SumProofs

\* The job records the actions build are jobs.
LEMMA JobType ==
  ASSUME NEW stage \in Stage, NEW o \in Ops, NEW seen \in Open,
         NEW to \in Open \cup Terminal, NEW pos \in Positions \cup {NoPosition},
         NEW pts \in Nat, NEW act \in Positions \cup {NoPosition}, NEW bal \in Nat
  PROVE  Job(stage, o, seen, to, pos, pts, act, bal) \in Jobs
BY DEF Job, Jobs, JobRecords

\* So is the record of a finished thread.
LEMMA IdleType == Idle \in Jobs
BY DEF Idle, Job, Jobs, JobRecords, Stage, Open, NoPosition

\* So is the copy of a row just loaded.
LEMMA LoadedType ==
  ASSUME TypeOK, NEW o \in Ops, NEW stage \in Stage, NEW to \in Open \cup Terminal
  PROVE  Loaded(o, stage, to) \in Jobs
BY JobType DEF Loaded, TypeOK, Open

\* So is a command waiting to be handed over.
LEMMA ToPublishType ==
  ASSUME NEW o \in Ops, NEW p \in Positions \cup {NoPosition}
  PROVE  ToPublish(o, p) \in Jobs
BY JobType DEF ToPublish, Stage, Open

\* A thread that takes on a job leaves every thread with one.
LEMMA BecomesType ==
  ASSUME TypeOK, NEW w \in Workers, NEW j \in Jobs, Becomes(w, j)
  PROVE  /\ job' \in [Workers -> Jobs]
         /\ job'[w] = j
         /\ \A v \in Workers \ {w} : job'[v] = job[v]
BY DEF TypeOK, Becomes

\* A thread that finishes leaves every other thread where it was.
LEMMA FinishType ==
  ASSUME TypeOK, NEW w \in Workers, Finish(w)
  PROVE  /\ job' \in [Workers -> Jobs]
         /\ job'[w] = Idle
         /\ \A v \in Workers \ {w} : job'[v] = job[v]
BY BecomesType, IdleType DEF Finish

\* The fields of a job a thread holds; a stage other than "idle" and "publish"
\* is about an operation whose row was loaded.
LEMMA JobFields ==
  ASSUME TypeOK, NEW w \in Workers
  PROVE  /\ job[w].at \in Stage
         /\ job[w].at # "idle" => job[w].op \in Ops
         /\ job[w].seen \in Open
         /\ job[w].to \in Open \cup Terminal
         /\ job[w].pos \in Positions \cup {NoPosition}
         /\ job[w].act \in Positions \cup {NoPosition}
         /\ job[w].pts \in Nat /\ job[w].bal \in Nat
BY DEF TypeOK, Jobs, JobRecords

\* create_session keeps the rows and the copies typed.
LEMMA CreateType ==
  ASSUME TypeOK, NEW w \in Workers, Create(w)
  PROVE  TypeOK'
<1>1. ASSUME NEW o \in Ops, CreateCapture(w, o)
      PROVE  TypeOK'
  <2>1. job' \in [Workers -> Jobs]
    BY <1>1, BecomesType, ToPublishType DEF CreateCapture
  <2>. QED
    BY <1>1, <2>1 DEF CreateCapture, TypeOK, Open, awardVars
<1>2. ASSUME NEW o \in Ops, NEW p \in Positions, CreateRouted(w, o, p)
      PROVE  TypeOK'
  <2>1. job' \in [Workers -> Jobs]
    BY <1>2, BecomesType, ToPublishType DEF CreateRouted
  <2>. QED
    BY <1>2, <2>1, DepositAssumption DEF CreateRouted, TypeOK, Open, awardVars
<1>. QED
  BY <1>1, <1>2 DEF Create

\* Handing a command over keeps them typed.
LEMMA PublishType ==
  ASSUME TypeOK, NEW w \in Workers, Publish(w)
  PROVE  TypeOK'
<1>1. job' \in [Workers -> Jobs]
  BY FinishType DEF Publish
<1>2. commands' \subseteq Ops \X (Positions \cup {NoPosition})
  BY JobFields DEF Publish, TypeOK
<1>. QED
  BY <1>1, <1>2 DEF Publish, TypeOK, sessionVars, awardVars

\* A status write keeps the rows typed when the status is one.
LEMMA WriteStatusType ==
  ASSUME TypeOK, NEW w \in Workers, NEW s \in Open \cup Terminal,
         WriteStatus(w, s), job' \in [Workers -> Jobs]
  PROVE  TypeOK'
BY DEF WriteStatus, TypeOK, awardVars

\* So does writing a prediction, whichever of its columns it changes.
LEMMA WritePredictionType ==
  ASSUME TypeOK, NEW w \in Workers, NEW p \in Positions,
         NEW s \in Open \cup Terminal,
         WritePrediction(w, p, s), job' \in [Workers -> Jobs]
  PROVE  TypeOK'
<1>1. PolicyPoints[p] \in Nat
  BY DepositAssumption
<1>2. /\ status' \in [Ops -> Open \cup Terminal \cup {Absent}]
      /\ expected' \in [Ops -> Positions \cup {NoPosition}]
      /\ potential' \in [Ops -> Nat]
  BY <1>1 DEF WritePrediction, TypeOK
<1>. QED
  BY <1>2 DEF WritePrediction, TypeOK, awardVars

\* handle_capture keeps the rows and the copies typed.
LEMMA CaptureType ==
  ASSUME TypeOK, NEW w \in Workers, Capture(w)
  PROVE  TypeOK'
<1>1. ASSUME NEW o \in Ops, CaptureLoad(w, o)
      PROVE  TypeOK'
  <2>1. job' \in [Workers -> Jobs]
    BY <1>1, BecomesType, JobType
       DEF CaptureLoad, TypeOK, Stage, Open
  <2>. QED
    BY <1>1, <2>1 DEF CaptureLoad, TypeOK, sessionVars, awardVars
<1>2. CASE CaptureAnalyzing(w)
  <2>1. job' \in [Workers -> Jobs]
    BY <1>2, BecomesType, JobType, JobFields
       DEF CaptureAnalyzing, Stage, Open
  <2>2. CASE job[w].seen = "analyzing"
    BY <1>2, <2>1, <2>2 DEF CaptureAnalyzing, TypeOK, sessionVars, awardVars
  <2>3. CASE job[w].seen # "analyzing"
    BY <1>2, <2>1, <2>3, WriteStatusType DEF CaptureAnalyzing, Open
  <2>. QED
    BY <2>2, <2>3
<1>3. CASE CaptureRetake(w)
  BY <1>3, FinishType, WriteStatusType DEF CaptureRetake, Open
<1>4. CASE CaptureUnroutable(w)
  BY <1>4, FinishType DEF CaptureUnroutable, TypeOK, sessionVars, awardVars
<1>5. ASSUME NEW p \in Positions, CaptureTooLow(w, p)
      PROVE  TypeOK'
  BY <1>5, FinishType, WritePredictionType DEF CaptureTooLow, Terminal
<1>6. ASSUME NEW p \in Positions, CaptureRouted(w, p)
      PROVE  TypeOK'
  <2>1. job' \in [Workers -> Jobs]
    BY <1>6, BecomesType, ToPublishType, JobFields DEF CaptureRouted
  <2>. QED
    BY <1>6, <2>1, WritePredictionType DEF CaptureRouted, Open
<1>. QED
  BY <1>1, <1>2, <1>3, <1>4, <1>5, <1>6 DEF Capture

\* The empty database and idle threads are typed.
LEMMA InitType == Init => TypeOK
BY IdleType, DepositAssumption
   DEF Init, TypeOK, NoWaste, Verdict, NoPosition, Absent

\* cancel and apply_machine_state keep them typed.
LEMMA StatusType ==
  ASSUME TypeOK, NEW w \in Workers,
         \/ \E o \in Ops : CancelLoad(w, o)
         \/ \E o \in Ops, t \in LivePhases : PhaseLoad(w, o, t)
         \/ StatusCommit(w)
  PROVE  TypeOK'
<1>1. ASSUME NEW o \in Ops, CancelLoad(w, o)
      PROVE  TypeOK'
  <2>1. job' \in [Workers -> Jobs]
    BY <1>1, BecomesType, LoadedType DEF CancelLoad, Stage, Terminal
  <2>. QED
    BY <1>1, <2>1 DEF CancelLoad, TypeOK, sessionVars, awardVars
<1>2. ASSUME NEW o \in Ops, NEW t \in LivePhases, PhaseLoad(w, o, t)
      PROVE  TypeOK'
  <2>1. t \in Open \cup Terminal
    BY DepositAssumption DEF Open
  <2>2. job' \in [Workers -> Jobs]
    BY <1>2, <2>1, BecomesType, LoadedType DEF PhaseLoad, Stage
  <2>. QED
    BY <1>2, <2>2 DEF PhaseLoad, TypeOK, sessionVars, awardVars
<1>3. CASE StatusCommit(w)
  BY <1>3, FinishType, JobFields, WriteStatusType DEF StatusCommit
<1>. QED
  BY <1>1, <1>2, <1>3

\* The two jobs an event leads to: a rejection, or the award it was sound for.
LEMMA ResultLoadJob ==
  ASSUME TypeOK, NEW w \in Workers, NEW o \in Ops, NEW e \in Events,
         ResultLoad(w, o, e)
  PROVE  \E j \in Jobs :
           /\ Becomes(w, j)
           /\ \/ \E v \in {"rejected", "expired"} : j = Loaded(o, "reject", v)
              \/ /\ PhysicallyValid(e, expected[o])
                 /\ j = Job("award", o, "pending", "confirmed", expected[o],
                            potential[o], e.actual, points[Owner[o]])
<1>. DEFINE award == Job("award", o, "pending", "confirmed", expected[o],
                         potential[o], e.actual, points[Owner[o]])
<1>1. award \in Jobs
  BY JobType, DepositAssumption DEF Events, TypeOK, Stage, Open, Terminal
<1>2. \A v \in {"rejected", "expired"} : Loaded(o, "reject", v) \in Jobs
  BY LoadedType DEF Stage, Terminal
<1>3. \/ \E v \in {"rejected", "expired"} : Becomes(w, Loaded(o, "reject", v))
      \/ PhysicallyValid(e, expected[o]) /\ Becomes(w, award)
  BY Zenon DEF ResultLoad
<1>. QED
  BY <1>1, <1>2, <1>3

\* complete_from_event keeps them typed, whichever verdict it reaches.
LEMMA CompleteType ==
  ASSUME TypeOK, NEW w \in Workers, Complete(w)
  PROVE  TypeOK'
<1>1. ASSUME NEW o \in Ops, NEW e \in Events, ResultLoad(w, o, e)
      PROVE  TypeOK'
  <2>1. job' \in [Workers -> Jobs]
    BY <1>1, ResultLoadJob, BecomesType
  <2>. QED
    BY <1>1, <2>1 DEF ResultLoad, TypeOK, sessionVars, awardVars
<1>2. CASE RejectCommit(w)
  <2>1. job' \in [Workers -> Jobs]
    BY <1>2, FinishType DEF RejectCommit
  <2>2. CASE Refused(job[w].op, job[w].pos)
    BY <1>2, <2>1, <2>2 DEF RejectCommit, TypeOK, sessionVars, awardVars
  <2>3. CASE ~Refused(job[w].op, job[w].pos)
    <3>1. job[w].to \in Open \cup Terminal
      BY JobFields
    <3>2. /\ waste' \in [Ops -> [verdict: {"none", "confirmed", "rejected"},
                                 at: Positions \cup {NoPosition}, worth: Nat]]
          /\ status' \in [Ops -> Open \cup Terminal \cup {Absent}]
      BY <1>2, <2>3, <3>1 DEF RejectCommit, TypeOK, Verdict
    <3>. QED
      BY <1>2, <2>1, <2>3, <3>2 DEF RejectCommit, TypeOK
  <2>. QED
    BY <2>2, <2>3
<1>3. CASE AwardCommit(w)
  <2>1. job' \in [Workers -> Jobs]
    BY <1>3, FinishType DEF AwardCommit
  <2>2. CASE Refused(job[w].op, job[w].pos)
    BY <1>3, <2>1, <2>2 DEF AwardCommit, TypeOK, sessionVars, awardVars
  <2>3. CASE ~Refused(job[w].op, job[w].pos)
    <3>. DEFINE o == job[w].op
                u == Owner[o]
                due == BonusDue(o, job[w].pos)
                gain == job[w].pts + (IF due THEN BonusPoints ELSE 0)
    <3>1. o \in Ops /\ u \in Users
      BY <1>3, JobFields, DepositAssumption DEF AwardCommit
    <3>2. /\ job[w].bal \in Nat /\ job[w].pts \in Nat /\ BonusPoints \in Nat
          /\ job[w].act \in Positions \cup {NoPosition}
      BY JobFields, DepositAssumption
    <3>3. job[w].bal + gain \in Nat /\ job[w].bal + job[w].pts \in Nat
      BY <3>2
    <3>4. /\ waste' = [waste EXCEPT ![o] =
                          Verdict("confirmed", job[w].act, job[w].pts)]
          /\ status' = [status EXCEPT ![o] = "confirmed"]
          /\ points' = IF gain = 0 THEN points
                       ELSE [points EXCEPT ![u] = job[w].bal + gain]
          /\ claimed' = IF due THEN claimed \cup {u} ELSE claimed
          /\ board' = [board EXCEPT ![u] = job[w].bal + job[w].pts]
          /\ faculty' = [points EXCEPT ![u] = job[w].bal + job[w].pts]
          /\ UNCHANGED <<expected, potential, lapsed, commands>>
      BY <1>3, <2>3 DEF AwardCommit, Upsert
    <3>. HIDE DEF gain, due, o, u
    <3>5. waste' \in [Ops -> [verdict: {"none", "confirmed", "rejected"},
                              at: Positions \cup {NoPosition}, worth: Nat]]
      BY <3>1, <3>2, <3>4 DEF TypeOK, Verdict
    <3>6. status' \in [Ops -> Open \cup Terminal \cup {Absent}]
      BY <3>1, <3>4 DEF TypeOK, Terminal
    <3>7. /\ points' \in [Users -> Nat] /\ claimed' \subseteq Users
          /\ board' \in [Users -> Nat] /\ faculty' \in [Users -> Nat]
      BY <3>1, <3>3, <3>4 DEF TypeOK
    <3>. QED
      BY <2>1, <3>4, <3>5, <3>6, <3>7 DEF TypeOK
  <2>. QED
    BY <2>2, <2>3
<1>4. CASE AwardAbort(w)
  BY <1>4, FinishType DEF AwardAbort, TypeOK, sessionVars, awardVars
<1>. QED
  BY <1>1, <1>2, <1>3, <1>4 DEF Complete

\* The clock and a restart keep them typed.
LEMMA EnvironmentType ==
  ASSUME TypeOK, (\E o \in Ops : Lapse(o)) \/ Restart
  PROVE  TypeOK'
<1>1. ASSUME NEW o \in Ops, Lapse(o)
      PROVE  TypeOK'
  BY <1>1 DEF Lapse, TypeOK, awardVars
<1>2. CASE Restart
  BY <1>2, IdleType DEF Restart, TypeOK, sessionVars, awardVars
<1>. QED
  BY <1>1, <1>2

\* Every step keeps the rows and the copies typed.
LEMMA TypeStep == TypeOK /\ [Next]_vars => TypeOK'
<1>. SUFFICES ASSUME TypeOK, [Next]_vars
              PROVE  TypeOK'
  OBVIOUS
<1>1. ASSUME NEW w \in Workers, Create(w)
      PROVE  TypeOK'
  BY <1>1, CreateType
<1>2. ASSUME NEW w \in Workers, Publish(w)
      PROVE  TypeOK'
  BY <1>2, PublishType
<1>3. ASSUME NEW w \in Workers, Capture(w)
      PROVE  TypeOK'
  BY <1>3, CaptureType
<1>4. ASSUME NEW w \in Workers,
             \/ \E o \in Ops : CancelLoad(w, o)
             \/ \E o \in Ops, t \in LivePhases : PhaseLoad(w, o, t)
             \/ StatusCommit(w)
      PROVE  TypeOK'
  BY <1>4, StatusType
<1>5. ASSUME NEW w \in Workers, Complete(w)
      PROVE  TypeOK'
  BY <1>5, CompleteType
<1>6. CASE (\E o \in Ops : Lapse(o)) \/ Restart
  BY <1>6, EnvironmentType
<1>7. CASE UNCHANGED vars
  BY <1>7 DEF vars, sessionVars, awardVars, TypeOK
<1>. QED
  BY <1>1, <1>2, <1>3, <1>4, <1>5, <1>6, <1>7 DEF Next

\* Type correctness of the sessions, the ledger and the threads' copies, for
\* any number of operations, students, compartments and threads.
THEOREM TypeCorrect == Spec => []TypeOK
BY InitType, TypeStep, PTL DEF Spec

-----------------------------------------------------------------------------
\* One verdict per operation.

\* Only an award or a rejection writes a waste event, and not over another.
LEMMA WasteStep ==
  ASSUME TypeOK, [Next]_vars, NEW o \in Ops, waste[o] # NoWaste
  PROVE  waste'[o] = waste[o]
<1>1. ASSUME NEW w \in Workers, RejectCommit(w)
      PROVE  waste'[o] = waste[o]
  BY <1>1, JobFields DEF RejectCommit, Refused, TypeOK, awardVars
<1>2. ASSUME NEW w \in Workers, AwardCommit(w)
      PROVE  waste'[o] = waste[o]
  BY <1>2, JobFields DEF AwardCommit, Refused, TypeOK, awardVars
<1>3. ASSUME NEW w \in Workers, Create(w) \/ Publish(w) \/ Capture(w)
      PROVE  waste' = waste
  BY <1>3 DEF Create, CreateRouted, CreateCapture, Publish, Capture, CaptureLoad,
              CaptureAnalyzing, CaptureRetake, CaptureUnroutable, CaptureTooLow,
              CaptureRouted, WriteStatus, WritePrediction, awardVars
<1>4. ASSUME NEW w \in Workers,
             \/ \E q \in Ops : CancelLoad(w, q)
             \/ \E q \in Ops, t \in LivePhases : PhaseLoad(w, q, t)
             \/ StatusCommit(w)
      PROVE  waste' = waste
  BY <1>4 DEF CancelLoad, PhaseLoad, StatusCommit, WriteStatus, awardVars
<1>5. ASSUME NEW w \in Workers, NEW q \in Ops, NEW e \in Events,
             ResultLoad(w, q, e)
      PROVE  waste' = waste
  BY <1>5 DEF ResultLoad, awardVars
<1>6. ASSUME NEW w \in Workers, AwardAbort(w)
      PROVE  waste' = waste
  BY <1>6 DEF AwardAbort, awardVars
<1>7. ASSUME (\E q \in Ops : Lapse(q)) \/ Restart \/ UNCHANGED vars
      PROVE  waste' = waste
  BY <1>7 DEF Lapse, Restart, vars, awardVars
<1>. QED
  BY <1>1, <1>2, <1>3, <1>4, <1>5, <1>6, <1>7 DEF Next, Complete

\* uq_waste_operation_id: whatever duplicates, callbacks, timeouts and restarts
\* race, the verdict on an operation is given at most once.
THEOREM VerdictGivenOnce == Spec => OneVerdict
<1>1. TypeOK /\ [Next]_vars
        => [\A o \in Ops : waste[o] # NoWaste => waste'[o] = waste[o]]_vars
  BY WasteStep
<1>. QED
  BY <1>1, TypeCorrect, PTL DEF Spec, OneVerdict

-----------------------------------------------------------------------------
\* A verdict the session shows is backed by its waste event.

\* The status a thread is about to write is one its handler writes.
TargetsOK ==
  \A w \in Workers :
    /\ job[w].at = "cancel" => job[w].to = "cancelled"
    /\ job[w].at = "phase" => job[w].to \in LivePhases
    /\ job[w].at = "reject" => job[w].to \in {"rejected", "expired"}

BackedInv == TypeOK /\ TargetsOK /\ VerdictBacked

\* A thread that takes on a job with a proper target keeps the targets proper.
LEMMA TargetStep ==
  ASSUME TypeOK, TargetsOK, NEW w \in Workers, NEW j \in Jobs, Becomes(w, j),
         j.at = "cancel" => j.to = "cancelled",
         j.at = "phase" => j.to \in LivePhases,
         j.at = "reject" => j.to \in {"rejected", "expired"}
  PROVE  TargetsOK'
BY BecomesType DEF TargetsOK

\* A thread that finishes does too.
LEMMA TargetFinish ==
  ASSUME TypeOK, TargetsOK, NEW w \in Workers, Finish(w)
  PROVE  TargetsOK'
BY IdleType, TargetStep DEF Finish, Idle, Job

\* No status but the two verdicts needs a waste event behind it.
LEMMA HarmlessStatus ==
  ASSUME TypeOK, VerdictBacked, waste' = waste,
         NEW o \in Ops, NEW s, s \notin {"confirmed", "expired"},
         status' = [status EXCEPT ![o] = s]
  PROVE  VerdictBacked'
BY DEF VerdictBacked, TypeOK

\* So a single-column status write other than those keeps verdicts backed.
LEMMA HarmlessWrite ==
  ASSUME BackedInv, NEW w \in Workers, job[w].at # "idle",
         NEW s, s \notin {"confirmed", "expired"}, WriteStatus(w, s)
  PROVE  VerdictBacked'
<1>1. job[w].op \in Ops
  BY JobFields DEF BackedInv
<1>2. status' = [status EXCEPT ![job[w].op] = s] /\ waste' = waste
  BY DEF WriteStatus, awardVars
<1>. QED
  BY <1>1, <1>2, HarmlessStatus DEF BackedInv

\* create_session and the hand-over write no verdict.
LEMMA BackedCreate ==
  ASSUME BackedInv, NEW w \in Workers, Create(w) \/ Publish(w)
  PROVE  TargetsOK' /\ VerdictBacked'
<1>1. ASSUME NEW o \in Ops, CreateCapture(w, o)
      PROVE  TargetsOK' /\ VerdictBacked'
  BY <1>1, ToPublishType, TargetStep, HarmlessStatus
     DEF CreateCapture, BackedInv, ToPublish, Job, awardVars
<1>2. ASSUME NEW o \in Ops, NEW p \in Positions, CreateRouted(w, o, p)
      PROVE  TargetsOK' /\ VerdictBacked'
  BY <1>2, ToPublishType, TargetStep, HarmlessStatus
     DEF CreateRouted, BackedInv, ToPublish, Job, awardVars
<1>3. CASE Publish(w)
  BY <1>3, TargetFinish
     DEF Publish, BackedInv, VerdictBacked, sessionVars, awardVars
<1>. QED
  BY <1>1, <1>2, <1>3 DEF Create

\* handle_capture writes no verdict a waste event must back: a frame it rejects
\* reads "rejected".
LEMMA BackedCapture ==
  ASSUME BackedInv, NEW w \in Workers, Capture(w)
  PROVE  TargetsOK' /\ VerdictBacked'
<1>1. ASSUME NEW o \in Ops, CaptureLoad(w, o)
      PROVE  TargetsOK' /\ VerdictBacked'
  <2>. DEFINE j == Job("analyze", o, status[o], "analyzing", expected[o],
                       potential[o], NoPosition, 0)
  <2>1. j \in Jobs /\ j.at = "analyze"
    BY <1>1, JobType DEF CaptureLoad, BackedInv, TypeOK, Stage, Open, Job
  <2>2. Becomes(w, j)
    BY <1>1 DEF CaptureLoad
  <2>3. TargetsOK'
    BY <2>1, <2>2, TargetStep DEF BackedInv
  <2>. QED
    BY <1>1, <2>3 DEF CaptureLoad, BackedInv, VerdictBacked, sessionVars, awardVars
<1>2. CASE CaptureAnalyzing(w)
  <2>. DEFINE j == Job("classify", job[w].op, "analyzing", "pending", job[w].pos,
                       job[w].pts, NoPosition, 0)
  <2>1. j \in Jobs /\ j.at = "classify" /\ job[w].op \in Ops
    BY <1>2, JobType, JobFields DEF CaptureAnalyzing, BackedInv, Stage, Open, Job
  <2>2. Becomes(w, j)
    BY <1>2 DEF CaptureAnalyzing
  <2>3. TargetsOK'
    BY <2>1, <2>2, TargetStep DEF BackedInv
  <2>4. VerdictBacked'
    <3>1. CASE job[w].seen = "analyzing"
      BY <1>2, <3>1 DEF CaptureAnalyzing, BackedInv, VerdictBacked, sessionVars,
                        awardVars
    <3>2. CASE job[w].seen # "analyzing"
      BY <1>2, <3>2, HarmlessWrite DEF CaptureAnalyzing
    <3>. QED
      BY <3>1, <3>2
  <2>. QED
    BY <2>3, <2>4
<1>3. CASE CaptureRetake(w)
  <2>1. VerdictBacked'
    BY <1>3, HarmlessWrite DEF CaptureRetake
  <2>. QED
    BY <1>3, <2>1, TargetFinish DEF CaptureRetake, BackedInv
<1>4. CASE CaptureUnroutable(w)
  BY <1>4, TargetFinish
     DEF CaptureUnroutable, BackedInv, VerdictBacked, sessionVars, awardVars
<1>5. ASSUME NEW p \in Positions, CaptureTooLow(w, p)
      PROVE  TargetsOK' /\ VerdictBacked'
  <2>1. /\ job[w].op \in Ops
        /\ status' = [status EXCEPT ![job[w].op] = "rejected"] /\ waste' = waste
    BY <1>5, JobFields DEF CaptureTooLow, BackedInv, WritePrediction, awardVars
  <2>2. TargetsOK'
    BY <1>5, TargetFinish DEF CaptureTooLow, BackedInv
  <2>3. VerdictBacked'
    BY <2>1, HarmlessStatus DEF BackedInv
  <2>. QED
    BY <2>2, <2>3
<1>6. ASSUME NEW p \in Positions, CaptureRouted(w, p)
      PROVE  TargetsOK' /\ VerdictBacked'
  <2>1. /\ job[w].op \in Ops
        /\ ToPublish(job[w].op, p) \in Jobs
        /\ ToPublish(job[w].op, p).at = "publish"
    BY <1>6, JobFields, ToPublishType DEF CaptureRouted, BackedInv, ToPublish, Job
  <2>2. TargetsOK'
    BY <1>6, <2>1, TargetStep DEF CaptureRouted, BackedInv
  <2>3. status' = [status EXCEPT ![job[w].op] = "pending"] /\ waste' = waste
    BY <1>6 DEF CaptureRouted, WritePrediction, awardVars
  <2>4. VerdictBacked'
    BY <2>1, <2>3, HarmlessStatus DEF BackedInv
  <2>. QED
    BY <2>2, <2>4
<1>. QED
  BY <1>1, <1>2, <1>3, <1>4, <1>5, <1>6 DEF Capture

\* A cancel or a telemetry frame overwrites with a status that is no verdict.
LEMMA BackedStatus ==
  ASSUME BackedInv, NEW w \in Workers,
         \/ \E o \in Ops : CancelLoad(w, o)
         \/ \E o \in Ops, t \in LivePhases : PhaseLoad(w, o, t)
         \/ StatusCommit(w)
  PROVE  TargetsOK' /\ VerdictBacked'
<1>1. ASSUME NEW o \in Ops, CancelLoad(w, o)
      PROVE  TargetsOK' /\ VerdictBacked'
  <2>1. Loaded(o, "cancel", "cancelled") \in Jobs
    BY LoadedType DEF BackedInv, Stage, Terminal
  <2>. QED
    BY <1>1, <2>1, TargetStep
       DEF CancelLoad, BackedInv, VerdictBacked, Loaded, Job, sessionVars, awardVars
<1>2. ASSUME NEW o \in Ops, NEW t \in LivePhases, PhaseLoad(w, o, t)
      PROVE  TargetsOK' /\ VerdictBacked'
  <2>1. Loaded(o, "phase", t) \in Jobs
    BY LoadedType, DepositAssumption DEF BackedInv, Stage, Open
  <2>. QED
    BY <1>2, <2>1, TargetStep
       DEF PhaseLoad, BackedInv, VerdictBacked, Loaded, Job, sessionVars, awardVars
<1>3. CASE StatusCommit(w)
  <2>1. job[w].to \notin {"confirmed", "expired"}
    BY <1>3, DepositAssumption DEF StatusCommit, BackedInv, TargetsOK, MachineStatus
  <2>2. VerdictBacked'
    BY <1>3, <2>1, HarmlessWrite DEF StatusCommit
  <2>. QED
    BY <1>3, <2>2, TargetFinish DEF StatusCommit, BackedInv
<1>. QED
  BY <1>1, <1>2, <1>3

\* A verdict is written with its waste event, in one commit.
LEMMA BackedComplete ==
  ASSUME BackedInv, NEW w \in Workers, Complete(w)
  PROVE  TargetsOK' /\ VerdictBacked'
<1>1. ASSUME NEW o \in Ops, NEW e \in Events, ResultLoad(w, o, e)
      PROVE  TargetsOK' /\ VerdictBacked'
  <2>1. PICK j \in Jobs :
          /\ Becomes(w, j)
          /\ \/ j.at = "reject" /\ j.to \in {"rejected", "expired"}
             \/ j.at = "award"
    BY <1>1, ResultLoadJob DEF BackedInv, Loaded, Job
  <2>2. TargetsOK'
    BY <2>1, TargetStep DEF BackedInv
  <2>. QED
    BY <1>1, <2>2 DEF ResultLoad, BackedInv, VerdictBacked, sessionVars, awardVars
<1>2. CASE RejectCommit(w)
  <2>1. job[w].op \in Ops /\ job[w].to \in {"rejected", "expired"}
    BY <1>2, JobFields DEF RejectCommit, BackedInv, TargetsOK
  <2>2. TargetsOK'
    BY <1>2, TargetFinish DEF RejectCommit, BackedInv
  <2>3. VerdictBacked'
    BY <1>2, <2>1 DEF RejectCommit, BackedInv, VerdictBacked, TypeOK, Verdict,
                      sessionVars, awardVars
  <2>. QED
    BY <2>2, <2>3
<1>3. CASE AwardCommit(w)
  <2>1. job[w].op \in Ops
    BY <1>3, JobFields DEF AwardCommit, BackedInv
  <2>2. TargetsOK'
    BY <1>3, TargetFinish DEF AwardCommit, BackedInv
  <2>3. VerdictBacked'
    BY <1>3, <2>1 DEF AwardCommit, BackedInv, VerdictBacked, TypeOK, Verdict,
                      sessionVars, awardVars
  <2>. QED
    BY <2>2, <2>3
<1>4. CASE AwardAbort(w)
  BY <1>4, TargetFinish
     DEF AwardAbort, BackedInv, VerdictBacked, sessionVars, awardVars
<1>. QED
  BY <1>1, <1>2, <1>3, <1>4 DEF Complete

\* Every step keeps every verdict backed.
LEMMA BackedStep == BackedInv /\ [Next]_vars => BackedInv'
<1>. SUFFICES ASSUME BackedInv, [Next]_vars
              PROVE  TargetsOK' /\ VerdictBacked'
  BY TypeStep DEF BackedInv
<1>1. CASE \E o \in Ops : Lapse(o)
  BY <1>1 DEF Lapse, BackedInv, TargetsOK, VerdictBacked, awardVars
<1>2. CASE Restart
  BY <1>2 DEF Restart, BackedInv, TargetsOK, VerdictBacked, Idle, Job,
              sessionVars, awardVars
<1>3. CASE UNCHANGED vars
  BY <1>3 DEF vars, BackedInv, TargetsOK, VerdictBacked, sessionVars, awardVars
<1>. QED
  BY <1>1, <1>2, <1>3, BackedCreate, BackedCapture, BackedStatus, BackedComplete
     DEF Next

\* Whatever cancels, captures and telemetry race the completion, a session
\* never reads "confirmed" or "expired" without the waste event behind it.
THEOREM VerdictAlwaysBacked == Spec => []VerdictBacked
<1>1. Init => BackedInv
  BY InitType DEF Init, BackedInv, TargetsOK, VerdictBacked, Idle, Job, Absent
<1>. QED
  BY <1>1, BackedStep, PTL DEF Spec, BackedInv

-----------------------------------------------------------------------------
(* Points and status: the handlers that can separate them are those that    *)
(* loaded the session before its award.                                     *)

\* What a step may do to the session of o.
Stands(o) ==
  \/ /\ Agrees(o)'
     /\ status[o] = "confirmed" => InFlight(o)' \subseteq InFlight(o)
  \/ /\ status[o] = "confirmed"
     /\ \E w \in InFlight(o) : job'[w] # job[w]

\* A thread that reads or publishes gets hold of no confirmed session, unless it
\* has it already.
LEMMA StandsRead ==
  ASSUME BackedInv, NEW o \in Ops, Agrees(o), NEW w \in Workers, NEW j \in Jobs,
         Becomes(w, j), UNCHANGED <<status, waste>>,
         j.at \notin {"idle", "publish"} =>
           status[j.op] # "confirmed" \/ w \in InFlight(j.op)
  PROVE  Stands(o)
<1>1. job'[w] = j /\ \A v \in Workers \ {w} : job'[v] = job[v]
  BY BecomesType DEF BackedInv
<1>2. status[o] = "confirmed" => InFlight(o)' \subseteq InFlight(o)
  BY <1>1 DEF InFlight
<1>. QED
  BY <1>2 DEF Stands, Agrees

\* A thread that writes a status other than the verdict of an award: it creates
\* the session or has held it since it was open.
LEMMA StandsWrite ==
  ASSUME BackedInv, NEW o \in Ops, Agrees(o), NEW w \in Workers, NEW j \in Jobs,
         Becomes(w, j), j # job[w],
         NEW q \in Ops, status[q] # "confirmed" \/ w \in InFlight(q),
         NEW s, s # "confirmed", status' = [status EXCEPT ![q] = s],
         \A x \in Ops : \/ waste'[x] = waste[x]
                        \/ x = q /\ waste'[x].verdict # "confirmed",
         j.at \notin {"idle", "publish"} => j.op = q
  PROVE  Stands(o)
<1>1. job'[w] = j /\ \A v \in Workers \ {w} : job'[v] = job[v]
  BY BecomesType DEF BackedInv
<1>2. CASE o = q /\ status[q] = "confirmed"
  BY <1>1, <1>2 DEF Stands
<1>3. CASE o = q /\ status[q] # "confirmed"
  BY <1>3 DEF Stands, Agrees, BackedInv, TypeOK
<1>4. CASE o # q
  <2>1. InFlight(o)' \subseteq InFlight(o)
    BY <1>1, <1>4 DEF InFlight
  <2>. QED
    BY <1>4, <2>1 DEF Stands, Agrees, BackedInv, TypeOK
<1>. QED
  BY <1>2, <1>3, <1>4

\* create_session and the hand-over.
LEMMA StandsStart ==
  ASSUME BackedInv, NEW o \in Ops, Agrees(o), NEW w \in Workers,
         Create(w) \/ Publish(w)
  PROVE  Stands(o)
<1>1. ASSUME NEW q \in Ops, NEW p \in Positions \cup {NoPosition}, NEW s, s # "confirmed",
             job[w].at = "idle", status[q] = Absent,
             status' = [status EXCEPT ![q] = s], waste' = waste,
             Becomes(w, ToPublish(q, p))
      PROVE  Stands(o)
  <2>1. /\ ToPublish(q, p) \in Jobs /\ ToPublish(q, p).at = "publish"
        /\ status[q] # "confirmed"
    BY <1>1, ToPublishType DEF ToPublish, Job, Absent
  <2>2. ToPublish(q, p) # job[w]
    BY <1>1, <2>1
  <2>. QED
    BY <1>1, <2>1, <2>2, StandsWrite
<1>2. CASE Create(w)
  BY <1>1, <1>2 DEF Create, CreateCapture, CreateRouted, awardVars
<1>3. CASE Publish(w)
  BY <1>3, IdleType, StandsRead DEF Publish, Finish, Idle, Job, sessionVars, awardVars
<1>. QED
  BY <1>2, <1>3

\* handle_capture.
LEMMA StandsCapture ==
  ASSUME BackedInv, NEW o \in Ops, Agrees(o), NEW w \in Workers, Capture(w)
  PROVE  Stands(o)
<1>1. ASSUME NEW q \in Ops, CaptureLoad(w, q)
      PROVE  Stands(o)
  <2>. DEFINE j == Job("analyze", q, status[q], "analyzing", expected[q],
                       potential[q], NoPosition, 0)
  <2>1. /\ j \in Jobs /\ j.op = q /\ Becomes(w, j)
        /\ status[q] # "confirmed" /\ UNCHANGED <<status, waste>>
    BY <1>1, JobType DEF CaptureLoad, BackedInv, TypeOK, Stage, Open, MachineStatus, Job,
       sessionVars, awardVars
  <2>. HIDE DEF j
  <2>. QED
    BY <2>1, StandsRead
<1>2. ASSUME job[w].at \in {"analyze", "classify"}
      PROVE  /\ job[w].op \in Ops /\ w \in InFlight(job[w].op)
             /\ job[w] # Idle
  BY <1>2, JobFields DEF BackedInv, InFlight, Idle, Job
<1>3. ASSUME NEW s, s # "confirmed", job[w].at = "classify", NEW j \in Jobs,
             j.at \in {"idle", "publish"}, Becomes(w, j),
             status' = [status EXCEPT ![job[w].op] = s], waste' = waste
      PROVE  Stands(o)
  <2>1. j # job[w]
    BY <1>3
  <2>. QED
    BY <1>2, <1>3, <2>1, StandsWrite
<1>4. CASE CaptureAnalyzing(w)
  <2>. DEFINE j == Job("classify", job[w].op, "analyzing", "pending", job[w].pos,
                       job[w].pts, NoPosition, 0)
  <2>0. j.at = "classify" /\ j.op = job[w].op /\ job[w].at = "analyze" /\ Becomes(w, j)
    BY <1>4 DEF CaptureAnalyzing, Job
  <2>1. /\ j \in Jobs /\ j.at = "classify" /\ j.op = job[w].op /\ Becomes(w, j)
        /\ job[w].at = "analyze" /\ j # job[w]
    <3>1. j \in Jobs
      BY <1>2, <2>0, JobType, JobFields DEF BackedInv, Stage, Open
    <3>. HIDE DEF j
    <3>. QED
      BY <2>0, <3>1
  <2>. HIDE DEF j
  <2>2. CASE job[w].seen = "analyzing"
    <3>1. UNCHANGED <<status, waste>>
      BY <1>4, <2>2 DEF CaptureAnalyzing, sessionVars, awardVars
    <3>. QED
      BY <1>2, <2>1, <3>1, StandsRead
  <2>3. CASE job[w].seen # "analyzing"
    <3>1. status' = [status EXCEPT ![job[w].op] = "analyzing"] /\ waste' = waste
      BY <1>4, <2>3 DEF CaptureAnalyzing, WriteStatus, awardVars
    <3>. QED
      BY <1>2, <2>1, <3>1, StandsWrite
  <2>. QED
    BY <2>2, <2>3
<1>5. CASE CaptureRetake(w)
  BY <1>3, <1>5, IdleType DEF CaptureRetake, WriteStatus, Finish, Idle, Job, awardVars
<1>6. CASE CaptureUnroutable(w)
  BY <1>6, IdleType, StandsRead DEF CaptureUnroutable, Finish, Idle, Job, sessionVars,
     awardVars
<1>7. ASSUME NEW p \in Positions, CaptureTooLow(w, p)
      PROVE  Stands(o)
  BY <1>3, <1>7, IdleType DEF CaptureTooLow, WritePrediction, Finish, Idle, Job, awardVars
<1>8. ASSUME NEW p \in Positions, CaptureRouted(w, p)
      PROVE  Stands(o)
  <2>1. ToPublish(job[w].op, p) \in Jobs /\ ToPublish(job[w].op, p).at = "publish"
    BY <1>2, <1>8, ToPublishType DEF CaptureRouted, ToPublish, Job
  <2>. QED
    BY <1>3, <1>8, <2>1 DEF CaptureRouted, WritePrediction, awardVars
<1>. QED
  BY <1>1, <1>4, <1>5, <1>6, <1>7, <1>8 DEF Capture

\* cancel and apply_machine_state.
LEMMA StandsStatus ==
  ASSUME BackedInv, NEW o \in Ops, Agrees(o), NEW w \in Workers,
         \/ \E q \in Ops : CancelLoad(w, q)
         \/ \E q \in Ops, t \in LivePhases : PhaseLoad(w, q, t)
         \/ StatusCommit(w)
  PROVE  Stands(o)
<1>1. "confirmed" \notin Open
  BY DEF Open, MachineStatus
<1>2. ASSUME NEW q \in Ops, CancelLoad(w, q)
      PROVE  Stands(o)
  <2>1. Loaded(q, "cancel", "cancelled") \in Jobs
    BY LoadedType DEF BackedInv, Stage, Terminal
  <2>. QED
    BY <1>1, <1>2, <2>1, StandsRead DEF CancelLoad, Loaded, Job, sessionVars, awardVars
<1>3. ASSUME NEW q \in Ops, NEW t \in LivePhases, PhaseLoad(w, q, t)
      PROVE  Stands(o)
  <2>1. Loaded(q, "phase", t) \in Jobs
    BY LoadedType, DepositAssumption DEF BackedInv, Stage, Open
  <2>. QED
    BY <1>1, <1>3, <2>1, StandsRead DEF PhaseLoad, Loaded, Job, sessionVars, awardVars
<1>4. CASE StatusCommit(w)
  <2>1. /\ job[w].op \in Ops /\ w \in InFlight(job[w].op) /\ Idle # job[w]
        /\ job[w].to # "confirmed"
    BY <1>4, JobFields, DepositAssumption DEF StatusCommit, BackedInv, TargetsOK,
       InFlight, MachineStatus, Idle, Job
  <2>2. /\ status' = [status EXCEPT ![job[w].op] = job[w].to] /\ waste' = waste
        /\ Becomes(w, Idle) /\ Idle.at = "idle"
    BY <1>4 DEF StatusCommit, WriteStatus, Finish, Idle, Job, awardVars
  <2>. QED
    BY <2>1, <2>2, IdleType, StandsWrite
<1>. QED
  BY <1>2, <1>3, <1>4

\* An award writes both, a rejection neither.
LEMMA StandsComplete ==
  ASSUME BackedInv, NEW o \in Ops, Agrees(o), NEW w \in Workers, Complete(w)
  PROVE  Stands(o)
<1>1. ASSUME NEW q \in Ops, NEW e \in Events, ResultLoad(w, q, e)
      PROVE  Stands(o)
  <2>1. PICK j \in Jobs : Becomes(w, j) /\ j.op = q
    BY <1>1, ResultLoadJob DEF BackedInv, Loaded, Job
  <2>2. status[q] # "confirmed" /\ UNCHANGED <<status, waste>>
    BY <1>1 DEF ResultLoad, Open, MachineStatus, sessionVars, awardVars
  <2>. QED
    BY <2>1, <2>2, StandsRead
<1>2. ASSUME Finish(w), UNCHANGED <<sessionVars, awardVars>>
      PROVE  Stands(o)
  BY <1>2, IdleType, StandsRead DEF Finish, Idle, Job, sessionVars, awardVars
<1>3. CASE RejectCommit(w)
  <2>1. /\ job[w].op \in Ops /\ w \in InFlight(job[w].op) /\ Idle # job[w]
        /\ job[w].to # "confirmed" /\ Becomes(w, Idle) /\ Idle.at = "idle"
    BY <1>3, JobFields DEF RejectCommit, BackedInv, TargetsOK, InFlight, Finish, Idle, Job
  <2>2. CASE Refused(job[w].op, job[w].pos)
    BY <1>2, <1>3, <2>2 DEF RejectCommit
  <2>3. CASE ~Refused(job[w].op, job[w].pos)
    <3>1. /\ status' = [status EXCEPT ![job[w].op] = job[w].to]
          /\ waste' = [waste EXCEPT ![job[w].op] = Verdict("rejected", NoPosition, 0)]
      BY <1>3, <2>3 DEF RejectCommit
    <3>2. \A x \in Ops : \/ waste'[x] = waste[x]
                         \/ x = job[w].op /\ waste'[x].verdict # "confirmed"
      BY <2>1, <3>1 DEF BackedInv, TypeOK, Verdict
    <3>. QED
      BY <2>1, <3>1, <3>2, IdleType, StandsWrite
  <2>. QED
    BY <2>2, <2>3
<1>4. CASE AwardCommit(w)
  <2>1. job[w].op \in Ops /\ Finish(w)
    BY <1>4, JobFields DEF AwardCommit, BackedInv
  <2>2. CASE Refused(job[w].op, job[w].pos)
    BY <1>2, <1>4, <2>2 DEF AwardCommit
  <2>3. CASE ~Refused(job[w].op, job[w].pos)
    <3>1. /\ waste[job[w].op] = NoWaste
          /\ status' = [status EXCEPT ![job[w].op] = "confirmed"]
          /\ waste' = [waste EXCEPT ![job[w].op] =
                         Verdict("confirmed", job[w].act, job[w].pts)]
      BY <1>4, <2>3 DEF AwardCommit, Refused
    <3>2. Agrees(o)'
      BY <2>1, <3>1 DEF Agrees, BackedInv, TypeOK, Verdict
    <3>3. status[o] = "confirmed" => InFlight(o)' \subseteq InFlight(o)
      BY <2>1, FinishType DEF InFlight, BackedInv, Idle, Job
    <3>. QED
      BY <3>2, <3>3 DEF Stands
  <2>. QED
    BY <2>2, <2>3
<1>5. CASE AwardAbort(w)
  BY <1>2, <1>5 DEF AwardAbort
<1>. QED
  BY <1>1, <1>3, <1>4, <1>5 DEF Complete

\* Every step keeps points and status together, but those of the handlers that
\* had the session before its award.
LEMMA StandsStep ==
  ASSUME BackedInv, [Next]_vars, NEW o \in Ops, Agrees(o)
  PROVE  Stands(o)
<1>1. ASSUME (\E q \in Ops : Lapse(q)) \/ Restart \/ UNCHANGED vars
      PROVE  Stands(o)
  <2>1. UNCHANGED <<status, waste>>
    BY <1>1 DEF Lapse, Restart, vars, sessionVars, awardVars
  <2>2. \A v \in Workers : job'[v] = job[v] \/ job'[v].at = "idle"
    BY <1>1 DEF Lapse, Restart, vars, Idle, Job
  <2>. QED
    BY <2>1, <2>2 DEF Stands, Agrees, InFlight
<1>. QED
  BY <1>1, StandsStart, StandsCapture, StandsStatus, StandsComplete DEF Next

\* For any number of operations and of threads of every kind: points were awarded
\* for an operation exactly when its session reads "confirmed", from the start and
\* through every step but the late commit of a handler that had loaded the session
\* while it was open, and no new handler gets hold of a confirmed session.
THEOREM ConfirmedStays ==
  Spec => (\A o \in Ops : Agrees(o)) /\ ConfirmedStands
<1>1. Init => BackedInv /\ \A o \in Ops : Agrees(o)
  BY InitType DEF Init, BackedInv, TargetsOK, VerdictBacked, Agrees, Idle, Job, Absent,
     NoWaste, Verdict
<1>2. BackedInv /\ [Next]_vars =>
        [\A o \in Ops : Agrees(o) =>
           \/ /\ Agrees(o)'
              /\ status[o] = "confirmed" => InFlight(o)' \subseteq InFlight(o)
           \/ /\ status[o] = "confirmed"
              /\ \E w \in InFlight(o) : job'[w] # job[w]]_vars
  BY StandsStep DEF Stands
<1>. QED
  BY <1>1, <1>2, BackedStep, PTL DEF Spec, ConfirmedStands

-----------------------------------------------------------------------------
\* The prediction columns: a command follows its prediction.

\* A prediction once committed is never withdrawn, and a copy or a command
\* that carries one is of a session that has one.
PredictedInv ==
  /\ TypeOK
  /\ \A w \in Workers :
       job[w].at \in {"publish", "analyze", "classify"} /\ job[w].pos # NoPosition
         => expected[job[w].op] # NoPosition
  /\ RoutedAfterCommit

\* A step that keeps predictions, adds no command and gives at most one thread
\* a job, the job's prediction being committed, keeps PredictedInv's parts.
LEMMA PredictedFrame ==
  ASSUME PredictedInv, TypeOK', NEW w \in Workers, NEW j \in Jobs, Becomes(w, j),
         \A o \in Ops : expected[o] # NoPosition => expected'[o] # NoPosition,
         commands' = commands,
         j.at \in {"publish", "analyze", "classify"} /\ j.pos # NoPosition
           => expected'[j.op] # NoPosition
  PROVE  PredictedInv'
<1>1. \A v \in Workers :
        job'[v].at \in {"publish", "analyze", "classify"} /\ job'[v].pos # NoPosition
          => expected'[job'[v].op] # NoPosition
  <2>. SUFFICES ASSUME NEW v \in Workers,
                       job'[v].at \in {"publish", "analyze", "classify"},
                       job'[v].pos # NoPosition
                PROVE  expected'[job'[v].op] # NoPosition
    OBVIOUS
  <2>1. CASE v = w
    BY <2>1, BecomesType DEF PredictedInv
  <2>2. CASE v # w
    <3>1. job'[v] = job[v]
      BY <2>2, BecomesType DEF PredictedInv
    <3>2. job[v].op \in Ops
      BY <3>1, JobFields DEF PredictedInv
    <3>. QED
      BY <3>1, <3>2 DEF PredictedInv
  <2>. QED
    BY <2>1, <2>2
<1>2. RoutedAfterCommit'
  BY DEF PredictedInv, RoutedAfterCommit
<1>. QED
  BY <1>1, <1>2 DEF PredictedInv

\* The same for a thread that finishes.
LEMMA PredictedFinish ==
  ASSUME PredictedInv, TypeOK', NEW w \in Workers, Finish(w),
         \A o \in Ops : expected[o] # NoPosition => expected'[o] # NoPosition,
         commands' = commands
  PROVE  PredictedInv'
BY PredictedFrame, IdleType DEF Finish, Idle, Job

\* Writing a prediction commits one.
LEMMA PredictionCommitted ==
  ASSUME PredictedInv, NEW w \in Workers, NEW p \in Positions, NEW s,
         job[w].at = "classify", WritePrediction(w, p, s)
  PROVE  /\ \A o \in Ops : expected[o] # NoPosition => expected'[o] # NoPosition
         /\ expected'[job[w].op] # NoPosition
         /\ commands' = commands
<1>1. job[w].op \in Ops /\ p # NoPosition
  BY JobFields, DepositAssumption DEF PredictedInv
<1>. QED
  BY <1>1 DEF WritePrediction, PredictedInv, TypeOK

\* Every step keeps PredictedInv.
LEMMA PredictedStep ==
  ASSUME PredictedInv, [Next]_vars
  PROVE  PredictedInv'
<1>. TypeOK'
  BY TypeStep DEF PredictedInv
<1>1. ASSUME NEW w \in Workers, NEW o \in Ops, CreateCapture(w, o)
      PROVE  PredictedInv'
  BY <1>1, PredictedFrame, ToPublishType DEF CreateCapture, ToPublish, Job
<1>2. ASSUME NEW w \in Workers, NEW o \in Ops, NEW p \in Positions,
             CreateRouted(w, o, p)
      PROVE  PredictedInv'
  <2>1. p # NoPosition
    BY DepositAssumption
  <2>2. expected' = [expected EXCEPT ![o] = p] /\ commands' = commands
    BY <1>2 DEF CreateRouted
  <2>3. /\ \A q \in Ops : expected[q] # NoPosition => expected'[q] # NoPosition
        /\ expected'[o] # NoPosition
    BY <2>1, <2>2 DEF PredictedInv, TypeOK
  <2>4. /\ ToPublish(o, p) \in Jobs /\ ToPublish(o, p).op = o
        /\ Becomes(w, ToPublish(o, p))
    BY <1>2, ToPublishType DEF CreateRouted, ToPublish, Job
  <2>. QED
    BY <2>2, <2>3, <2>4, PredictedFrame
<1>3. ASSUME NEW w \in Workers, Publish(w)
      PROVE  PredictedInv'
  <2>1. job[w].op \in Ops
    BY <1>3, JobFields DEF Publish, PredictedInv
  <2>2. RoutedAfterCommit'
    BY <1>3, <2>1, DepositAssumption
       DEF Publish, PredictedInv, RoutedAfterCommit, sessionVars
  <2>3. \A v \in Workers : job'[v] = job[v] \/ job'[v].at = "idle"
    BY <1>3, FinishType DEF Publish, PredictedInv, Idle, Job
  <2>. QED
    BY <1>3, <2>2, <2>3 DEF Publish, PredictedInv, sessionVars
<1>4. ASSUME NEW w \in Workers, NEW o \in Ops, CaptureLoad(w, o)
      PROVE  PredictedInv'
  <2>. DEFINE j == Job("analyze", o, status[o], "analyzing", expected[o],
                       potential[o], NoPosition, 0)
  <2>1. j \in Jobs /\ j.op = o /\ j.pos = expected[o]
    BY <1>4, JobType DEF CaptureLoad, PredictedInv, TypeOK, Stage, Open, Job
  <2>2. Becomes(w, j) /\ expected' = expected /\ commands' = commands
    BY <1>4 DEF CaptureLoad, sessionVars
  <2>. QED
    BY <2>1, <2>2, PredictedFrame
<1>5. ASSUME NEW w \in Workers, CaptureAnalyzing(w)
      PROVE  PredictedInv'
  <2>. DEFINE j == Job("classify", job[w].op, "analyzing", "pending", job[w].pos,
                       job[w].pts, NoPosition, 0)
  <2>1. j \in Jobs /\ j.op = job[w].op /\ j.pos = job[w].pos
    BY <1>5, JobType, JobFields DEF CaptureAnalyzing, PredictedInv, Stage, Open, Job
  <2>2. Becomes(w, j) /\ expected' = expected /\ commands' = commands
    BY <1>5 DEF CaptureAnalyzing, WriteStatus, sessionVars
  <2>3. job[w].pos # NoPosition => expected'[job[w].op] # NoPosition
    BY <1>5, <2>2 DEF CaptureAnalyzing, PredictedInv
  <2>. QED
    BY <2>1, <2>2, <2>3, PredictedFrame
<1>6. ASSUME NEW w \in Workers, NEW p \in Positions, CaptureTooLow(w, p)
      PROVE  PredictedInv'
  BY <1>6, PredictionCommitted, PredictedFinish DEF CaptureTooLow
<1>7. ASSUME NEW w \in Workers, NEW p \in Positions, CaptureRouted(w, p)
      PROVE  PredictedInv'
  <2>1. /\ ToPublish(job[w].op, p) \in Jobs /\ ToPublish(job[w].op, p).op = job[w].op
        /\ Becomes(w, ToPublish(job[w].op, p))
    BY <1>7, JobFields, ToPublishType DEF CaptureRouted, PredictedInv, ToPublish, Job
  <2>. QED
    BY <1>7, <2>1, PredictionCommitted, PredictedFrame DEF CaptureRouted
<1>8. ASSUME NEW w \in Workers, CaptureRetake(w) \/ CaptureUnroutable(w)
                                \/ StatusCommit(w)
      PROVE  PredictedInv'
  BY <1>8, PredictedFinish DEF CaptureRetake, CaptureUnroutable, StatusCommit,
                               WriteStatus, sessionVars
<1>9. ASSUME NEW w \in Workers, RejectCommit(w) \/ AwardCommit(w) \/ AwardAbort(w)
      PROVE  PredictedInv'
  <2>1. Finish(w) /\ expected' = expected /\ commands' = commands
    BY <1>9 DEF RejectCommit, AwardCommit, AwardAbort, sessionVars
  <2>. QED
    BY <2>1, PredictedFinish
<1>10. ASSUME NEW w \in Workers, NEW o \in Ops,
              \/ CancelLoad(w, o)
              \/ \E t \in LivePhases : PhaseLoad(w, o, t)
              \/ \E e \in Events : ResultLoad(w, o, e)
       PROVE  PredictedInv'
  <2>1. expected' = expected /\ commands' = commands
    BY <1>10 DEF CancelLoad, PhaseLoad, ResultLoad, sessionVars
  <2>2. PICK j \in Jobs : Becomes(w, j) /\ j.at \in {"cancel", "phase", "award", "reject"}
    <3>1. CASE CancelLoad(w, o)
      <4>1. Loaded(o, "cancel", "cancelled") \in Jobs
        BY LoadedType DEF PredictedInv, Stage, Terminal
      <4>. QED
        BY <3>1, <4>1 DEF CancelLoad, Loaded, Job
    <3>2. ASSUME NEW t \in LivePhases, PhaseLoad(w, o, t)
          PROVE  \E j \in Jobs : Becomes(w, j) /\ j.at = "phase"
      <4>1. Loaded(o, "phase", t) \in Jobs
        BY LoadedType, DepositAssumption DEF PredictedInv, Stage, Open
      <4>. QED
        BY <3>2, <4>1 DEF PhaseLoad, Loaded, Job
    <3>3. ASSUME NEW e \in Events, ResultLoad(w, o, e)
          PROVE  \E j \in Jobs : Becomes(w, j) /\ j.at \in {"award", "reject"}
      BY <3>3, ResultLoadJob DEF PredictedInv, Loaded, Job
    <3>. QED
      BY <1>10, <3>1, <3>2, <3>3
  <2>. QED
    BY <2>1, <2>2, PredictedFrame
<1>11. ASSUME \/ \E o \in Ops : Lapse(o)
              \/ Restart
              \/ UNCHANGED vars
       PROVE  PredictedInv'
  <2>1. expected' = expected /\ commands' = commands
    BY <1>11 DEF Lapse, Restart, vars, sessionVars
  <2>2. \A v \in Workers : job'[v] = job[v] \/ job'[v].at = "idle"
    BY <1>11 DEF Lapse, Restart, vars, Idle, Job
  <2>. QED
    BY <2>1, <2>2 DEF PredictedInv, RoutedAfterCommit
<1>. QED
  BY <1>1, <1>2, <1>3, <1>4, <1>5, <1>6, <1>7, <1>8, <1>9, <1>10, <1>11
     DEF Next, Create, Capture, Complete

\* A route command is never ahead of the commit of its prediction, whichever
\* path issued it, and a retake never takes the prediction back to NULL.
THEOREM PredictionBeforeRoute == Spec => []RoutedAfterCommit
<1>1. Init => PredictedInv
  BY InitType DEF Init, PredictedInv, RoutedAfterCommit, Idle, Job
<1>2. PredictedInv /\ [Next]_vars => PredictedInv'
  BY PredictedStep
<1>. QED
  BY <1>1, <1>2, PTL DEF Spec, PredictedInv

-----------------------------------------------------------------------------
(* The points of a confirmed deposit, and the one kind of commit that can    *)
(* part them from their compartment.                                         *)

\* Only the threads that take uploads hold an upload.
UploadsOK ==
  TypeOK /\ \A w \in Workers : job[w].at \in {"analyze", "classify"} => w \in Capturers

\* A job a thread takes on of a session that was as promised.
AwardPromised(j) ==
  j.act = j.pos /\ j.pos # NoPosition /\ Priced(j.pos, j.pts)

\* A step keeps the promise of a session when the row, the waste event and the
\* award it may begin keep it.
LEMMA PromisedFrame ==
  ASSUME TypeOK, NEW o \in Ops, AsPromised(o), NEW w \in Workers, NEW j \in Jobs,
         Becomes(w, j), Priced(expected'[o], potential'[o]),
         \/ waste'[o] = waste[o]
         \/ waste'[o].verdict = "confirmed" =>
              /\ waste'[o].at \in Positions
              /\ waste'[o].worth = PolicyPoints[waste'[o].at],
         j.at = "award" /\ j.op = o => AwardPromised(j)
  PROVE  AsPromised(o)'
<1>1. job'[w] = j /\ \A v \in Workers \ {w} : job'[v] = job[v]
  BY BecomesType
<1>2. \A v \in Workers : job'[v].at = "award" /\ job'[v].op = o => AwardPromised(job'[v])
  BY <1>1 DEF AsPromised, AwardPromised
<1>3. Priced(expected[o], potential[o])'
  BY DEF Priced
<1>4. \A v \in Workers : job'[v].at = "award" /\ job'[v].op = o =>
        job'[v].act = job'[v].pos /\ job'[v].pos # NoPosition
        /\ Priced(job'[v].pos, job'[v].pts)
  BY <1>2 DEF AwardPromised
<1>5. \A v \in Workers : job'[v].at = "award" /\ job'[v].op = o =>
        job'[v].act = job'[v].pos /\ job'[v].pos # NoPosition
        /\ Priced(job[v].pos, job[v].pts)'
  BY <1>4 DEF Priced
<1>6. waste'[o].verdict = "confirmed" =>
        waste'[o].at \in Positions /\ waste'[o].worth = PolicyPoints[waste'[o].at]
  BY DEF AsPromised
<1>. QED
  BY <1>3, <1>5, <1>6 DEF AsPromised

\* An upload whose copy is the row writes both columns of one policy, though it
\* skips a column its copy agrees with; one whose copy is not is a stale upload.
LEMMA PromisedWrite ==
  ASSUME UploadsOK, NEW o \in Ops, AsPromised(o), NEW w \in Workers,
         NEW p \in Positions, NEW s, job[w].at = "classify",
         WritePrediction(w, p, s), NEW j \in Jobs, Becomes(w, j),
         j.at \in {"idle", "publish"}
  PROVE  AsPromised(o)' \/ \E v \in Capturers : StaleUpload(v, o)
<1>1. /\ w \in Capturers /\ job[w].op \in Ops /\ waste' = waste
      /\ job'[w] = j /\ job'[w] # job[w] /\ TypeOK
  BY JobFields, BecomesType DEF UploadsOK, WritePrediction, awardVars
<1>2. CASE job[w].op # o
  <2>1. expected'[o] = expected[o] /\ potential'[o] = potential[o]
    BY <1>1, <1>2 DEF WritePrediction, TypeOK
  <2>2. Priced(expected'[o], potential'[o])
    BY <2>1 DEF AsPromised, Priced
  <2>. QED
    BY <1>1, <2>2, PromisedFrame
<1>3. CASE job[w].op = o /\ <<job[w].pos, job[w].pts>> # <<expected[o], potential[o]>>
  BY <1>1, <1>3 DEF StaleUpload
<1>4. CASE job[w].op = o /\ <<job[w].pos, job[w].pts>> = <<expected[o], potential[o]>>
  <2>1. expected'[o] = p /\ potential'[o] = PolicyPoints[p]
    BY <1>1, <1>4 DEF WritePrediction, TypeOK
  <2>2. Priced(expected'[o], potential'[o])
    BY <2>1 DEF Priced
  <2>. QED
    BY <1>1, <2>2, PromisedFrame
<1>. QED
  BY <1>2, <1>3, <1>4

\* complete_from_event: the award it begins copies the row and a compartment that
\* agrees with it, and the award it commits is worth what its copy says.
LEMMA PromisedComplete ==
  ASSUME TypeOK, NEW o \in Ops, AsPromised(o), NEW w \in Workers, Complete(w)
  PROVE  AsPromised(o)'
<1>1. ASSUME NEW q \in Ops, NEW e \in Events, ResultLoad(w, q, e)
      PROVE  AsPromised(o)'
  <2>1. PICK j \in Jobs :
          /\ Becomes(w, j)
          /\ \/ \E v \in {"rejected", "expired"} : j = Loaded(q, "reject", v)
             \/ /\ PhysicallyValid(e, expected[q])
                /\ j = Job("award", q, "pending", "confirmed", expected[q],
                           potential[q], e.actual, points[Owner[q]])
    BY <1>1, ResultLoadJob
  <2>2. j.at = "award" => /\ j.op = q /\ j.act = j.pos /\ j.pos # NoPosition
                          /\ j.pos = expected[q] /\ j.pts = potential[q]
    BY <2>1 DEF PhysicallyValid, Loaded, Job
  <2>3. Priced(expected[o], potential[o])
    BY DEF AsPromised
  <2>4. UNCHANGED <<expected, potential, waste>>
    BY <1>1 DEF ResultLoad, sessionVars, awardVars
  <2>5. Priced(expected'[o], potential'[o])
    BY <2>3, <2>4 DEF Priced
  <2>6. j.at = "award" /\ j.op = o => AwardPromised(j)
    BY <2>2, <2>3 DEF AwardPromised
  <2>. QED
    BY <2>1, <2>4, <2>5, <2>6, PromisedFrame
<1>2. ASSUME Finish(w), UNCHANGED <<expected, potential>>,
             \/ waste'[o] = waste[o]
             \/ waste'[o].verdict = "confirmed" =>
                  /\ waste'[o].at \in Positions
                  /\ waste'[o].worth = PolicyPoints[waste'[o].at]
      PROVE  AsPromised(o)'
  <2>1. Priced(expected'[o], potential'[o])
    BY <1>2 DEF AsPromised, Priced
  <2>2. Becomes(w, Idle) /\ Idle \in Jobs /\ Idle.at = "idle"
    BY <1>2, IdleType DEF Finish, Idle, Job
  <2>. QED
    BY <1>2, <2>1, <2>2, PromisedFrame
<1>3. CASE RejectCommit(w)
  <2>1. Finish(w) /\ UNCHANGED <<expected, potential>> /\ job[w].op \in Ops
    BY <1>3, JobFields DEF RejectCommit, sessionVars
  <2>2. waste'[o] = waste[o] \/ waste'[o].verdict # "confirmed"
    BY <1>3, <2>1 DEF RejectCommit, TypeOK, Verdict, awardVars
  <2>. QED
    BY <1>2, <2>1, <2>2
<1>4. CASE AwardCommit(w)
  <2>1. /\ Finish(w) /\ UNCHANGED <<expected, potential>> /\ job[w].op \in Ops
        /\ job[w].at = "award"
    BY <1>4, JobFields DEF AwardCommit, sessionVars
  <2>2. \/ waste'[o] = waste[o]
        \/ job[w].op = o /\ waste'[o] = Verdict("confirmed", job[w].act, job[w].pts)
    BY <1>4, <2>1 DEF AwardCommit, TypeOK, awardVars
  <2>3. job[w].op = o => job[w].act \in Positions /\ job[w].pts = PolicyPoints[job[w].act]
    BY <2>1 DEF AsPromised, Priced
  <2>4. \/ waste'[o] = waste[o]
        \/ waste'[o].verdict = "confirmed" =>
             waste'[o].at \in Positions /\ waste'[o].worth = PolicyPoints[waste'[o].at]
    BY <2>2, <2>3 DEF Verdict
  <2>. QED
    BY <1>2, <2>1, <2>4
<1>5. CASE AwardAbort(w)
  BY <1>2, <1>5 DEF AwardAbort, sessionVars, awardVars
<1>. QED
  BY <1>1, <1>3, <1>4, <1>5 DEF Complete

\* A handler that begins or ends without touching predictions and waste events.
LEMMA PromisedQuiet ==
  ASSUME TypeOK, NEW o \in Ops, AsPromised(o), UNCHANGED <<expected, potential, waste>>,
         \A v \in Workers : job'[v] = job[v] \/ job'[v].at # "award"
  PROVE  AsPromised(o)'
<1>1. Priced(expected[o], potential[o])'
  BY DEF AsPromised, Priced
<1>2. \A v \in Workers : job'[v].at = "award" /\ job'[v].op = o =>
        job'[v].act = job'[v].pos /\ job'[v].pos # NoPosition
        /\ Priced(job[v].pos, job[v].pts)'
  BY DEF AsPromised, Priced
<1>3. waste'[o].verdict = "confirmed" =>
        waste'[o].at \in Positions /\ waste'[o].worth = PolicyPoints[waste'[o].at]
  BY DEF AsPromised
<1>. QED
  BY <1>1, <1>2, <1>3 DEF AsPromised

\* Every step keeps the promise of a session, but a stale upload.
LEMMA PromisedStep ==
  ASSUME UploadsOK, [Next]_vars, NEW o \in Ops, AsPromised(o)
  PROVE  AsPromised(o)' \/ \E w \in Capturers : StaleUpload(w, o)
<1>. USE DEF UploadsOK
<1>1. ASSUME NEW w \in Workers, NEW q \in Ops, NEW p \in Positions, CreateRouted(w, q, p)
      PROVE  AsPromised(o)'
  <2>1. /\ expected' = [expected EXCEPT ![q] = p] /\ waste' = waste
        /\ potential' = [potential EXCEPT ![q] = PolicyPoints[p]]
        /\ Becomes(w, ToPublish(q, p))
    BY <1>1 DEF CreateRouted, awardVars
  <2>2. Priced(expected'[o], potential'[o])
    BY <2>1 DEF AsPromised, Priced, TypeOK
  <2>3. ToPublish(q, p) \in Jobs /\ ToPublish(q, p).at = "publish"
    BY ToPublishType DEF ToPublish, Job
  <2>. QED
    BY <2>1, <2>2, <2>3, PromisedFrame
<1>2. ASSUME NEW w \in Workers, NEW p \in Positions, CaptureTooLow(w, p) \/ CaptureRouted(w, p)
      PROVE  AsPromised(o)' \/ \E v \in Capturers : StaleUpload(v, o)
  <2>1. job[w].at = "classify" /\ \E s : WritePrediction(w, p, s)
    BY <1>2 DEF CaptureTooLow, CaptureRouted
  <2>2. PICK s : WritePrediction(w, p, s)
    BY <2>1
  <2>3. \E j \in Jobs : Becomes(w, j) /\ j.at \in {"idle", "publish"}
    <3>1. ToPublish(job[w].op, p) \in Jobs /\ ToPublish(job[w].op, p).at = "publish"
      BY <2>1, JobFields, ToPublishType DEF ToPublish, Job
    <3>2. Idle \in Jobs /\ Idle.at = "idle"
      BY IdleType DEF Idle, Job
    <3>. QED
      BY <1>2, <3>1, <3>2 DEF CaptureTooLow, CaptureRouted, Finish
  <2>4. PICK j \in Jobs : Becomes(w, j) /\ j.at \in {"idle", "publish"}
    BY <2>3
  <2>. QED
    BY <2>1, <2>2, <2>4, PromisedWrite
<1>3. ASSUME NEW w \in Workers,
             \/ Publish(w) \/ CaptureAnalyzing(w) \/ CaptureRetake(w)
             \/ CaptureUnroutable(w) \/ StatusCommit(w)
             \/ \E q \in Ops : CreateCapture(w, q) \/ CaptureLoad(w, q) \/ CancelLoad(w, q)
             \/ \E q \in Ops, t \in LivePhases : PhaseLoad(w, q, t)
      PROVE  AsPromised(o)'
  <2>1. UNCHANGED <<expected, potential, waste>>
    BY <1>3 DEF Publish, CaptureAnalyzing, CaptureRetake, CaptureUnroutable, StatusCommit,
                CreateCapture, CaptureLoad, CancelLoad, PhaseLoad, WriteStatus,
                sessionVars, awardVars
  <2>2. ASSUME NEW j, Becomes(w, j), j.at # "award"
        PROVE  \A v \in Workers : job'[v] = job[v] \/ job'[v].at # "award"
    BY <2>2 DEF Becomes, TypeOK
  <2>3. \A v \in Workers : job'[v] = job[v] \/ job'[v].at # "award"
    <3>1. CASE Finish(w)
      BY <2>2, <3>1 DEF Finish, Idle, Job
    <3>2. CASE \E q \in Ops : CreateCapture(w, q)
      BY <2>2, <3>2 DEF CreateCapture, ToPublish, Job
    <3>3. CASE CaptureAnalyzing(w) \/ \E q \in Ops : CaptureLoad(w, q)
      BY <2>2, <3>3 DEF CaptureAnalyzing, CaptureLoad, Job
    <3>4. CASE \/ \E q \in Ops : CancelLoad(w, q)
               \/ \E q \in Ops, t \in LivePhases : PhaseLoad(w, q, t)
      BY <2>2, <3>4 DEF CancelLoad, PhaseLoad, Loaded, Job
    <3>. QED
      BY <1>3, <3>1, <3>2, <3>3, <3>4 DEF Publish, CaptureRetake, CaptureUnroutable,
         StatusCommit
  <2>. QED
    BY <2>1, <2>3, PromisedQuiet
<1>4. ASSUME (\E q \in Ops : Lapse(q)) \/ Restart \/ UNCHANGED vars
      PROVE  AsPromised(o)'
  <2>1. UNCHANGED <<expected, potential, waste>>
    BY <1>4 DEF Lapse, Restart, vars, sessionVars, awardVars
  <2>2. \A v \in Workers : job'[v] = job[v] \/ job'[v].at # "award"
    BY <1>4 DEF Lapse, Restart, vars, Idle, Job
  <2>. QED
    BY <2>1, <2>2, PromisedQuiet
<1>. QED
  BY <1>1, <1>2, <1>3, <1>4, PromisedComplete DEF Next, Create, Capture

\* Uploads stay with the threads that take them.
LEMMA UploadsStep == UploadsOK /\ [Next]_vars => UploadsOK'
<1>. SUFFICES ASSUME UploadsOK, [Next]_vars
              PROVE  UploadsOK'
  OBVIOUS
<1>1. TypeOK /\ TypeOK'
  BY TypeStep DEF UploadsOK
<1>2. ASSUME NEW w \in Workers, NEW j, Becomes(w, j),
             j.at \in {"analyze", "classify"} => w \in Capturers
      PROVE  UploadsOK'
  BY <1>1, <1>2 DEF Becomes, UploadsOK, TypeOK
<1>3. ASSUME NEW w \in Workers, Finish(w)
      PROVE  UploadsOK'
  BY <1>2, <1>3 DEF Finish, Idle, Job
<1>4. ASSUME NEW w \in Workers, Create(w) \/ Publish(w)
      PROVE  UploadsOK'
  BY <1>2, <1>3, <1>4
     DEF Create, CreateCapture, CreateRouted, Publish, ToPublish, Job
<1>5. ASSUME NEW w \in Workers, Capture(w)
      PROVE  UploadsOK'
  BY <1>2, <1>3, <1>5 DEF Capture, CaptureLoad, CaptureAnalyzing, CaptureRetake,
     CaptureUnroutable, CaptureTooLow, CaptureRouted, ToPublish, Job, UploadsOK
<1>6. ASSUME NEW w \in Workers,
             \/ \E o \in Ops : CancelLoad(w, o)
             \/ \E o \in Ops, t \in LivePhases : PhaseLoad(w, o, t)
             \/ StatusCommit(w)
      PROVE  UploadsOK'
  BY <1>2, <1>3, <1>6 DEF CancelLoad, PhaseLoad, StatusCommit, Loaded, Job
<1>7. ASSUME NEW w \in Workers, Complete(w)
      PROVE  UploadsOK'
  <2>1. ASSUME NEW o \in Ops, NEW e \in Events, ResultLoad(w, o, e)
        PROVE  UploadsOK'
    BY <1>1, <1>2, <2>1, ResultLoadJob DEF Loaded, Job
  <2>. QED
    BY <1>3, <1>7, <2>1 DEF Complete, RejectCommit, AwardCommit, AwardAbort
<1>8. CASE (\E o \in Ops : Lapse(o)) \/ Restart \/ UNCHANGED vars
  BY <1>1, <1>8 DEF Lapse, Restart, vars, Idle, Job, UploadsOK
<1>. QED
  BY <1>4, <1>5, <1>6, <1>7, <1>8 DEF Next

\* For any number of threads of every kind, retakes and events in any order: price
\* and compartment agree from the start, in the row, in an award in hand and in the
\* confirmed deposit, and come apart at the commit of a stale upload only.
THEOREM AwardsMatchPolicy ==
  Spec => (\A o \in Ops : AsPromised(o)) /\ AwardMatchesPolicy
<1>1. Init => UploadsOK /\ \A o \in Ops : AsPromised(o)
  BY InitType DEF Init, UploadsOK, AsPromised, Priced, Idle, Job, NoWaste, Verdict
<1>2. UploadsOK /\ [Next]_vars =>
        [\A o \in Ops : AsPromised(o) =>
           AsPromised(o)' \/ \E w \in Capturers : StaleUpload(w, o)]_vars
  BY PromisedStep
<1>. QED
  BY <1>1, <1>2, UploadsStep, PTL DEF Spec, AwardMatchesPolicy

-----------------------------------------------------------------------------
(* What a student earned, and what an award adds to it: for any number of  *)
(* threads that complete deposits.                                         *)

Confirmed == {o \in Ops : waste[o].verdict = "confirmed"}
Paid(u) == {o \in Ops : Owner[o] = u /\ waste[o].verdict = "confirmed"}
Counted(u) == {o \in Paid(u) : waste[o].at = BonusPosition}
Worth == [o \in Ops |-> waste[o].worth]
Bonus(u) == IF Cardinality(Counted(u)) >= BonusTarget THEN BonusPoints ELSE 0

\* An award is a completing thread's, of an event that landed in the
\* compartment of the prediction.
AwardChecked ==
  \A w \in Workers : job[w].at = "award" =>
    w \in Completers /\ job[w].act = job[w].pos /\ job[w].pos # NoPosition

\* The challenge row exists from the deposit that reaches the target on.
ClaimedInTime ==
  \A u \in Users : u \in claimed <=> Cardinality(Counted(u)) >= BonusTarget

EarnedInv ==
  /\ TypeOK
  /\ IsFiniteSet(Confirmed)
  /\ AwardChecked
  /\ ClaimedInTime

\* An award of u that goes through: u earns what is written on top of the
\* balance w read, the bonus if it is due, and nobody else earns anything.
Awarded(w, u) ==
  \E pts \in Nat, bonus \in {0, BonusPoints} :
    /\ Earned(u)' = Earned(u) + (pts + bonus)
    /\ \A x \in Users \ {u} : Earned(x)' = Earned(x)
    /\ points' = IF pts + bonus = 0 THEN points
                 ELSE [points EXCEPT ![u] = job[w].bal + (pts + bonus)]
    /\ board' = [board EXCEPT ![u] = job[w].bal + pts]
    /\ Finish(w)

\* Any other step: nobody earns, no balance is written, and an award that
\* begins reads the balance as it stands.
Unawarded ==
  /\ UNCHANGED <<points, board>>
  /\ \A u \in Users : Earned(u)' = Earned(u)
  /\ \A v \in Workers : \/ job'[v] = job[v]
                        \/ job'[v].at # "award"
                        \/ job'[v].bal = points[Owner[job'[v].op]]

\* Earned in the words of this proof.
LEMMA EarnedIs ==
  ASSUME NEW u \in Users
  PROVE  /\ Earned(u) = SumFunctionOnSet(Worth, Paid(u)) + Bonus(u)
         /\ Earned(u)' = SumFunctionOnSet(Worth', Paid(u)') + Bonus(u)'
BY DEF Earned, Paid, Counted, Worth, Bonus

\* A student's confirmed deposits are finitely many, and sum up to a natural.
LEMMA PaidType ==
  ASSUME EarnedInv, NEW u \in Users
  PROVE  /\ IsFiniteSet(Paid(u)) /\ IsFiniteSet(Counted(u))
         /\ \A o \in Paid(u) : Worth[o] \in Nat
         /\ SumFunctionOnSet(Worth, Paid(u)) \in Nat
         /\ Bonus(u) \in Nat /\ Earned(u) \in Nat
         /\ Cardinality(Counted(u)) \in Nat
<1>1. Paid(u) \in SUBSET Confirmed /\ Counted(u) \in SUBSET Confirmed
  BY DEF Paid, Counted, Confirmed
<1>2. IsFiniteSet(Paid(u)) /\ IsFiniteSet(Counted(u))
  BY <1>1, FS_Subset DEF EarnedInv
<1>3. \A o \in Paid(u) : Worth[o] \in Nat
  BY DEF Paid, Worth, EarnedInv, TypeOK
<1>4. SumFunctionOnSet(Worth, Paid(u)) \in Nat /\ Bonus(u) \in Nat
  BY <1>2, <1>3, SumType, DepositAssumption DEF Bonus
<1>. QED
  BY <1>2, <1>3, <1>4, EarnedIs, FS_CardinalityType

\* A step that leaves confirmed deposits alone leaves what everybody earned.
LEMMA EarnedFrame ==
  ASSUME EarnedInv, TypeOK', AwardChecked', UNCHANGED claimed,
         Confirmed' = Confirmed, \A o \in Confirmed : waste'[o] = waste[o]
  PROVE  EarnedInv' /\ \A u \in Users : Earned(u)' = Earned(u)
<1>1. ASSUME NEW u \in Users
      PROVE  Paid(u)' = Paid(u) /\ Counted(u)' = Counted(u) /\ Bonus(u)' = Bonus(u)
  <2>1. Paid(u)' = Paid(u) /\ Paid(u) \subseteq Confirmed
    BY DEF Paid, Confirmed
  <2>2. Counted(u)' = Counted(u)
    BY <2>1 DEF Counted
  <2>. QED
    BY <2>1, <2>2 DEF Bonus
<1>2. ASSUME NEW u \in Users
      PROVE  Earned(u)' = Earned(u)
  <2>1. \A o \in Paid(u) : Worth'[o] = Worth[o]
    BY DEF Paid, Confirmed, Worth
  <2>2. SumFunctionOnSet(Worth', Paid(u)) = SumFunctionOnSet(Worth, Paid(u))
    BY <2>1, PaidType, SumSame
  <2>. QED
    BY <1>1, <2>2, EarnedIs
<1>3. ClaimedInTime'
  BY <1>1 DEF EarnedInv, ClaimedInTime
<1>. QED
  BY <1>2, <1>3 DEF EarnedInv

\* An award that goes through, and what it leaves: one confirmed deposit more.
LEMMA EarnedAward ==
  ASSUME EarnedInv, TypeOK', NEW w \in Workers, AwardCommit(w),
         NEW o \in Ops, o = job[w].op, NEW u \in Users, u = Owner[o],
         ~Refused(o, job[w].pos)
  PROVE  EarnedInv' /\ Awarded(w, u)
<1>. DEFINE pts == job[w].pts
            due == BonusDue(o, job[w].pos)
            bonus == IF due THEN BonusPoints ELSE 0
<1>1. /\ pts \in Nat /\ BonusPoints \in Nat /\ BonusTarget \in Nat
      /\ job[w].pos # NoPosition /\ job[w].act = job[w].pos
  BY JobFields, DepositAssumption DEF AwardCommit, EarnedInv, AwardChecked
<1>2. /\ waste[o] = NoWaste
      /\ waste' = [waste EXCEPT ![o] = Verdict("confirmed", job[w].act, pts)]
      /\ points' = IF pts + bonus = 0 THEN points
                   ELSE [points EXCEPT ![u] = job[w].bal + (pts + bonus)]
      /\ claimed' = IF due THEN claimed \cup {u} ELSE claimed
      /\ board' = [board EXCEPT ![u] = job[w].bal + pts]
      /\ Finish(w)
  BY DEF AwardCommit, Refused, Upsert
<1>3. /\ waste'[o] = Verdict("confirmed", job[w].pos, pts)
      /\ \A q \in Ops \ {o} : waste'[q] = waste[q]
      /\ waste[o].verdict # "confirmed"
  BY <1>1, <1>2 DEF EarnedInv, TypeOK, NoWaste, Verdict
<1>4. Confirmed' = Confirmed \cup {o} /\ IsFiniteSet(Confirmed')
  <2>1. Confirmed' = Confirmed \cup {o}
    BY <1>1, <1>3 DEF Confirmed, Verdict
  <2>. QED
    BY <2>1, FS_AddElement DEF EarnedInv
<1>5. AwardChecked'
  BY <1>2, FinishType DEF EarnedInv, AwardChecked, Idle, Job
<1>6. ASSUME NEW x \in Users, x # u
      PROVE  /\ Counted(x)' = Counted(x) /\ Earned(x)' = Earned(x)
             /\ x \in claimed' <=> x \in claimed
  <2>1. Paid(x)' = Paid(x) /\ o \notin Paid(x)
    BY <1>1, <1>3, <1>6 DEF Paid
  <2>2. Counted(x)' = Counted(x) /\ Bonus(x)' = Bonus(x)
    BY <1>3, <2>1 DEF Counted, Bonus, Paid
  <2>3. \A q \in Paid(x) : Worth'[q] = Worth[q]
    BY <1>3, <2>1 DEF Paid, Worth
  <2>4. Earned(x)' = Earned(x)
    BY <2>1, <2>2, <2>3, PaidType, SumSame, EarnedIs
  <2>. QED
    BY <1>2, <1>6, <2>2, <2>4
<1>7. Paid(u)' = Paid(u) \cup {o} /\ o \notin Paid(u)
  BY <1>1, <1>3 DEF Paid, Verdict
<1>8. Counted(u)' = IF job[w].pos = BonusPosition THEN Counted(u) \cup {o} ELSE Counted(u)
  BY <1>1, <1>3, <1>7 DEF Counted, Paid, Verdict
<1>9. SumFunctionOnSet(Worth', Paid(u)') = SumFunctionOnSet(Worth, Paid(u)) + pts
  <2>1. \A q \in Paid(u) : Worth'[q] = Worth[q]
    BY <1>3, <1>7 DEF Paid, Worth
  <2>2. Worth'[o] = pts
    BY <1>1, <1>3 DEF Worth, Verdict
  <2>3. SumFunctionOnSet(Worth', Paid(u)) = SumFunctionOnSet(Worth, Paid(u))
    BY <2>1, PaidType, SumSame, <1>1
  <2>4. \A q \in Paid(u) \cup {o} : Worth'[q] \in Nat
    BY <1>1, <2>1, <2>2, PaidType
  <2>5. IsFiniteSet(Paid(u))
    BY <1>1, PaidType
  <2>6. SumFunctionOnSet(Worth', Paid(u) \cup {o}) = SumFunctionOnSet(Worth', Paid(u)) + Worth'[o]
    BY <1>7, <2>4, <2>5, SumAdd
  <2>. QED
    BY <1>7, <2>2, <2>3, <2>6
<1>10. /\ Cardinality(Counted(u)) \in Nat /\ Cardinality(Counted(u)') \in Nat
       /\ Cardinality(Counted(u)') >= Cardinality(Counted(u))
       /\ Cardinality(Counted(u) \cup {o}) \in Nat
  <2>1. IsFiniteSet(Counted(u)) /\ o \notin Counted(u)
    BY <1>1, <1>7, PaidType DEF Counted
  <2>2. /\ Cardinality(Counted(u) \cup {o}) = Cardinality(Counted(u)) + 1
        /\ Cardinality(Counted(u)) \in Nat
    BY <2>1, FS_AddElement, FS_CardinalityType
  <2>. QED
    BY <1>8, <2>2
<1>11. due <=> /\ ~(Cardinality(Counted(u)) >= BonusTarget)
               /\ Cardinality(Counted(u)') >= BonusTarget
  <2>1. due <=> /\ job[w].pos = BonusPosition
                /\ u \notin claimed
                /\ Cardinality(Counted(u) \cup {o}) >= BonusTarget
    <3>1. {q \in Ops : /\ Owner[q] = Owner[o]
                       /\ waste[q].verdict = "confirmed"
                       /\ waste[q].at = BonusPosition} = Counted(u)
      BY DEF Counted, Paid
    <3>. QED
      BY <3>1 DEF BonusDue
  <2>2. u \notin claimed <=> ~(Cardinality(Counted(u)) >= BonusTarget)
    BY <1>1 DEF EarnedInv, ClaimedInTime
  <2>. HIDE DEF due
  <2>. QED
    BY <1>8, <2>1, <2>2
<1>12. Earned(u)' = Earned(u) + (pts + bonus)
  <2>1. Bonus(u)' = Bonus(u) + bonus
    <3>. HIDE DEF due
    <3>. QED
      BY <1>1, <1>10, <1>11 DEF Bonus
  <2>2. Earned(u) = SumFunctionOnSet(Worth, Paid(u)) + Bonus(u)
    BY <1>1, EarnedIs
  <2>3. Earned(u)' = SumFunctionOnSet(Worth', Paid(u)') + Bonus(u)'
    BY <1>1, EarnedIs
  <2>4. SumFunctionOnSet(Worth, Paid(u)) \in Nat /\ Bonus(u) \in Nat
    BY <1>1, PaidType
  <2>. HIDE DEF due
  <2>. QED
    BY <1>1, <1>9, <2>1, <2>2, <2>3, <2>4
<1>13. Awarded(w, u)
  <2>1. bonus \in {0, BonusPoints} /\ \A x \in Users \ {u} : Earned(x)' = Earned(x)
    BY <1>6
  <2>. HIDE DEF bonus
  <2>. QED
    BY <1>1, <1>2, <1>12, <2>1 DEF Awarded
<1>14. ClaimedInTime'
  <2>1. u \in claimed' <=> Cardinality(Counted(u)') >= BonusTarget
    <3>1. u \in claimed <=> Cardinality(Counted(u)) >= BonusTarget
      BY <1>1 DEF EarnedInv, ClaimedInTime
    <3>. HIDE DEF due
    <3>. QED
      BY <1>1, <1>2, <1>10, <1>11, <3>1
  <2>2. ASSUME NEW x \in Users, x # u
        PROVE x \in claimed' <=> Cardinality(Counted(x)') >= BonusTarget
    BY <1>6, <2>2 DEF EarnedInv, ClaimedInTime
  <2>. QED
    BY <2>1, <2>2 DEF ClaimedInTime
<1>. QED
  BY <1>4, <1>5, <1>13, <1>14 DEF EarnedInv

\* No handler but complete_from_event begins an award or writes a balance.
LEMMA EarnedQuiet ==
  ASSUME EarnedInv, TypeOK', UNCHANGED awardVars,
         \A v \in Workers : job'[v] = job[v] \/ job'[v].at # "award"
  PROVE  EarnedInv' /\ Unawarded
<1>1. AwardChecked' /\ Confirmed' = Confirmed
  BY DEF EarnedInv, AwardChecked, Confirmed, awardVars
<1>. QED
  BY <1>1, EarnedFrame DEF awardVars, Unawarded

\* complete_from_event: the load of an award reads the balance as it stands.
LEMMA EarnedComplete ==
  ASSUME EarnedInv, TypeOK', NEW w \in Workers, Complete(w)
  PROVE  /\ EarnedInv'
         /\ \/ Unawarded
            \/ job[w].at = "award" /\ Awarded(w, Owner[job[w].op])
<1>0. ASSUME Finish(w)
      PROVE  \A v \in Workers : job'[v] = job[v] \/ job'[v].at # "award"
  BY <1>0, FinishType DEF EarnedInv, Idle, Job
<1>1. ASSUME NEW o \in Ops, NEW e \in Events, ResultLoad(w, o, e)
      PROVE  EarnedInv' /\ Unawarded
  <2>1. UNCHANGED awardVars /\ w \in Completers
    BY <1>1 DEF ResultLoad
  <2>2. PICK j \in Jobs :
          /\ Becomes(w, j)
          /\ \/ \E v \in {"rejected", "expired"} : j = Loaded(o, "reject", v)
             \/ /\ PhysicallyValid(e, expected[o])
                /\ j = Job("award", o, "pending", "confirmed", expected[o],
                           potential[o], e.actual, points[Owner[o]])
    BY <1>1, ResultLoadJob DEF EarnedInv
  <2>3. job'[w] = j /\ \A v \in Workers \ {w} : job'[v] = job[v]
    BY <2>2, BecomesType DEF EarnedInv
  <2>4. j.at = "award" => /\ j.op = o /\ j.bal = points[Owner[o]]
                          /\ j.act = j.pos /\ j.pos # NoPosition
    BY <2>2 DEF PhysicallyValid, Loaded, Job
  <2>5. AwardChecked' /\ Confirmed' = Confirmed
    BY <2>1, <2>3, <2>4 DEF EarnedInv, AwardChecked, Confirmed, awardVars
  <2>6. \A v \in Workers : \/ job'[v] = job[v]
                           \/ job'[v].at # "award"
                           \/ job'[v].bal = points[Owner[job'[v].op]]
    BY <2>3, <2>4
  <2>. QED
    BY <2>1, <2>5, <2>6, EarnedFrame DEF awardVars, Unawarded
<1>2. CASE RejectCommit(w)
  <2>1. CASE Refused(job[w].op, job[w].pos)
    BY <1>0, <1>2, <2>1, EarnedQuiet DEF RejectCommit
  <2>2. CASE ~Refused(job[w].op, job[w].pos)
    <3>. DEFINE o == job[w].op
    <3>1. /\ o \in Ops /\ waste[o] = NoWaste
          /\ waste' = [waste EXCEPT ![o] = Verdict("rejected", NoPosition, 0)]
          /\ UNCHANGED <<points, claimed, board>> /\ Finish(w)
      BY <1>2, <2>2, JobFields DEF RejectCommit, Refused, EarnedInv
    <3>2. Confirmed' = Confirmed /\ \A q \in Confirmed : waste'[q] = waste[q]
      BY <3>1 DEF Confirmed, EarnedInv, TypeOK, NoWaste, Verdict
    <3>3. AwardChecked'
      BY <1>0, <3>1 DEF EarnedInv, AwardChecked
    <3>. QED
      BY <1>0, <3>1, <3>2, <3>3, EarnedFrame DEF Unawarded
  <2>. QED
    BY <2>1, <2>2
<1>3. CASE AwardCommit(w)
  <2>1. PICK o \in Ops, u \in Users : o = job[w].op /\ u = Owner[o]
    BY <1>3, JobFields, DepositAssumption DEF AwardCommit, EarnedInv
  <2>2. CASE Refused(o, job[w].pos)
    BY <1>0, <1>3, <2>1, <2>2, EarnedQuiet DEF AwardCommit
  <2>3. CASE ~Refused(o, job[w].pos)
    <3>1. job[w].at = "award"
      BY <1>3 DEF AwardCommit
    <3>. QED
      BY <1>3, <2>1, <2>3, <3>1, EarnedAward
  <2>. QED
    BY <2>2, <2>3
<1>4. CASE AwardAbort(w)
  BY <1>0, <1>4, EarnedQuiet DEF AwardAbort
<1>. QED
  BY <1>1, <1>2, <1>3, <1>4 DEF Complete

\* A step confirms one deposit and pays for it, or nobody earns anything.
LEMMA EarnedStep ==
  ASSUME EarnedInv, [Next]_vars
  PROVE  /\ EarnedInv'
         /\ \/ Unawarded
            \/ \E w \in Workers : job[w].at = "award" /\ Awarded(w, Owner[job[w].op])
<1>. TypeOK'
  BY TypeStep DEF EarnedInv
<1>1. ASSUME NEW w \in Workers,
             \/ Create(w) \/ Publish(w) \/ Capture(w) \/ StatusCommit(w)
             \/ \E o \in Ops : CancelLoad(w, o)
             \/ \E o \in Ops, t \in LivePhases : PhaseLoad(w, o, t)
      PROVE  EarnedInv' /\ Unawarded
  <2>1. UNCHANGED awardVars
    BY <1>1 DEF Create, CreateRouted, CreateCapture, Publish, Capture, CaptureLoad,
                CaptureAnalyzing, CaptureRetake, CaptureUnroutable, CaptureTooLow,
                CaptureRouted, WriteStatus, WritePrediction, CancelLoad, PhaseLoad,
                StatusCommit
  <2>2. ASSUME NEW j, Becomes(w, j), j.at # "award"
        PROVE  \A v \in Workers : job'[v] = job[v] \/ job'[v].at # "award"
    BY <2>2 DEF Becomes, EarnedInv, TypeOK
  <2>3. \A v \in Workers : job'[v] = job[v] \/ job'[v].at # "award"
    <3>1. ASSUME Finish(w)
          PROVE  \A v \in Workers : job'[v] = job[v] \/ job'[v].at # "award"
      BY <2>2, <3>1 DEF Finish, Idle, Job
    <3>2. CASE Create(w)
      BY <2>2, <3>2 DEF Create, CreateRouted, CreateCapture, ToPublish, Job
    <3>3. CASE Publish(w) \/ StatusCommit(w)
      BY <3>1, <3>3 DEF Publish, StatusCommit
    <3>4. CASE Capture(w)
      BY <2>2, <3>1, <3>4 DEF Capture, CaptureLoad, CaptureAnalyzing, CaptureRetake,
         CaptureUnroutable, CaptureTooLow, CaptureRouted, ToPublish, Job
    <3>5. CASE \E o \in Ops : CancelLoad(w, o) \/ \E t \in LivePhases : PhaseLoad(w, o, t)
      BY <2>2, <3>5 DEF CancelLoad, PhaseLoad, Loaded, Job
    <3>. QED
      BY <1>1, <3>2, <3>3, <3>4, <3>5
  <2>. QED
    BY <2>1, <2>3, EarnedQuiet
<1>2. CASE (\E o \in Ops : Lapse(o)) \/ Restart \/ UNCHANGED vars
  <2>1. UNCHANGED awardVars /\ \A v \in Workers : job'[v] = job[v] \/ job'[v].at # "award"
    BY <1>2 DEF Lapse, Restart, vars, Idle, Job
  <2>. QED
    BY <2>1, EarnedQuiet
<1>. QED
  BY <1>1, <1>2, EarnedComplete DEF Next

\* Nobody earned anything yet.
LEMMA EarnedInit ==
  ASSUME Init
  PROVE  EarnedInv /\ \A u \in Users : Earned(u) = 0
<1>1. Confirmed = {} /\ \A u \in Users : Paid(u) = {} /\ Counted(u) = {}
  BY DEF Init, Confirmed, Paid, Counted, NoWaste, Verdict
<1>2. IsFiniteSet({}) /\ Cardinality({}) = 0
  BY FS_EmptySet
<1>3. ASSUME NEW u \in Users
      PROVE  Earned(u) = 0 /\ Cardinality(Counted(u)) = 0
  <2>1. SumFunctionOnSet(Worth, {}) = 0
    BY <1>2, SumStep
  <2>2. Bonus(u) = 0 /\ Cardinality(Counted(u)) = 0
    BY <1>1, <1>2, DepositAssumption DEF Bonus
  <2>. QED
    BY <1>1, <2>1, <2>2, EarnedIs
<1>. QED
  BY <1>1, <1>2, <1>3, InitType, DepositAssumption
     DEF Init, EarnedInv, AwardChecked, ClaimedInTime, Idle, Job

-----------------------------------------------------------------------------
(* The ledger: award_points writes the balance it read at the load, so an    *)
(* award that another one overtook is the only step that loses points.       *)

\* What a step may do to the balance of u and to the row of u on the board.
Moves(u) ==
  /\ points'[u] # points[u] => points'[u] - board'[u] \in {0, BonusPoints}
  /\ LET gained == Earned(u)' - Earned(u) IN
     \/ points'[u] = points[u] + gained
     \/ \E w \in Completers : /\ Overtaken(w, u) /\ job'[w] # job[w]
                              /\ points'[u] = job[w].bal + gained

\* Earnings are numbers to reckon with.
LEMMA EarnedNat ==
  ASSUME EarnedInv, NEW u \in Users
  PROVE  Earned(u) \in Nat
BY PaidType, EarnedIs, DepositAssumption

\* An award moves the balance of its student only.
LEMMA LedgerAward ==
  ASSUME EarnedInv, NEW w \in Workers, job[w].at = "award",
         NEW u \in Users, u = Owner[job[w].op], Awarded(w, u), NEW x \in Users
  PROVE  Moves(x)
<1>1. PICK pts \in Nat, bonus \in {0, BonusPoints} :
        /\ Earned(u)' = Earned(u) + (pts + bonus)
        /\ \A y \in Users \ {u} : Earned(y)' = Earned(y)
        /\ points' = IF pts + bonus = 0 THEN points
                     ELSE [points EXCEPT ![u] = job[w].bal + (pts + bonus)]
        /\ board' = [board EXCEPT ![u] = job[w].bal + pts]
        /\ Finish(w)
  BY DEF Awarded
<1>2. /\ job[w].bal \in Nat /\ BonusPoints \in Nat /\ w \in Completers
      /\ points \in [Users -> Nat] /\ board \in [Users -> Nat]
      /\ Earned(x) \in Nat /\ Earned(u) \in Nat
  BY JobFields, EarnedNat, DepositAssumption DEF EarnedInv, AwardChecked, TypeOK
<1>3. job'[w] # job[w]
  BY <1>1, FinishType DEF EarnedInv, Idle, Job
<1>4. CASE x # u
  BY <1>1, <1>2, <1>4 DEF Moves
<1>5. CASE x = u /\ pts + bonus = 0
  BY <1>1, <1>2, <1>5 DEF Moves
<1>6. CASE x = u /\ pts + bonus # 0
  <2>1. points'[u] = job[w].bal + (pts + bonus) /\ board'[u] = job[w].bal + pts
    BY <1>1, <1>2, <1>6
  <2>2. Earned(u)' - Earned(u) = pts + bonus
    BY <1>1, <1>2
  <2>3. points'[u] - board'[u] \in {0, BonusPoints}
    BY <1>1, <1>2, <2>1
  <2>4. CASE job[w].bal = points[u]
    BY <1>2, <1>6, <2>1, <2>2, <2>3, <2>4 DEF Moves
  <2>5. CASE job[w].bal # points[u]
    BY <1>2, <1>3, <1>6, <2>1, <2>2, <2>3, <2>5 DEF Moves, Overtaken
  <2>. QED
    BY <2>4, <2>5
<1>. QED
  BY <1>4, <1>5, <1>6

\* Every step moves the ledger by what was earned, or is an overtaken award.
LEMMA LedgerStep ==
  ASSUME EarnedInv, [Next]_vars, NEW x \in Users
  PROVE  Moves(x)
<1>1. CASE Unawarded
  <2>1. points'[x] = points[x] /\ Earned(x)' = Earned(x) /\ points[x] \in Nat
    BY <1>1 DEF Unawarded, EarnedInv, TypeOK
  <2>. QED
    BY <2>1, EarnedNat DEF Moves
<1>2. ASSUME NEW w \in Workers, job[w].at = "award", Awarded(w, Owner[job[w].op])
      PROVE  Moves(x)
  <2>1. PICK u \in Users : u = Owner[job[w].op]
    BY <1>2, JobFields, DepositAssumption DEF EarnedInv
  <2>. QED
    BY <1>2, <2>1, LedgerAward
<1>. QED
  BY <1>1, <1>2, EarnedStep

\* For any number of threads that complete deposits, whatever else runs and
\* crashes: balances start at what is earned, and every step adds to a balance
\* exactly what the student's confirmed deposits and the challenge gained, unless
\* it is an award that another one overtook since it read the balance.
THEOREM LedgerMovesExactly ==
  Spec => (\A u \in Users : points[u] = Earned(u)) /\ LedgerMoves
<1>1. Init => EarnedInv /\ \A u \in Users : points[u] = Earned(u)
  BY EarnedInit DEF Init
<1>2. EarnedInv /\ [Next]_vars => EarnedInv'
  BY EarnedStep
<1>3. EarnedInv /\ [Next]_vars =>
        [\A u \in Users :
           /\ points'[u] # points[u] => points'[u] - board'[u] \in {0, BonusPoints}
           /\ LET gained == Earned(u)' - Earned(u) IN
              \/ points'[u] = points[u] + gained
              \/ \E w \in Completers : /\ Overtaken(w, u) /\ job'[w] # job[w]
                                       /\ points'[u] = job[w].bal + gained]_vars
  BY LedgerStep DEF Moves
<1>. QED
  BY <1>1, <1>2, <1>3, PTL DEF Spec, LedgerMoves
=============================================================================
