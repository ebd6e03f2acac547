------------------------------ MODULE BackOffice ------------------------------
(***************************************************************************)
(* The rows administrators and students keep around the deposits: the      *)
(* faculties, students, stations, challenges and rewards of                *)
(* routers/admin.py, the profile of routers/user_data.py, the rankings,    *)
(* and what the boot does to them (services/seed.py and                    *)
(* leaderboard_service.py).  A handler checks in one step and commits in   *)
(* another; the foreign keys are the database's.                           *)
(***************************************************************************)
EXTENDS Integers, FiniteSets, FiniteSetsExt, Functions

CONSTANTS
  Faculties, Names, Students,
  Items,      \* stations, challenges and rewards: what history refers to
  Stations,   \* those of the items that are stations
  Shipped,    \* the rewards of the shipped catalog
  First,      \* the station the seed installs
  Nil,
  Editors,    \* threads that name faculties and award deposits
  Clerks,     \* threads that enrol, move and delete
  MaxPoints   \* bound on a student's points

Staff == Editors \cup Clerks

BackOfficeAssumption ==
  /\ Stations \subseteq Items /\ Shipped \subseteq Items \ Stations /\ First \in Stations
  /\ Nil \notin Faculties \cup Items /\ MaxPoints \in Nat

VARIABLES
  faculty,    \* faculties: name by id
  student,    \* users: [faculty, points] by id
  item,       \* rows of stations, challenges and rewards
  history,    \* sessions, redemptions and completed challenges: <<student, item>>
  board,      \* leaderboard_entries of scope "students": [points, detail]
  ranking,    \* leaderboard_entries of scope "faculties": [points, name]
  task        \* per thread: the handler it is in

officeVars == <<faculty, student, item, history, board, ranking, task>>
officeRows == <<faculty, student, item, history, board, ranking>>

NoTask == [at |-> "idle", f |-> Nil, n |-> Nil, u |-> Nil, x |-> Nil, has |-> FALSE]
Free(w) == task[w].at = "idle"
Doing(w, s) == task[w].at = s
TaskDone(w) == task' = [task EXCEPT ![w] = NoTask]
Plan(w, t) ==
  /\ task' = [task EXCEPT ![w] =
       [c \in DOMAIN NoTask |-> IF c \in DOMAIN t THEN t[c] ELSE NoTask[c]]]
  /\ UNCHANGED officeRows

Put(f, x, v) == [y \in DOMAIN f \cup {x} |-> IF y = x THEN v ELSE f[y]]
Minus(f, S) == [y \in DOMAIN f \ S |-> f[y]]

Enrolled(f) == {u \in DOMAIN student : student[u].faculty = f}
Total(f) == MapThenSumSet(LAMBDA u : student[u].points, Enrolled(f))
Used(x) == \E h \in history : h[2] = x
Active(u) == \E h \in history : h[1] = u

-----------------------------------------------------------------------------
\* seed and LeaderboardService.repair: student entries are written anew, a
\* faculty's entry is added or given its total, and keeps its name.
Rebuilt == [u \in DOMAIN student |->
              [points |-> student[u].points, detail |-> faculty[student[u].faculty]]]

Reranked(fs) ==
  [f \in DOMAIN fs \cup DOMAIN ranking |->
     IF f \notin DOMAIN fs THEN ranking[f]
     ELSE [points |-> Total(f),
           name |-> IF f \in DOMAIN ranking THEN ranking[f].name ELSE fs[f]]]

\* Without any faculty the seed brings its own.
Seeded(fs) == \E f \in Faculties, n \in Names : fs = [g \in {f} |-> n]

\* The process starts again: requests are gone, missing catalog rewards are
\* added, deleted ones included, and a station when none is left.
OfficeBoot ==
  /\ IF DOMAIN faculty = {} THEN Seeded(faculty') ELSE UNCHANGED faculty
  /\ item' = item \cup Shipped \cup (IF item \cap Stations = {} THEN {First} ELSE {})
  /\ board' = Rebuilt
  /\ ranking' = Reranked(faculty')
  /\ task' = [w \in Staff |-> NoTask]
  /\ UNCHANGED <<student, history>>

OfficeInit ==
  /\ Seeded(faculty)
  /\ student = [u \in {} |-> Nil]
  /\ item = Shipped \cup {First}
  /\ history = {}
  /\ board = [u \in {} |-> Nil]
  /\ ranking = [f \in DOMAIN faculty |-> [points |-> 0, name |-> faculty[f]]]
  /\ task = [w \in Staff |-> NoTask]

-----------------------------------------------------------------------------
\* Faculties.  The unique index on the name and the primary key refuse what
\* slipped past the check.
CreateLoad(w, f, n) ==
  /\ w \in Editors /\ Free(w)
  /\ f \notin DOMAIN faculty /\ n \notin Range(faculty)
  /\ Plan(w, [at |-> "create", f |-> f, n |-> n])

CreateCommit(w) ==
  /\ Doing(w, "create")
  /\ faculty' = IF task[w].f \in DOMAIN faculty \/ task[w].n \in Range(faculty)
                THEN faculty ELSE Put(faculty, task[w].f, task[w].n)
  /\ TaskDone(w)
  /\ UNCHANGED <<student, item, history, board, ranking>>

\* rename_faculty reads the ranking's entry along with the faculty.
RenameLoad(w, f, n) ==
  /\ w \in Editors /\ Free(w)
  /\ f \in DOMAIN faculty
  /\ \A g \in DOMAIN faculty \ {f} : faculty[g] # n
  /\ Plan(w, [at |-> "rename", f |-> f, n |-> n, has |-> f \in DOMAIN ranking])

RenameCommit(w) ==
  /\ Doing(w, "rename")
  /\ LET f == task[w].f
         n == task[w].n IN
     IF /\ f \in DOMAIN faculty
        /\ \A g \in DOMAIN faculty \ {f} : faculty[g] # n
     THEN /\ faculty' = Put(faculty, f, n)
          /\ ranking' = IF task[w].has THEN [ranking EXCEPT ![f].name = n] ELSE ranking
     ELSE UNCHANGED <<faculty, ranking>>
  /\ TaskDone(w)
  /\ UNCHANGED <<student, item, history, board>>

DropLoad(w, f) ==
  /\ w \in Clerks /\ Free(w)
  /\ f \in DOMAIN faculty /\ Enrolled(f) = {}
  /\ Plan(w, [at |-> "drop", f |-> f])

DropCommitUnchecked(w) ==      \* variant: the foreign key does not restrict
  /\ Doing(w, "drop")
  /\ faculty' = Minus(faculty, {task[w].f})
  /\ ranking' = Minus(ranking, {task[w].f})
  /\ TaskDone(w)
  /\ UNCHANGED <<student, item, history, board>>

\* delete_faculty: the entry and the faculty, unless somebody enrolled since:
\* users.faculty_id restricts.
DropCommit(w) ==
  /\ Doing(w, "drop")
  /\ IF Enrolled(task[w].f) = {}
     THEN /\ faculty' = Minus(faculty, {task[w].f})
          /\ ranking' = Minus(ranking, {task[w].f})
     ELSE UNCHANGED <<faculty, ranking>>
  /\ TaskDone(w)
  /\ UNCHANGED <<student, item, history, board>>

-----------------------------------------------------------------------------
\* register, update_profile and patch_user check that the faculty exists and
\* write it later; the foreign key checks again.
EnrolLoad(w, u, f) ==
  /\ Free(w)
  /\ f \in DOMAIN faculty
  /\ Plan(w, [at |-> IF u \in DOMAIN student THEN "move" ELSE "enrol", u |-> u, f |-> f])

EnrolCommit(w) ==
  /\ Doing(w, "enrol") \/ Doing(w, "move")
  /\ LET u == task[w].u
         f == task[w].f IN
     student' =
       IF f \notin DOMAIN faculty THEN student
       ELSE IF Doing(w, "enrol")
       THEN IF u \in DOMAIN student THEN student
            ELSE Put(student, u, [faculty |-> f, points |-> 0])
       ELSE IF u \in DOMAIN student
            THEN [student EXCEPT ![u].faculty = f] ELSE student
  /\ TaskDone(w)
  /\ UNCHANGED <<faculty, item, history, board, ranking>>

\* An admin's or a redemption's change of the balance touches no ranking.
SetPoints(w, u, n) ==
  /\ w \in Clerks /\ Free(w) /\ u \in DOMAIN student
  /\ student' = [student EXCEPT ![u].points = n]
  /\ UNCHANGED <<faculty, item, history, board, ranking, task>>

\* award_points: the balance and both rankings (DepositLifecycle has its races).
Award(w, u) ==
  /\ w \in Editors /\ Free(w) /\ u \in DOMAIN student
  /\ student[u].points < MaxPoints
  /\ student' = [student EXCEPT ![u].points = @ + 1]
  /\ LET f == student[u].faculty IN
     /\ board' = Put(board, u,
          [points |-> student[u].points + 1,
           detail |-> IF u \in DOMAIN board THEN board[u].detail ELSE faculty[f]])
     /\ ranking' = Put(ranking, f,
          [points |-> Total(f) + 1,
           name |-> IF f \in DOMAIN ranking THEN ranking[f].name ELSE faculty[f]])
  /\ UNCHANGED <<faculty, item, history, task>>

-----------------------------------------------------------------------------
\* A student deposits at a station, redeems a reward, completes a challenge.
UseLoad(w, u, x) ==
  /\ Free(w)
  /\ u \in DOMAIN student /\ x \in item /\ <<u, x>> \notin history
  /\ Plan(w, [at |-> "use", u |-> u, x |-> x])

UseCommit(w) ==
  /\ Doing(w, "use")
  /\ history' = IF task[w].u \in DOMAIN student /\ task[w].x \in item
                THEN history \cup {<<task[w].u, task[w].x>>} ELSE history
  /\ TaskDone(w)
  /\ UNCHANGED <<faculty, student, item, board, ranking>>

\* delete_station, delete_reward and delete_challenge of what nobody used.
ItemDeleteLoad(w, x) ==
  /\ w \in Clerks /\ Free(w)
  /\ x \in item /\ ~Used(x)
  /\ Plan(w, [at |-> "delete", x |-> x])

DeleteCascade(w) ==            \* variant: history goes with what it refers to
  /\ Doing(w, "delete")
  /\ item' = item \ {task[w].x}
  /\ history' = {h \in history : h[2] # task[w].x}
  /\ TaskDone(w)
  /\ UNCHANGED <<faculty, student, board, ranking>>

ItemDeleteCommit(w) ==
  /\ Doing(w, "delete")
  /\ item' = IF Used(task[w].x) THEN item ELSE item \ {task[w].x}
  /\ TaskDone(w)
  /\ UNCHANGED <<faculty, student, history, board, ranking>>

CreateItem(w, x) ==
  /\ w \in Clerks /\ Free(w) /\ x \notin item
  /\ item' = item \cup {x}
  /\ UNCHANGED <<faculty, student, history, board, ranking, task>>

\* delete_user of a student without history ...
RemoveLoad(w, u) ==
  /\ w \in Clerks /\ Free(w)
  /\ u \in DOMAIN student /\ ~Active(u)
  /\ Plan(w, [at |-> "remove", u |-> u])

\* ... deletes whatever refers to the student by then: the sessions, the
\* redemptions and the entry cascade.
RemoveCommit(w) ==
  /\ Doing(w, "remove")
  /\ LET u == task[w].u IN
     /\ student' = Minus(student, {u})
     /\ history' = {h \in history : h[1] # u}
     /\ board' = Minus(board, {u})
  /\ TaskDone(w)
  /\ UNCHANGED <<faculty, item, ranking>>

\* scripts/reset_dev_users.py --yes: every student with all that refers to
\* them, in one transaction; the faculties they leave are ranked anew.
ResetUsers ==
  /\ DOMAIN student # {}
  /\ LET left == {student[u].faculty : u \in DOMAIN student} IN
     ranking' = [f \in DOMAIN ranking \cup left |->
       IF f \notin left THEN ranking[f]
       ELSE [points |-> 0,
             name |-> IF f \in DOMAIN ranking THEN ranking[f].name ELSE faculty[f]]]
  /\ student' = [u \in {} |-> Nil]
  /\ board' = [u \in {} |-> Nil]
  /\ history' = {}
  /\ UNCHANGED <<faculty, item, task>>

-----------------------------------------------------------------------------
Handle(w) ==
  \/ \E f \in Faculties, n \in Names : CreateLoad(w, f, n) \/ RenameLoad(w, f, n)
  \/ \E f \in Faculties : DropLoad(w, f)
  \/ \E u \in Students : \/ \E f \in Faculties : EnrolLoad(w, u, f)
                         \/ \E x \in Items : UseLoad(w, u, x)
                         \/ \E n \in 0..MaxPoints : SetPoints(w, u, n)
                         \/ Award(w, u) \/ RemoveLoad(w, u)
  \/ \E x \in Items : ItemDeleteLoad(w, x) \/ CreateItem(w, x)

TaskCommit(w) ==
  \/ CreateCommit(w) \/ RenameCommit(w) \/ DropCommit(w) \/ EnrolCommit(w)
  \/ UseCommit(w) \/ ItemDeleteCommit(w) \/ RemoveCommit(w)

OfficeNext == OfficeBoot \/ ResetUsers \/ \E w \in Staff : Handle(w) \/ TaskCommit(w)

OfficeSpec == OfficeInit /\ [][OfficeNext]_officeVars

-----------------------------------------------------------------------------
(* Properties.                                                              *)

\* No check made before a commit is all that protects a row: a student has a
\* faculty, history has its student and its item, and nobody who is gone is
\* ranked, however enrolling, depositing and deleting interleave.
NoOrphans ==
  /\ \A u \in DOMAIN student : student[u].faculty \in DOMAIN faculty
  /\ \A h \in history : h[1] \in DOMAIN student /\ h[2] \in item
  /\ DOMAIN board \subseteq DOMAIN student /\ DOMAIN ranking \subseteq DOMAIN faculty

\* What a deposit or a redemption leaves is never erased but with a student
\* (the cascade of a deletion that overlaps it).
HistoryKept ==
  [][\A h \in history : h[1] \in DOMAIN student' => h \in history']_officeVars
=============================================================================
