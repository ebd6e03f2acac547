------------------------------- MODULE Schema -------------------------------
(***************************************************************************)
(* The database of the backend across releases: the nine migrations of     *)
(* backend/alembic/versions, run by `alembic upgrade` in one transaction,  *)
(* the boot (database.py create_tables, services/seed.py) that may come    *)
(* with or without them, and scripts/reset_dev_db.py.                      *)
(*                                                                         *)
(* A part is what one migration adds: the tables of 0001 are one part and  *)
(* later columns of theirs are parts of their own.  Of the data, the       *)
(* faculty each user belongs to (0005 merges the old faculties) and        *)
(* whether a capture-first session exists (0002 makes room for it).        *)
(* Rankings go with their faculty and come back at boot (BackOffice).      *)
(* Migrations run while the backend is down, as in backend/Dockerfile.     *)
(***************************************************************************)
EXTENDS Integers, Sequences, SequencesExt

CONSTANTS
  Population,
  Legacy,          \* faculties of the prototype, retired by 0005
  Canonical,       \* the faculties of the seed
  Engineering,     \* the one the retired ones are merged into
  OldEngineering   \* the one a downgrade brings back

SchemaAssumption ==
  /\ Engineering \in Canonical /\ OldEngineering \in Legacy
  /\ Legacy \cap Canonical = {}

VARIABLES
  db,         \* what is committed
  run,        \* the alembic command in progress and its transaction
  up,         \* the backend has booted
  bypassed,   \* tables were made or dropped below head without alembic
  failed,     \* an upgrade has failed
  home        \* the faculty each user chose: kept for the properties alone

schemaVars == <<db, run, up, bypassed, failed, home>>

\* What upgrade() of each revision adds, and its downgrade() drops.  "default"
\* is the server default that 0004 gives the challenge flags; 0005 changes rows
\* only.
InitialTables    == {"core"}
CaptureColumns   == {"capture"}
Hardening        == {"roles", "auth"}
ChallengeBools   == {"flags", "default"}
TokenVersion     == {"token"}
AvatarVersion    == {"avatar"}
RewardTables     == {"rewards"}
StationMechanism == {"mechanism"}

Adds == <<InitialTables, CaptureColumns, Hardening, ChallengeBools, {},
          TokenVersion, AvatarVersion, RewardTables, StationMechanism>>

Latest == Len(Adds)
Tables == {"core", "auth", "rewards"}

\* What the models declare.
Models == (UNION Range(Adds)) \ {"default"}

EmptyDb == [rev |-> 0, has |-> {}, fac |-> {}, member |-> [u \in {} |-> Engineering],
          bare |-> FALSE]

Members(d) == DOMAIN d.member
NoRun == [to |-> 0, work |-> EmptyDb, on |-> FALSE]

\* users.faculty_id RESTRICT, checked by each statement.
AllEnrolled(d) == \A u \in Members(d) : d.member[u] \in d.fac

Moved(d, from, f) ==
  [u \in Members(d) |-> IF d.member[u] \in from THEN f ELSE d.member[u]]

\* A database some release left behind, migrated so far and no further.
SchemaInit ==
  /\ \E r \in 0..Latest :
       LET fac == IF r = 0 THEN {} ELSE IF r < 5 THEN Legacy ELSE Canonical IN
       \E U \in SUBSET Population : \E m \in [U -> fac] : \E b \in BOOLEAN :
         /\ b => r >= 2 /\ U # {}
         /\ db = [rev |-> r, has |-> UNION {Adds[n] : n \in 1..r}, fac |-> fac,
                  member |-> m, bare |-> b]
  /\ run = NoRun /\ up = FALSE
  /\ bypassed = FALSE /\ failed = FALSE
  /\ home = Moved(db, Legacy, Engineering)

-----------------------------------------------------------------------------
\* 0005: the canonical rows, the users of the old ones, the old ones.
CanonicaliseRows(d) ==               \* variant: users are not remapped
  [d EXCEPT !.fac = (@ \cup Canonical) \ Legacy]

Canonicalise(d) ==
  [d EXCEPT !.fac = (@ \cup Canonical) \ Legacy,
            !.member = Moved(d, Legacy, Engineering)]

RetireAll(d) ==                      \* variant: everybody is moved back
  [d EXCEPT !.fac = (@ \cup {OldEngineering}) \ Canonical,
            !.member = Moved(d, Canonical, OldEngineering)]

\* Its downgrade: only the engineers are moved back.
Retire(d) ==
  [d EXCEPT !.fac = (@ \cup {OldEngineering}) \ Canonical,
            !.member = Moved(d, {Engineering}, OldEngineering)]

\* upgrade() and downgrade() of revision n on d.
Upgraded(n, d) ==
  LET e == [d EXCEPT !.rev = n, !.has = @ \cup Adds[n]]
  IN IF n = 5 THEN Canonicalise(e) ELSE e

Downgraded(n, d) ==
  LET e == [d EXCEPT !.rev = n - 1, !.has = @ \ Adds[n]]
  IN IF n = 5 THEN Retire(e) ELSE IF n = 1 THEN EmptyDb ELSE e

\* CREATE TABLE and ADD COLUMN refuse what is there already.  ALTER TYPE of
\* 0004 does not mind a flag that is a boolean.
UpFits(n, d) ==
  /\ (Adds[n] \ {"flags", "default"}) \cap d.has = {}
  /\ n > 1 => "core" \in d.has

\* DROP refuses what is not there or what a foreign key of another table needs,
\* SET NOT NULL a session without a prediction, and ALTER TYPE of 0004 a
\* boolean default that has no integer form.
DownFits(n, d) ==
  /\ Adds[n] \ {"default"} \subseteq d.has
  /\ n = 1 => d.has \cap Tables = {"core"}
  /\ n = 2 => ~d.bare
  /\ n = 4 => "default" \notin d.has

\* `alembic upgrade head` or `alembic downgrade r`, the backend stopped.
Command(r) ==
  /\ ~run.on /\ r # db.rev
  /\ run' = [to |-> r, work |-> db, on |-> TRUE]
  /\ up' = FALSE
  /\ UNCHANGED <<db, bypassed, failed, home>>

\* The next script of the run, inside its transaction, which the first
\* statement that fails rolls back whole.
Migrate ==
  /\ run.on /\ run.work.rev # run.to
  /\ LET d == run.work
         climb == d.rev < run.to
         e == IF climb THEN Upgraded(d.rev + 1, d) ELSE Downgraded(d.rev, d)
     IN IF (IF climb THEN UpFits(d.rev + 1, d) ELSE DownFits(d.rev, d)) /\ AllEnrolled(e)
        THEN run' = [run EXCEPT !.work = e] /\ UNCHANGED failed
        ELSE run' = NoRun /\ failed' = (failed \/ climb)
  /\ UNCHANGED <<db, up, bypassed, home>>

RunCommit ==
  /\ run.on /\ run.work.rev = run.to
  /\ db' = run.work
  /\ run' = NoRun
  /\ home' = IF run.to = 0 THEN EmptyDb.member ELSE home
  /\ UNCHANGED <<up, bypassed, failed>>

\* The command is killed.
Kill ==
  /\ run.on
  /\ run' = NoRun
  /\ UNCHANGED <<db, up, bypassed, failed, home>>

-----------------------------------------------------------------------------
\* create_all makes the tables that are missing, as the models have them now.
Created(d) ==
  [d EXCEPT !.has = IF "core" \in @ THEN @ \cup Tables ELSE Models]

\* The backend starts, after `alembic upgrade head` or without it (dev_up.sh):
\* the tables are committed, and the seed then reads every column it knows.
SchemaBoot ==
  /\ ~run.on /\ ~up
  /\ LET d == Created(db)
         whole == Models \subseteq d.has IN
     /\ db' = IF whole /\ d.fac = {} THEN [d EXCEPT !.fac = Canonical] ELSE d
     /\ up' = whole
     /\ bypassed' = (bypassed \/ (d.has # db.has /\ db.rev # Latest))
  /\ UNCHANGED <<run, failed, home>>

\* drop_all of reset_dev_db.py, which leaves alembic's own table alone; Boot is
\* its second half.
Drop ==
  /\ ~run.on /\ ~up
  /\ db' = [EmptyDb EXCEPT !.rev = db.rev]
  /\ home' = EmptyDb.member
  /\ bypassed' = (bypassed \/ db.rev # Latest)
  /\ UNCHANGED <<run, up, failed>>

\* What a running backend adds to the data.
Enrol(u, f) ==
  /\ up /\ f \in db.fac /\ u \notin Members(db)
  /\ db' = [db EXCEPT !.member = [v \in Members(db) \cup {u} |->
                                    IF v = u THEN f ELSE db.member[v]]]
  /\ home' = [v \in DOMAIN home \cup {u} |-> IF v = u THEN f ELSE home[v]]
  /\ UNCHANGED <<run, up, bypassed, failed>>

Capture ==
  /\ up /\ Members(db) # {}
  /\ db' = [db EXCEPT !.bare = TRUE]
  /\ UNCHANGED <<run, up, bypassed, failed, home>>

Stop ==
  /\ up /\ up' = FALSE
  /\ UNCHANGED <<db, run, bypassed, failed, home>>

SchemaNext ==
  \/ \E r \in 0..Latest : Command(r)
  \/ Migrate \/ RunCommit \/ Kill
  \/ SchemaBoot \/ Drop \/ Stop \/ Capture
  \/ \E u \in Population, f \in Canonical : Enrol(u, f)

SchemaSpec == SchemaInit /\ [][SchemaNext]_schemaVars

-----------------------------------------------------------------------------
(* Properties.                                                              *)

\* "Alembic owns the schema": a database can always be brought to head, through
\* any downgrades, resets at head and whatever was written in between, unless
\* create_all or drop_all was let at it below head.
UpgradeWorks == failed => bypassed

\* "Users are remapped by name match where possible": nobody is lost or put into
\* a faculty that is not theirs, by any sequence of upgrades and downgrades.
FacultyKept == Moved(db, Legacy, Engineering) = home
=============================================================================
