------------------------------ MODULE MCBackend ------------------------------
(***************************************************************************)
(* The components that share no state with the deposits, nor with each     *)
(* other, in one run: part picks the one a behaviour explores, and the     *)
(* others stay at their first states.  Accounts is explored three times:   *)
(* two accounts and a token, an account and two tokens with overlapping    *)
(* changes of its password, and two administrators at once.                *)
(***************************************************************************)
EXTENDS Accounts, OperationCounter, RateLimiter, BackOffice, Schema, Serving, Dataset, TLC

CONSTANTS root, ann, l1, j1, j2, web1, web2, phone, law, arts, n1, n2, bin, cup,
          eng, old, v1, v2, a1, a2, b1, c1, d1, s1, s2, s3, s4, plastic, metal

\* Everybody has an address of their own.
OwnEmail == [u \in Users |-> u]

VARIABLE part

\* Two views of one object, two more of its class, and a class with one image.
SessionOf == a1 :> s1 @@ a2 :> s1 @@ b1 :> s2 @@ c1 :> s3 @@ d1 :> s4
LabelOf == d1 :> metal @@ [i \in {a1, a2, b1, c1} |-> plastic]

\* Frames: one that passes, and one for each place that refuses.
TypicalFrames == {{}, {"over max_upload_bytes"}, {"blurred", "no edges in the centre"}}

ASSUME BackendAssumption ==
  /\ AccountAssumption /\ LimiterAssumption /\ CounterAssumption
  /\ BackOfficeAssumption /\ SchemaAssumption /\ DatasetAssumption
  /\ ServingAssumption

accounts == vars

state == <<part, accounts, limiterVars, counterVars, officeVars, schemaVars, datasetVars,
           servingVars>>

Explored ==
  {"accounts", "tokens", "admins", "limiter", "operations", "catalog", "schema", "dataset", "serving"}

\* The first states of the parts that stand still differ in nothing.
MCInit ==
  /\ part \in Explored
  /\ Init /\ LimiterInit /\ CounterInit /\ OfficeInit /\ SchemaInit /\ DatasetInit /\ ServingInit
  /\ faculty = [f \in {law} |-> n1]
  /\ part # "schema" => db = EmptyDb
  /\ part # "serving" => model = NoRelease /\ mode = "real"

\* Two accounts, one token; web1 signs in and moderates, web2 signs out, follows
\* links and changes passwords.
AccountsPart ==
  /\ part = "accounts" /\ Next
  /\ j2 \notin DOMAIN jwt' /\ job'[web2].at \notin {"login", "patch", "delete"}
  /\ job'[web1].at \notin {"password", "script"}
  /\ UNCHANGED <<part, limiterVars, counterVars, officeVars, schemaVars, datasetVars, servingVars>>

\* One account that nobody moderates, two tokens; web1 signs in and out, both
\* follow links, change the password and run the script.
TokensPart ==
  /\ part = "tokens" /\ Next
  /\ \A w \in Workers : job'[w].user # ann /\ job'[w].at \notin {"patch", "delete", "verify"}
  /\ job'[web2].at # "login"
  /\ UNCHANGED <<part, limiterVars, counterVars, officeVars, schemaVars, datasetVars, servingVars>>

\* Two accounts and two tokens; both threads moderate, and web1 signs in and
\* makes the second account.
AdminsPart ==
  /\ part = "admins" /\ Next
  /\ \A w \in Workers : job'[w].at \in {"idle", "script", "login", "patch", "delete"}
  /\ job'[web2].at \notin {"login", "script"}
  /\ job'[web1].at = "script" => ann \notin DOMAIN row
  /\ \A u \in DOMAIN row' : row'[u].password = Initial
  /\ UNCHANGED <<part, link, revoked, limiterVars, counterVars, officeVars, schemaVars, datasetVars,
                 servingVars>>

LimiterPart ==
  /\ part = "limiter" /\ LimiterNext
  /\ UNCHANGED <<part, accounts, counterVars, officeVars, schemaVars, datasetVars, servingVars>>
OperationsPart ==
  /\ part = "operations" /\ CounterNext
  /\ UNCHANGED <<part, accounts, limiterVars, officeVars, schemaVars, datasetVars, servingVars>>
CatalogPart ==
  /\ part = "catalog" /\ OfficeNext
  /\ UNCHANGED <<part, accounts, limiterVars, counterVars, schemaVars, datasetVars, servingVars>>
SchemaPart ==
  /\ part = "schema" /\ SchemaNext
  /\ UNCHANGED <<part, accounts, limiterVars, counterVars, officeVars, datasetVars, servingVars>>
DatasetPart ==
  /\ part = "dataset" /\ DatasetNext
  /\ UNCHANGED <<part, accounts, limiterVars, counterVars, officeVars, schemaVars, servingVars>>
ServingPart ==
  /\ part = "serving" /\ ServingNext
  /\ UNCHANGED <<part, accounts, limiterVars, counterVars, officeVars, schemaVars, datasetVars>>

MCNext ==
  \/ AccountsPart \/ TokensPart \/ AdminsPart \/ LimiterPart \/ OperationsPart \/ CatalogPart
  \/ SchemaPart \/ DatasetPart \/ ServingPart

MCSpec == MCInit /\ [][MCNext]_state

TokenSymmetry == Permutations({j1, j2})
=============================================================================
