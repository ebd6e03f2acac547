---------------------------- MODULE PhoneProofs ----------------------------
(***************************************************************************)
(* Theorems about the two things a phone does while a student deposits.    *)
(* The QR handoff (Handoff), for every set of tokens, tablets and          *)
(* operations: the types, that a token begets at most one session however  *)
(* many tablets have read it, and that a late answer takes a student to no *)
(* session but a new one or one that was open, or in a handler's hands,    *)
(* when the QR was opened.  The live view (LiveWatch), for every set of    *)
(* statuses and verdicts: the phone reports only what the row has held at  *)
(* some commit.                                                            *)
(***************************************************************************)
EXTENDS Handoff, LiveWatch, WellFoundedInduction, TLAPS

\* The sessions made after one more is made.
LEMMA MadeAfter ==
  ASSUME made \in Seq(Ops), NEW o \in Ops, made' = Append(made, o)
  PROVE  Made' = Made \cup {o}
<1>1. /\ Len(made') = Len(made) + 1
      /\ \A i \in 1..Len(made) : made'[i] = made[i]
      /\ made'[Len(made) + 1] = o
  OBVIOUS
<1>2. Len(made) \in Nat
  OBVIOUS
<1>. QED
  BY <1>1, <1>2 DEF Made

\* A set of sessions, some of which were made, has a newest one.
LEMMA NewestIsOne ==
  ASSUME made \in Seq(Ops), NEW S, S # {}, S \subseteq Made
  PROVE  Newest(S) \in S
<1>. DEFINE n == Len(made)
            Age == {k \in Nat : k < n /\ made[n - k] \in S}
<1>1. n \in Nat
  OBVIOUS
<1>2. PICK i \in 1..n : made[i] \in S
  BY DEF Made
<1>3. n - i \in Nat /\ n - i < n /\ n - (n - i) = i
  BY <1>1
<1>4. n - i \in Age
  BY <1>2, <1>3
<1>5. PICK k \in Age : \A l \in Age : ~(<<l, k>> \in OpToRel(<, Nat))
  <2>. HIDE DEF Age
  <2>1. Age \subseteq Nat
    BY DEF Age
  <2>. QED
    BY <1>4, <2>1, NatLessThanWellFounded, WFMin
<1>6. n - k \in 1..n /\ made[n - k] \in S
  BY <1>1
<1>7. ASSUME NEW j \in n - k + 1..n, made[j] \in S
      PROVE  FALSE
  <2>1. n - j \in Nat /\ n - j < k /\ n - j < n /\ n - (n - j) = j
    BY <1>1
  <2>2. n - j \in Age
    BY <2>1, <1>7
  <2>3. <<n - j, k>> \in OpToRel(<, Nat)
    BY <2>1 DEF OpToRel
  <2>. QED
    BY <1>5, <2>2, <2>3
<1>8. \E o \in S : \E m \in 1..Len(made) :
        made[m] = o /\ \A j \in m + 1..Len(made) : made[j] \notin S
  BY <1>6, <1>7
<1>. QED
  BY <1>8 DEF Newest

-----------------------------------------------------------------------------
\* What the types rest on: an open session has been made, and what a poll
\* brings is therefore a session.
TypeInv == TypeOK /\ live \subseteq Made /\ Held \subseteq Made

\* Sets of sessions that no step but an insert, a load and a write changes.
LEMMA SameSets ==
  ASSUME UNCHANGED <<made, hold>>
  PROVE  Made' = Made /\ Held' = Held
BY DEF Made, Held

\* The session and the job parts of TypeInv after an insert.
LEMMA InsertType ==
  ASSUME TypeInv, NEW o \in Ops, NEW t \in Tokens \cup {NoToken}, Insert(o, t)
  PROVE  /\ made' \in Seq(Ops)
         /\ claim' \in [Ops -> Tokens \cup {NoToken}]
         /\ live' \subseteq Ops /\ live' \subseteq Made'
         /\ Held' \subseteq Made' /\ hold' \in [Handlers -> Ops \cup {NoOp}]
<1>1. made \in Seq(Ops) /\ made' = Append(made, o)
  BY DEF TypeInv, TypeOK, Insert
<1>2. Made' = Made \cup {o}
  BY <1>1, MadeAfter
<1>. QED
  BY <1>1, <1>2 DEF TypeInv, TypeOK, Insert, Held

\* Every step of the backend keeps the types.
LEMMA BackendType ==
  ASSUME TypeInv,
         \/ \E t \in Tokens : Mint(t) \/ Expire(t)
         \/ \E w \in Tablets :
              \/ \E t \in Tokens : ClaimRead(w, t)
              \/ ClaimConsume(w)
              \/ \E o \in Ops : ClaimCreate(w, o)
              \/ ClaimFail(w)
         \/ \E o \in Ops : CreateDirect(o) \/ Close(o)
         \/ \E h \in Handlers :
              (\E o \in Ops : Load(h, o)) \/ WriteOpen(h) \/ Release(h)
  PROVE  TypeInv'
<1>. USE DEF sessions, phone
<1>1. ASSUME NEW t \in Tokens, Mint(t) \/ Expire(t)
      PROVE  TypeInv'
  BY <1>1, SameSets DEF TypeInv, TypeOK, Mint, Expire
<1>2. ASSUME NEW w \in Tablets, NEW t \in Tokens, ClaimRead(w, t)
      PROVE  TypeInv'
  BY <1>2, SameSets DEF TypeInv, TypeOK, ClaimRead, Job
<1>3. ASSUME NEW w \in Tablets, ClaimConsume(w) \/ ClaimFail(w)
      PROVE  TypeInv'
  <2>1. job[w].at # "idle" => job[w].token \in Tokens
    BY DEF TypeInv, TypeOK, Idle, Job
  <2>. QED
    BY <1>3, <2>1, SameSets DEF TypeInv, TypeOK, ClaimConsume, ClaimFail, Job, Idle
<1>4. ASSUME NEW w \in Tablets, NEW o \in Ops, ClaimCreate(w, o)
      PROVE  TypeInv'
  <2>1. job[w].token \in Tokens
    BY <1>4 DEF TypeInv, TypeOK, ClaimCreate, Idle, Job
  <2>. QED
    BY <1>4, <2>1, InsertType DEF TypeInv, TypeOK, ClaimCreate
<1>5. ASSUME NEW o \in Ops, CreateDirect(o)
      PROVE  TypeInv'
  BY <1>5, InsertType DEF TypeInv, TypeOK, CreateDirect
<1>6. ASSUME NEW o \in Ops, Close(o)
      PROVE  TypeInv'
  BY <1>6, SameSets DEF TypeInv, TypeOK, Close
<1>7. ASSUME NEW h \in Handlers, NEW o \in Ops, Load(h, o)
      PROVE  TypeInv'
  <2>1. Held' \subseteq Held \cup {o} /\ Made' = Made /\ o \in Made
    BY <1>7 DEF TypeInv, TypeOK, Load, Made, Held
  <2>. QED
    BY <1>7, <2>1 DEF TypeInv, TypeOK, Load
<1>8. ASSUME NEW h \in Handlers, WriteOpen(h) \/ Release(h)
      PROVE  TypeInv'
  <2>1. hold[h] \in Held /\ hold[h] \in Ops /\ Made' = Made
    BY <1>8 DEF TypeInv, TypeOK, WriteOpen, Release, Made, Held
  <2>2. Held' \subseteq Held /\ hold' \in [Handlers -> Ops \cup {NoOp}]
    <3>1. hold' \in {hold, [hold EXCEPT ![h] = NoOp]}
      BY <1>8 DEF WriteOpen, Release
    <3>. QED
      BY <3>1 DEF TypeInv, TypeOK, Held
  <2>. QED
    BY <1>8, <2>1, <2>2 DEF TypeInv, TypeOK, WriteOpen, Release
<1>. QED
  BY <1>1, <1>2, <1>3, <1>4, <1>5, <1>6, <1>7, <1>8

\* Every step of the phone keeps the types.
LEMMA PhoneType ==
  ASSUME TypeInv,
         \/ \E a \in Ops \cup {NoOp} : PollAnswer(a) \/ PollLost(a)
         \/ OpenQr \/ Poll \/ Leave
  PROVE  TypeInv'
<1>. USE HandoffAssumption DEF sessions
<1>1. ASSUME NEW a \in Ops \cup {NoOp}, PollAnswer(a) \/ PollLost(a)
      PROVE  TypeInv'
  BY <1>1, SameSets DEF TypeInv, TypeOK, PollAnswer, PollLost
<1>2. CASE OpenQr
  <2>1. Made \subseteq Ops
    BY DEF TypeInv, TypeOK, Made
  <2>2. opened' \in [made: SUBSET Ops, live: SUBSET Ops, held: SUBSET Ops]
    BY <1>2, <2>1 DEF TypeInv, TypeOK, OpenQr
  <2>. QED
    BY <1>2, <2>2, SameSets DEF TypeInv, TypeOK, OpenQr
<1>3. CASE Poll
  <2>1. live # {} => Newest(live) \in Ops
    BY NewestIsOne DEF TypeInv, TypeOK
  <2>2. answers' \subseteq Ops \cup {NoOp}
    BY <1>3, <2>1 DEF TypeInv, TypeOK, Poll
  <2>. QED
    BY <1>3, <2>2, SameSets DEF TypeInv, TypeOK, Poll
<1>4. CASE Leave
  BY <1>4, SameSets DEF TypeInv, TypeOK, Leave
<1>. QED
  BY <1>1, <1>2, <1>3, <1>4

LEMMA TypeInit == Init => TypeInv
BY DEF Init, TypeInv, TypeOK, Idle, Job, Made, Held

LEMMA TypeStep == TypeInv /\ [Next]_vars => TypeInv'
<1>1. TypeInv /\ UNCHANGED vars => TypeInv'
  BY DEF vars, TypeInv, TypeOK, Made, Held
<1>. QED
  BY <1>1, BackendType, PhoneType DEF Next

\* Tokens, sessions, claims and the phone's screen keep their types, for any
\* number of tokens, tablets and operations.
THEOREM TypeCorrect == Spec => []TypeOK
<1>1. TypeInv => TypeOK
  BY DEF TypeInv
<1>. QED
  BY <1>1, TypeInit, TypeStep, PTL DEF Spec

-----------------------------------------------------------------------------
\* One session per token.  The UPDATE of ClaimConsume succeeds once, so the
\* right to create with a token is held by one tablet, and is gone when it has
\* been made use of.
Entitled(w) == job[w].at = "create"
Begotten(t) == \E o \in Made : claim[o] = t

FreshRight ==
  \A w \in Tablets : Entitled(w) =>
    token[job[w].token] = "used" /\ ~Begotten(job[w].token)

SoleRight ==
  \A v, w \in Tablets :
    Entitled(v) /\ Entitled(w) /\ job[v].token = job[w].token => v = w

BegottenUsed == \A t \in Tokens : Begotten(t) => token[t] = "used"

ClaimInv ==
  TypeInv /\ FreshRight /\ SoleRight /\ BegottenUsed /\ OneSessionPerToken

\* A tablet that has a claim in hand has it for a token of the phone's.
LEMMA JobToken ==
  ASSUME TypeInv, NEW w \in Tablets, job[w].at # "idle"
  PROVE  job[w].token \in Tokens
BY DEF TypeInv, TypeOK, Idle, Job

\* An unused token was never made use of: nothing happens to the entitlements.
LEMMA ClaimMint ==
  ASSUME ClaimInv, TypeInv', NEW t \in Tokens, Mint(t)
  PROVE  ClaimInv'
<1>1. token \in [Tokens -> {"none", "valid", "used"}]
  BY DEF ClaimInv, TypeInv, TypeOK
<1>2. \A s \in Tokens : token[s] = "used" => token'[s] = "used"
  BY <1>1 DEF Mint
<1>3. \A w \in Tablets : Entitled(w) => job[w].token \in Tokens
  BY JobToken DEF ClaimInv, Entitled
<1>. QED
  BY <1>2, <1>3 DEF ClaimInv, FreshRight, SoleRight, BegottenUsed, Mint,
                    sessions, Entitled, Begotten, Made, OneSessionPerToken

\* The conditional UPDATE entitles one tablet to a token nobody has used.
LEMMA ClaimConsumed ==
  ASSUME ClaimInv, TypeInv', NEW w \in Tablets, ClaimConsume(w)
  PROVE  ClaimInv'
<1>. DEFINE t == job[w].token
<1>0. /\ token \in [Tokens -> {"none", "valid", "used"}]
      /\ job \in [Tablets -> {Idle} \cup [at: {"consume", "create"}, token: Tokens]]
      /\ t \in Tokens
  BY JobToken DEF ClaimInv, TypeInv, TypeOK, ClaimConsume
<1>1. /\ UNCHANGED <<made, claim, live>>
      /\ Made' = Made
      /\ \A s : Begotten(s)' = Begotten(s)
  BY DEF ClaimConsume, sessions, Made, Begotten
<1>2. \A v \in Tablets : v # w => job'[v] = job[v]
  BY <1>0 DEF ClaimConsume
<1>3. CASE token[t] = "valid"
  <2>1. /\ job'[w] = Job("create", t)
        /\ \A s \in Tokens : token'[s] = IF s = t THEN "used" ELSE token[s]
    BY <1>0, <1>3 DEF ClaimConsume
  <2>2. ~Begotten(t) /\ \A v \in Tablets : Entitled(v) => job[v].token # t
    BY <1>0, <1>3 DEF ClaimInv, FreshRight, BegottenUsed
  <2>3. \A v \in Tablets : Entitled(v)' => v = w \/ Entitled(v)
    BY <1>2 DEF Entitled
  <2>4. \A v \in Tablets : Entitled(v) => job[v].token \in Tokens
    BY JobToken DEF ClaimInv, Entitled
  <2>5. FreshRight'
    <3>. SUFFICES ASSUME NEW v \in Tablets, Entitled(v)'
                  PROVE  (token[job[v].token] = "used" /\ ~Begotten(job[v].token))'
      BY DEF FreshRight
    <3>1. CASE v = w
      BY <1>0, <1>1, <2>1, <2>2, <3>1 DEF Job, Begotten
    <3>2. CASE v # w
      <4>1. /\ Entitled(v) /\ job'[v] = job[v] /\ job[v].token \in Tokens
            /\ token[job[v].token] = "used" /\ ~Begotten(job[v].token)
        BY <1>2, <2>3, <2>4, <3>2 DEF ClaimInv, FreshRight
      <4>. QED
        BY <1>1, <2>1, <4>1 DEF Begotten
    <3>. QED
      BY <3>1, <3>2
  <2>6. SoleRight'
    BY <1>2, <2>1, <2>2, <2>3 DEF ClaimInv, SoleRight, Job
  <2>7. BegottenUsed'
    BY <1>1, <2>1 DEF ClaimInv, BegottenUsed, Begotten
  <2>8. OneSessionPerToken'
    BY <1>1 DEF ClaimInv, OneSessionPerToken
  <2>. QED
    BY <2>5, <2>6, <2>7, <2>8 DEF ClaimInv
<1>4. CASE token[t] # "valid"
  <2>1. UNCHANGED token /\ job'[w].at = "idle"
    BY <1>0, <1>4 DEF ClaimConsume, Idle, Job
  <2>2. \A v \in Tablets : Entitled(v)' => Entitled(v) /\ job'[v] = job[v]
    BY <1>2, <2>1 DEF Entitled
  <2>. QED
    BY <1>1, <2>1, <2>2 DEF ClaimInv, OneSessionPerToken, Begotten, FreshRight,
                            SoleRight, BegottenUsed
<1>. QED
  BY <1>3, <1>4

\* An insert begets of its own token and of no other.
LEMMA InsertBegets ==
  ASSUME TypeInv, NEW o \in Ops, NEW t \in Tokens \cup {NoToken}, Insert(o, t)
  PROVE  /\ o \notin Made /\ Made' = Made \cup {o}
         /\ \A p \in Made : claim'[p] = claim[p]
         /\ claim'[o] = t
         /\ \A s \in Tokens : Begotten(s)' <=> Begotten(s) \/ s = t
<1>1. /\ made \in Seq(Ops) /\ made' = Append(made, o) /\ o \notin Made
      /\ claim \in [Ops -> Tokens \cup {NoToken}] /\ Made \subseteq Ops
      /\ claim' = [claim EXCEPT ![o] = t]
  BY DEF TypeInv, TypeOK, Insert, Made
<1>2. Made' = Made \cup {o}
  BY <1>1, MadeAfter
<1>3. claim'[o] = t /\ \A p \in Made : claim'[p] = claim[p]
  BY <1>1
<1>4. ASSUME NEW s \in Tokens
      PROVE  Begotten(s)' <=> Begotten(s) \/ s = t
  BY <1>2, <1>3 DEF Begotten
<1>. QED
  BY <1>1, <1>2, <1>3, <1>4

\* The tablet uses its right up.
LEMMA ClaimCreated ==
  ASSUME ClaimInv, TypeInv', NEW w \in Tablets, NEW o \in Ops, ClaimCreate(w, o)
  PROVE  ClaimInv'
<1>. DEFINE t == job[w].token
<1>1. TypeInv /\ Insert(o, t) /\ Entitled(w) /\ UNCHANGED token
  BY DEF ClaimInv, ClaimCreate, Entitled
<1>2. t \in Tokens
  BY <1>1, JobToken DEF Entitled
<1>3. /\ job'[w].at = "idle"
      /\ \A v \in Tablets : v # w => job'[v] = job[v]
  BY <1>1 DEF ClaimCreate, TypeInv, TypeOK, Idle, Job
<1>4. /\ o \notin Made /\ Made' = Made \cup {o} /\ claim'[o] = t
      /\ \A p \in Made : claim'[p] = claim[p]
      /\ \A s \in Tokens : Begotten(s)' <=> Begotten(s) \/ s = t
  BY <1>1, <1>2, InsertBegets
<1>5. token[t] = "used" /\ ~Begotten(t)
  BY <1>1 DEF ClaimInv, FreshRight
<1>6. \A v \in Tablets : Entitled(v)' =>
        v # w /\ Entitled(v) /\ job'[v] = job[v] /\ job[v].token # t
             /\ job[v].token \in Tokens
  BY <1>1, <1>3, JobToken DEF ClaimInv, SoleRight, Entitled
<1>7. OneSessionPerToken'
  BY <1>4, <1>5 DEF ClaimInv, OneSessionPerToken, Begotten
<1>8. FreshRight'
  <2>. SUFFICES ASSUME NEW v \in Tablets, Entitled(v)'
                PROVE  (token[job[v].token] = "used" /\ ~Begotten(job[v].token))'
    BY DEF FreshRight
  <2>1. token[job[v].token] = "used" /\ ~Begotten(job[v].token)
    BY <1>6 DEF ClaimInv, FreshRight
  <2>2. ~Begotten(job[v].token)'
    <3>. DEFINE s == job[v].token
    <3>1. s \in Tokens /\ s # t /\ job'[v].token = s
      BY <1>6
    <3>2. \A p \in Made : claim[p] # s
      BY <2>1 DEF Begotten
    <3>3. \A p \in Made' : claim'[p] # s
      BY <1>4, <3>1, <3>2
    <3>. QED
      BY <3>1, <3>3 DEF Begotten
  <2>. QED
    BY <1>1, <1>6, <2>1, <2>2
<1>9. SoleRight'
  BY <1>6 DEF ClaimInv, SoleRight
<1>10. BegottenUsed'
  BY <1>1, <1>4, <1>5 DEF ClaimInv, BegottenUsed
<1>. QED
  BY <1>7, <1>8, <1>9, <1>10 DEF ClaimInv

\* A session created without a token changes no token's lot.
LEMMA ClaimDirect ==
  ASSUME ClaimInv, TypeInv', NEW o \in Ops, CreateDirect(o)
  PROVE  ClaimInv'
<1>1. TypeInv /\ Insert(o, NoToken) /\ UNCHANGED <<token, job>>
  BY DEF ClaimInv, CreateDirect
<1>2. /\ Made' = Made \cup {o} /\ claim'[o] = NoToken
      /\ \A p \in Made : claim'[p] = claim[p]
      /\ \A s \in Tokens : Begotten(s)' <=> Begotten(s)
  BY <1>1, InsertBegets, HandoffAssumption
<1>3. OneSessionPerToken'
  BY <1>2 DEF ClaimInv, OneSessionPerToken
<1>4. \A v \in Tablets : Entitled(v) => job[v].token \in Tokens
  BY <1>1, JobToken DEF Entitled
<1>6. FreshRight'
  <2>. SUFFICES ASSUME NEW v \in Tablets, Entitled(v)'
                PROVE  (token[job[v].token] = "used" /\ ~Begotten(job[v].token))'
    BY DEF FreshRight
  <2>1. /\ Entitled(v) /\ job'[v] = job[v] /\ job[v].token \in Tokens
        /\ token[job[v].token] = "used" /\ ~Begotten(job[v].token)
    BY <1>1, <1>4 DEF Entitled, ClaimInv, FreshRight
  <2>2. job[v].token # NoToken
    BY <2>1, HandoffAssumption
  <2>. QED
    BY <1>1, <1>2, <2>1, <2>2 DEF Begotten
<1>7. SoleRight'
  BY <1>1 DEF ClaimInv, SoleRight, Entitled
<1>8. BegottenUsed'
  BY <1>1, <1>2 DEF ClaimInv, BegottenUsed
<1>. QED
  BY <1>3, <1>6, <1>7, <1>8 DEF ClaimInv

\* A step that entitles nobody and leaves the tokens and the sessions' claims
\* alone.
LEMMA ClaimFrame ==
  ASSUME ClaimInv, TypeInv', UNCHANGED <<token, made, claim>>,
         \A v \in Tablets : job'[v].at = "create" => job'[v] = job[v]
  PROVE  ClaimInv'
BY DEF ClaimInv, FreshRight, SoleRight, BegottenUsed, Entitled, Begotten, Made,
       OneSessionPerToken

LEMMA ClaimStep == ClaimInv /\ [Next]_vars => ClaimInv'
<1>. SUFFICES ASSUME ClaimInv, [Next]_vars
              PROVE  ClaimInv'
  OBVIOUS
<1>. USE DEF sessions, phone
<1>0. TypeInv /\ TypeInv'
  BY TypeStep DEF ClaimInv
<1>1. ASSUME NEW t \in Tokens, Mint(t)
      PROVE  ClaimInv'
  BY <1>0, <1>1, ClaimMint
<1>2. ASSUME NEW w \in Tablets, ClaimConsume(w)
      PROVE  ClaimInv'
  BY <1>0, <1>2, ClaimConsumed
<1>3. ASSUME NEW w \in Tablets, NEW o \in Ops, ClaimCreate(w, o)
      PROVE  ClaimInv'
  BY <1>0, <1>3, ClaimCreated
<1>4. ASSUME NEW o \in Ops, CreateDirect(o)
      PROVE  ClaimInv'
  BY <1>0, <1>4, ClaimDirect
<1>5. ASSUME NEW w \in Tablets, ClaimFail(w) \/ \E t \in Tokens : ClaimRead(w, t)
      PROVE  ClaimInv'
  <2>1. /\ UNCHANGED <<token, made, claim>>
        /\ job'[w].at # "create"
        /\ \A v \in Tablets : v # w => job'[v] = job[v]
    BY <1>0, <1>5 DEF TypeInv, TypeOK, ClaimFail, ClaimRead, Idle, Job
  <2>. QED
    BY <1>0, <2>1, ClaimFrame
<1>6. CASE \/ \E t \in Tokens : Expire(t)
           \/ \E o \in Ops : Close(o)
           \/ \E h \in Handlers :
                (\E o \in Ops : Load(h, o)) \/ WriteOpen(h) \/ Release(h)
           \/ \E a \in Ops \cup {NoOp} : PollAnswer(a) \/ PollLost(a)
           \/ OpenQr \/ Poll \/ Leave
           \/ UNCHANGED vars
  <2>1. UNCHANGED <<token, made, claim, job>>
    BY <1>6 DEF Expire, Close, Load, WriteOpen, Release, PollAnswer, PollLost, OpenQr,
                Poll, Leave, vars
  <2>. QED
    BY <1>0, <2>1, ClaimFrame
<1>. QED
  BY <1>1, <1>2, <1>3, <1>4, <1>5, <1>6 DEF Next

\* However many tablets have scanned a token and read it as unused, it begets
\* at most one session.
THEOREM TokenBegetsOne == Spec => []OneSessionPerToken
<1>1. Init => ClaimInv
  BY TypeInit DEF Init, ClaimInv, FreshRight, SoleRight, BegottenUsed, Entitled,
                  Begotten, Made, OneSessionPerToken, Idle, Job
<1>2. ClaimInv => OneSessionPerToken
  BY DEF ClaimInv
<1>. QED
  BY <1>1, <1>2, ClaimStep, PTL DEF Spec

-----------------------------------------------------------------------------
\* The session the phone follows.  A session is opened again only by a handler
\* that loaded it while it was open: what was closed when the QR was opened, and
\* in nobody's hands, stays closed and is named by no answer.
Known == opened.live \cup opened.held

WatchInv ==
  /\ TypeInv
  /\ opened.made \subseteq Made
  /\ (live \cup Held \cup answers) \cap opened.made \subseteq Known
  /\ FollowsNewOrOpen

\* A step that leaves the phone and its answers alone, and opens or takes hold of
\* no session but a new one or one that was open or held before.
LEMMA WatchFrame ==
  ASSUME WatchInv, TypeInv', UNCHANGED phone, Made \subseteq Made',
         (live' \cup Held') \cap Made \subseteq live \cup Held
  PROVE  WatchInv'
BY DEF WatchInv, phone, FollowsNewOrOpen, Known

LEMMA WatchStep == WatchInv /\ [Next]_vars => WatchInv'
<1>. SUFFICES ASSUME WatchInv, [Next]_vars
              PROVE  WatchInv'
  OBVIOUS
<1>0. TypeInv /\ TypeInv'
  BY TypeStep DEF WatchInv
<1>1. ASSUME NEW o \in Ops, NEW t \in Tokens \cup {NoToken}, Insert(o, t),
             UNCHANGED phone
      PROVE  WatchInv'
  <2>1. Held' = Held /\ live' = live \cup {o} /\ o \notin Made
    BY <1>1 DEF Insert, Held
  <2>. QED
    BY <1>0, <1>1, <2>1, InsertBegets, WatchFrame
<1>2. ASSUME NEW w \in Tablets, NEW o \in Ops, ClaimCreate(w, o)
      PROVE  WatchInv'
  BY <1>0, <1>1, <1>2, JobToken DEF ClaimCreate
<1>3. ASSUME NEW o \in Ops, CreateDirect(o)
      PROVE  WatchInv'
  BY <1>1, <1>3 DEF CreateDirect
<1>4. CASE \/ \E t \in Tokens : Mint(t) \/ Expire(t)
           \/ \E w \in Tablets : \/ \E t \in Tokens : ClaimRead(w, t)
                                 \/ ClaimConsume(w) \/ ClaimFail(w)
           \/ \E o \in Ops : Close(o)
           \/ UNCHANGED vars
  <2>1. UNCHANGED phone /\ UNCHANGED made /\ UNCHANGED hold /\ live' \subseteq live
    BY <1>4 DEF Mint, Expire, ClaimRead, ClaimConsume, ClaimFail, Close, vars,
                sessions, phone
  <2>2. Held' = Held /\ Made' = Made
    BY <2>1 DEF Held, Made
  <2>. QED
    BY <1>0, <2>1, <2>2, WatchFrame
<1>5. ASSUME NEW h \in Handlers,
             (\E o \in Ops : Load(h, o)) \/ WriteOpen(h) \/ Release(h)
      PROVE  WatchInv'
  <2>1. UNCHANGED phone /\ Made' = Made
    BY <1>5 DEF Load, WriteOpen, Release, phone, Made
  <2>2. live' \subseteq live \cup Held /\ Held' \subseteq live \cup Held
    BY <1>0, <1>5 DEF Load, WriteOpen, Release, Held, TypeInv, TypeOK
  <2>. QED
    BY <1>0, <2>1, <2>2, WatchFrame
<1>6. CASE OpenQr
  <2>1. watched = NoOp /\ answers = {} /\ NoOp \notin Made
    BY <1>0, <1>6, HandoffAssumption DEF TypeInv, TypeOK, OpenQr, Made
  <2>2. /\ opened' = [made |-> Made, live |-> live, held |-> Held]
        /\ UNCHANGED <<watched, answers, live>> /\ Made' = Made /\ Held' = Held
    BY <1>6 DEF OpenQr, sessions, Made, Held
  <2>. QED
    BY <1>0, <2>1, <2>2 DEF WatchInv, FollowsNewOrOpen, Known
<1>7. CASE Poll
  <2>1. live # {} => Newest(live) \in live
    BY <1>0, NewestIsOne DEF TypeInv, TypeOK
  <2>2. NoOp \notin opened.made
    BY <1>0, HandoffAssumption DEF TypeInv, TypeOK
  <2>3. answers' \subseteq answers \cup live \cup {NoOp}
    BY <1>7, <2>1 DEF Poll
  <2>4. UNCHANGED <<opened, watched, live>> /\ Made' = Made /\ Held' = Held
    BY <1>7 DEF Poll, sessions, Made, Held
  <2>. QED
    BY <1>0, <2>2, <2>3, <2>4 DEF WatchInv, FollowsNewOrOpen, Known
<1>8. ASSUME NEW a \in Ops \cup {NoOp}, PollAnswer(a) \/ PollLost(a) \/ Leave
      PROVE  WatchInv'
  <2>1. /\ UNCHANGED <<opened, live>> /\ Made' = Made /\ Held' = Held
        /\ answers' \subseteq answers
        /\ watched' \in {watched, NoOp} \cup answers
    BY <1>8 DEF PollAnswer, PollLost, Leave, sessions, Made, Held
  <2>2. NoOp \notin opened.made
    BY <1>0, HandoffAssumption DEF TypeInv, TypeOK
  <2>. QED
    BY <1>0, <2>1, <2>2 DEF WatchInv, FollowsNewOrOpen, Known
<1>. QED
  BY <1>2, <1>3, <1>4, <1>5, <1>6, <1>7, <1>8 DEF Next

\* However late and out of order its polls are answered, and whatever handlers
\* open again after others closed it, a phone is taken only to a session made
\* since the QR was opened, or open or in a handler's hands at that time.
THEOREM LateAnswersAreCurrent == Spec => []FollowsNewOrOpen
<1>1. Init => WatchInv
  BY TypeInit DEF Init, WatchInv, FollowsNewOrOpen
<1>2. WatchInv => FollowsNewOrOpen
  BY DEF WatchInv
<1>. QED
  BY <1>1, <1>2, WatchStep, PTL DEF Spec

-----------------------------------------------------------------------------
\* The live view: the phone, the event bus and the row it watches.

Statuses == Live \cup Verdicts

\* Everything on its way to the phone has been in the row: the status read
\* back for publishing, and every frame behind it.
SentWasWritten ==
  /\ row \in past
  /\ mqtt.at = "publish" => mqtt.status \in past
  /\ \A i \in 1..Len(queue) : queue[i] \in past

StreamInv == WatchTypeOK /\ SentWasWritten /\ NoInventedVerdict

\* A frame behind the others.
LEMMA QueueAppend ==
  ASSUME queue \in Seq(Statuses), NEW s \in Statuses, queue' = Append(queue, s)
  PROVE  /\ queue' \in Seq(Statuses)
         /\ \A i \in 1..Len(queue') : queue'[i] = s \/ (i \in 1..Len(queue)
                                                         /\ queue'[i] = queue[i])
  OBVIOUS

\* The frames behind the first one.
LEMMA QueueTail ==
  ASSUME queue \in Seq(Statuses), queue # <<>>, queue' = Tail(queue)
  PROVE  /\ Head(queue) \in Statuses /\ Head(queue) = queue[1] /\ 1 \in 1..Len(queue)
         /\ queue' \in Seq(Statuses)
         /\ \A i \in 1..Len(queue') : i + 1 \in 1..Len(queue) /\ queue'[i] = queue[i + 1]
  OBVIOUS

LEMMA InitWatch ==
  ASSUME WatchAssumption, WatchInit
  PROVE  StreamInv
<1>1. 0 \in Live
  BY DEF WatchAssumption, Live
<1>. QED
  BY <1>1 DEF WatchInit, StreamInv, WatchTypeOK, SentWasWritten, NoInventedVerdict, NoWork, Thread

\* The MQTT thread: the status it decided on, its commit, the read-back.
LEMMA MqttWatch ==
  ASSUME WatchAssumption, StreamInv,
         \/ \E s \in Live \cup Verdicts : MqttLoad(s)
         \/ MqttCommit
         \/ MqttRefresh
  PROVE  StreamInv'
<1>. USE DEF StreamInv, WatchTypeOK, SentWasWritten, NoInventedVerdict, NoWork, Thread
<1>1. ASSUME NEW s \in Live \cup Verdicts, MqttLoad(s)
      PROVE  StreamInv'
  BY <1>1 DEF MqttLoad
<1>2. CASE MqttCommit
  <2>1. CASE Write(mqtt.status) /\ mqtt' = Thread("refresh", NoFrame)
    BY <1>2, <2>1 DEF MqttCommit, Write
  <2>2. CASE UNCHANGED <<row, past>> /\ mqtt' = NoWork
    BY <1>2, <2>2 DEF MqttCommit
  <2>. QED
    BY <1>2, <2>1, <2>2 DEF MqttCommit
<1>3. CASE MqttRefresh
  BY <1>3 DEF MqttRefresh
<1>. QED
  BY <1>1, <1>2, <1>3

\* The publish reaches the queue only of a phone that is subscribed.
LEMMA PublishWatch ==
  ASSUME WatchAssumption, StreamInv, MqttPublish
  PROVE  StreamInv'
<1>1. /\ mqtt.at = "publish" /\ mqtt.status \in Statuses /\ mqtt.status \in past
      /\ queue \in Seq(Statuses)
  BY DEF MqttPublish, StreamInv, WatchTypeOK, SentWasWritten, NoWork, Thread, Statuses
<1>2. queue' \in Seq(Statuses) /\ \A i \in 1..Len(queue') : queue'[i] \in past
  <2>1. CASE handset = "open"
    <3>1. queue' = Append(queue, mqtt.status)
      BY <2>1 DEF MqttPublish
    <3>. QED
      BY <1>1, <3>1, QueueAppend DEF StreamInv, SentWasWritten
  <2>2. CASE handset # "open"
    BY <1>1, <2>2 DEF MqttPublish, StreamInv, SentWasWritten
  <2>. QED
    BY <2>1, <2>2
<1>3. /\ mqtt' = [at |-> "idle", status |-> NoFrame]
      /\ UNCHANGED <<row, past, http, handset, result>>
  BY DEF MqttPublish, NoWork, Thread
<1>. QED
  BY <1>2, <1>3 DEF StreamInv, WatchTypeOK, SentWasWritten, NoInventedVerdict, NoWork, Thread,
                    Statuses

\* The HTTP handlers, and the death of the backend.
LEMMA HttpWatch ==
  ASSUME WatchAssumption, StreamInv,
         (\E v \in HttpVerdicts : HttpLoad(v)) \/ HttpClose \/ Restart
  PROVE  StreamInv'
<1>. USE DEF StreamInv, WatchTypeOK, SentWasWritten, NoInventedVerdict, NoWork, Thread
<1>1. ASSUME NEW v \in HttpVerdicts, HttpLoad(v)
      PROVE  StreamInv'
  BY <1>1 DEF HttpLoad, WatchAssumption
<1>2. CASE HttpClose
  BY <1>2 DEF HttpClose, Write
<1>3. CASE Restart
  BY <1>3 DEF Restart
<1>. QED
  BY <1>1, <1>2, <1>3

\* The phone and its socket.
LEMMA PhoneWatch ==
  ASSUME WatchAssumption, StreamInv,
         Subscribe \/ Lose \/ Receive \/ PollDeposit \/ GiveUp
  PROVE  StreamInv'
<1>. USE DEF StreamInv, WatchTypeOK, SentWasWritten, NoInventedVerdict, NoWork, Thread
<1>1. CASE Subscribe
  BY <1>1 DEF Subscribe
<1>2. CASE Lose
  BY <1>2 DEF Lose
<1>3. CASE PollDeposit
  BY <1>3 DEF PollDeposit, Return
<1>4. CASE GiveUp
  BY <1>4 DEF GiveUp
<1>5. CASE Receive
  <2>0. queue # <<>> /\ queue \in Seq(Statuses)
    BY <1>5 DEF Receive, Statuses
  <2>1. CASE Head(queue) \in Verdicts
    <3>1. Head(queue) \in past
      <4>1. Head(queue) = queue[1] /\ 1 \in 1..Len(queue)
        BY <2>0
      <4>. QED
        BY <4>1
    <3>2. queue' = <<>> /\ result' = Head(queue) /\ handset' = "done"
      BY <1>5, <2>1 DEF Receive, Return
    <3>. QED
      BY <1>5, <2>1, <3>1, <3>2 DEF Receive
  <2>2. CASE Head(queue) \notin Verdicts
    <3>1. queue' = Tail(queue) /\ UNCHANGED <<row, past, mqtt, http, handset, result>>
      BY <1>5, <2>2 DEF Receive
    <3>2. queue' \in Seq(Statuses) /\ \A i \in 1..Len(queue') : queue'[i] \in past
      BY <2>0, <3>1, QueueTail
    <3>. QED
      BY <3>1, <3>2 DEF Statuses
  <2>. QED
    BY <2>1, <2>2
<1>. QED
  BY <1>1, <1>2, <1>3, <1>4, <1>5

LEMMA StepWatch ==
  ASSUME WatchAssumption
  PROVE  StreamInv /\ [WatchNext]_watchVars => StreamInv'
<1>. SUFFICES ASSUME StreamInv, [WatchNext]_watchVars PROVE StreamInv'
  OBVIOUS
<1>1. CASE UNCHANGED watchVars
  BY <1>1 DEF watchVars, StreamInv, WatchTypeOK, SentWasWritten, NoInventedVerdict, NoWork, Thread
<1>2. CASE WatchNext
  BY <1>2, MqttWatch, PublishWatch, HttpWatch, PhoneWatch DEF WatchNext
<1>. QED
  BY <1>1, <1>2

\* Statuses are statuses, in the row, on the thread, in the queue and on the
\* phone, through every interleaving of the MQTT thread, an HTTP handler, a
\* restart and the socket.
THEOREM WatchTypeCorrect ==
  ASSUME WatchAssumption
  PROVE  WatchSpec => []WatchTypeOK
<1>1. WatchInit => StreamInv
  BY InitWatch
<1>2. StreamInv => WatchTypeOK
  BY DEF StreamInv
<1>. QED
  BY <1>1, <1>2, StepWatch, PTL DEF WatchSpec

\* What the phone returns from watchOperation was once committed to the row:
\* publish_operation is given the row read back, "never the raw machine claim".
THEOREM VerdictIsNotInvented ==
  ASSUME WatchAssumption
  PROVE  WatchSpec => []NoInventedVerdict
<1>1. WatchInit => StreamInv
  BY InitWatch
<1>2. StreamInv => NoInventedVerdict
  BY DEF StreamInv
<1>. QED
  BY <1>1, <1>2, StepWatch, PTL DEF WatchSpec
=============================================================================
