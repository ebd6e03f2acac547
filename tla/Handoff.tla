------------------------------- MODULE Handoff -------------------------------
(***************************************************************************)
(* How a student's phone and a station tablet come to share a deposit      *)
(* session: the phone mints single-use tokens and shows them as a QR code  *)
(* (mobile/lib/flow_screens.dart), the tablet scans one and claims a       *)
(* session with it, and the phone, which never hears the claim's answer,   *)
(* polls for the student's active deposit (routers/deposit.py).            *)
(*                                                                         *)
(* One student; a token that was shown may be scanned at any later time    *)
(* and by several tablets.  What happens inside a session is               *)
(* DepositLifecycle's subject; here a session is open or closed, and a     *)
(* handler that loaded it while it was open can open it again.             *)
(***************************************************************************)
EXTENDS Integers, Sequences, FiniteSets

CONSTANTS
  Tokens,    \* handoff tokens the phone mints
  NoToken,   \* the token of a session created without one
  Ops,       \* operation ids
  NoOp,      \* no operation
  Tablets,   \* threads that serve POST /deposit/session/claim
  Handlers   \* threads that serve telemetry frames and camera uploads

ASSUME HandoffAssumption ==
  /\ NoToken \notin Tokens
  /\ NoOp \notin Ops

VARIABLES
  token,     \* auth_tokens: "none", "valid" or "used" (used_at set)
  stale,     \* tokens whose expires_at has passed
  made,      \* the student's deposit_sessions in the order of created_at
  claim,     \* claim[o]: the token session o was claimed with
  live,      \* sessions that are not terminal
  hold,      \* per handler: the session it loaded while that was open, or NoOp
  job,       \* per tablet thread: the claim it is in
  screen,    \* the phone: showing the QR, or watching an operation
  watched,   \* the operation it watches
  answers,   \* answers to GET /deposit/active on their way to the phone
  opened     \* the sessions there were when the QR was opened, the live ones of
             \* them and the held ones: kept for the properties alone

vars == <<token, stale, made, claim, live, hold, job, screen, watched, answers,
          opened>>

sessions == <<made, claim, live, hold>>
phone == <<screen, watched, answers, opened>>

Job(stage, t) == [at |-> stage, token |-> t]
Idle == Job("idle", NoToken)
Made == {made[i] : i \in 1..Len(made)}
Held == {hold[h] : h \in Handlers} \ {NoOp}

Init ==
  /\ token = [t \in Tokens |-> "none"]
  /\ stale = {}
  /\ made = <<>>
  /\ claim = [o \in Ops |-> NoToken]
  /\ live = {}
  /\ hold = [h \in Handlers |-> NoOp]
  /\ job = [w \in Tablets |-> Idle]
  /\ screen = "home" /\ watched = NoOp /\ answers = {}
  /\ opened = [made |-> {}, live |-> {}, held |-> {}]

-----------------------------------------------------------------------------
\* handoff_token: every 30 to 120 seconds while the QR is on the screen.  The
\* tokens minted before stay valid.
Mint(t) ==
  /\ screen = "qr" /\ token[t] = "none"
  /\ token' = [token EXCEPT ![t] = "valid"]
  /\ UNCHANGED <<stale, sessions, job, phone>>

Expire(t) ==
  /\ token[t] # "none" /\ t \notin stale
  /\ stale' = stale \cup {t}
  /\ UNCHANGED <<token, sessions, job, phone>>

\* _consume_handoff_token, the read: used_at IS NULL and not expired ...
ClaimRead(w, t) ==
  /\ job[w] = Idle
  /\ token[t] = "valid" /\ t \notin stale
  /\ job' = [job EXCEPT ![w] = Job("consume", t)]
  /\ UNCHANGED <<token, stale, sessions, phone>>

ClaimConsumeBlind(w) ==        \* variant: without used_at IS NULL
  /\ job[w].at = "consume"
  /\ token' = [token EXCEPT ![job[w].token] = "used"]
  /\ job' = [job EXCEPT ![w] = Job("create", job[w].token)]
  /\ UNCHANGED <<stale, sessions, phone>>

\* ... and the conditional UPDATE, committed before anything is created.
ClaimConsume(w) ==
  /\ job[w].at = "consume"
  /\ IF token[job[w].token] = "valid"
     THEN /\ token' = [token EXCEPT ![job[w].token] = "used"]
          /\ job' = [job EXCEPT ![w] = Job("create", job[w].token)]
     ELSE /\ job' = [job EXCEPT ![w] = Idle]
          /\ UNCHANGED token
  /\ UNCHANGED <<stale, sessions, phone>>

Insert(o, t) ==
  /\ o \notin Made
  /\ made' = Append(made, o)
  /\ claim' = [claim EXCEPT ![o] = t]
  /\ live' = live \cup {o}
  /\ UNCHANGED hold

\* create_session for the token's student.
ClaimCreate(w, o) ==
  /\ job[w].at = "create"
  /\ Insert(o, job[w].token)
  /\ job' = [job EXCEPT ![w] = Idle]
  /\ UNCHANGED <<token, stale, phone>>

\* The station or the student is unknown, or the backend dies: the token is
\* spent and nobody has a session.
ClaimFail(w) ==
  /\ job[w].at \in {"consume", "create"}
  /\ job' = [job EXCEPT ![w] = Idle]
  /\ UNCHANGED <<token, stale, sessions, phone>>

\* POST /deposit/session: a session that owes nothing to a token.
CreateDirect(o) ==
  /\ Insert(o, NoToken)
  /\ UNCHANGED <<token, stale, job, phone>>

\* Whoever ends the session: its result, a cancel, an expiry.
Close(o) ==
  /\ o \in live
  /\ live' = live \ {o}
  /\ UNCHANGED <<token, stale, made, claim, hold, job, phone>>

\* apply_machine_state and handle_capture load a session that is open ...
Load(h, o) ==
  /\ hold[h] = NoOp /\ o \in live
  /\ hold' = [hold EXCEPT ![h] = o]
  /\ UNCHANGED <<token, stale, made, claim, live, job, phone>>

\* ... and write one of the open statuses by its key, whatever it has become: a
\* session closed in between is open again.  An upload writes so twice.
WriteOpen(h) ==
  /\ hold[h] # NoOp
  /\ live' = live \cup {hold[h]}
  /\ hold' \in {hold, [hold EXCEPT ![h] = NoOp]}
  /\ UNCHANGED <<token, stale, made, claim, job, phone>>

\* The handler ends without having written, or the backend dies.
Release(h) ==
  /\ hold[h] # NoOp
  /\ hold' = [hold EXCEPT ![h] = NoOp]
  /\ UNCHANGED <<token, stale, made, claim, live, job, phone>>

-----------------------------------------------------------------------------
\* The phone.

OpenQr ==
  /\ screen = "home"
  /\ screen' = "qr"
  /\ opened' = [made |-> Made, live |-> live, held |-> Held]
  /\ UNCHANGED <<token, stale, sessions, job, watched, answers>>

\* active_deposit: the newest session that is not terminal.
Newest(S) ==
  CHOOSE o \in S : \E i \in 1..Len(made) :
    made[i] = o /\ \A j \in i + 1..Len(made) : made[j] \notin S

PollAny ==                     \* variant: without the status filter
  /\ screen = "qr"
  /\ answers' = answers \cup {IF Made = {} THEN NoOp ELSE Newest(Made)}
  /\ UNCHANGED <<token, stale, sessions, job, screen, watched, opened>>

PollNewOnly ==                 \* variant: blind to sessions made before the QR
  LET S == live \ opened.made IN
  /\ screen = "qr"
  /\ answers' = answers \cup {IF S = {} THEN NoOp ELSE Newest(S)}
  /\ UNCHANGED <<token, stale, sessions, job, screen, watched, opened>>

\* Every two seconds, whether or not the last request has been answered.
Poll ==
  /\ screen = "qr"
  /\ answers' = answers \cup {IF live = {} THEN NoOp ELSE Newest(live)}
  /\ UNCHANGED <<token, stale, sessions, job, screen, watched, opened>>

PollLost(a) ==
  /\ a \in answers
  /\ answers' = answers \ {a}
  /\ UNCHANGED <<token, stale, sessions, job, screen, watched, opened>>

\* _pollForClaimedOperation: the first answer that names an operation is
\* followed; those still on their way find the screen unmounted.
PollAnswer(a) ==
  /\ a \in answers
  /\ IF a = NoOp
     THEN answers' = answers \ {a} /\ UNCHANGED <<screen, watched>>
     ELSE screen' = "processing" /\ watched' = a /\ answers' = {}
  /\ UNCHANGED <<token, stale, sessions, job, opened>>

\* The watch ended, or the student left the screen.
Leave ==
  /\ screen \in {"qr", "processing"}
  /\ screen' = "home" /\ watched' = NoOp /\ answers' = {}
  /\ UNCHANGED <<token, stale, sessions, job, opened>>

Next ==
  \/ \E t \in Tokens : Mint(t) \/ Expire(t)
  \/ \E w \in Tablets :
        \/ \E t \in Tokens : ClaimRead(w, t)
        \/ ClaimConsume(w)
        \/ \E o \in Ops : ClaimCreate(w, o)
        \/ ClaimFail(w)
  \/ \E o \in Ops : CreateDirect(o) \/ Close(o)
  \/ \E h \in Handlers :
        (\E o \in Ops : Load(h, o)) \/ WriteOpen(h) \/ Release(h)
  \/ \E a \in Ops \cup {NoOp} : PollAnswer(a) \/ PollLost(a)
  \/ OpenQr \/ Poll \/ Leave

Spec == Init /\ [][Next]_vars

\* The timer of the QR screen polls every two seconds, and not every answer
\* that names an operation is lost.  Nothing makes a tablet scan, a student
\* stay or a session close.
Fairness ==
  /\ WF_vars(Poll)
  /\ SF_vars(\E a \in Ops : PollAnswer(a))

FairSpec == Spec /\ Fairness

-----------------------------------------------------------------------------
\* Type invariant.
TypeOK ==
  /\ token \in [Tokens -> {"none", "valid", "used"}]
  /\ stale \subseteq Tokens
  /\ made \in Seq(Ops)
  /\ claim \in [Ops -> Tokens \cup {NoToken}]
  /\ live \subseteq Ops
  /\ hold \in [Handlers -> Ops \cup {NoOp}]
  /\ job \in [Tablets -> {Idle} \cup [at: {"consume", "create"}, token: Tokens]]
  /\ screen \in {"home", "qr", "processing"}
  /\ watched \in Ops \cup {NoOp}
  /\ answers \subseteq Ops \cup {NoOp}
  /\ (screen = "processing") = (watched # NoOp)
  /\ answers # {} => screen = "qr"
  /\ opened \in [made: SUBSET Ops, live: SUBSET Ops, held: SUBSET Ops]

\* A token begets at most one session, though several tablets may read it as
\* unused at the same time: "two concurrent scans of the same QR cannot both
\* succeed".
OneSessionPerToken ==
  \A o, p \in Made : claim[o] = claim[p] /\ claim[o] # NoToken => o = p

\* However stale the answer, the session the phone is taken to was made since the
\* QR was opened, or was open then, or was in the hands of a handler then: what
\* was closed and let go of never comes back, so a student with nothing of the
\* kind left over watches the session the tablet claimed.
FollowsNewOrOpen ==
  watched \in opened.made => watched \in opened.live \cup opened.held

\* A student who stays on the QR screen while a session is open is taken to it.
SessionIsFollowed == (screen = "qr" /\ live # {}) ~> (screen # "qr" \/ live = {})
=============================================================================
