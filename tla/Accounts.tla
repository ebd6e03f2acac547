------------------------------- MODULE Accounts -------------------------------
(***************************************************************************)
(* Accounts, access tokens and one-time links: routers/auth.py, security/  *)
(* and the user moderation of routers/admin.py.                            *)
(*                                                                         *)
(* A handler reads its rows in one step and commits in another, with a     *)
(* slow password hash between them, so handlers of different threads       *)
(* interleave.  An account is known by its id; Email tells which ids would *)
(* carry the same address.  The rate limiter is a module of its own: being *)
(* refused by it changes nothing here.                                     *)
(***************************************************************************)
EXTENDS Integers, FiniteSets, TLC

CONSTANTS
  Users,      \* ids of accounts
  Founders,   \* administrators that are there from the start
  Email,      \* Email[u]: the address u would register with
  Passwords,
  Initial,    \* the password everybody starts with
  Links,      \* one-time links that may be mailed
  Jtis,       \* access tokens that may be minted
  None,       \* no account, link or token
  VerifyFirst,\* settings.email_verification_required
  Visitors,   \* threads that register, log in and out and follow links
  Changers,   \* threads, and scripts, that reset and change passwords
  Managers,   \* threads that serve administrators
  MaxVersion  \* bound on token_version

Workers == Visitors \cup Changers \cup Managers

AccountAssumption ==
  /\ Founders \subseteq Users /\ Founders # {}
  /\ Initial \in Passwords /\ VerifyFirst \in BOOLEAN
  /\ None \notin Users \cup Links \cup Jtis /\ Users \cap Links = {}
  /\ MaxVersion \in Nat

VARIABLES
  row,        \* users: row[u], for the ids in its domain; `overtaken` is no
              \* column: the version was once written from one that had changed
  gone,       \* ids of deleted accounts and links, never given again
  link,       \* auth_tokens: link[l], for the links in its domain
  jwt,        \* access tokens in clients' hands: jwt[j]
  revoked,    \* RevocationStore._revoked, lost with the process
  job         \* per thread: the handler it is in

vars == <<row, gone, link, jwt, revoked, job>>

Idle == [at |-> "idle", user |-> None, link |-> None, seen |-> 0]

\* The handler of w goes on at stage s, about u, with what it has read.
Become(w, s, u, l, x) ==
  job' = [job EXCEPT ![w] = [at |-> s, user |-> u, link |-> l, seen |-> x]]
Done(w) == job' = [job EXCEPT ![w] = Idle]
At(w, s) == job[w].at = s

\* The rows of f without those of S.
Without(f, S) == [x \in DOMAIN f \ S |-> f[x]]
With(f, x, v) == [y \in DOMAIN f \cup {x} |-> IF y = x THEN v ELSE f[y]]

Account(p, role) ==
  [password |-> p, version |-> 0, active |-> TRUE, verified |-> FALSE, role |-> role,
   overtaken |-> FALSE]

Init ==
  /\ row = [u \in Founders |-> Account(Initial, "admin")]
  /\ gone = {}
  /\ link = [l \in {} |-> None]
  /\ jwt = [j \in {} |-> None]
  /\ revoked = {}
  /\ job = [w \in Workers |-> Idle]

-----------------------------------------------------------------------------
\* get_current_user: the account a presented token speaks for.
Expired(j) == ~jwt[j].live

Authenticates(j, u) ==
  /\ j \in DOMAIN jwt /\ ~Expired(j) /\ j \notin revoked
  /\ jwt[j].user = u /\ u \in DOMAIN row /\ row[u].active
  /\ jwt[j].version = row[u].version

Signed(u) == \E j \in Jtis : Authenticates(j, u)

\* _issue_token: a new row, committed before the mail goes out.
Issue(u, p) ==
  \E l \in Links \ (DOMAIN link \cup gone) :
    link' = With(link, l, [user |-> u, purpose |-> p, used |-> FALSE,
                           live |-> TRUE, spent |-> 0])

\* register reads that the address is free ...
RegisterLoad(w, u) ==
  /\ w \in Visitors /\ At(w, "idle")
  /\ u \notin DOMAIN row \cup gone
  /\ \A v \in DOMAIN row : Email[v] # Email[u]
  /\ Become(w, "register", u, None, 0)
  /\ UNCHANGED <<row, gone, link, jwt, revoked>>

\* ... inserts the account, which the unique index refuses if the address or
\* the id was taken meanwhile ...
RegisterCommit(w, p) ==
  /\ At(w, "register")
  /\ LET u == job[w].user IN
     IF u \in DOMAIN row \cup gone \/ \E v \in DOMAIN row : Email[v] = Email[u]
     THEN Done(w) /\ UNCHANGED row
     ELSE /\ row' = With(row, u, Account(p, "student"))
          /\ Become(w, "welcome", u, None, 0)
  /\ UNCHANGED <<gone, link, jwt, revoked>>

\* ... and mails its verification link in a second transaction, which the
\* foreign key refuses if the account is gone.
Welcome(w) ==
  /\ At(w, "welcome")
  /\ IF job[w].user \in DOMAIN row
     THEN Issue(job[w].user, "email_verification") ELSE UNCHANGED link
  /\ Done(w)
  /\ UNCHANGED <<row, gone, jwt, revoked>>

-----------------------------------------------------------------------------
\* login: the row read answers every check and gives the token its version.
LoginLoad(w, u, p) ==
  /\ w \in Visitors /\ At(w, "idle")
  /\ u \in DOMAIN row /\ row[u].password = p /\ row[u].active
  /\ VerifyFirst => row[u].verified
  /\ Become(w, "login", u, None, row[u])
  /\ UNCHANGED <<row, gone, link, jwt, revoked>>

\* create_access_token.
LoginMint(w) ==
  /\ At(w, "login")
  /\ \E j \in Jtis \ DOMAIN jwt :
       jwt' = With(jwt, j, [user |-> job[w].user, version |-> job[w].seen.version,
                            under |-> job[w].seen.password, live |-> TRUE])
  /\ Done(w)
  /\ UNCHANGED <<row, gone, link, revoked>>

\* logout: the jti is refused for the token's remaining lifetime.
Logout(w, j) ==
  /\ w \in Visitors /\ At(w, "idle")
  /\ \E u \in Users : Authenticates(j, u)
  /\ revoked' = revoked \cup {j}
  /\ UNCHANGED <<row, gone, link, jwt, job>>

ExpireForgetsAll(j) ==               \* variant: pruning clears the map
  /\ j \in DOMAIN jwt /\ ~Expired(j)
  /\ jwt' = [jwt EXCEPT ![j].live = FALSE]
  /\ revoked' = {}
  /\ UNCHANGED <<row, gone, link, job>>

\* A token's exp passes; from then on _prune_locked may forget its jti.
Expire(j) ==
  /\ j \in DOMAIN jwt /\ ~Expired(j)
  /\ jwt' = [jwt EXCEPT ![j].live = FALSE]
  /\ revoked' \in {revoked, revoked \ {j}}
  /\ UNCHANGED <<row, gone, link, job>>

-----------------------------------------------------------------------------
\* forgot_password: the link goes to an active account only.
ForgotPassword(w, u) ==
  /\ w \in Visitors /\ At(w, "idle")
  /\ u \in DOMAIN row /\ row[u].active
  /\ Issue(u, "password_reset")
  /\ UNCHANGED <<row, gone, jwt, revoked, job>>

Servers(p) == IF p = "password_reset" THEN Changers ELSE Visitors

\* _consume_token reads an unused link that has not expired ...
LinkLoad(w, l) ==
  /\ At(w, "idle")
  /\ l \in DOMAIN link /\ ~link[l].used /\ link[l].live
  /\ w \in Servers(link[l].purpose)
  /\ Become(w, "link", None, l, 0)
  /\ UNCHANGED <<row, gone, link, jwt, revoked>>

LinkClaimUnguarded(w) ==             \* variant: UPDATE without used_at IS NULL
  /\ At(w, "link")
  /\ LET l == job[w].link IN
     IF l \in DOMAIN link
     THEN /\ link' = [link EXCEPT ![l].used = TRUE]
          /\ Become(w, "follow", link[l].user, l, 0)
     ELSE Done(w) /\ UNCHANGED link
  /\ UNCHANGED <<row, gone, jwt, revoked>>

\* ... and whoever sets used_at first follows it.
LinkClaim(w) ==
  /\ At(w, "link")
  /\ LET l == job[w].link IN
     IF l \in DOMAIN link /\ ~link[l].used
     THEN /\ link' = [link EXCEPT ![l].used = TRUE]
          /\ Become(w, "follow", link[l].user, l, 0)
     ELSE Done(w) /\ UNCHANGED link
  /\ UNCHANGED <<row, gone, jwt, revoked>>

\* The account is read; a missing or (for a reset) inactive one ends in 422,
\* with the link spent.
LinkFollow(w) ==
  /\ At(w, "follow")
  /\ LET u == job[w].user
         l == job[w].link IN
     IF u \in DOMAIN row /\ l \in DOMAIN link
        /\ (link[l].purpose = "password_reset" => row[u].active)
     THEN Become(w, IF link[l].purpose = "password_reset" THEN "password" ELSE "verify",
                 u, l, row[u].version)
     ELSE Done(w)
  /\ UNCHANGED <<row, gone, link, jwt, revoked>>

\* verify_email.  An account deleted meanwhile makes the UPDATE match no row.
Verify(w) ==
  /\ At(w, "verify")
  /\ IF job[w].user \in DOMAIN row
     THEN /\ row' = [row EXCEPT ![job[w].user].verified = TRUE]
          /\ link' = [link EXCEPT ![job[w].link].spent = @ + 1]
     ELSE UNCHANGED <<row, link>>
  /\ Done(w)
  /\ UNCHANGED <<gone, jwt, revoked>>

\* change_password: signed in, and the current password is asked for again.
ChangeLoad(w, u, p) ==
  /\ w \in Changers /\ At(w, "idle")
  /\ Signed(u) /\ row[u].password = p
  /\ Become(w, "password", u, None, row[u].version)
  /\ UNCHANGED <<row, gone, link, jwt, revoked>>

SetPasswordOnly(w, p) ==             \* variant: token_version is left alone
  /\ At(w, "password")
  /\ LET u == job[w].user IN
     row' = IF u \in DOMAIN row THEN [row EXCEPT ![u].password = p] ELSE row
  /\ Done(w)
  /\ UNCHANGED <<gone, link, jwt, revoked>>

\* The account with credentials p and the version that was read, v, plus one.
Renewed(r, p, v) ==
  [r EXCEPT !.password = p, !.version = v + 1, !.overtaken = @ \/ v # r.version]

\* The hash and the version, in one commit.
SetPassword(w, p) ==
  /\ At(w, "password") /\ job[w].seen < MaxVersion
  /\ LET u == job[w].user
         l == job[w].link IN
     IF u \in DOMAIN row
     THEN /\ row' = [row EXCEPT ![u] = Renewed(@, p, job[w].seen)]
          /\ link' = IF l = None THEN link ELSE [link EXCEPT ![l].spent = @ + 1]
     ELSE UNCHANGED <<row, link>>
  /\ Done(w)
  /\ UNCHANGED <<gone, jwt, revoked>>

\* scripts/create_admin.py, once or with --force: the row of the address, if
\* there is one, then a slow hash, then a new administrator or new credentials.
ScriptLoad(w, u) ==
  /\ w \in Changers /\ At(w, "idle")
  /\ u \notin gone /\ \A v \in DOMAIN row \ {u} : Email[v] # Email[u]
  /\ Become(w, "script", u, None, IF u \in DOMAIN row THEN row[u].version ELSE -1)
  /\ UNCHANGED <<row, gone, link, jwt, revoked>>

ScriptCommit(w, p) ==
  /\ At(w, "script") /\ job[w].seen < MaxVersion
  /\ LET u == job[w].user
         free == u \notin gone /\ \A v \in DOMAIN row : Email[v] # Email[u] IN
     row' = IF job[w].seen = -1
            THEN IF free THEN With(row, u, [Account(p, "admin") EXCEPT !.verified = TRUE])
                 ELSE row
            ELSE IF u \in DOMAIN row
            THEN [row EXCEPT ![u] = [Renewed(@, p, job[w].seen) EXCEPT
                                      !.role = "admin", !.verified = TRUE]]
            ELSE row
  /\ Done(w)
  /\ UNCHANGED <<gone, link, jwt, revoked>>

-----------------------------------------------------------------------------
\* The moderation of accounts.  require_admin and the row are read first; seen
\* holds who acts and the fields to write.
Manage(w, a) == w \in Managers /\ At(w, "idle") /\ Signed(a) /\ row[a].role = "admin"

\* The session writes the fields that differ from the row it has read.
Edit(u, on, role) ==
  LET new == [active |-> on, role |-> role]
  IN [f \in {g \in {"active", "role"} : new[g] # row[u][g]} |-> new[f]]

\* A row with the fields of e written over it.
Over(e, r) == [f \in DOMAIN r |-> IF f \in DOMAIN e THEN e[f] ELSE r[f]]

PatchYourself(w, a, u) ==            \* variant: the self-checks are missing
  /\ Manage(w, a) /\ u \in DOMAIN row
  /\ \E on \in BOOLEAN, role \in {"admin", "student"} :
       Become(w, "patch", u, None, [by |-> a, edit |-> Edit(u, on, role)])
  /\ UNCHANGED <<row, gone, link, jwt, revoked>>

\* patch_user.  Nobody deactivates or demotes themselves, and the last
\* administrator, active or not, is not demoted.
PatchLoad(w, a, u) ==
  /\ Manage(w, a) /\ u \in DOMAIN row
  /\ \E on \in BOOLEAN, role \in {"admin", "student"} :
       /\ u = a => on /\ role = "admin"
       /\ row[u].role = "admin" /\ role # "admin"
            => Cardinality({v \in DOMAIN row : row[v].role = "admin"}) > 1
       /\ Become(w, "patch", u, None, [by |-> a, edit |-> Edit(u, on, role)])
  /\ UNCHANGED <<row, gone, link, jwt, revoked>>

PatchCommit(w) ==
  /\ At(w, "patch")
  /\ LET u == job[w].user IN
     row' = IF u \in DOMAIN row
            THEN [row EXCEPT ![u] = Over(job[w].seen.edit, @)]
            ELSE row
  /\ Done(w)
  /\ UNCHANGED <<gone, link, jwt, revoked>>

\* delete_user of an account without history (BackOffice has the history).
DeleteLoad(w, a, u) ==
  /\ Manage(w, a) /\ u \in DOMAIN row /\ u # a
  /\ Become(w, "delete", u, None, [by |-> a, edit |-> <<>>])
  /\ UNCHANGED <<row, gone, link, jwt, revoked>>

\* Its links go first; one mailed between the two DELETEs makes the second
\* fail and the transaction roll back, as Abort does.
DeleteCommit(w) ==
  /\ At(w, "delete")
  /\ LET u == job[w].user
         mailed == {l \in DOMAIN link : link[l].user = u} IN
     /\ row' = Without(row, {u})
     /\ link' = Without(link, mailed)
     /\ gone' = gone \cup ({u} \cap DOMAIN row) \cup mailed
  /\ Done(w)
  /\ UNCHANGED <<jwt, revoked>>

\* A link's ttl passes.
LinkExpires(l) ==
  /\ l \in DOMAIN link /\ link[l].live
  /\ link' = [link EXCEPT ![l].live = FALSE]
  /\ UNCHANGED <<row, gone, jwt, revoked, job>>

\* The request dies between its commits.
Abort(w) ==
  /\ ~At(w, "idle")
  /\ Done(w)
  /\ UNCHANGED <<row, gone, link, jwt, revoked>>

\* The process is started again: what only it remembered is lost.
Restart ==
  /\ revoked' = {}
  /\ job' = [w \in Workers |-> Idle]
  /\ UNCHANGED <<row, gone, link, jwt>>

-----------------------------------------------------------------------------
Visit(w) ==
  \/ \E u \in Users : RegisterLoad(w, u) \/ ForgotPassword(w, u) \/ ScriptLoad(w, u)
  \/ \E u \in Users, p \in Passwords : LoginLoad(w, u, p) \/ ChangeLoad(w, u, p)
  \/ \E p \in Passwords : RegisterCommit(w, p) \/ SetPassword(w, p)
                             \/ ScriptCommit(w, p)
  \/ Welcome(w) \/ LoginMint(w) \/ \E j \in Jtis : Logout(w, j)
  \/ \E l \in Links : LinkLoad(w, l)
  \/ LinkClaim(w) \/ LinkFollow(w) \/ Verify(w)

Moderate(w) ==
  \/ \E a, u \in Users : PatchLoad(w, a, u) \/ DeleteLoad(w, a, u)
  \/ PatchCommit(w) \/ DeleteCommit(w)

Next ==
  \/ \E w \in Workers : Visit(w) \/ Moderate(w) \/ Abort(w)
  \/ \E j \in Jtis : Expire(j)
  \/ \E l \in Links : LinkExpires(l)
  \/ Restart

Spec == Init /\ [][Next]_vars

-----------------------------------------------------------------------------
(* Properties.                                                              *)

\* "Invalidates EVERY outstanding access token" (routers/auth.py:332-333): a
\* token got with a password that has been changed or reset authenticates nobody.
EveryTokenDies ==
  \A j \in Jtis, u \in Users :
    Authenticates(j, u) => jwt[j].under = row[u].password

\* What the code keeps of it, however sign-ins, changes, resets and scripts
\* interleave: a token outlives its password only on an account one of whose
\* changes wrote its version over a later one (auth.py:342, create_admin.py:111).
OldPasswordDies ==
  \A j \in Jtis, u \in Users :
    Authenticates(j, u) => jwt[j].under = row[u].password \/ row[u].overtaken

\* "Two simultaneous password-reset tab clicks cannot both succeed": a mailed
\* link resets or verifies at most once, whatever crashes between its commits.
LinkSpentOnce == \A l \in DOMAIN link : link[l].spent <= 1

Administers(u) == u \in DOMAIN row /\ row[u].role = "admin" /\ row[u].active

\* w commits for an administrator who is none any more.
Outdated(w) == (PatchCommit(w) \/ DeleteCommit(w)) /\ ~Administers(job[w].seen.by)

\* There is always somebody left to administer: only a moderator who lost his
\* own rights since they were checked can take the last active administrator's.
AdminRemains ==
  [][\A u \in Users : Administers(u) =>
       (\E v \in Users : Administers(v))' \/ \E w \in Managers : Outdated(w)]_vars

\* A token that was logged out opens nothing again while the process lives,
\* though the store forgets what has expired.
LogoutHolds ==
  [][\A j \in revoked : (\E u \in Users : Authenticates(j, u))' => Restart]_vars
=============================================================================
