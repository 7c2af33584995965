---------------------------- MODULE ProjectAuth -----------------------------
(* The users of one project: registration, verification, sign-in, refresh,   *)
(* passwords and sessions, as the handlers of the API run them over          *)
(* PostgreSQL. A handler reads its settings and the clock first, then checks *)
(* what it was shown, and changes rows in a transaction of its own: between  *)
(* any two of these the other requests run.                                  *)
(*                                                                           *)
(* Secrets are model values; a hash matches exactly the secret it was made   *)
(* of. A time of 0 is NULL, and one that is only tested for NULL is 0 or 1.  *)
EXTENDS Naturals, FiniteSets

CONSTANTS
  Users, Sessions,
  Tokens,      \* refresh tokens
  Codes,       \* one-time tokens sent by email
  Requests,    \* requests in flight at a time
  NoOne,
  MaxTime,     \* bound on the clock, in seconds
  SessionTtl, CodeTtl, AccessTtl,
  MaxPassword  \* bound on the number of passwords a user goes through

ASSUME ProjectAuthAssumption ==
  /\ NoOne \notin Users \cup Sessions \cup Tokens \cup Codes
  /\ {MaxTime, SessionTtl, CodeTtl, AccessTtl, MaxPassword} \subseteq Nat

VARIABLES
  users,    \* auth_users
  sessions, \* auth_sessions and their rows of refresh_token_families
  tokens,   \* refresh_tokens
  codes,    \* auth_one_time_tokens
  access,   \* when the newest access token of a session was signed
  settings, \* project_auth_settings
  now,
  reqs      \* what a request has read and is about to do

authVars == <<users, sessions, tokens, codes, access, settings, now, reqs>>
rowVars == <<users, sessions, tokens, codes>>

Times == 0..(MaxTime + SessionTtl + CodeTtl + AccessTtl)
NoUser == [status |-> "none", verified |-> 0, password |-> 0, changed |-> 0]
NoSession == [user |-> NoOne, expires |-> 0, revoked |-> 0, family |-> 0, checked |-> 0, born |-> 0]
NoToken == [session |-> NoOne, expires |-> 0, used |-> 0, next |-> NoOne]
NoCode == [user |-> NoOne, purpose |-> "none", expires |-> 0, consumed |-> 0, effects |-> 0]
Defaults == [registration |-> TRUE, strict |-> TRUE]
Quiet == [op |-> "quiet", user |-> NoOne, item |-> NoOne, at |-> 0, read |-> Defaults]

NoTraffic ==
  /\ sessions = [s \in Sessions |-> NoSession]
  /\ tokens = [t \in Tokens |-> NoToken]
  /\ codes = [c \in Codes |-> NoCode]
  /\ access = [s \in Sessions |-> 0]
  /\ settings = Defaults
  /\ now = 1
  /\ reqs = [q \in Requests |-> Quiet]

AuthInit == users = [u \in Users |-> NoUser] /\ NoTraffic

\* `required` and now_ms: a request starts with the settings and the clock.
Enter(q, op, user, item) ==
  /\ reqs[q] = Quiet
  /\ reqs' = [reqs EXCEPT ![q] = [op |-> op, user |-> user, item |-> item, at |-> now,
                                  read |-> settings]]
Advance(q, op, item) == reqs' = [reqs EXCEPT ![q] = [@ EXCEPT !.op = op, !.item = item]]
Leave(q) == reqs' = [reqs EXCEPT ![q] = Quiet]

Larger(a, b) == IF a > b THEN a ELSE b

\* revoke_family: the family and the session row, which stay revoked.
RevokeFamilies(ss) ==
  sessions' = [s \in Sessions |->
    IF s \in ss THEN [sessions[s] EXCEPT !.revoked = 1, !.family = 1]
    ELSE sessions[s]]

\* Mutant: the sessions of the user are left alone.
RevokeNoSession(u) == sessions' = [s \in Sessions |-> sessions[s]]

\* revoke_user_sessions: every session of the user.
RevokeUserSessions(u) == RevokeFamilies({s \in Sessions : sessions[s].user = u})

-----------------------------------------------------------------------------
(* Registration and one-time codes.                                          *)

\* register until the password is hashed.
Register(q, u) ==
  /\ settings.registration
  /\ Enter(q, "register", u, NoOne)
  /\ UNCHANGED <<rowVars, access, settings, now>>

\* register_with_policy: a new row, verified at once when no verification was
\* asked for.
InsertUser(r) ==
  users' = [users EXCEPT ![r.user] =
    [status |-> "active", verified |-> IF r.read.strict THEN 0 ELSE 1, password |-> 1,
     changed |-> r.at]]

\* issue_verification: a code follows if the settings ask for it.
SendVerification(q) == IF reqs[q].read.strict THEN Advance(q, "verification", NoOne) ELSE Leave(q)

\* register: the address is new.
RegisterNew(q) ==
  /\ reqs[q].op = "register" /\ users[reqs[q].user].status = "none"
  /\ InsertUser(reqs[q])
  /\ SendVerification(q)
  /\ UNCHANGED <<sessions, tokens, codes, access, settings, now>>

\* register and issue_verification_for_email: an enabled user is sent another
\* code, with the same answer.
RegisterKnown(q) ==
  /\ reqs[q].op = "register" /\ users[reqs[q].user].status = "active"
  /\ SendVerification(q)
  /\ UNCHANGED <<rowVars, access, settings, now>>

\* password_reset_start and issue_password_reset: only an enabled user is sent a code.
PasswordResetStart(q, u) ==
  /\ users[u].status = "active"
  /\ Enter(q, "reset", u, NoOne)
  /\ UNCHANGED <<rowVars, access, settings, now>>

\* Mutant: a new code leaves the earlier ones valid.
IssueCodeBeside(q, c) ==
  /\ reqs[q].op \in {"verification", "reset"} /\ codes[c] = NoCode
  /\ codes' = [codes EXCEPT ![c] = [NoCode EXCEPT !.user = reqs[q].user,
                !.purpose = reqs[q].op, !.expires = reqs[q].at + CodeTtl]]
  /\ Leave(q)
  /\ UNCHANGED <<users, sessions, tokens, access, settings, now>>

\* issue: under the lock of the user row, earlier codes of the purpose are used
\* up and the new one is inserted.
IssueCode(q, c) ==
  LET r == reqs[q]
  IN /\ r.op \in {"verification", "reset"} /\ codes[c] = NoCode
     /\ codes' = [d \in Codes |->
          IF d = c THEN [NoCode EXCEPT !.user = r.user, !.purpose = r.op,
                                       !.expires = r.at + CodeTtl]
          ELSE IF codes[d].user = r.user /\ codes[d].purpose = r.op
          THEN [codes[d] EXCEPT !.consumed = 1] ELSE codes[d]]
     /\ Leave(q)
     /\ UNCHANGED <<users, sessions, tokens, access, settings, now>>

\* identify_for_project and lock_one_time_token: the same test, first without
\* and then with the lock of the row.
CodeValid(c, purpose, at) ==
  codes[c].purpose = purpose /\ codes[c].consumed = 0 /\ codes[c].expires > at

Consume(c) == codes' = [codes EXCEPT ![c].consumed = 1, ![c].effects = @ + 1]

\* verify_email: the code is identified, then the limits and the audit run.
VerifyEmail(q, c) ==
  /\ CodeValid(c, "verification", now)
  /\ Enter(q, "verify", codes[c].user, c)
  /\ UNCHANGED <<rowVars, access, settings, now>>

\* verify_email_for_project.
CommitVerification(q) ==
  LET r == reqs[q]
  IN /\ r.op = "verify"
     /\ IF CodeValid(r.item, "verification", r.at) /\ users[r.user].status = "active"
        THEN /\ users' = [users EXCEPT ![r.user].verified = 1]
             /\ Consume(r.item)
        ELSE UNCHANGED <<users, codes>>
     /\ Leave(q)
     /\ UNCHANGED <<sessions, tokens, access, settings, now>>

\* password_reset_complete until the new hash is computed.
PasswordResetComplete(q, c) ==
  /\ CodeValid(c, "reset", now)
  /\ Enter(q, "complete", codes[c].user, c)
  /\ UNCHANGED <<rowVars, access, settings, now>>

\* A password nobody used before.
NewPassword(u, at) ==
  /\ users[u].password < MaxPassword
  /\ users' = [users EXCEPT ![u].password = @ + 1, ![u].changed = at]

\* Mutant: the lock of the code does not look at it again.
CommitResetUnchecked(q) ==
  LET r == reqs[q]
  IN /\ r.op = "complete"
     /\ NewPassword(r.user, r.at) /\ RevokeUserSessions(r.user) /\ Consume(r.item)
     /\ Leave(q)
     /\ UNCHANGED <<tokens, access, settings, now>>

\* reset_password_for_project: password, sessions and code in one transaction.
CommitReset(q) ==
  LET r == reqs[q]
  IN /\ r.op = "complete"
     /\ IF CodeValid(r.item, "reset", r.at) /\ users[r.user].status = "active"
        THEN NewPassword(r.user, r.at) /\ RevokeUserSessions(r.user) /\ Consume(r.item)
        ELSE UNCHANGED <<users, sessions, codes>>
     /\ Leave(q)
     /\ UNCHANGED <<tokens, access, settings, now>>

-----------------------------------------------------------------------------
(* Sessions.                                                                 *)

\* authenticate_with_verification_policy.
Authenticates(u, password) ==
  /\ users[u].status = "active" /\ users[u].password = password
  /\ settings.strict => users[u].verified # 0

\* sign_in until the session is issued: the request knows which password it
\* checked, and nothing looks at the user again before the session is inserted.
SignIn(q, u) ==
  /\ Authenticates(u, users[u].password)
  /\ Enter(q, "sign_in", u, users[u].password)
  /\ UNCHANGED <<rowVars, access, settings, now>>

\* issue_session_with_ttl: session, family and first token together, at the
\* time after the password was checked. Two history fields are not in the table:
\* the password `checked` for the session and the one of the user when it is `born`.
IssueSession(q, s, t) ==
  LET r == reqs[q]
  IN /\ r.op = "sign_in" /\ sessions[s] = NoSession /\ tokens[t] = NoToken
     /\ sessions' = [sessions EXCEPT ![s] = [NoSession EXCEPT !.user = r.user,
                       !.expires = now + SessionTtl, !.checked = r.item,
                       !.born = users[r.user].password]]
     /\ tokens' = [tokens EXCEPT ![t] = [NoToken EXCEPT !.session = s,
                     !.expires = now + SessionTtl]]
     /\ reqs' = [reqs EXCEPT ![q] = [@ EXCEPT !.op = "sign", !.item = s, !.at = now]]
     /\ UNCHANGED <<users, codes, access, settings, now>>

\* access_token: signed with the time the request started with.
SignAccess(q) ==
  LET r == reqs[q]
  IN /\ r.op = "sign"
     /\ access' = [access EXCEPT ![r.item] = Larger(@, r.at)]
     /\ Leave(q)
     /\ UNCHANGED <<rowVars, settings, now>>

\* issue_session and refresh when no key signs: the session is revoked.
SigningFails(q) ==
  LET r == reqs[q]
  IN /\ r.op = "sign"
     /\ RevokeFamilies({r.item})
     /\ Leave(q)
     /\ UNCHANGED <<users, tokens, codes, access, settings, now>>

Live(s) == sessions[s].user # NoOne /\ sessions[s].revoked = 0 /\ sessions[s].family = 0

\* identify_for_project: a token of a live family, whether it was used or not.
TokenIdentifies(t, at) ==
  LET s == tokens[t].session
  IN s # NoOne /\ Live(s) /\ tokens[t].expires > at /\ sessions[s].expires > at

\* refresh until the rotation.
Refresh(q, t) ==
  /\ TokenIdentifies(t, now)
  /\ Enter(q, "refresh", sessions[tokens[t].session].user, t)
  /\ UNCHANGED <<rowVars, access, settings, now>>

\* Mutant: a token that was used is exchanged again.
RotateAgain(q, fresh) ==
  LET t == reqs[q].item
      s == tokens[t].session
  IN /\ reqs[q].op = "refresh" /\ tokens[fresh] = NoToken
     /\ tokens' = [tokens EXCEPT
          ![t] = [@ EXCEPT !.used = 1, !.next = fresh],
          ![fresh] = [NoToken EXCEPT !.session = s, !.expires = tokens[t].expires]]
     /\ Advance(q, "check", s)
     /\ UNCHANGED <<users, sessions, codes, access, settings, now>>

\* rotate: under the locks of token, family and session the token is exchanged,
\* refused, or, if it was used before, ends its family.
RotateToken(q, fresh) ==
  LET r == reqs[q]
      t == r.item
      s == tokens[t].session
  IN /\ r.op = "refresh" /\ tokens[fresh] = NoToken
     /\ IF ~TokenIdentifies(t, r.at)
        THEN UNCHANGED <<sessions, tokens>> /\ Leave(q)
        ELSE IF tokens[t].used # 0
        THEN RevokeFamilies({s}) /\ UNCHANGED tokens /\ Leave(q)
        ELSE /\ tokens' = [tokens EXCEPT
                  ![t] = [@ EXCEPT !.used = 1, !.next = fresh],
                  ![fresh] = [NoToken EXCEPT !.session = s, !.expires = tokens[t].expires]]
             /\ UNCHANGED sessions
             /\ Advance(q, "check", s)
     /\ UNCHANGED <<users, codes, access, settings, now>>

\* refresh after the rotation: a user who may no longer sign in loses the
\* session.
CheckAccount(q) ==
  LET r == reqs[q]
      u == users[r.user]
  IN /\ r.op = "check"
     /\ IF u.status = "active" /\ (r.read.strict => u.verified # 0)
        THEN Advance(q, "sign", r.item) /\ UNCHANGED sessions
        ELSE RevokeFamilies({r.item}) /\ Leave(q)
     /\ UNCHANGED <<users, tokens, codes, access, settings, now>>

\* sign_out until the revocation.
SignOut(q, t) ==
  /\ TokenIdentifies(t, now)
  /\ Enter(q, "sign_out", sessions[tokens[t].session].user, tokens[t].session)
  /\ UNCHANGED <<rowVars, access, settings, now>>

\* verify_end_user_token_with_policy_at: the newest access token of a session,
\* against the user of this moment.
TokenCurrent(s) ==
  LET u == users[sessions[s].user]
  IN /\ access[s] # 0 /\ now < access[s] + AccessTtl
     /\ u.status = "active" /\ (settings.strict => u.verified # 0) /\ access[s] >= u.changed

\* verify_end_user_token_with_project_policy: its session must be alive too.
Accepts(s) == Live(s) /\ sessions[s].expires > now /\ TokenCurrent(s)

\* revoke_session until the revocation: the session must be the caller's.
RevokeSession(q, a, s) ==
  /\ Accepts(a)
  /\ sessions[s].user = sessions[a].user
  /\ Enter(q, "revoke", sessions[a].user, s)
  /\ UNCHANGED <<rowVars, access, settings, now>>

\* revoke_presented_for_project.
CommitSignOut(q) ==
  /\ reqs[q].op = "sign_out"
  /\ RevokeFamilies({reqs[q].item})
  /\ Leave(q)
  /\ UNCHANGED <<users, tokens, codes, access, settings, now>>

\* revoke_user_session.
CommitRevocation(q) ==
  /\ reqs[q].op = "revoke"
  /\ RevokeFamilies({reqs[q].item})
  /\ Leave(q)
  /\ UNCHANGED <<users, tokens, codes, access, settings, now>>

-----------------------------------------------------------------------------
(* Passwords, administration and time.                                       *)

\* change_password of the API: an access token opens it.
ChangePassword(q, a) ==
  /\ Accepts(a)
  /\ Enter(q, "change", sessions[a].user, NoOne)
  /\ UNCHANGED <<rowVars, access, settings, now>>

\* change_password of the service: the current password is checked on a row
\* that is read before the new hash is computed.
CheckCurrentPassword(q) ==
  /\ reqs[q].op = "change"
  /\ users[reqs[q].user].status = "active"
  /\ Advance(q, "set_password", NoOne)
  /\ UNCHANGED <<rowVars, access, settings, now>>

\* set_password: the hash and the revocation of all sessions in one transaction.
SetPassword(q) ==
  LET r == reqs[q]
  IN /\ r.op = "set_password"
     /\ IF users[r.user].status = "active"
        THEN NewPassword(r.user, r.at) /\ RevokeUserSessions(r.user)
        ELSE UNCHANGED <<users, sessions>>
     /\ Leave(q)
     /\ UNCHANGED <<tokens, codes, access, settings, now>>

\* set_disabled_for_project: either way what was signed before no longer counts.
DisableRow(u, disabled) ==
  /\ users' = [users EXCEPT ![u].status = IF disabled THEN "disabled" ELSE "active",
                            ![u].changed = Larger(@, now)]
  /\ IF disabled THEN RevokeUserSessions(u) ELSE UNCHANGED sessions

\* set_user_disabled.
SetUserDisabled(u, disabled) ==
  /\ users[u].status # "none"
  /\ DisableRow(u, disabled)
  /\ UNCHANGED <<tokens, codes, access, settings, now, reqs>>

\* update_settings: the row that was read is written back with one field changed.
UpdateSettings(q, field) ==
  /\ Enter(q, "settings", NoOne, field)
  /\ UNCHANGED <<rowVars, access, settings, now>>

CommitSettings(q) ==
  LET r == reqs[q]
  IN /\ r.op = "settings"
     /\ settings' = [r.read EXCEPT ![r.item] = ~@]
     /\ Leave(q)
     /\ UNCHANGED <<rowVars, access, now>>

\* A limit, the audit log, a wrong password or a failure ends the request.
RequestStops(q) ==
  /\ reqs[q] # Quiet
  /\ Leave(q)
  /\ UNCHANGED <<rowVars, access, settings, now>>

Second ==
  /\ now < MaxTime
  /\ now' = now + 1
  /\ UNCHANGED <<rowVars, access, settings, reqs>>

AuthNext ==
  \/ \E q \in Requests :
       \/ \E u \in Users : Register(q, u) \/ PasswordResetStart(q, u) \/ SignIn(q, u)
       \/ \E c \in Codes : IssueCode(q, c) \/ VerifyEmail(q, c) \/ PasswordResetComplete(q, c)
       \/ RegisterNew(q) \/ RegisterKnown(q) \/ CommitVerification(q) \/ CommitReset(q)
       \/ \E s \in Sessions, t \in Tokens : IssueSession(q, s, t)
       \/ SignAccess(q) \/ SigningFails(q)
       \/ \E t \in Tokens : Refresh(q, t) \/ RotateToken(q, t) \/ SignOut(q, t)
       \/ CheckAccount(q) \/ CommitSignOut(q) \/ CommitRevocation(q)
       \/ \E a \in Sessions : ChangePassword(q, a) \/ \E s \in Sessions : RevokeSession(q, a, s)
       \/ \E field \in DOMAIN settings : UpdateSettings(q, field)
       \/ CommitSettings(q)
       \/ CheckCurrentPassword(q) \/ SetPassword(q)
       \/ RequestStops(q)
  \/ \E u \in Users, disabled \in BOOLEAN : SetUserDisabled(u, disabled)
  \/ Second

AuthSpec == AuthInit /\ [][AuthNext]_authVars

-----------------------------------------------------------------------------
(* Properties.                                                               *)

\* The rows have the shapes of their tables.
AuthTypeOK ==
  /\ \A u \in Users : users[u].status \in {"none", "active", "disabled"}
  /\ \A s \in Sessions : sessions[s].user \in Users \cup {NoOne}
  /\ \A t \in Tokens : /\ tokens[t].session \in Sessions \cup {NoOne}
                       /\ tokens[t].next \in Tokens \cup {NoOne}
  /\ now \in Nat

\* The tables keep the promise of the in-memory store, whatever the handlers do
\* between their transactions.
Families ==
  INSTANCE RefreshFamilies WITH
    state <- [s \in Sessions |-> IF sessions[s].user = NoOne THEN "new"
                                 ELSE IF Live(s) THEN "live" ELSE "ended"],
    holder <- [t \in Tokens |-> tokens[t].session],
    next <- [t \in Tokens |-> tokens[t].next]
ImplementsFamilies == Families!FamiliesSpec

\* A password change ends every session there is, even one opened within the same
\* second. A session that can still be refreshed rests on the current password
\* of its user or on an earlier one, and then the change came while its sign-in
\* was under way: after the check, before the row. That one survives the change,
\* and only the next change, a sign-out or its expiry ends it.
Overtaken(s) == sessions[s].checked < sessions[s].born
SessionsFollowPassword ==
  \A s \in Sessions : Live(s) =>
    LET current == users[sessions[s].user].password
    IN \/ sessions[s].checked = current
       \/ Overtaken(s) /\ sessions[s].born = current

\* A code from an email works once, however many requests carry it, and sending
\* a new one takes the old ones back.
CodesWorkOnce ==
  /\ \A c \in Codes : codes[c].effects <= 1
  /\ \A c, d \in Codes :
       (/\ codes[c].user # NoOne /\ codes[c].user = codes[d].user
        /\ codes[c].purpose = codes[d].purpose
        /\ codes[c].consumed = 0 /\ codes[d].consumed = 0) => c = d
=============================================================================
