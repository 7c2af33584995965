--------------------------- MODULE AccountProofs ----------------------------
(* Theorems about the accounts of a project: the tables of refresh tokens    *)
(* implement the abstract families, a live session follows the password of   *)
(* its user unless a change overtook its sign-in, and a one-time code works  *)
(* once. A signing key outlives the tokens it signed, a replayed session of  *)
(* a developer ends its family, and what an administrator's command did is   *)
(* accounted for. The Stripe account a project sells through keeps its keys. *)
EXTENDS Credentials, ManagementCommands, CommerceAccounts, FiniteSetTheorems, TLAPS

-----------------------------------------------------------------------------
(* The inductive invariant.                                                  *)

UserRow == [status : {"none", "active", "disabled"}, verified : {0, 1}, password : Nat, changed : Nat]
SessionRow == [user : Users \cup {NoOne}, expires : Nat, revoked : {0, 1}, family : {0, 1},
               checked : Nat, born : Nat]
TokenRow == [session : Sessions \cup {NoOne}, expires : Nat, used : {0, 1}, next : Tokens \cup {NoOne}]
CodeRow == [user : Users \cup {NoOne}, purpose : {"none", "verification", "reset"}, expires : Nat,
            consumed : {0, 1}, effects : Nat]

\* The operations that act for a user of the project.
ForUser == {"register", "verification", "reset", "verify", "complete", "sign_in", "sign", "refresh",
            "check", "sign_out", "revoke", "change", "set_password"}

\* A request keeps its shape; what it refers to depends on the operation.
RequestShape(r) ==
  /\ r = [op |-> r.op, user |-> r.user, item |-> r.item, at |-> r.at, read |-> r.read]
  /\ r.at \in Nat
  /\ r.op \in ForUser => r.user \in Users
  /\ r.op = "refresh" => r.item \in Tokens
  /\ r.op \in {"verify", "complete"} => r.item \in Codes
  /\ r.op = "sign_in" => r.item \in Nat

RequestsShaped ==
  /\ reqs = [q \in Requests |-> reqs[q]]
  /\ \A q \in Requests : RequestShape(reqs[q])

Typed ==
  /\ users \in [Users -> UserRow]
  /\ sessions \in [Sessions -> SessionRow]
  /\ tokens \in [Tokens -> TokenRow]
  /\ codes \in [Codes -> CodeRow]
  /\ RequestsShaped
  /\ now \in Nat

\* A session and a request that will open one belong to a user who exists: a
\* registration cannot give that user another password.
HoldersExist ==
  /\ \A s \in Sessions : sessions[s].user # NoOne => users[sessions[s].user].status # "none"
  /\ \A q \in Requests : reqs[q].op = "sign_in" => users[reqs[q].user].status # "none"

\* A token that was not used was not exchanged, and its session is there.
TokensInSessions ==
  \A t \in Tokens :
    /\ tokens[t].used = 0 => tokens[t].next = NoOne
    /\ tokens[t].session # NoOne => sessions[tokens[t].session].user # NoOne

\* A code has an effect only by being consumed, and belongs to a user.
EffectsConsume ==
  \A c \in Codes : /\ codes[c].consumed = 0 => codes[c].effects = 0
                   /\ codes[c].purpose # "none" => codes[c].user # NoOne

\* A live session was inserted under the present password of its user.
BornCurrent ==
  \A s \in Sessions : Live(s) => sessions[s].born = users[sessions[s].user].password

AuthInvariant ==
  Typed /\ HoldersExist /\ TokensInSessions /\ EffectsConsume /\ BornCurrent /\ CodesWorkOnce

-----------------------------------------------------------------------------
(* What a request does to itself.                                            *)

\* A request that starts: it has a shape if what it refers to fits its
\* operation.
LEMMA EnterShape ==
  ASSUME RequestsShaped, now \in Nat, NEW q \in Requests, NEW op, NEW user, NEW item,
         Enter(q, op, user, item),
         op \in ForUser => user \in Users,
         op = "refresh" => item \in Tokens,
         op \in {"verify", "complete"} => item \in Codes,
         op = "sign_in" => item \in Nat
  PROVE  /\ RequestsShaped'
         /\ \A p \in Requests : p # q => reqs'[p] = reqs[p]
         /\ reqs'[q].op = op /\ reqs'[q].user = user
<1> DEFINE r == [op |-> op, user |-> user, item |-> item, at |-> now, read |-> settings]
<1>1. reqs' = [reqs EXCEPT ![q] = r]
  BY DEF Enter
<1>2. reqs' = [p \in Requests |-> IF p = q THEN r ELSE reqs[p]]
  BY <1>1 DEF RequestsShaped
<1>3. RequestShape(r)
  BY DEF RequestShape
<1> HIDE DEF r
<1>4. reqs' = [p \in Requests |-> reqs'[p]] /\ reqs'[q] = r /\ \A p \in Requests : p # q => reqs'[p] = reqs[p]
  BY <1>2
<1>5. \A p \in Requests : RequestShape(reqs'[p])
  BY <1>3, <1>4 DEF RequestsShaped
<1>6. r.op = op /\ r.user = user
  BY DEF r
<1> QED
  BY <1>4, <1>5, <1>6 DEF RequestsShaped, RequestShape

\* A request that goes on to another operation for the same user.
LEMMA AdvanceShape ==
  ASSUME RequestsShaped, NEW q \in Requests, NEW op, NEW item,
         Advance(q, op, item),
         op \in ForUser => reqs[q].user \in Users,
         op \notin {"refresh", "verify", "complete", "sign_in"}
  PROVE  /\ RequestsShaped'
         /\ \A p \in Requests : p # q => reqs'[p] = reqs[p]
         /\ reqs'[q].op = op /\ reqs'[q].user = reqs[q].user
<1> DEFINE r == [op |-> op, user |-> reqs[q].user, item |-> item, at |-> reqs[q].at, read |-> reqs[q].read]
<1>0. RequestShape(reqs[q])
  BY DEF RequestsShaped
<1>1. [reqs[q] EXCEPT !.op = op, !.item = item] = r
  <2>1. PICK a, b, c, d, e : /\ reqs[q] = [op |-> a, user |-> b, item |-> c, at |-> d, read |-> e]
                             /\ b = reqs[q].user /\ d = reqs[q].at /\ e = reqs[q].read
    BY <1>0 DEF RequestShape
  <2>2. PICK p : p = [reqs[q] EXCEPT !.op = op]
    OBVIOUS
  <2>3. p = [op |-> op, user |-> b, item |-> c, at |-> d, read |-> e]
    BY <2>1, <2>2
  <2>4. [p EXCEPT !.item = item] = [op |-> op, user |-> b, item |-> item, at |-> d, read |-> e]
    BY <2>3
  <2>5. [reqs[q] EXCEPT !.op = op, !.item = item] = [p EXCEPT !.item = item]
    BY <2>2
  <2> QED
    BY <2>1, <2>4, <2>5
<1>2. reqs' = [p \in Requests |-> IF p = q THEN r ELSE reqs[p]]
  BY <1>1 DEF RequestsShaped, Advance
<1>3. RequestShape(r)
  BY <1>0 DEF RequestShape
<1>6. r.op = op /\ r.user = reqs[q].user
  OBVIOUS
<1> HIDE DEF r
<1>4. reqs' = [p \in Requests |-> reqs'[p]] /\ reqs'[q] = r /\ \A p \in Requests : p # q => reqs'[p] = reqs[p]
  BY <1>2
<1>5. \A p \in Requests : RequestShape(reqs'[p])
  BY <1>3, <1>4 DEF RequestsShaped
<1> QED
  BY <1>4, <1>5, <1>6 DEF RequestsShaped, RequestShape

\* A request that ends.
LEMMA LeaveShape ==
  ASSUME RequestsShaped, NEW q \in Requests, Leave(q)
  PROVE  /\ RequestsShaped'
         /\ \A p \in Requests : p # q => reqs'[p] = reqs[p]
         /\ reqs'[q].op = "quiet"
<1>2. reqs' = [p \in Requests |-> IF p = q THEN Quiet ELSE reqs[p]]
  BY DEF RequestsShaped, Leave
<1>3. RequestShape(Quiet) /\ Quiet.op = "quiet"
  BY DEF RequestShape, Quiet, ForUser
<1>4. reqs' = [p \in Requests |-> reqs'[p]] /\ reqs'[q] = Quiet /\ \A p \in Requests : p # q => reqs'[p] = reqs[p]
  BY <1>2
<1>5. \A p \in Requests : RequestShape(reqs'[p])
  BY <1>3, <1>4 DEF RequestsShaped
<1> QED
  BY <1>3, <1>4, <1>5 DEF RequestsShaped, RequestShape

-----------------------------------------------------------------------------
(* What the transactions do to the rows.                                     *)

\* revoke_family changes the given sessions only, and ends them.
LEMMA RevokeFacts ==
  ASSUME sessions \in [Sessions -> SessionRow], NEW ss, RevokeFamilies(ss)
  PROVE  /\ sessions' \in [Sessions -> SessionRow]
         /\ \A s \in Sessions : /\ sessions'[s].user = sessions[s].user
                                /\ sessions'[s].born = sessions[s].born
                                /\ sessions'[s].checked = sessions[s].checked
                                /\ s \in ss => ~ Live(s)'
                                /\ s \notin ss => sessions'[s] = sessions[s]
<1>1. ASSUME NEW s \in Sessions
      PROVE  /\ sessions'[s] \in SessionRow
             /\ sessions'[s].user = sessions[s].user
             /\ sessions'[s].born = sessions[s].born
             /\ sessions'[s].checked = sessions[s].checked
             /\ s \in ss => sessions'[s].revoked = 1
             /\ s \notin ss => sessions'[s] = sessions[s]
  <2>1. sessions[s] \in SessionRow
    OBVIOUS
  <2>2. CASE s \in ss
    <3>1. sessions'[s] = [sessions[s] EXCEPT !.revoked = 1, !.family = 1]
      BY <2>2 DEF RevokeFamilies
    <3> QED
      BY <2>1, <2>2, <3>1 DEF SessionRow
  <2>3. CASE s \notin ss
    BY <2>1, <2>3 DEF RevokeFamilies
  <2> QED
    BY <2>2, <2>3
<1>2. sessions' = [s \in Sessions |-> sessions'[s]]
  BY DEF RevokeFamilies
<1>3. sessions' \in [Sessions -> SessionRow]
  BY <1>1, <1>2
<1>4. \A s \in Sessions : s \in ss => ~ Live(s)'
  BY <1>1 DEF Live
<1> QED
  BY <1>1, <1>3, <1>4

\* To the abstract families a revocation is their Revoke.
LEMMA RevokeRefines ==
  ASSUME sessions \in [Sessions -> SessionRow], NEW ss, RevokeFamilies(ss), UNCHANGED tokens
  PROVE  Families!FamiliesNext
<1> DEFINE stateOf(s) == IF sessions[s].user = NoOne THEN "new" ELSE IF Live(s) THEN "live" ELSE "ended"
<1>1. \A s \in Sessions : stateOf(s)' = IF s \in ss \cap Sessions /\ stateOf(s) = "live"
                                        THEN "ended" ELSE stateOf(s)
  <2> SUFFICES ASSUME NEW s \in Sessions
               PROVE  stateOf(s)' = IF s \in ss \cap Sessions /\ stateOf(s) = "live"
                                    THEN "ended" ELSE stateOf(s)
    OBVIOUS
  <2>1. /\ sessions'[s].user = sessions[s].user
        /\ s \in ss => ~ Live(s)'
        /\ s \notin ss => sessions'[s] = sessions[s]
    BY RevokeFacts
  <2>2. CASE s \in ss
    BY <2>1, <2>2
  <2>3. CASE s \notin ss
    BY <2>1, <2>3 DEF Live
  <2> QED
    BY <2>2, <2>3
<1>2. Families!Revoke(ss \cap Sessions)
  BY <1>1 DEF Families!Revoke
<1>3. ss \cap Sessions \in SUBSET Sessions
  OBVIOUS
<1> QED
  BY <1>2, <1>3 DEF Families!FamiliesNext

\* A step that leaves the four tables alone.
LEMMA RowsKept ==
  ASSUME AuthInvariant, UNCHANGED rowVars, now' \in Nat, RequestsShaped',
         \A q \in Requests : reqs'[q].op = "sign_in" => users[reqs'[q].user].status # "none"
  PROVE  AuthInvariant' /\ UNCHANGED Families!familyVars
<1>1. Typed' /\ HoldersExist'
  BY DEF AuthInvariant, Typed, HoldersExist, rowVars
<1>2. (TokensInSessions /\ EffectsConsume /\ BornCurrent /\ CodesWorkOnce)'
  BY DEF AuthInvariant, TokensInSessions, EffectsConsume, BornCurrent, CodesWorkOnce, Live, rowVars
<1>3. UNCHANGED Families!familyVars
  BY DEF Families!familyVars, rowVars, Live
<1> QED
  BY <1>1, <1>2, <1>3 DEF AuthInvariant

\* A transaction that revokes sessions and changes nothing else.
LEMMA OnlyRevoked ==
  ASSUME AuthInvariant, NEW q \in Requests, NEW ss, RevokeFamilies(ss), Leave(q),
         UNCHANGED <<users, tokens, codes, now>>
  PROVE  AuthInvariant' /\ Families!FamiliesNext
<1>1. /\ RequestsShaped'
      /\ \A p \in Requests : p # q => reqs'[p] = reqs[p]
      /\ reqs'[q].op = "quiet"
  BY LeaveShape DEF AuthInvariant, Typed
<1>2. Typed'
  BY <1>1, RevokeFacts DEF AuthInvariant, Typed
<1>3. HoldersExist'
  BY <1>1, RevokeFacts DEF AuthInvariant, Typed, HoldersExist
<1>4. TokensInSessions' /\ BornCurrent'
  BY RevokeFacts DEF AuthInvariant, Typed, TokensInSessions, BornCurrent, TokenRow, Live
<1>5. EffectsConsume' /\ CodesWorkOnce'
  BY DEF AuthInvariant, EffectsConsume, CodesWorkOnce
<1> QED
  BY <1>2, <1>3, <1>4, <1>5, RevokeRefines DEF AuthInvariant, Typed

\* A new password, whose sessions were revoked in the same transaction.
LEMMA PasswordReplaced ==
  ASSUME AuthInvariant, NEW u \in Users, NEW at \in Nat, NewPassword(u, at), RevokeUserSessions(u)
  PROVE  /\ users' \in [Users -> UserRow]
         /\ \A v \in Users : users'[v].status = users[v].status
         /\ sessions' \in [Sessions -> SessionRow]
         /\ \A s \in Sessions : sessions'[s].user = sessions[s].user
         /\ BornCurrent'
<1> DEFINE ss == {s \in Sessions : sessions[s].user = u}
<1>1. /\ sessions' \in [Sessions -> SessionRow]
      /\ \A s \in Sessions : /\ sessions'[s].user = sessions[s].user
                             /\ sessions'[s].born = sessions[s].born
                             /\ s \in ss => ~ Live(s)'
                             /\ s \notin ss => sessions'[s] = sessions[s]
  BY RevokeFacts DEF RevokeUserSessions, AuthInvariant, Typed
<1>2. users \in [Users -> UserRow]
  BY DEF AuthInvariant, Typed
<1>3. users' \in [Users -> UserRow]
  <2>1. users' = [users EXCEPT ![u].password = @ + 1, ![u].changed = at]
    BY DEF NewPassword
  <2>2. users[u].password + 1 \in Nat
    BY <1>2 DEF UserRow
  <2>3. PICK n : n = users[u].password + 1
    OBVIOUS
  <2>4. users' = [users EXCEPT ![u].password = n, ![u].changed = at]
    BY <2>1, <2>3
  <2>5. PICK row \in UserRow : row = users[u]
    BY <1>2
  <2>6. users' = [users EXCEPT ![u] = [row EXCEPT !.password = n, !.changed = at]]
    BY <1>2, <2>4, <2>5
  <2>7. [row EXCEPT !.password = n, !.changed = at] \in UserRow
    BY <2>2, <2>3 DEF UserRow
  <2> QED
    BY <1>2, <2>6, <2>7
<1>4. users'[u].status = users[u].status
  BY <1>2 DEF NewPassword, UserRow
<1>5. \A v \in Users : v # u => users'[v] = users[v]
  BY <1>2 DEF NewPassword
<1>6. ASSUME NEW s \in Sessions, Live(s)'
      PROVE  sessions'[s].born = users'[sessions'[s].user].password
  <2>1. s \notin ss /\ sessions'[s] = sessions[s]
    BY <1>1, <1>6
  <2>2. sessions[s].user # u /\ sessions[s].user # NoOne /\ Live(s)
    BY <2>1, <1>6 DEF Live
  <2>3. sessions[s].user \in Users
    BY <2>2 DEF AuthInvariant, Typed, SessionRow
  <2>4. sessions[s].born = users[sessions[s].user].password
    BY <2>2 DEF AuthInvariant, BornCurrent
  <2> QED
    BY <2>1, <2>2, <2>3, <2>4, <1>5
<1>7. \A v \in Users : users'[v].status = users[v].status
  BY <1>4, <1>5
<1> QED
  BY <1>1, <1>3, <1>6, <1>7 DEF BornCurrent

\* A valid code that is consumed.
LEMMA ConsumeFacts ==
  ASSUME AuthInvariant, NEW c \in Codes, NEW purpose, NEW at, CodeValid(c, purpose, at), Consume(c)
  PROVE  codes' \in [Codes -> CodeRow] /\ EffectsConsume' /\ CodesWorkOnce'
<1>1. codes \in [Codes -> CodeRow] /\ codes[c].effects = 0
  BY DEF AuthInvariant, Typed, EffectsConsume, CodeValid
<1>2. codes'[c].consumed = 1 /\ codes'[c].effects = codes[c].effects + 1 /\ codes'[c].user = codes[c].user
      /\ codes'[c].purpose = codes[c].purpose
  BY <1>1 DEF Consume, CodeRow
<1>3. \A d \in Codes : d # c => codes'[d] = codes[d]
  BY <1>1 DEF Consume
<1>4. codes' \in [Codes -> CodeRow]
  BY <1>1 DEF Consume, CodeRow
<1>5. EffectsConsume'
  BY <1>2, <1>3 DEF AuthInvariant, EffectsConsume
<1>6. CodesWorkOnce'
  BY <1>1, <1>2, <1>3 DEF AuthInvariant, CodesWorkOnce
<1> QED
  BY <1>4, <1>5, <1>6

\* What the invariant keeps when sessions and tokens stay as they are.
LEMMA FamiliesKept ==
  ASSUME UNCHANGED <<sessions, tokens>>
  PROVE  UNCHANGED Families!familyVars
BY DEF Families!familyVars, Live

-----------------------------------------------------------------------------
(* The steps of a request that change no table.                              *)

\* A request entering its handler has only read what it needs: no row changes.
LEMMA EnterKeeps ==
  ASSUME AuthInvariant, NEW q \in Requests, NEW op, NEW user, NEW item,
         Enter(q, op, user, item), UNCHANGED <<rowVars, now>>,
         op \in ForUser => user \in Users,
         op = "refresh" => item \in Tokens,
         op \in {"verify", "complete"} => item \in Codes,
         op = "sign_in" => item \in Nat /\ users[user].status # "none"
  PROVE  AuthInvariant' /\ UNCHANGED Families!familyVars
<1>1. /\ RequestsShaped'
      /\ \A p \in Requests : p # q => reqs'[p] = reqs[p]
      /\ reqs'[q].op = op /\ reqs'[q].user = user
  BY EnterShape DEF AuthInvariant, Typed
<1>2. \A p \in Requests : reqs'[p].op = "sign_in" => users[reqs'[p].user].status # "none"
  BY <1>1 DEF AuthInvariant, HoldersExist
<1>3. UNCHANGED rowVars /\ now' \in Nat
  BY DEF AuthInvariant, Typed
<1> QED
  BY <1>1, <1>2, <1>3, RowsKept

\* A request that goes on to its next part with no row changed.
LEMMA AdvanceKeeps ==
  ASSUME AuthInvariant, NEW q \in Requests, NEW op, NEW item,
         Advance(q, op, item), UNCHANGED <<rowVars, now>>,
         op \in ForUser => reqs[q].user \in Users,
         op \notin {"refresh", "verify", "complete", "sign_in"}
  PROVE  AuthInvariant' /\ UNCHANGED Families!familyVars
<1>1. /\ RequestsShaped'
      /\ \A p \in Requests : p # q => reqs'[p] = reqs[p]
      /\ reqs'[q].op = op
  BY AdvanceShape DEF AuthInvariant, Typed
<1>2. \A p \in Requests : reqs'[p].op = "sign_in" => users[reqs'[p].user].status # "none"
  BY <1>1 DEF AuthInvariant, HoldersExist
<1>3. UNCHANGED rowVars /\ now' \in Nat
  BY DEF AuthInvariant, Typed
<1> QED
  BY <1>1, <1>2, <1>3, RowsKept

\* A request that ends with no row changed.
LEMMA LeaveKeeps ==
  ASSUME AuthInvariant, NEW q \in Requests, Leave(q), UNCHANGED <<rowVars, now>>
  PROVE  AuthInvariant' /\ UNCHANGED Families!familyVars
<1>1. /\ RequestsShaped'
      /\ \A p \in Requests : p # q => reqs'[p] = reqs[p]
      /\ reqs'[q].op = "quiet"
  BY LeaveShape DEF AuthInvariant, Typed
<1>2. \A p \in Requests : reqs'[p].op = "sign_in" => users[reqs'[p].user].status # "none"
  BY <1>1 DEF AuthInvariant, HoldersExist
<1>3. UNCHANGED rowVars /\ now' \in Nat
  BY DEF AuthInvariant, Typed
<1> QED
  BY <1>1, <1>2, <1>3, RowsKept

\* The user of a request is a user of the project.
LEMMA RequestUser ==
  ASSUME AuthInvariant, NEW q \in Requests, reqs[q].op \in ForUser
  PROVE  reqs[q].user \in Users
BY DEF AuthInvariant, Typed, RequestsShaped, RequestShape

\* The handlers up to their transaction, and the time between.
LEMMA HandlersKeep ==
  ASSUME AuthInvariant, NEW q \in Requests,
         \/ \E u \in Users : Register(q, u) \/ PasswordResetStart(q, u) \/ SignIn(q, u)
         \/ \E c \in Codes : VerifyEmail(q, c) \/ PasswordResetComplete(q, c)
         \/ \E t \in Tokens : Refresh(q, t) \/ SignOut(q, t)
         \/ \E a \in Sessions : ChangePassword(q, a) \/ \E s \in Sessions : RevokeSession(q, a, s)
         \/ \E field \in DOMAIN settings : UpdateSettings(q, field)
         \/ RegisterKnown(q) \/ SignAccess(q) \/ CheckCurrentPassword(q) \/ CommitSettings(q)
         \/ RequestStops(q)
  PROVE  AuthInvariant' /\ UNCHANGED Families!familyVars
<1>a. /\ \A s \in Sessions : sessions[s].user # NoOne => sessions[s].user \in Users
      /\ \A c \in Codes : codes[c].purpose # "none" => codes[c].user \in Users
      /\ \A t \in Tokens : tokens[t].session # NoOne => tokens[t].session \in Sessions
  BY DEF AuthInvariant, Typed, EffectsConsume, SessionRow, CodeRow, TokenRow
<1> DEFINE Kept == AuthInvariant' /\ UNCHANGED Families!familyVars
<1>1. ASSUME NEW u \in Users, Register(q, u) PROVE Kept
  BY <1>1, EnterKeeps DEF Register, ForUser
<1>2. ASSUME NEW u \in Users, PasswordResetStart(q, u) PROVE Kept
  BY <1>2, EnterKeeps DEF PasswordResetStart, ForUser
<1>3. ASSUME NEW u \in Users, SignIn(q, u) PROVE Kept
  <2>1. users[u].password \in Nat
    BY DEF AuthInvariant, Typed, UserRow
  <2> QED
    BY <1>3, <2>1, EnterKeeps DEF SignIn, ForUser, Authenticates
<1>4. ASSUME NEW c \in Codes, VerifyEmail(q, c) PROVE Kept
  BY <1>a, <1>4, EnterKeeps DEF VerifyEmail, CodeValid, ForUser
<1>5. ASSUME NEW c \in Codes, PasswordResetComplete(q, c) PROVE Kept
  BY <1>a, <1>5, EnterKeeps DEF PasswordResetComplete, CodeValid, ForUser
<1>6. ASSUME NEW t \in Tokens, Refresh(q, t) PROVE Kept
  BY <1>a, <1>6, EnterKeeps DEF Refresh, TokenIdentifies, Live, ForUser
<1>7. ASSUME NEW t \in Tokens, SignOut(q, t) PROVE Kept
  BY <1>a, <1>7, EnterKeeps DEF SignOut, TokenIdentifies, Live, ForUser
<1>8. ASSUME NEW a \in Sessions, ChangePassword(q, a) PROVE Kept
  BY <1>a, <1>8, EnterKeeps DEF ChangePassword, Accepts, Live, ForUser
<1>9. ASSUME NEW a \in Sessions, NEW s \in Sessions, RevokeSession(q, a, s) PROVE Kept
  BY <1>a, <1>9, EnterKeeps DEF RevokeSession, Accepts, Live, ForUser
<1>10. ASSUME NEW field, UpdateSettings(q, field) PROVE Kept
  BY <1>10, EnterKeeps DEF UpdateSettings, ForUser
<1>11. ASSUME RegisterKnown(q) PROVE Kept
  BY <1>11, RequestUser, AdvanceKeeps, LeaveKeeps DEF RegisterKnown, SendVerification, ForUser
<1>12. ASSUME SignAccess(q) PROVE Kept
  BY <1>12, LeaveKeeps DEF SignAccess
<1>13. ASSUME CheckCurrentPassword(q) PROVE Kept
  BY <1>13, RequestUser, AdvanceKeeps DEF CheckCurrentPassword, ForUser
<1>14. ASSUME CommitSettings(q) PROVE Kept
  BY <1>14, LeaveKeeps DEF CommitSettings
<1>15. ASSUME RequestStops(q) PROVE Kept
  BY <1>15, LeaveKeeps DEF RequestStops
<1> QED
  BY <1>1, <1>2, <1>3, <1>4, <1>5, <1>6, <1>7, <1>8, <1>9, <1>10, <1>11, <1>12, <1>13, <1>14, <1>15

-----------------------------------------------------------------------------
(* The transactions.                                                         *)

\* register_with_policy: a row where there was none.
LEMMA RegisterNewKeeps ==
  ASSUME AuthInvariant, NEW q \in Requests, RegisterNew(q)
  PROVE  AuthInvariant' /\ UNCHANGED Families!familyVars
<1>1. reqs[q].user \in Users /\ reqs[q].at \in Nat
  BY RequestUser DEF RegisterNew, ForUser, AuthInvariant, Typed, RequestsShaped, RequestShape
<1> DEFINE u == reqs[q].user
           row == [status |-> "active", verified |-> IF reqs[q].read.strict THEN 0 ELSE 1, password |-> 1,
                   changed |-> reqs[q].at]
<1>2. row \in UserRow
  BY <1>1 DEF UserRow
<1>3. users' = [users EXCEPT ![u] = row]
  BY DEF RegisterNew, InsertUser
<1>4. row.status = "active"
  OBVIOUS
<1> HIDE DEF row
<1>5. /\ users' \in [Users -> UserRow] /\ users'[u] = row
      /\ \A v \in Users : v # u => users'[v] = users[v]
  BY <1>1, <1>2, <1>3 DEF AuthInvariant, Typed
<1>6. /\ RequestsShaped'
      /\ \A p \in Requests : p # q => reqs'[p] = reqs[p]
      /\ reqs'[q].op # "sign_in"
  <2>1. Advance(q, "verification", NoOne) \/ Leave(q)
    BY DEF RegisterNew, SendVerification
  <2>2. CASE Advance(q, "verification", NoOne)
    BY <1>1, <2>2, AdvanceShape DEF AuthInvariant, Typed
  <2>3. CASE Leave(q)
    BY <2>3, LeaveShape DEF AuthInvariant, Typed
  <2> QED
    BY <2>1, <2>2, <2>3
<1>7. UNCHANGED <<sessions, tokens, codes, now>> /\ users[u].status = "none"
  BY DEF RegisterNew
<1>8. Typed'
  BY <1>5, <1>6, <1>7 DEF AuthInvariant, Typed
<1>9. HoldersExist'
  <2>1. ASSUME NEW s \in Sessions, sessions[s].user # NoOne PROVE users'[sessions[s].user].status # "none"
    BY <2>1, <1>4, <1>5 DEF AuthInvariant, Typed, HoldersExist, SessionRow
  <2>2. ASSUME NEW p \in Requests, reqs'[p].op = "sign_in" PROVE users'[reqs'[p].user].status # "none"
    <3>1. p # q /\ reqs'[p] = reqs[p] /\ reqs[p].op = "sign_in"
      BY <1>6, <2>2
    <3>2. reqs[p].user \in Users /\ users[reqs[p].user].status # "none"
      BY <3>1, RequestUser DEF AuthInvariant, HoldersExist, ForUser
    <3> QED
      BY <3>1, <3>2, <1>5, <1>7
  <2> QED
    BY <2>1, <2>2, <1>7 DEF HoldersExist
<1>10. BornCurrent'
  <2>1. ASSUME NEW s \in Sessions, Live(s) PROVE sessions[s].born = users'[sessions[s].user].password
    <3>1. sessions[s].user \in Users /\ sessions[s].user # u
      BY <2>1, <1>7 DEF AuthInvariant, Typed, HoldersExist, SessionRow, Live
    <3> QED
      BY <2>1, <3>1, <1>5 DEF AuthInvariant, BornCurrent
  <2> QED
    BY <2>1, <1>7 DEF BornCurrent, Live
<1>11. TokensInSessions' /\ EffectsConsume' /\ CodesWorkOnce'
  BY <1>7 DEF AuthInvariant, TokensInSessions, EffectsConsume, CodesWorkOnce
<1> QED
  BY <1>7, <1>8, <1>9, <1>10, <1>11, FamiliesKept DEF AuthInvariant

\* issue: the new code is the only valid one of its user and purpose.
LEMMA IssueCodeKeeps ==
  ASSUME AuthInvariant, NEW q \in Requests, NEW c \in Codes, IssueCode(q, c)
  PROVE  AuthInvariant' /\ UNCHANGED Families!familyVars
<1> DEFINE r == reqs[q]
           row == [NoCode EXCEPT !.user = r.user, !.purpose = r.op, !.expires = r.at + CodeTtl]
           Replaced(d) == codes[d].user = r.user /\ codes[d].purpose = r.op
<1>1. r.op \in {"verification", "reset"} /\ r.user \in Users /\ r.at \in Nat /\ CodeTtl \in Nat
  BY RequestUser, ProjectAuthAssumption
     DEF IssueCode, ForUser, AuthInvariant, Typed, RequestsShaped, RequestShape
<1>3. row \in CodeRow /\ row.user = r.user /\ row.purpose = r.op /\ row.consumed = 0 /\ row.effects = 0
  <2>1. PICK none : none = NoCode
    OBVIOUS
  <2>2. none \in CodeRow /\ none.consumed = 0 /\ none.effects = 0
    BY <2>1 DEF NoCode, CodeRow
  <2>3. PICK end : end = r.at + CodeTtl
    OBVIOUS
  <2>4. end \in Nat
    BY <1>1, <2>3
  <2>5. PICK op, user : op = r.op /\ user = r.user
    OBVIOUS
  <2>6. row = [none EXCEPT !.user = user, !.purpose = op, !.expires = end]
    BY <2>1, <2>3, <2>5
  <2> HIDE DEF row, r
  <2> QED
    BY <1>1, <2>2, <2>4, <2>5, <2>6 DEF CodeRow
<1>4. codes' = [d \in Codes |-> IF d = c THEN row
                                ELSE IF Replaced(d) THEN [codes[d] EXCEPT !.consumed = 1] ELSE codes[d]]
  BY DEF IssueCode
<1> HIDE DEF row
<1>5. codes'[c] = row
  BY <1>4
<1>6. ASSUME NEW d \in Codes, d # c
      PROVE  /\ codes'[d] \in CodeRow
             /\ codes'[d].user = codes[d].user /\ codes'[d].purpose = codes[d].purpose
             /\ codes'[d].effects = codes[d].effects
             /\ IF Replaced(d) THEN codes'[d].consumed = 1 ELSE codes'[d].consumed = codes[d].consumed
  <2>1. codes[d] \in CodeRow
    BY DEF AuthInvariant, Typed
  <2>2. CASE Replaced(d)
    <3>1. codes'[d] = [codes[d] EXCEPT !.consumed = 1]
      BY <1>4, <1>6, <2>2
    <3> QED
      BY <2>1, <2>2, <3>1 DEF CodeRow
  <2>3. CASE ~ Replaced(d)
    <3>1. codes'[d] = codes[d]
      BY <1>4, <1>6, <2>3
    <3> QED
      BY <2>1, <2>3, <3>1 DEF CodeRow
  <2> QED
    BY <2>2, <2>3
<1>7. codes' = [d \in Codes |-> codes'[d]]
  BY <1>4
<1>8. codes' \in [Codes -> CodeRow]
  BY <1>3, <1>5, <1>6, <1>7
<1>9. EffectsConsume'
  <2>1. ASSUME NEW d \in Codes
        PROVE  (codes'[d].consumed = 0 => codes'[d].effects = 0) /\ (codes'[d].purpose # "none" => codes'[d].user # NoOne)
    <3>1. CASE d = c
      BY <3>1, <1>1, <1>3, <1>5, ProjectAuthAssumption
    <3>2. CASE d # c
      BY <3>2, <1>6 DEF AuthInvariant, EffectsConsume
    <3> QED
      BY <3>1, <3>2
  <2> QED
    BY <2>1 DEF EffectsConsume
<1>10. CodesWorkOnce'
  <2>1. ASSUME NEW d \in Codes PROVE codes'[d].effects <= 1
    <3>1. CASE d = c
      BY <3>1, <1>3, <1>5
    <3>2. CASE d # c
      BY <3>2, <1>6 DEF AuthInvariant, CodesWorkOnce
    <3> QED
      BY <3>1, <3>2
  <2>2. ASSUME NEW d \in Codes, NEW e \in Codes, codes'[d].user # NoOne, codes'[d].user = codes'[e].user,
               codes'[d].purpose = codes'[e].purpose, codes'[d].consumed = 0, codes'[e].consumed = 0
        PROVE  d = e
    <3>1. ASSUME NEW f \in Codes, f # c, codes'[f].consumed = 0
          PROVE  ~ Replaced(f) /\ codes[f].consumed = 0
      BY <3>1, <1>6
    <3>2. CASE d # c /\ e # c
      BY <3>1, <3>2, <2>2, <1>6 DEF AuthInvariant, CodesWorkOnce
    <3>3. CASE d = c /\ e # c
      BY <3>1, <3>3, <2>2, <1>3, <1>5, <1>6
    <3>4. CASE d # c /\ e = c
      BY <3>1, <3>4, <2>2, <1>3, <1>5, <1>6
    <3> QED
      BY <3>2, <3>3, <3>4
  <2> QED
    BY <2>1, <2>2 DEF CodesWorkOnce
<1>11. /\ RequestsShaped'
       /\ \A p \in Requests : p # q => reqs'[p] = reqs[p]
       /\ reqs'[q].op = "quiet"
  BY LeaveShape DEF IssueCode, AuthInvariant, Typed
<1>12. UNCHANGED <<users, sessions, tokens, now>>
  BY DEF IssueCode
<1>13. Typed' /\ HoldersExist'
  BY <1>8, <1>11, <1>12 DEF AuthInvariant, Typed, HoldersExist
<1>14. TokensInSessions' /\ BornCurrent'
  BY <1>12 DEF AuthInvariant, TokensInSessions, BornCurrent, Live
<1> QED
  BY <1>9, <1>10, <1>12, <1>13, <1>14, FamiliesKept DEF AuthInvariant

\* A transaction that leaves the sessions of no user behind: what remains to be
\* shown of it once its tables are known.
LEMMA StatusKept ==
  ASSUME AuthInvariant, NEW q \in Requests, Leave(q),
         users' \in [Users -> UserRow], \A v \in Users : users[v].status # "none" => users'[v].status # "none",
         sessions' \in [Sessions -> SessionRow], \A s \in Sessions : sessions'[s].user = sessions[s].user,
         codes' \in [Codes -> CodeRow], UNCHANGED <<tokens, now>>
  PROVE  Typed' /\ HoldersExist' /\ TokensInSessions'
<1>1. /\ RequestsShaped'
      /\ \A p \in Requests : p # q => reqs'[p] = reqs[p]
      /\ reqs'[q].op = "quiet"
  BY LeaveShape DEF AuthInvariant, Typed
<1>2. Typed'
  BY <1>1 DEF AuthInvariant, Typed
<1>3. HoldersExist'
  <2>1. ASSUME NEW s \in Sessions, sessions'[s].user # NoOne PROVE users'[sessions'[s].user].status # "none"
    BY <2>1 DEF AuthInvariant, Typed, HoldersExist, SessionRow
  <2>2. ASSUME NEW p \in Requests, reqs'[p].op = "sign_in" PROVE users'[reqs'[p].user].status # "none"
    <3>1. p # q /\ reqs'[p] = reqs[p] /\ reqs[p].op = "sign_in"
      BY <1>1, <2>2
    <3>2. reqs[p].user \in Users /\ users[reqs[p].user].status # "none"
      BY <3>1, RequestUser DEF AuthInvariant, HoldersExist, ForUser
    <3> QED
      BY <3>1, <3>2
  <2> QED
    BY <2>1, <2>2 DEF HoldersExist
<1>4. TokensInSessions'
  BY DEF AuthInvariant, Typed, TokensInSessions, TokenRow
<1> QED
  BY <1>2, <1>3, <1>4

\* verify_email_for_project.
LEMMA CommitVerificationKeeps ==
  ASSUME AuthInvariant, NEW q \in Requests, CommitVerification(q)
  PROVE  AuthInvariant' /\ UNCHANGED Families!familyVars
<1>1. /\ reqs[q].user \in Users /\ reqs[q].item \in Codes
      /\ Leave(q) /\ UNCHANGED <<sessions, tokens, now>>
  BY RequestUser DEF CommitVerification, ForUser, AuthInvariant, Typed, RequestsShaped, RequestShape
<1>2. CASE /\ CodeValid(reqs[q].item, "verification", reqs[q].at)
           /\ users' = [users EXCEPT ![reqs[q].user].verified = 1]
           /\ Consume(reqs[q].item)
  <2>1. users' \in [Users -> UserRow]
    BY <1>1, <1>2 DEF AuthInvariant, Typed, UserRow
  <2>2. \A v \in Users : users'[v].status = users[v].status /\ users'[v].password = users[v].password
    BY <1>1, <1>2 DEF AuthInvariant, Typed, UserRow
  <2>3. codes' \in [Codes -> CodeRow] /\ EffectsConsume' /\ CodesWorkOnce'
    BY <1>1, <1>2, ConsumeFacts
  <2>4. Typed' /\ HoldersExist' /\ TokensInSessions'
    BY <1>1, <2>1, <2>2, <2>3, StatusKept DEF AuthInvariant, Typed
  <2>5. BornCurrent'
    BY <1>1, <2>2 DEF AuthInvariant, Typed, BornCurrent, Live, SessionRow
  <2> QED
    BY <1>1, <2>3, <2>4, <2>5, FamiliesKept DEF AuthInvariant
<1>3. CASE UNCHANGED <<users, codes>>
  BY <1>1, <1>3, LeaveKeeps DEF rowVars
<1> QED
  BY <1>2, <1>3 DEF CommitVerification

\* reset_password_for_project and set_password.
LEMMA PasswordKeeps ==
  ASSUME AuthInvariant, NEW q \in Requests, CommitReset(q) \/ SetPassword(q)
  PROVE  AuthInvariant' /\ [Families!FamiliesNext]_Families!familyVars
<1>1. /\ reqs[q].user \in Users /\ reqs[q].at \in Nat
      /\ Leave(q) /\ UNCHANGED <<tokens, now>>
  BY RequestUser DEF CommitReset, SetPassword, ForUser, AuthInvariant, Typed, RequestsShaped, RequestShape
<1>2. CASE /\ NewPassword(reqs[q].user, reqs[q].at) /\ RevokeUserSessions(reqs[q].user)
           /\ codes' \in [Codes -> CodeRow] /\ EffectsConsume' /\ CodesWorkOnce'
  <2>1. /\ users' \in [Users -> UserRow]
        /\ \A v \in Users : users'[v].status = users[v].status
        /\ sessions' \in [Sessions -> SessionRow]
        /\ \A s \in Sessions : sessions'[s].user = sessions[s].user
        /\ BornCurrent'
    BY <1>1, <1>2, PasswordReplaced
  <2>2. Typed' /\ HoldersExist' /\ TokensInSessions'
    BY <1>1, <1>2, <2>1, StatusKept
  <2>3. Families!FamiliesNext
    BY <1>1, <1>2, RevokeRefines DEF RevokeUserSessions, AuthInvariant, Typed
  <2> QED
    BY <1>2, <2>1, <2>2, <2>3 DEF AuthInvariant
<1>3. CASE UNCHANGED <<users, sessions, codes>>
  BY <1>1, <1>3, LeaveKeeps DEF rowVars
<1>4. CASE CommitReset(q)
  <2>1. reqs[q].item \in Codes
    BY <1>4 DEF CommitReset, AuthInvariant, Typed, RequestsShaped, RequestShape
  <2>2. CASE CodeValid(reqs[q].item, "reset", reqs[q].at) /\ Consume(reqs[q].item)
             /\ NewPassword(reqs[q].user, reqs[q].at) /\ RevokeUserSessions(reqs[q].user)
    BY <1>2, <2>1, <2>2, ConsumeFacts
  <2> QED
    BY <1>3, <1>4, <2>2 DEF CommitReset
<1>5. CASE SetPassword(q)
  <2>1. UNCHANGED codes
    BY <1>5 DEF SetPassword
  <2>2. codes' \in [Codes -> CodeRow] /\ EffectsConsume' /\ CodesWorkOnce'
    BY <2>1 DEF AuthInvariant, Typed, EffectsConsume, CodesWorkOnce
  <2> QED
    BY <1>2, <1>3, <1>5, <2>1, <2>2 DEF SetPassword
<1> QED
  BY <1>4, <1>5

\* set_disabled_for_project.
LEMMA DisableKeeps ==
  ASSUME AuthInvariant, NEW u \in Users, NEW off, SetUserDisabled(u, off)
  PROVE  AuthInvariant' /\ [Families!FamiliesNext]_Families!familyVars
<1>1. users \in [Users -> UserRow] /\ now \in Nat /\ sessions \in [Sessions -> SessionRow]
  BY DEF AuthInvariant, Typed
<1>2. PICK st, at : /\ st \in {"disabled", "active"} /\ at \in Nat
                    /\ users' = [users EXCEPT ![u].status = st, ![u].changed = at]
  <2>1. Larger(users[u].changed, now) \in Nat
    BY <1>1 DEF Larger, UserRow
  <2>2. PICK at : at = Larger(users[u].changed, now)
    OBVIOUS
  <2>3. users' = [users EXCEPT ![u].status = IF off THEN "disabled" ELSE "active", ![u].changed = at]
    BY <2>2 DEF SetUserDisabled, DisableRow
  <2>4. PICK st : st = IF off THEN "disabled" ELSE "active"
    OBVIOUS
  <2>5. users' = [users EXCEPT ![u].status = st, ![u].changed = at]
    BY <2>3, <2>4
  <2>6. st \in {"disabled", "active"}
    BY <2>4
  <2> QED
    BY <2>1, <2>2, <2>5, <2>6
<1>3. users' \in [Users -> UserRow]
  <2>1. PICK row \in UserRow : row = users[u]
    BY <1>1
  <2>2. users' = [users EXCEPT ![u] = [row EXCEPT !.status = st, !.changed = at]]
    BY <1>1, <1>2, <2>1
  <2>3. [row EXCEPT !.status = st, !.changed = at] \in UserRow
    BY <1>2 DEF UserRow
  <2> QED
    BY <1>1, <2>2, <2>3
<1>4. \A v \in Users : users'[v].password = users[v].password /\ (users[v].status # "none" => users'[v].status # "none")
  BY <1>1, <1>2 DEF UserRow
<1>5. UNCHANGED <<tokens, codes, now, reqs>>
  BY DEF SetUserDisabled
<1>6. /\ sessions' \in [Sessions -> SessionRow]
      /\ \A s \in Sessions : /\ sessions'[s].user = sessions[s].user
                             /\ Live(s)' => sessions'[s] = sessions[s]
      /\ Families!FamiliesNext \/ UNCHANGED sessions
  <2>1. CASE UNCHANGED sessions
    BY <1>1, <2>1
  <2>2. CASE RevokeUserSessions(u)
    BY <1>1, <1>5, <2>2, RevokeFacts, RevokeRefines DEF RevokeUserSessions
  <2> QED
    BY <2>1, <2>2 DEF SetUserDisabled, DisableRow
<1>7. Typed'
  BY <1>3, <1>5, <1>6 DEF AuthInvariant, Typed, RequestsShaped
<1>8. HoldersExist'
  <2>1. ASSUME NEW s \in Sessions, sessions'[s].user # NoOne PROVE users'[sessions'[s].user].status # "none"
    BY <2>1, <1>1, <1>4, <1>6 DEF AuthInvariant, HoldersExist, SessionRow
  <2>2. ASSUME NEW p \in Requests, reqs[p].op = "sign_in" PROVE users'[reqs[p].user].status # "none"
    BY <2>2, <1>4, RequestUser DEF AuthInvariant, HoldersExist, ForUser
  <2> QED
    BY <2>1, <2>2, <1>5 DEF HoldersExist
<1>9. BornCurrent'
  <2>1. ASSUME NEW s \in Sessions, Live(s)' PROVE sessions'[s].born = users'[sessions'[s].user].password
    <3>1. sessions'[s] = sessions[s] /\ Live(s)
      BY <2>1, <1>6 DEF Live
    <3>2. sessions[s].user \in Users
      BY <3>1, <1>1 DEF Live, SessionRow
    <3> QED
      BY <3>1, <3>2, <1>4 DEF AuthInvariant, BornCurrent
  <2> QED
    BY <2>1 DEF BornCurrent
<1>10. TokensInSessions' /\ EffectsConsume' /\ CodesWorkOnce'
  BY <1>5, <1>6 DEF AuthInvariant, Typed, TokensInSessions, TokenRow, EffectsConsume, CodesWorkOnce
<1> QED
  BY <1>5, <1>6, <1>7, <1>8, <1>9, <1>10, FamiliesKept DEF AuthInvariant

\* issue_session_with_ttl: a session opened with the password of this moment.
LEMMA IssueSessionKeeps ==
  ASSUME AuthInvariant, NEW q \in Requests, NEW s \in Sessions, NEW t \in Tokens, IssueSession(q, s, t)
  PROVE  AuthInvariant' /\ Families!FamiliesNext
<1>1. /\ reqs[q].user \in Users /\ reqs[q].user # NoOne /\ users[reqs[q].user].status # "none"
      /\ sessions[s] = NoSession /\ tokens[t] = NoToken /\ UNCHANGED <<users, codes, now>>
      /\ RequestShape(reqs[q])
  BY RequestUser, ProjectAuthAssumption
     DEF IssueSession, ForUser, AuthInvariant, HoldersExist, Typed, RequestsShaped
<1>2. PICK end : end = now + SessionTtl
  OBVIOUS
<1>3. end \in Nat
  BY <1>2, ProjectAuthAssumption DEF AuthInvariant, Typed
<1>4. PICK row : row = [NoSession EXCEPT !.user = reqs[q].user, !.expires = end, !.checked = reqs[q].item,
                                         !.born = users[reqs[q].user].password]
  OBVIOUS
<1>5. row \in SessionRow /\ row.user = reqs[q].user /\ row.born = users[reqs[q].user].password
  <2>1. PICK none, user, old, pw :
          none = NoSession /\ user = reqs[q].user /\ old = reqs[q].item /\ pw = users[reqs[q].user].password
    OBVIOUS
  <2>2. none \in SessionRow /\ user \in Users /\ pw \in Nat
    BY <1>1, <2>1 DEF NoSession, SessionRow, AuthInvariant, Typed, UserRow
  <2>5. old \in Nat
    BY <1>1, <2>1 DEF IssueSession, RequestShape
  <2>3. row = [none EXCEPT !.user = user, !.expires = end, !.checked = old, !.born = pw]
    BY <1>4, <2>1
  <2>4. row \in SessionRow /\ row.user = user /\ row.born = pw
    BY <1>3, <2>2, <2>3, <2>5 DEF SessionRow
  <2> QED
    BY <2>1, <2>4
<1>6. row.revoked = 0 /\ row.family = 0
  BY <1>4 DEF NoSession
<1>7. sessions' = [sessions EXCEPT ![s] = row]
  BY <1>2, <1>4 DEF IssueSession
<1>8. PICK new : new = [NoToken EXCEPT !.session = s, !.expires = end]
  OBVIOUS
<1>9. new \in TokenRow /\ new.session = s /\ new.next = NoOne
  <2>1. PICK none : none = NoToken
    OBVIOUS
  <2>2. none \in TokenRow /\ none.next = NoOne
    BY <2>1 DEF NoToken, TokenRow
  <2>3. new = [none EXCEPT !.session = s, !.expires = end]
    BY <1>8, <2>1
  <2> QED
    BY <1>3, <2>2, <2>3 DEF TokenRow
<1>10. tokens' = [tokens EXCEPT ![t] = new]
  BY <1>2, <1>8 DEF IssueSession
<1>11. /\ sessions' \in [Sessions -> SessionRow] /\ sessions'[s] = row
       /\ \A z \in Sessions : z # s => sessions'[z] = sessions[z]
  BY <1>5, <1>7 DEF AuthInvariant, Typed
<1>12. /\ tokens' \in [Tokens -> TokenRow] /\ tokens'[t] = new
       /\ \A z \in Tokens : z # t => tokens'[z] = tokens[z]
  BY <1>9, <1>10 DEF AuthInvariant, Typed
<1>13. /\ RequestsShaped'
       /\ \A p \in Requests : p # q => reqs'[p] = reqs[p]
       /\ reqs'[q].op = "sign"
  <2> DEFINE r == [op |-> "sign", user |-> reqs[q].user, item |-> s, at |-> now, read |-> reqs[q].read]
  <2>1. [reqs[q] EXCEPT !.op = "sign", !.item = s, !.at = now] = r
    <3>1. PICK a, b, c, d, e : /\ reqs[q] = [op |-> a, user |-> b, item |-> c, at |-> d, read |-> e]
                               /\ b = reqs[q].user /\ e = reqs[q].read
      BY <1>1 DEF RequestShape
    <3>2. PICK p : p = [reqs[q] EXCEPT !.op = "sign"]
      OBVIOUS
    <3>3. p = [op |-> "sign", user |-> b, item |-> c, at |-> d, read |-> e]
      BY <3>1, <3>2
    <3>4. PICK p2 : p2 = [p EXCEPT !.item = s]
      OBVIOUS
    <3>5. p2 = [op |-> "sign", user |-> b, item |-> s, at |-> d, read |-> e]
      BY <3>3, <3>4
    <3>6. [p2 EXCEPT !.at = now] = [op |-> "sign", user |-> b, item |-> s, at |-> now, read |-> e]
      BY <3>5
    <3>7. [reqs[q] EXCEPT !.op = "sign", !.item = s, !.at = now] = [p2 EXCEPT !.at = now]
      BY <3>2, <3>4
    <3> QED
      BY <3>1, <3>6, <3>7
  <2>2. reqs' = [p \in Requests |-> IF p = q THEN r ELSE reqs[p]]
    BY <2>1 DEF IssueSession, AuthInvariant, Typed, RequestsShaped
  <2>3. RequestShape(r) /\ r.op = "sign"
    BY <1>1 DEF RequestShape, AuthInvariant, Typed
  <2> HIDE DEF r
  <2>4. reqs' = [p \in Requests |-> reqs'[p]] /\ reqs'[q] = r /\ \A p \in Requests : p # q => reqs'[p] = reqs[p]
    BY <2>2
  <2>5. \A p \in Requests : RequestShape(reqs'[p])
    BY <2>3, <2>4 DEF AuthInvariant, Typed, RequestsShaped
  <2> QED
    BY <2>3, <2>4, <2>5 DEF RequestsShaped, RequestShape
<1>14. Typed'
  BY <1>1, <1>11, <1>12, <1>13 DEF AuthInvariant, Typed
<1>15. HoldersExist'
  BY <1>1, <1>5, <1>11, <1>13 DEF AuthInvariant, HoldersExist
<1>16. TokensInSessions'
  <2>1. ASSUME NEW z \in Tokens, tokens'[z].session # NoOne PROVE sessions'[tokens'[z].session].user # NoOne
    BY <2>1, <1>1, <1>5, <1>9, <1>11, <1>12 DEF AuthInvariant, Typed, TokensInSessions, TokenRow
  <2>2. ASSUME NEW z \in Tokens, tokens'[z].used = 0 PROVE tokens'[z].next = NoOne
    BY <2>2, <1>9, <1>12 DEF AuthInvariant, TokensInSessions
  <2> QED
    BY <2>1, <2>2 DEF TokensInSessions
<1>17. BornCurrent'
  BY <1>1, <1>5, <1>11 DEF AuthInvariant, BornCurrent, Live
<1>18. EffectsConsume' /\ CodesWorkOnce'
  BY <1>1 DEF AuthInvariant, EffectsConsume, CodesWorkOnce
<1>19. Families!Issue(s, t)
  <2> DEFINE stateOf(z) == IF sessions[z].user = NoOne THEN "new" ELSE IF Live(z) THEN "live" ELSE "ended"
  <2>1. sessions[s].user = NoOne /\ tokens[t].session = NoOne /\ tokens[t].next = NoOne
    BY <1>1 DEF NoSession, NoToken
  <2>2. stateOf(s) = "new" /\ stateOf(s)' = "live"
    BY <2>1, <1>1, <1>5, <1>6, <1>11 DEF Live
  <2>3. \A z \in Sessions : z # s => stateOf(z)' = stateOf(z)
    BY <1>11 DEF Live
  <2>4. [z \in Sessions |-> stateOf(z)]' = [[z \in Sessions |-> stateOf(z)] EXCEPT ![s] = "live"]
    BY <2>2, <2>3
  <2>5. [z \in Tokens |-> tokens[z].session]' = [[z \in Tokens |-> tokens[z].session] EXCEPT ![t] = s]
    BY <1>9, <1>12
  <2>6. [z \in Tokens |-> tokens[z].next]' = [z \in Tokens |-> tokens[z].next]
    BY <2>1, <1>9, <1>12
  <2> QED
    BY <2>1, <2>2, <2>4, <2>5, <2>6 DEF Families!Issue
<1> QED
  BY <1>14, <1>15, <1>16, <1>17, <1>18, <1>19 DEF AuthInvariant, Families!FamiliesNext

\* rotate: an exchange, a refusal or the end of the family.
LEMMA RotateTokenKeeps ==
  ASSUME AuthInvariant, NEW q \in Requests, NEW fresh \in Tokens, RotateToken(q, fresh)
  PROVE  AuthInvariant' /\ [Families!FamiliesNext]_Families!familyVars
<1> DEFINE t == reqs[q].item
           s == tokens[t].session
<1>1. t \in Tokens /\ reqs[q].user \in Users /\ tokens[fresh] = NoToken /\ UNCHANGED <<users, codes, now>>
  BY RequestUser DEF RotateToken, ForUser, AuthInvariant, Typed, RequestsShaped, RequestShape
<1>2. CASE UNCHANGED <<sessions, tokens>> /\ Leave(q)
  BY <1>1, <1>2, LeaveKeeps DEF rowVars
<1>3. CASE RevokeFamilies({s}) /\ UNCHANGED tokens /\ Leave(q)
  BY <1>1, <1>3, OnlyRevoked
<1>4. CASE /\ TokenIdentifies(t, reqs[q].at) /\ tokens[t].used = 0
           /\ tokens' = [tokens EXCEPT
                ![t] = [@ EXCEPT !.used = 1, !.next = fresh],
                ![fresh] = [NoToken EXCEPT !.session = s, !.expires = tokens[t].expires]]
           /\ UNCHANGED sessions /\ Advance(q, "check", s)
  <2>1. s \in Sessions /\ s # NoOne /\ Live(s) /\ tokens[t] \in TokenRow
    BY <1>1, <1>4 DEF TokenIdentifies, AuthInvariant, Typed, TokenRow
  <2>2. tokens[fresh].session = NoOne /\ tokens[fresh].next = NoOne /\ fresh # t /\ fresh # NoOne
    BY <1>1, <2>1, ProjectAuthAssumption DEF NoToken
  <2>3. PICK old : old = [tokens[t] EXCEPT !.used = 1, !.next = fresh]
    OBVIOUS
  <2>4. old \in TokenRow /\ old.used = 1 /\ old.next = fresh /\ old.session = s
    BY <2>1, <2>3 DEF TokenRow
  <2>5. PICK new : new = [NoToken EXCEPT !.session = s, !.expires = tokens[t].expires]
    OBVIOUS
  <2>6. new \in TokenRow /\ new.session = s /\ new.next = NoOne
    <3>1. PICK none, at, z : none = NoToken /\ at = tokens[t].expires /\ z = s
      OBVIOUS
    <3>2. none \in TokenRow /\ none.next = NoOne /\ at \in Nat /\ z \in Sessions
      BY <3>1, <2>1 DEF NoToken, TokenRow
    <3>3. new = [none EXCEPT !.session = z, !.expires = at]
      BY <2>5, <3>1
    <3> HIDE DEF s, t
    <3>4. new \in TokenRow /\ new.session = z /\ new.next = NoOne
      BY <3>2, <3>3 DEF TokenRow
    <3> QED
      BY <3>1, <3>4
  <2>7. tokens' = [tokens EXCEPT ![t] = old, ![fresh] = new]
    BY <1>4, <2>3, <2>5
  <2>8. /\ tokens' \in [Tokens -> TokenRow] /\ tokens'[t] = old /\ tokens'[fresh] = new
        /\ \A z \in Tokens : z # t /\ z # fresh => tokens'[z] = tokens[z]
    BY <1>1, <2>2, <2>4, <2>6, <2>7 DEF AuthInvariant, Typed
  <2>9. /\ RequestsShaped'
        /\ \A p \in Requests : p # q => reqs'[p] = reqs[p]
        /\ reqs'[q].op = "check"
    BY <1>1, <1>4, AdvanceShape DEF AuthInvariant, Typed
  <2>10. Typed' /\ HoldersExist'
    BY <1>1, <1>4, <2>8, <2>9 DEF AuthInvariant, Typed, HoldersExist
  <2>11. TokensInSessions'
    <3>1. sessions[s].user # NoOne
      BY <2>1 DEF Live
    <3>2. ASSUME NEW z \in Tokens
          PROVE  /\ tokens'[z].used = 0 => tokens'[z].next = NoOne
                 /\ tokens'[z].session # NoOne => sessions[tokens'[z].session].user # NoOne
      <4> HIDE DEF s, t
      <4>1. CASE z = t
        BY <4>1, <2>4, <2>8, <3>1
      <4>2. CASE z = fresh
        BY <4>2, <2>6, <2>8, <3>1
      <4>3. CASE z # t /\ z # fresh
        BY <4>3, <2>8 DEF AuthInvariant, TokensInSessions
      <4> QED
        BY <4>1, <4>2, <4>3
    <3>3. UNCHANGED sessions
      BY <1>4
    <3> QED
      BY <3>2, <3>3 DEF TokensInSessions
  <2>12. BornCurrent' /\ EffectsConsume' /\ CodesWorkOnce'
    BY <1>1, <1>4 DEF AuthInvariant, BornCurrent, Live, EffectsConsume, CodesWorkOnce
  <2>13. Families!Rotate(t, fresh)
    <3> DEFINE stateOf(z) == IF sessions[z].user = NoOne THEN "new" ELSE IF Live(z) THEN "live" ELSE "ended"
    <3>1. stateOf(s) = "live"
      BY <2>1 DEF Live
    <3>2. tokens[t].next = NoOne
      BY <1>1, <1>4 DEF AuthInvariant, TokensInSessions
    <3>3. [z \in Sessions |-> stateOf(z)]' = [z \in Sessions |-> stateOf(z)]
      BY <1>4 DEF Live
    <3>4. [z \in Tokens |-> tokens[z].session]' = [[z \in Tokens |-> tokens[z].session] EXCEPT ![fresh] = s]
      BY <1>1, <2>4, <2>6, <2>8
    <3>5. [z \in Tokens |-> tokens[z].next]' = [[z \in Tokens |-> tokens[z].next] EXCEPT ![t] = fresh]
      BY <1>1, <2>2, <2>4, <2>6, <2>8
    <3> QED
      BY <1>1, <2>1, <2>2, <3>1, <3>2, <3>3, <3>4, <3>5 DEF Families!Rotate
  <2> QED
    BY <1>1, <2>10, <2>11, <2>12, <2>13 DEF AuthInvariant, Families!FamiliesNext
<1>5. tokens[t].used \in {0, 1}
  BY <1>1 DEF AuthInvariant, Typed, TokenRow
<1> QED
  BY <1>2, <1>3, <1>4 DEF RotateToken

\* The steps that end one session, and the clock.
LEMMA EndingsKeep ==
  ASSUME AuthInvariant, NEW q \in Requests,
         SigningFails(q) \/ CheckAccount(q) \/ CommitSignOut(q) \/ CommitRevocation(q)
  PROVE  AuthInvariant' /\ [Families!FamiliesNext]_Families!familyVars
<1>1. CASE SigningFails(q)
  BY <1>1, OnlyRevoked DEF SigningFails
<1>2. CASE CommitSignOut(q)
  BY <1>2, OnlyRevoked DEF CommitSignOut
<1>3. CASE CommitRevocation(q)
  BY <1>3, OnlyRevoked DEF CommitRevocation
<1>4. CASE CheckAccount(q)
  <2>1. reqs[q].user \in Users /\ UNCHANGED <<users, tokens, codes, now>>
    BY <1>4, RequestUser DEF CheckAccount, ForUser
  <2>2. CASE Advance(q, "sign", reqs[q].item) /\ UNCHANGED sessions
    BY <2>1, <2>2, AdvanceKeeps DEF rowVars
  <2>3. CASE RevokeFamilies({reqs[q].item}) /\ Leave(q)
    BY <2>1, <2>3, OnlyRevoked
  <2> QED
    BY <1>4, <2>2, <2>3 DEF CheckAccount
<1> QED
  BY <1>1, <1>2, <1>3, <1>4

-----------------------------------------------------------------------------
(* The theorems.                                                             *)

\* The tables begin empty, and an empty database satisfies the invariant.
LEMMA InitHolds ==
  ASSUME AuthInit
  PROVE  AuthInvariant /\ Families!FamiliesInit
<1>1. users \in [Users -> UserRow]
  BY DEF AuthInit, NoUser, UserRow
<1>2. sessions \in [Sessions -> SessionRow] /\ tokens \in [Tokens -> TokenRow] /\ codes \in [Codes -> CodeRow]
  BY DEF AuthInit, NoTraffic, NoSession, SessionRow, NoToken, TokenRow, NoCode, CodeRow
<1>3. RequestsShaped /\ now \in Nat
  BY DEF AuthInit, NoTraffic, Quiet, RequestsShaped, RequestShape, ForUser
<1>4. HoldersExist /\ TokensInSessions /\ EffectsConsume
  BY DEF AuthInit, NoTraffic, NoSession, NoToken, NoCode, Quiet, HoldersExist, TokensInSessions, EffectsConsume
<1>5. BornCurrent /\ CodesWorkOnce
  BY DEF AuthInit, NoTraffic, NoSession, NoCode, BornCurrent, CodesWorkOnce, Live
<1>6. Families!FamiliesInit
  BY DEF AuthInit, NoTraffic, NoSession, NoToken, Families!FamiliesInit
<1> QED
  BY <1>1, <1>2, <1>3, <1>4, <1>5, <1>6 DEF AuthInvariant, Typed

\* Every step keeps the invariant and is a step of the abstract families or
\* none.
LEMMA StepHolds ==
  ASSUME AuthInvariant, [AuthNext]_authVars
  PROVE  AuthInvariant' /\ [Families!FamiliesNext]_Families!familyVars
<1> DEFINE Good == AuthInvariant' /\ [Families!FamiliesNext]_Families!familyVars
<1>1. CASE UNCHANGED authVars \/ Second
  <2>1. UNCHANGED <<rowVars, reqs>> /\ now' \in Nat
    BY <1>1 DEF authVars, rowVars, Second, AuthInvariant, Typed
  <2>2. RequestsShaped' /\ \A q \in Requests : reqs'[q].op = "sign_in" => users[reqs'[q].user].status # "none"
    BY <2>1 DEF AuthInvariant, Typed, HoldersExist, RequestsShaped
  <2> QED
    BY <2>1, <2>2, RowsKept
<1>2. ASSUME NEW u \in Users, NEW off \in BOOLEAN, SetUserDisabled(u, off) PROVE Good
  BY <1>2, DisableKeeps
<1>3. ASSUME NEW q \in Requests,
             \/ \E u \in Users : Register(q, u) \/ PasswordResetStart(q, u) \/ SignIn(q, u)
             \/ \E c \in Codes : IssueCode(q, c) \/ VerifyEmail(q, c) \/ PasswordResetComplete(q, c)
             \/ RegisterNew(q) \/ RegisterKnown(q) \/ CommitVerification(q) \/ CommitReset(q)
             \/ \E s \in Sessions, t \in Tokens : IssueSession(q, s, t)
             \/ SignAccess(q) \/ SigningFails(q)
             \/ \E t \in Tokens : Refresh(q, t) \/ RotateToken(q, t) \/ SignOut(q, t)
             \/ CheckAccount(q) \/ CommitSignOut(q) \/ CommitRevocation(q)
             \/ \E a \in Sessions : ChangePassword(q, a) \/ \E s \in Sessions : RevokeSession(q, a, s)
             \/ \E field \in DOMAIN settings : UpdateSettings(q, field)
             \/ CommitSettings(q)
             \/ CheckCurrentPassword(q) \/ SetPassword(q)
             \/ RequestStops(q)
      PROVE  Good
  <2>1. CASE \/ \E u \in Users : Register(q, u) \/ PasswordResetStart(q, u) \/ SignIn(q, u)
             \/ \E c \in Codes : VerifyEmail(q, c) \/ PasswordResetComplete(q, c)
             \/ \E t \in Tokens : Refresh(q, t) \/ SignOut(q, t)
             \/ \E a \in Sessions : ChangePassword(q, a) \/ \E s \in Sessions : RevokeSession(q, a, s)
             \/ \E field \in DOMAIN settings : UpdateSettings(q, field)
             \/ RegisterKnown(q) \/ SignAccess(q) \/ CheckCurrentPassword(q) \/ CommitSettings(q)
             \/ RequestStops(q)
    BY <2>1, HandlersKeep
  <2>2. CASE RegisterNew(q) \/ CommitVerification(q) \/ \E c \in Codes : IssueCode(q, c)
    BY <2>2, RegisterNewKeeps, CommitVerificationKeeps, IssueCodeKeeps
  <2>3. CASE CommitReset(q) \/ SetPassword(q)
    BY <2>3, PasswordKeeps
  <2>4. CASE \/ \E s \in Sessions, t \in Tokens : IssueSession(q, s, t)
             \/ \E t \in Tokens : RotateToken(q, t)
    BY <2>4, IssueSessionKeeps, RotateTokenKeeps
  <2>5. CASE SigningFails(q) \/ CheckAccount(q) \/ CommitSignOut(q) \/ CommitRevocation(q)
    BY <2>5, EndingsKeep
  <2> QED
    BY <1>3, <2>1, <2>2, <2>3, <2>4, <2>5
<1> QED
  BY <1>1, <1>2, <1>3 DEF AuthNext

\* A session and a sign-in under way know the password that was checked; the one
\* the user has when the session is inserted, or has now, is that one or a later.
ChecksPrecede ==
  /\ \A s \in Sessions : sessions[s].checked <= sessions[s].born
  /\ \A q \in Requests : reqs[q].op = "sign_in" => reqs[q].item <= users[reqs[q].user].password

\* It stays so when sessions keep their history, passwords only move on and no
\* sign-in begins.
LEMMA ChecksKept ==
  ASSUME AuthInvariant, ChecksPrecede, Typed',
         \A s \in Sessions : sessions'[s].checked = sessions[s].checked /\ sessions'[s].born = sessions[s].born,
         \A u \in Users : users[u].status # "none" => users'[u].password >= users[u].password,
         \A q \in Requests : reqs'[q].op = "sign_in" => reqs'[q] = reqs[q]
  PROVE  ChecksPrecede'
<1>1. \A s \in Sessions : sessions'[s].checked <= sessions'[s].born
  BY DEF ChecksPrecede
<1>2. ASSUME NEW q \in Requests, reqs'[q].op = "sign_in"
      PROVE  reqs'[q].item <= users'[reqs'[q].user].password
  <2>1. reqs'[q] = reqs[q] /\ reqs[q].op = "sign_in"
    BY <1>2
  <2>2. reqs[q].user \in Users /\ users[reqs[q].user].status # "none" /\ reqs[q].item \in Nat
    BY <2>1, RequestUser DEF ForUser, AuthInvariant, HoldersExist, Typed, RequestsShaped, RequestShape
  <2>3. PICK u \in Users : u = reqs[q].user
    BY <2>2
  <2>4. users[u].password \in Nat /\ users'[u].password \in Nat
    BY DEF AuthInvariant, Typed, UserRow
  <2>5. reqs[q].item <= users[u].password /\ users'[u].password >= users[u].password
    BY <2>1, <2>2, <2>3 DEF ChecksPrecede
  <2>6. reqs[q].item <= users'[u].password
    BY <2>2, <2>4, <2>5
  <2> QED
    BY <2>1, <2>3, <2>6
<1> QED
  BY <1>1, <1>2 DEF ChecksPrecede

\* No request but a sign-in is one afterwards.
LEMMA NoSignInBegins ==
  ASSUME AuthInvariant, NEW q \in Requests,
         \/ Leave(q)
         \/ \E op, item : Advance(q, op, item) /\ op \in ForUser /\ reqs[q].op \in ForUser
                          /\ op \notin {"refresh", "verify", "complete", "sign_in"}
  PROVE  \A p \in Requests : reqs'[p].op = "sign_in" => reqs'[p] = reqs[p]
<1>1. CASE Leave(q)
  BY <1>1, LeaveShape DEF AuthInvariant, Typed
<1>2. ASSUME NEW op, NEW item, Advance(q, op, item), op \in ForUser, reqs[q].op \in ForUser,
             op \notin {"refresh", "verify", "complete", "sign_in"}
      PROVE  \A p \in Requests : reqs'[p].op = "sign_in" => reqs'[p] = reqs[p]
  BY <1>2, AdvanceShape, RequestUser DEF AuthInvariant, Typed
<1> QED
  BY <1>1, <1>2

\* A new password is a later one.
LEMMA PasswordMovesOn ==
  ASSUME AuthInvariant, NEW u \in Users, NEW at, NewPassword(u, at)
  PROVE  \A v \in Users : users'[v].password >= users[v].password
<1>1. users \in [Users -> UserRow]
  BY DEF AuthInvariant, Typed
<1>2. PICK n : n = users[u].password
  OBVIOUS
<1>3. n \in Nat /\ n + 1 >= n
  BY <1>1, <1>2 DEF UserRow
<1>4. users'[u].password = n + 1
  BY <1>1, <1>2 DEF NewPassword, UserRow
<1>5. \A v \in Users : v # u => users'[v] = users[v]
  BY <1>1 DEF NewPassword
<1>6. ASSUME NEW v \in Users PROVE users'[v].password >= users[v].password
  <2>1. CASE v = u
    BY <2>1, <1>2, <1>3, <1>4
  <2>2. CASE v # u
    <3>1. users[v].password \in Nat
      BY <1>1 DEF UserRow
    <3> QED
      BY <2>2, <3>1, <1>5
  <2> QED
    BY <2>1, <2>2
<1> QED
  BY <1>6

\* Every step keeps the order of the passwords.
LEMMA ChecksStep ==
  ASSUME AuthInvariant, ChecksPrecede, [AuthNext]_authVars
  PROVE  ChecksPrecede'
<1> DEFINE Histories == \A s \in Sessions : /\ sessions'[s].checked = sessions[s].checked
                                            /\ sessions'[s].born = sessions[s].born
           Onward == \A u \in Users : users[u].status # "none" => users'[u].password >= users[u].password
           NoneBegins == \A p \in Requests : reqs'[p].op = "sign_in" => reqs'[p] = reqs[p]
<1>0. AuthInvariant' /\ Typed' /\ Typed
  BY StepHolds DEF AuthInvariant
<1>a. UNCHANGED users => Onward
  <2>1. \A u \in Users : users[u].password \in Nat
    BY <1>0 DEF Typed, UserRow
  <2>2. \A n \in Nat : n >= n
    OBVIOUS
  <2> QED
    BY <2>1, <2>2
<1>b. UNCHANGED sessions => Histories
  OBVIOUS
<1>c. (\E ss : RevokeFamilies(ss)) => Histories
  BY <1>0, RevokeFacts DEF Typed
<1>1. CASE UNCHANGED authVars \/ Second
  BY <1>1, <1>0, <1>a, <1>b, ChecksKept DEF authVars, rowVars, Second
<1>2. ASSUME NEW u \in Users, NEW off \in BOOLEAN, SetUserDisabled(u, off) PROVE ChecksPrecede'
  <2>1. Histories
    BY <1>2, <1>b, <1>c DEF SetUserDisabled, DisableRow, RevokeUserSessions
  <2>2. Onward
    <3>1. PICK status, late : users' = [users EXCEPT ![u].status = status, ![u].changed = late]
      BY <1>2 DEF SetUserDisabled, DisableRow
    <3>2. \A v \in Users : users'[v].password = users[v].password /\ users[v].password \in Nat
      BY <1>0, <3>1 DEF Typed, UserRow
    <3>3. \A n \in Nat : n >= n
      OBVIOUS
    <3> QED
      BY <3>2, <3>3
  <2> QED
    BY <1>2, <2>1, <2>2, <1>0, ChecksKept DEF SetUserDisabled
<1>3. ASSUME NEW q \in Requests, NEW u \in Users, SignIn(q, u) PROVE ChecksPrecede'
  <2>1. \A p \in Requests : p # q => reqs'[p] = reqs[p]
    <3>1. \E r : reqs' = [reqs EXCEPT ![q] = r]
      BY <1>3 DEF SignIn, Enter
    <3> QED
      BY <3>1, <1>0 DEF Typed, RequestsShaped
  <2>2. reqs'[q].user = u /\ reqs'[q].item = users[u].password
    <3>1. PICK r : /\ r = [op |-> "sign_in", user |-> u, item |-> users[u].password, at |-> now, read |-> settings]
                   /\ reqs' = [reqs EXCEPT ![q] = r]
      BY <1>3 DEF SignIn, Enter
    <3>2. reqs'[q] = r
      BY <3>1, <1>0 DEF Typed, RequestsShaped
    <3> QED
      BY <3>1, <3>2
  <2>3. UNCHANGED <<users, sessions>> /\ users[u].password \in Nat
    BY <1>3, <1>0 DEF SignIn, rowVars, Typed, UserRow
  <2>4. \A n \in Nat : n <= n
    OBVIOUS
  <2>5. reqs'[q].item <= users'[reqs'[q].user].password
    BY <2>2, <2>3, <2>4
  <2>6. \A p \in Requests : p # q /\ reqs'[p].op = "sign_in" => reqs'[p].item <= users'[reqs'[p].user].password
    BY <2>1, <2>3 DEF ChecksPrecede
  <2> QED
    BY <2>3, <2>5, <2>6 DEF ChecksPrecede
<1>4. ASSUME NEW q \in Requests, NEW s \in Sessions, NEW t \in Tokens, IssueSession(q, s, t) PROVE ChecksPrecede'
  <2>1. PICK row : /\ row = [NoSession EXCEPT !.user = reqs[q].user, !.expires = now + SessionTtl,
                               !.checked = reqs[q].item, !.born = users[reqs[q].user].password]
                   /\ sessions' = [sessions EXCEPT ![s] = row]
    BY <1>4 DEF IssueSession
  <2>2. row.checked = reqs[q].item /\ row.born = users[reqs[q].user].password
    BY <2>1 DEF NoSession
  <2>3. sessions'[s] = row /\ \A z \in Sessions : z # s => sessions'[z] = sessions[z]
    BY <2>1, <1>0 DEF Typed
  <2>4. \A z \in Sessions : sessions'[z].checked <= sessions'[z].born
    BY <2>2, <2>3, <1>4 DEF ChecksPrecede, IssueSession
  <2>5. \A p \in Requests : reqs'[p].op = "sign_in" => reqs'[p] = reqs[p]
    <3>1. PICK r : r = [reqs[q] EXCEPT !.op = "sign", !.item = s, !.at = now] /\ reqs' = [reqs EXCEPT ![q] = r]
      BY <1>4 DEF IssueSession
    <3>2. reqs'[q] = r /\ \A p \in Requests : p # q => reqs'[p] = reqs[p]
      BY <3>1, <1>0 DEF Typed, RequestsShaped
    <3>3. PICK a, b, c, d, e : reqs[q] = [op |-> a, user |-> b, item |-> c, at |-> d, read |-> e]
      BY <1>0 DEF Typed, RequestsShaped, RequestShape
    <3>4. r.op = "sign"
      BY <3>1, <3>3
    <3> QED
      BY <3>2, <3>4
  <2>6. UNCHANGED users
    BY <1>4 DEF IssueSession
  <2> QED
    BY <2>4, <2>5, <2>6 DEF ChecksPrecede
<1>5. ASSUME NEW q \in Requests, CommitReset(q) \/ SetPassword(q) PROVE ChecksPrecede'
  <2>1. reqs[q].op \in ForUser /\ Leave(q)
    BY <1>5 DEF CommitReset, SetPassword, ForUser
  <2>2. Histories
    BY <1>5, <1>b, <1>c DEF CommitReset, SetPassword, RevokeUserSessions
  <2>3. Onward
    BY <1>5, <2>1, <1>a, RequestUser, PasswordMovesOn DEF CommitReset, SetPassword
  <2> QED
    BY <1>0, <2>1, <2>2, <2>3, NoSignInBegins, ChecksKept
<1>6. ASSUME NEW q \in Requests, RegisterNew(q) PROVE ChecksPrecede'
  <2>1. reqs[q].op \in ForUser /\ users[reqs[q].user].status = "none"
    BY <1>6 DEF RegisterNew, ForUser
  <2>2. Onward
    <3>1. \A v \in Users : v # reqs[q].user => users'[v] = users[v] /\ users[v].password \in Nat
      BY <1>6, <1>0 DEF RegisterNew, InsertUser, Typed, UserRow
    <3>2. \A n \in Nat : n >= n
      OBVIOUS
    <3> QED
      BY <2>1, <3>1, <3>2
  <2>3. NoneBegins
    BY <1>6, <2>1, NoSignInBegins DEF RegisterNew, SendVerification, ForUser
  <2> QED
    BY <1>6, <1>0, <1>b, <2>2, <2>3, ChecksKept DEF RegisterNew
<1>7. ASSUME NEW q \in Requests, CommitVerification(q) PROVE ChecksPrecede'
  <2>1. reqs[q].op \in ForUser /\ Leave(q) /\ reqs[q].user \in Users
    BY <1>7, RequestUser DEF CommitVerification, ForUser
  <2>2. Onward
    <3>1. CASE users' = [users EXCEPT ![reqs[q].user].verified = 1]
      <4>1. \A v \in Users : users'[v].password = users[v].password /\ users[v].password \in Nat
        BY <3>1, <2>1, <1>0 DEF Typed, UserRow
      <4>2. \A n \in Nat : n >= n
        OBVIOUS
      <4> QED
        BY <4>1, <4>2
    <3> QED
      BY <1>7, <1>a, <3>1 DEF CommitVerification
  <2> QED
    BY <1>7, <1>0, <1>b, <2>1, <2>2, NoSignInBegins, ChecksKept DEF CommitVerification
<1>8. ASSUME NEW q \in Requests, UNCHANGED users, NoneBegins,
             UNCHANGED sessions \/ \E ss : RevokeFamilies(ss)
      PROVE  ChecksPrecede'
  BY <1>8, <1>0, <1>a, <1>b, <1>c, ChecksKept
<1>9. ASSUME NEW q \in Requests, NEW op, NEW user, NEW item, Enter(q, op, user, item), op # "sign_in"
      PROVE  NoneBegins
  <2>1. PICK r : /\ r = [op |-> op, user |-> user, item |-> item, at |-> now, read |-> settings]
                 /\ reqs' = [reqs EXCEPT ![q] = r]
    BY <1>9 DEF Enter
  <2>2. reqs'[q] = r /\ r.op = op /\ \A p \in Requests : p # q => reqs'[p] = reqs[p]
    BY <2>1, <1>0 DEF Typed, RequestsShaped
  <2> QED
    BY <1>9, <2>2
<1>10. ASSUME NEW q \in Requests,
             \/ \E u \in Users : Register(q, u) \/ PasswordResetStart(q, u)
             \/ \E c \in Codes : VerifyEmail(q, c) \/ PasswordResetComplete(q, c)
             \/ \E t \in Tokens : Refresh(q, t) \/ SignOut(q, t)
             \/ \E a \in Sessions : ChangePassword(q, a) \/ \E s \in Sessions : RevokeSession(q, a, s)
             \/ \E field \in DOMAIN settings : UpdateSettings(q, field)
      PROVE  ChecksPrecede'
  <2>1. UNCHANGED <<users, sessions>>
    BY <1>10 DEF Register, PasswordResetStart, VerifyEmail, PasswordResetComplete, Refresh, SignOut,
                 ChangePassword, RevokeSession, UpdateSettings, rowVars
  <2>2. \E op, user, item : Enter(q, op, user, item) /\ op # "sign_in"
    BY <1>10 DEF Register, PasswordResetStart, VerifyEmail, PasswordResetComplete, Refresh, SignOut,
                 ChangePassword, RevokeSession, UpdateSettings
  <2> QED
    BY <2>1, <2>2, <1>8, <1>9
<1>11. ASSUME NEW q \in Requests,
             \/ RegisterKnown(q) \/ SignAccess(q) \/ CheckCurrentPassword(q) \/ CommitSettings(q)
             \/ RequestStops(q) \/ SigningFails(q) \/ CheckAccount(q) \/ CommitSignOut(q) \/ CommitRevocation(q)
             \/ \E c \in Codes : IssueCode(q, c)
             \/ \E t \in Tokens : RotateToken(q, t)
      PROVE  ChecksPrecede'
  <2>1. UNCHANGED users /\ (UNCHANGED sessions \/ \E ss : RevokeFamilies(ss))
    BY <1>11 DEF RegisterKnown, SignAccess, CheckCurrentPassword, CommitSettings, RequestStops, SigningFails,
                 CheckAccount, CommitSignOut, CommitRevocation, IssueCode, RotateToken, rowVars
  <2>2. CASE \/ SignAccess(q) \/ CommitSettings(q) \/ RequestStops(q) \/ SigningFails(q) \/ CommitSignOut(q)
             \/ CommitRevocation(q) \/ \E c \in Codes : IssueCode(q, c)
    <3>1. Leave(q)
      BY <2>2 DEF SignAccess, CommitSettings, RequestStops, SigningFails, CommitSignOut, CommitRevocation, IssueCode
    <3> QED
      BY <3>1, <2>1, <1>8, NoSignInBegins
  <2>3. CASE RegisterKnown(q) \/ CheckCurrentPassword(q) \/ CheckAccount(q) \/ \E t \in Tokens : RotateToken(q, t)
    <3>1. \/ Leave(q)
          \/ \E op, item : Advance(q, op, item) /\ op \in ForUser /\ reqs[q].op \in ForUser
                           /\ op \notin {"refresh", "verify", "complete", "sign_in"}
      <4>1. reqs[q].op \in ForUser
        BY <2>3 DEF RegisterKnown, CheckCurrentPassword, CheckAccount, RotateToken, ForUser
      <4>2. \/ Leave(q)
            \/ \E item : \/ Advance(q, "verification", item) \/ Advance(q, "set_password", item)
                         \/ Advance(q, "sign", item) \/ Advance(q, "check", item)
        BY <2>3 DEF RegisterKnown, SendVerification, CheckCurrentPassword, CheckAccount, RotateToken
      <4>3. ASSUME NEW op \in {"verification", "set_password", "sign", "check"}
            PROVE  op \in ForUser /\ op \notin {"refresh", "verify", "complete", "sign_in"}
        BY DEF ForUser
      <4> QED
        BY <4>1, <4>2, <4>3
    <3> QED
      BY <3>1, <2>1, <1>8, NoSignInBegins
  <2> QED
    BY <1>11, <2>2, <2>3
<1> QED
  BY <1>1, <1>2, <1>3, <1>4, <1>5, <1>6, <1>7, <1>10, <1>11 DEF AuthNext

\* What the two say of a live session together.
LEMMA SessionsFollow ==
  ASSUME AuthInvariant, ChecksPrecede
  PROVE  SessionsFollowPassword
<1>1. ASSUME NEW s \in Sessions, Live(s)
      PROVE  LET current == users[sessions[s].user].password
             IN sessions[s].checked = current \/ (Overtaken(s) /\ sessions[s].born = current)
  <2>1. sessions[s].born = users[sessions[s].user].password /\ sessions[s].checked <= sessions[s].born
    BY <1>1 DEF AuthInvariant, BornCurrent, ChecksPrecede
  <2>2. sessions[s].checked \in Nat /\ sessions[s].born \in Nat
    BY DEF AuthInvariant, Typed, SessionRow
  <2>3. sessions[s].checked = sessions[s].born \/ sessions[s].checked < sessions[s].born
    BY <2>1, <2>2
  <2> QED
    BY <2>1, <2>3 DEF Overtaken
<1> QED
  BY <1>1 DEF SessionsFollowPassword

\* An empty database has no session to compare.
LEMMA ChecksStart ==
  ASSUME AuthInit
  PROVE  ChecksPrecede
<1>1. 0 <= 0
  OBVIOUS
<1> QED
  BY <1>1 DEF AuthInit, NoTraffic, NoSession, Quiet, ChecksPrecede

\* The refresh tokens and sessions in PostgreSQL, written by handlers whose
\* transactions interleave, implement the store under one mutex: one token of a
\* session can be exchanged, and an ended session never comes back (rotate,
\* revoke_family, issue_session_with_ttl).
THEOREM TablesImplementFamilies == AuthSpec => ImplementsFamilies
<1>1. AuthInit => AuthInvariant /\ Families!FamiliesInit
  BY InitHolds
<1>2. AuthInvariant /\ [AuthNext]_authVars => AuthInvariant' /\ [Families!FamiliesNext]_Families!familyVars
  BY StepHolds
<1> QED
  BY <1>1, <1>2, PTL DEF AuthSpec, ImplementsFamilies, Families!FamiliesSpec

\* A session that can be refreshed rests on the present password of its user,
\* unless the change overtook its sign-in between the check and the insertion,
\* and a one-time code has its effect once, however the requests interleave
\* (reset_password_for_project, set_password, sign_in, issue_session_with_ttl,
\* issue, lock_one_time_token).
THEOREM CredentialsHold == AuthSpec => [](SessionsFollowPassword /\ CodesWorkOnce)
<1>1. AuthInit => AuthInvariant /\ ChecksPrecede
  BY InitHolds, ChecksStart
<1>2. AuthInvariant /\ ChecksPrecede /\ [AuthNext]_authVars => (AuthInvariant /\ ChecksPrecede)'
  BY StepHolds, ChecksStep
<1>3. AuthInvariant /\ ChecksPrecede => SessionsFollowPassword /\ CodesWorkOnce
  BY SessionsFollow DEF AuthInvariant
<1> QED
  BY <1>1, <1>2, <1>3, PTL DEF AuthSpec

\* What the families promise holds of the tables: two devices that present one
\* token, or replay an old one, never leave a session with two tokens that can
\* be exchanged (rotate).
THEOREM OneTokenPerSession == AuthSpec => [](Families!OneCurrentToken /\ Families!ChainsAreLinear)
<1>1. NoOne \notin Sessions /\ NoOne \notin Tokens
  BY ProjectAuthAssumption
<1>2. Families!FamiliesSpec => [](Families!OneCurrentToken /\ Families!ChainsAreLinear)
  BY <1>1, Families!OneTokenPerSession
<1> QED
  BY <1>2, TablesImplementFamilies DEF ImplementsFamilies

-----------------------------------------------------------------------------
(* Signing keys. The bound on a key's last day is fixed when a rotation      *)
(* starts, the tokens it must cover are signed until it commits and later:   *)
(* the invariant relates the two through the clock.                          *)

KeyRow == [status : {"none", "active", "grace"}, from : Nat, until : Nat]

KeysTyped ==
  /\ keys \in [Kids -> KeyRow]
  /\ signing \in [Signers -> [iat : Nat, kids : SUBSET Kids]]
  /\ rotation \in Nat /\ jwts \in [Kids -> Nat] /\ keyClock \in Nat \ {0}

\* A time that was read is not ahead of the clock, and a rotation is not older
\* than the tolerance.
ReadBefore ==
  /\ \A q \in Signers : signing[q].iat <= keyClock
  /\ \A k \in Kids : keys[k].from <= keyClock /\ jwts[k] <= keyClock
  /\ rotation <= keyClock /\ (rotation # 0 => keyClock <= rotation + Skew)

\* The key with which a token was, or is about to be, issued at a time.
Covers(k, iat) ==
  /\ keys[k].status # "none"
  /\ keys[k].status = "grace" => iat + JwtTtl <= keys[k].until + Skew
  /\ keys[k].status = "active" => keys[k].until = 0

TokensCovered ==
  /\ \A k \in Kids : jwts[k] # 0 => Covers(k, jwts[k])
  /\ \A q \in Signers, k \in Kids : k \in signing[q].kids => Covers(k, signing[q].iat)
  /\ \A k \in Kids : keys[k].status = "active" => keys[k].until = 0
  /\ \A k \in Kids : keys[k].status = "none" => keys[k] = NoKey

OneActive ==
  /\ \A k, l \in Kids : keys[k].status = "active" /\ keys[l].status = "active" => k = l
  /\ \A k \in Kids : keys[k] # NoKey => \E l \in Kids : keys[l].status = "active"

KeysInvariant == KeysTyped /\ ReadBefore /\ TokensCovered /\ OneActive

\* A key for a new kid in a table of keys.
LEMMA InsertFacts ==
  ASSUME NEW table \in [Kids -> KeyRow], NEW k \in Kids, NEW at \in Nat
  PROVE  /\ InsertKey(table, k, at) \in [Kids -> KeyRow]
         /\ \A l \in Kids : l # k => InsertKey(table, k, at)[l] = table[l]
         /\ InsertKey(table, k, at)[k] = [status |-> "active", from |-> at, until |-> 0]
BY DEF InsertKey, KeyRow

\* The keys that a rotation retires stay long enough.
LEMMA RetireFacts ==
  ASSUME KeysInvariant, NEW at \in Nat
  PROVE  /\ Retire(at) \in [Kids -> KeyRow]
         /\ \A k \in Kids :
              /\ keys[k].status # "active" => Retire(at)[k] = keys[k]
              /\ keys[k].status = "active" => /\ Retire(at)[k].status = "grace"
                                              /\ Retire(at)[k].from = keys[k].from
                                              /\ Retire(at)[k].until >= at + Grace
<1>0. Grace \in Nat
  BY SigningKeysAssumption
<1>1. ASSUME NEW k \in Kids
      PROVE  /\ Retire(at)[k] \in KeyRow
             /\ keys[k].status # "active" => Retire(at)[k] = keys[k]
             /\ keys[k].status = "active" => /\ Retire(at)[k].status = "grace"
                                             /\ Retire(at)[k].from = keys[k].from
                                             /\ Retire(at)[k].until >= at + Grace
  <2>1. keys[k] \in KeyRow
    BY DEF KeysInvariant, KeysTyped
  <2>2. PICK end : end = IF at + Grace > keys[k].from THEN at + Grace ELSE keys[k].from + 1
    OBVIOUS
  <2>3. end \in Nat /\ end >= at + Grace
    BY <1>0, <2>1, <2>2 DEF KeyRow
  <2>4. CASE keys[k].status = "active"
    <3>1. Retire(at)[k] = [keys[k] EXCEPT !.status = "grace", !.until = end]
      BY <2>2, <2>4 DEF Retire
    <3> QED
      BY <2>1, <2>3, <2>4, <3>1 DEF KeyRow
  <2>5. CASE keys[k].status # "active"
    BY <2>1, <2>5 DEF Retire
  <2> QED
    BY <2>4, <2>5
<1>2. Retire(at) = [k \in Kids |-> Retire(at)[k]]
  BY DEF Retire
<1> QED
  BY <1>1, <1>2

\* No key, no token.
LEMMA KeysStart ==
  ASSUME KeysInit
  PROVE  KeysInvariant
<1>1. KeysTyped
  BY DEF KeysInit, KeysTyped, KeyRow, NoKey, NotSigning
<1>2. ReadBefore /\ TokensCovered /\ OneActive
  BY DEF KeysInit, ReadBefore, TokensCovered, OneActive, NoKey, NotSigning
<1> QED
  BY <1>1, <1>2 DEF KeysInvariant

\* Every step of the signing keys, their verifiers and the clock keeps the invariant.
LEMMA KeysStep ==
  ASSUME KeysInvariant, [KeysNext]_keyVars
  PROVE  KeysInvariant'
<1>0. JwtTtl \in Nat /\ Grace \in Nat /\ Skew \in Nat /\ JwtTtl <= Grace
  BY SigningKeysAssumption
<1>1. ASSUME NEW k \in Kids, BootstrapKey(k)
      PROVE  KeysInvariant'
  <2>1. /\ keys' \in [Kids -> KeyRow]
        /\ \A l \in Kids : l # k => keys'[l] = keys[l]
        /\ keys'[k] = [status |-> "active", from |-> keyClock, until |-> 0]
    BY <1>1, InsertFacts DEF BootstrapKey, KeysInvariant, KeysTyped
  <2>2. /\ UNCHANGED <<signing, rotation, jwts, keyClock>>
        /\ \A l \in Kids : keys[l] = NoKey
    BY <1>1 DEF BootstrapKey, KeysInvariant, OneActive
  <2>3. KeysTyped'
    BY <2>1, <2>2 DEF KeysInvariant, KeysTyped
  <2>4. ReadBefore'
    BY <2>1, <2>2 DEF KeysInvariant, KeysTyped, ReadBefore
  <2>5. \A l \in Kids : jwts[l] = 0 /\ \A q \in Signers : l \notin signing[q].kids
    BY <2>2 DEF KeysInvariant, TokensCovered, Covers, NoKey
  <2>6. TokensCovered'
    BY <2>1, <2>2, <2>5 DEF TokensCovered, NoKey
  <2>7. OneActive'
    BY <2>1, <2>2 DEF OneActive, NoKey
  <2> QED
    BY <2>3, <2>4, <2>6, <2>7 DEF KeysInvariant
<1>2. ASSUME NEW k \in Kids, CommitRotation(k)
      PROVE  KeysInvariant'
  <2>0. rotation \in Nat /\ rotation # 0 /\ keys[k] = NoKey
    BY <1>2 DEF CommitRotation, KeysInvariant, KeysTyped
  <2> DEFINE table == Retire(rotation)
  <2>1. /\ table \in [Kids -> KeyRow]
        /\ \A l \in Kids :
              /\ keys[l].status # "active" => table[l] = keys[l]
              /\ keys[l].status = "active" => /\ table[l].status = "grace"
                                              /\ table[l].from = keys[l].from
                                              /\ table[l].until >= rotation + Grace
    BY <2>0, RetireFacts
  <2>2. keys' = InsertKey(table, k, rotation)
    BY <1>2 DEF CommitRotation
  <2> HIDE DEF table
  <2>3. /\ keys' \in [Kids -> KeyRow]
        /\ \A l \in Kids : l # k => keys'[l] = table[l]
        /\ keys'[k] = [status |-> "active", from |-> rotation, until |-> 0]
    BY <2>0, <2>1, <2>2, InsertFacts
  <2>4. UNCHANGED <<signing, jwts, keyClock>> /\ rotation' = 0
    BY <1>2 DEF CommitRotation
  <2>5. KeysTyped'
    BY <2>3, <2>4 DEF KeysInvariant, KeysTyped
  <2>6. ReadBefore'
    <3>1. ASSUME NEW l \in Kids PROVE keys'[l].from <= keyClock
      BY <2>1, <2>3 DEF KeysInvariant, ReadBefore
    <3> QED
      BY <2>4, <3>1 DEF KeysInvariant, KeysTyped, ReadBefore
  <2>7. ASSUME NEW l \in Kids, NEW iat \in Nat, iat <= keyClock, Covers(l, iat)
        PROVE  Covers(l, iat)'
    <3>1. l # k /\ keys'[l] = table[l] /\ table[l] \in KeyRow
      BY <2>0, <2>1, <2>3, <2>7 DEF Covers, NoKey
    <3>2. CASE keys[l].status = "active"
      <4>1. table[l].status = "grace" /\ table[l].until >= rotation + Grace
        BY <2>1, <3>2
      <4>2. keyClock <= rotation + Skew /\ keyClock \in Nat
        BY <2>0 DEF KeysInvariant, KeysTyped, ReadBefore
      <4>3. table[l].until \in Nat
        BY <3>1 DEF KeyRow
      <4>4. iat + JwtTtl <= table[l].until + Skew
        BY <1>0, <2>0, <2>7, <4>1, <4>2, <4>3
      <4> QED
        BY <3>1, <4>1, <4>4 DEF Covers
    <3>3. CASE keys[l].status # "active"
      BY <2>1, <2>7, <3>1, <3>3 DEF Covers
    <3> QED
      BY <3>2, <3>3
  <2>8. TokensCovered'
    <3>1. ASSUME NEW l \in Kids, jwts[l] # 0 PROVE Covers(l, jwts[l])'
      <4>1. jwts[l] \in Nat /\ jwts[l] <= keyClock /\ Covers(l, jwts[l])
        BY <3>1 DEF KeysInvariant, KeysTyped, ReadBefore, TokensCovered
      <4>2. PICK iat : iat = jwts[l]
        OBVIOUS
      <4>3. Covers(l, iat)'
        BY <4>1, <4>2, <2>7
      <4> QED
        BY <4>2, <4>3, <2>4 DEF Covers
    <3>2. ASSUME NEW q \in Signers, NEW l \in Kids, l \in signing[q].kids PROVE Covers(l, signing[q].iat)'
      <4>1. signing[q].iat \in Nat /\ signing[q].iat <= keyClock /\ Covers(l, signing[q].iat)
        BY <3>2 DEF KeysInvariant, KeysTyped, ReadBefore, TokensCovered
      <4>2. PICK iat : iat = signing[q].iat
        OBVIOUS
      <4>3. Covers(l, iat)'
        BY <4>1, <4>2, <2>7
      <4> QED
        BY <4>2, <4>3, <2>4 DEF Covers
    <3>3. ASSUME NEW l \in Kids, keys'[l].status = "active" PROVE keys'[l].until = 0
      BY <3>3, <2>1, <2>3
    <3>4. ASSUME NEW l \in Kids, keys'[l].status = "none" PROVE keys'[l] = NoKey
      BY <3>4, <2>1, <2>3 DEF KeysInvariant, TokensCovered
    <3> QED
      BY <3>1, <3>2, <3>3, <3>4, <2>4 DEF TokensCovered
  <2>9. OneActive'
    BY <2>1, <2>3 DEF OneActive
  <2> QED
    BY <2>5, <2>6, <2>8, <2>9 DEF KeysInvariant
<1>3. CASE BeginRotation
  <2>1. UNCHANGED <<keys, signing, jwts, keyClock>> /\ rotation' = keyClock
    BY <1>3 DEF BeginRotation
  <2>2. KeysTyped' /\ ReadBefore'
    BY <1>0, <2>1 DEF KeysInvariant, KeysTyped, ReadBefore
  <2>3. TokensCovered' /\ OneActive'
    BY <2>1 DEF KeysInvariant, TokensCovered, Covers, OneActive
  <2> QED
    BY <2>2, <2>3 DEF KeysInvariant
<1>4. ASSUME NEW q \in Signers, BeginSigning(q)
      PROVE  KeysInvariant'
  <2>1. UNCHANGED <<keys, rotation, jwts, keyClock>> /\ signing' = [signing EXCEPT ![q].iat = keyClock]
        /\ signing[q] = NotSigning
    BY <1>4 DEF BeginSigning
  <2>2. signing' \in [Signers -> [iat : Nat, kids : SUBSET Kids]]
    BY <2>1 DEF KeysInvariant, KeysTyped
  <2>3. signing'[q].iat = keyClock /\ signing'[q].kids = {} /\ \A p \in Signers : p # q => signing'[p] = signing[p]
    BY <2>1 DEF KeysInvariant, KeysTyped, NotSigning
  <2>4. KeysTyped' /\ OneActive'
    BY <2>1, <2>2 DEF KeysInvariant, KeysTyped, OneActive
  <2>5. ReadBefore'
    BY <2>1, <2>3 DEF KeysInvariant, KeysTyped, ReadBefore
  <2>6. TokensCovered'
    BY <2>1, <2>3 DEF KeysInvariant, TokensCovered, Covers
  <2> QED
    BY <2>4, <2>5, <2>6 DEF KeysInvariant
<1>5. ASSUME NEW q \in Signers, ActiveSigner(q)
      PROVE  KeysInvariant'
  <2>1. PICK k \in Kids : keys[k].status = "active" /\ signing' = [signing EXCEPT ![q].kids = {k}]
    BY <1>5 DEF ActiveSigner
  <2>2. UNCHANGED <<keys, rotation, jwts, keyClock>>
    BY <1>5 DEF ActiveSigner
  <2>3. signing' \in [Signers -> [iat : Nat, kids : SUBSET Kids]]
    BY <2>1 DEF KeysInvariant, KeysTyped
  <2>4. /\ signing'[q].iat = signing[q].iat /\ signing'[q].kids = {k}
        /\ \A p \in Signers : p # q => signing'[p] = signing[p]
    BY <2>1 DEF KeysInvariant, KeysTyped
  <2>5. KeysTyped' /\ OneActive'
    BY <2>2, <2>3 DEF KeysInvariant, KeysTyped, OneActive
  <2>6. ReadBefore'
    BY <2>2, <2>4 DEF KeysInvariant, ReadBefore
  <2>7. Covers(k, signing[q].iat)
    BY <2>1 DEF KeysInvariant, TokensCovered, Covers
  <2>8. TokensCovered'
    BY <2>2, <2>4, <2>7 DEF KeysInvariant, TokensCovered, Covers
  <2> QED
    BY <2>5, <2>6, <2>8 DEF KeysInvariant
<1>6. ASSUME NEW q \in Signers, SignClaims(q)
      PROVE  KeysInvariant'
  <2>1. /\ UNCHANGED <<keys, rotation, keyClock>>
        /\ signing' = [signing EXCEPT ![q] = NotSigning]
        /\ jwts' = [k \in Kids |-> IF k \in signing[q].kids /\ signing[q].iat > jwts[k]
                                   THEN signing[q].iat ELSE jwts[k]]
    BY <1>6 DEF SignClaims
  <2>2. NotSigning \in [iat : Nat, kids : SUBSET Kids] /\ NotSigning.iat = 0 /\ NotSigning.kids = {}
    BY DEF NotSigning
  <2>3. signing' \in [Signers -> [iat : Nat, kids : SUBSET Kids]]
    BY <2>1, <2>2 DEF KeysInvariant, KeysTyped
  <2>4. signing'[q] = NotSigning /\ \A p \in Signers : p # q => signing'[p] = signing[p]
    BY <2>1 DEF KeysInvariant, KeysTyped
  <2>5. signing[q].iat \in Nat /\ jwts' \in [Kids -> Nat]
    BY <2>1 DEF KeysInvariant, KeysTyped
  <2>6. \A k \in Kids : jwts'[k] = jwts[k] \/ (k \in signing[q].kids /\ jwts'[k] = signing[q].iat)
    BY <2>1
  <2>7. KeysTyped' /\ OneActive'
    BY <2>1, <2>3, <2>5 DEF KeysInvariant, KeysTyped, OneActive
  <2>8. ReadBefore'
    BY <2>1, <2>2, <2>4, <2>6 DEF KeysInvariant, KeysTyped, ReadBefore
  <2>9. TokensCovered'
    <3>1. ASSUME NEW k \in Kids, jwts'[k] # 0 PROVE Covers(k, jwts[k])'
      <4>1. Covers(k, jwts'[k])
        BY <2>6, <3>1 DEF KeysInvariant, TokensCovered
      <4> QED
        BY <2>1, <4>1 DEF Covers
    <3>2. ASSUME NEW p \in Signers, NEW k \in Kids, k \in signing'[p].kids PROVE Covers(k, signing[p].iat)'
      BY <2>1, <2>2, <2>4, <3>2 DEF KeysInvariant, TokensCovered, Covers
    <3> QED
      BY <2>1, <3>1, <3>2 DEF KeysInvariant, TokensCovered
  <2> QED
    BY <2>7, <2>8, <2>9 DEF KeysInvariant
<1>7. CASE KeyTick
  <2>1. UNCHANGED <<keys, signing, rotation, jwts>> /\ keyClock' = keyClock + 1
        /\ (rotation # 0 => keyClock < rotation + Skew)
    BY <1>7 DEF KeyTick
  <2>2. KeysTyped'
    BY <2>1 DEF KeysInvariant, KeysTyped
  <2>3. ReadBefore'
    BY <1>0, <2>1 DEF KeysInvariant, KeysTyped, KeyRow, ReadBefore
  <2>4. TokensCovered' /\ OneActive'
    BY <2>1 DEF KeysInvariant, TokensCovered, Covers, OneActive
  <2> QED
    BY <2>2, <2>3, <2>4 DEF KeysInvariant
<1>8. CASE UNCHANGED keyVars
  <2>1. UNCHANGED <<keys, signing, rotation, jwts, keyClock>>
    BY <1>8 DEF keyVars
  <2>2. KeysTyped' /\ ReadBefore'
    BY <2>1 DEF KeysInvariant, KeysTyped, ReadBefore
  <2>3. TokensCovered' /\ OneActive'
    BY <2>1 DEF KeysInvariant, TokensCovered, Covers, OneActive
  <2> QED
    BY <2>2, <2>3 DEF KeysInvariant
<1> QED
  BY <1>1, <1>2, <1>3, <1>4, <1>5, <1>6, <1>7, <1>8 DEF KeysNext

\* A token is accepted for as long as it lives: no sequence of rotations,
\* however it overlaps with requests that are signing, takes the key of a
\* living token out of service, and from the first key on there is exactly one
\* to sign with (rotate, active_signer, verification_keys).
THEOREM KeysOutlive == KeysSpec => []KeysOutliveTokens
<1>1. KeysInit => KeysInvariant
  BY KeysStart
<1>2. KeysInvariant /\ [KeysNext]_keyVars => KeysInvariant'
  BY KeysStep
<1>3. KeysInvariant => KeysOutliveTokens
  <2> SUFFICES ASSUME KeysInvariant PROVE KeysOutliveTokens
    OBVIOUS
  <2>0. JwtTtl \in Nat /\ Skew \in Nat /\ keyClock \in Nat
    BY SigningKeysAssumption DEF KeysInvariant, KeysTyped
  <2>1. ASSUME NEW k \in Kids, jwts[k] # 0, keyClock < jwts[k] + JwtTtl
        PROVE  KeyAccepted(k) /\ ClaimsInTime(jwts[k])
    <3>1. keys[k] \in KeyRow /\ jwts[k] \in Nat /\ jwts[k] <= keyClock /\ keys[k].from <= keyClock
          /\ Covers(k, jwts[k])
      BY <2>1 DEF KeysInvariant, KeysTyped, ReadBefore, TokensCovered
    <3>2. keys[k].status \in {"active", "grace"} /\ keys[k].from \in Nat /\ keys[k].until \in Nat
      BY <3>1 DEF Covers, KeyRow
    <3>3. keys[k].until # 0 => keyClock <= keys[k].until + Skew
      BY <2>0, <2>1, <3>1, <3>2 DEF Covers
    <3> QED
      BY <2>0, <2>1, <3>1, <3>2, <3>3 DEF KeyAccepted, ClaimsInTime
  <2>2. ASSUME \E k \in Kids : keys[k] # NoKey
        PROVE  Cardinality({k \in Kids : keys[k].status = "active"}) = 1
    <3>1. PICK a \in Kids : keys[a].status = "active"
      BY <2>2 DEF KeysInvariant, OneActive
    <3>2. {k \in Kids : keys[k].status = "active"} = {a}
      BY <3>1 DEF KeysInvariant, OneActive
    <3>3. Cardinality({a}) = 1
      BY FS_Singleton
    <3> QED
      BY <3>2, <3>3
  <2> QED
    BY <2>1, <2>2 DEF KeysOutliveTokens
<1> QED
  BY <1>1, <1>2, <1>3, PTL DEF KeysSpec

-----------------------------------------------------------------------------
(* Developers' sessions. What a transaction may rely on between its          *)
(* statements: the row it locked stays as it found it, and while it holds    *)
(* the user nobody else inserts into the family.                             *)

SessionOf == [login : Logins \cup {NoRow}, used : {0, 1}, revoked : {0, 1}, committed : {0, 1}]
UserOps == {"rotate", "insert", "reuse"}
TxOf == [op : UserOps \cup {"none", "sign_out"}, row : Rows \cup {NoRow}, next : Rows \cup {NoRow},
         wave : SUBSET Rows]

PlatformShape ==
  /\ rows \in [Rows -> SessionOf] /\ txs \in [Txs -> TxOf] /\ replayed \subseteq Logins

\* A row that can be exchanged.
Exchangeable(r) == rows[r].committed = 1 /\ rows[r].used = 0 /\ rows[r].revoked = 0

TxFits(x) ==
  /\ txs[x].op \in UserOps \cup {"sign_out"} =>
       txs[x].row \in Rows /\ rows[txs[x].row].committed = 1
  /\ txs[x].op \in {"rotate", "insert"} => Exchangeable(txs[x].row)
  /\ txs[x].op = "insert" =>
       /\ txs[x].next \in Rows /\ rows[txs[x].next].committed = 0
       /\ rows[txs[x].next].login = rows[txs[x].row].login
       /\ rows[txs[x].next].used = 0 /\ rows[txs[x].next].revoked = 0
  /\ txs[x].op # "insert" => txs[x].next = NoRow
  /\ txs[x].op \notin {"reuse", "sign_out"} => txs[x].wave = {}
  /\ txs[x].op = "reuse" => txs[x].wave = {} \/ txs[x].wave = Family(rows[txs[x].row].login)
  /\ \A r \in txs[x].wave : r \in Rows /\ rows[r].committed = 1

\* Rotations of the user exclude each other.
OneRotation ==
  \A x, y \in Txs : txs[x].op \in UserOps /\ txs[y].op \in UserOps => x = y

\* A row that is not committed is free, or the new row of a rotation.
RowsStand ==
  /\ \A r \in Rows : rows[r].committed = 1 => rows[r].login # NoRow
  /\ \A r \in Rows : rows[r].committed = 0 =>
       rows[r].login = NoRow \/ \E x \in Txs : txs[x].op = "insert" /\ txs[x].next = r

OneGood ==
  \A r, s \in Rows : Exchangeable(r) /\ Exchangeable(s) /\ rows[r].login = rows[s].login => r = s

\* A family whose reuse was reported has rows, and all of them are revoked.
ReplayedEnded ==
  \A l \in replayed :
    /\ \E r \in Rows : rows[r].login = l
    /\ \A r \in Rows : rows[r].login = l => rows[r].committed = 1 /\ rows[r].revoked = 1

PlatformInvariant ==
  /\ PlatformShape /\ (\A x \in Txs : TxFits(x)) /\ OneRotation
  /\ RowsStand /\ OneGood /\ ReplayedEnded

\* The fields of a row and of a transaction.
LEMMA PlatformParts ==
  ASSUME PlatformShape
  PROVE  /\ \A r \in Rows : /\ rows[r].login \in Logins \cup {NoRow} /\ rows[r].used \in {0, 1}
                            /\ rows[r].revoked \in {0, 1} /\ rows[r].committed \in {0, 1}
         /\ \A x \in Txs : /\ txs[x].op \in UserOps \cup {"none", "sign_out"}
                           /\ txs[x].row \in Rows \cup {NoRow} /\ txs[x].next \in Rows \cup {NoRow}
                           /\ txs[x].wave \subseteq Rows
         /\ NoRow \notin Rows /\ NoRow \notin Logins
BY PlatformSessionsAssumption DEF PlatformShape, SessionOf, TxOf

\* A transaction that ends, and one that begins.
LEMMA TxRecords ==
  /\ NoTx \in TxOf /\ NoTx.op = "none" /\ NoTx.row = NoRow /\ NoTx.next = NoRow /\ NoTx.wave = {}
  /\ Absent \in SessionOf /\ Absent.login = NoRow /\ Absent.used = 0 /\ Absent.revoked = 0
  /\ Absent.committed = 0
BY DEF NoTx, TxOf, UserOps, Absent, SessionOf

\* A record with two of its fields changed, written in either order.
LEMMA TxChanged ==
  ASSUME NEW A, NEW B, NEW C, NEW D, NEW w \in [op : A, row : B, next : C, wave : D],
         NEW o \in A, NEW r \in B
  PROVE  LET n == [w EXCEPT !.row = r, !.op = o]
             k == [w EXCEPT !.op = o, !.row = r]
         IN /\ n \in [op : A, row : B, next : C, wave : D]
            /\ n.op = o /\ n.row = r /\ n.next = w.next /\ n.wave = w.wave
            /\ k \in [op : A, row : B, next : C, wave : D]
            /\ k.op = o /\ k.row = r /\ k.next = w.next /\ k.wave = w.wave
OBVIOUS

LEMMA PlatformStarts ==
  PlatformInit => PlatformInvariant
<1>. SUFFICES ASSUME PlatformInit PROVE PlatformInvariant
  OBVIOUS
<1>1. (\A r \in Rows : rows[r] = Absent) /\ (\A x \in Txs : txs[x] = NoTx) /\ replayed = {}
  BY DEF PlatformInit
<1>2. PlatformShape
  BY TxRecords DEF PlatformInit, PlatformShape
<1>3. \A x \in Txs : TxFits(x)
  BY <1>1, TxRecords DEF TxFits, UserOps
<1>4. OneRotation /\ RowsStand /\ OneGood /\ ReplayedEnded
  BY <1>1, TxRecords DEF OneRotation, RowsStand, OneGood, ReplayedEnded, Exchangeable, UserOps
<1>. QED
  BY <1>2, <1>3, <1>4 DEF PlatformInvariant

\* A step that changes no row and gives x another record.
LEMMA TxStep ==
  ASSUME PlatformInvariant, NEW x \in Txs, NEW n \in TxOf, rows' = rows, replayed' = replayed,
         txs' = [txs EXCEPT ![x] = n],
         TxFits(x)',
         n.op \in UserOps => \A y \in Txs \ {x} : txs[y].op \notin UserOps,
         txs[x].op # "insert"
  PROVE  PlatformInvariant'
<1>1. PlatformShape'
  BY DEF PlatformInvariant, PlatformShape
<1>2. txs'[x] = n /\ \A y \in Txs : y # x => txs'[y] = txs[y]
  BY DEF PlatformInvariant, PlatformShape
<1>3. ASSUME NEW y \in Txs PROVE TxFits(y)'
  <2>1. CASE y = x
    BY <2>1
  <2>2. CASE y # x
    BY <2>2, <1>2 DEF PlatformInvariant, TxFits, Exchangeable, Family
  <2>. QED
    BY <2>1, <2>2
<1>4. OneRotation'
  BY <1>2 DEF PlatformInvariant, OneRotation
<1>5. RowsStand'
  BY <1>2 DEF PlatformInvariant, RowsStand
<1>6. OneGood' /\ ReplayedEnded'
  BY DEF PlatformInvariant, OneGood, ReplayedEnded, Exchangeable
<1>. QED
  BY <1>1, <1>3, <1>4, <1>5, <1>6 DEF PlatformInvariant

LEMMA RotateLockKeeps ==
  ASSUME PlatformInvariant, NEW x \in Txs, NEW r \in Rows, RotateLock(x, r)
  PROVE  PlatformInvariant'
<1>1. PlatformShape
  BY DEF PlatformInvariant
<1>2. PICK op : op = IF rows[r].used = 1 THEN "reuse" ELSE "rotate"
  OBVIOUS
<1>3. PICK n : n = [NoTx EXCEPT !.row = r, !.op = op]
  OBVIOUS
<1>4. n.op = op /\ n.row = r /\ n.next = NoRow /\ n.wave = {} /\ n \in TxOf /\ op \in {"reuse", "rotate"}
  <2>1. op \in {"reuse", "rotate"}
    BY <1>2
  <2>2. op \in UserOps \cup {"none", "sign_out"} /\ r \in Rows \cup {NoRow}
    BY <2>1 DEF UserOps
  <2>3. NoTx \in [op : UserOps \cup {"none", "sign_out"}, row : Rows \cup {NoRow},
                 next : Rows \cup {NoRow}, wave : SUBSET Rows]
    BY TxRecords DEF TxOf
  <2>. QED
    BY <1>3, <2>1, <2>2, <2>3, TxRecords, TxChanged DEF TxOf
<1>5. txs' = [txs EXCEPT ![x] = n]
  BY <1>2, <1>3 DEF RotateLock
<1>6. txs'[x] = n
  BY <1>1, <1>5 DEF PlatformShape
<1>7. rows' = rows /\ replayed' = replayed /\ rows[r].committed = 1 /\ rows[r].revoked = 0
  BY DEF RotateLock
<1>8. TxFits(x)'
  <2>1. op = "rotate" => rows[r].used = 0
    BY <1>1, <1>2, PlatformParts
  <2>. QED
    BY <1>4, <1>6, <1>7, <2>1 DEF TxFits, Exchangeable, UserOps
<1>9. \A y \in Txs \ {x} : txs[y].op \notin UserOps
  BY DEF RotateLock, UserFree, UserOps
<1>10. txs[x].op # "insert"
  BY TxRecords DEF RotateLock
<1>. QED
  BY <1>4, <1>5, <1>7, <1>8, <1>9, <1>10, TxStep

LEMMA RevokeLockKeeps ==
  ASSUME PlatformInvariant, NEW x \in Txs, NEW r \in Rows, RevokeLock(x, r)
  PROVE  PlatformInvariant'
<1>1. PlatformShape
  BY DEF PlatformInvariant
<1>2. PICK n : n = [NoTx EXCEPT !.op = "sign_out", !.row = r]
  OBVIOUS
<1>3. n.op = "sign_out" /\ n.row = r /\ n.next = NoRow /\ n.wave = {} /\ n \in TxOf
  <2>1. NoTx \in [op : UserOps \cup {"none", "sign_out"}, row : Rows \cup {NoRow},
                 next : Rows \cup {NoRow}, wave : SUBSET Rows]
    BY TxRecords DEF TxOf
  <2>2. "sign_out" \in UserOps \cup {"none", "sign_out"} /\ r \in Rows \cup {NoRow}
    OBVIOUS
  <2>. QED
    BY <1>2, <2>1, <2>2, TxRecords, TxChanged DEF TxOf
<1>4. txs' = [txs EXCEPT ![x] = n]
  BY <1>2 DEF RevokeLock
<1>5. txs'[x] = n
  BY <1>1, <1>4 DEF PlatformShape
<1>6. rows' = rows /\ replayed' = replayed /\ rows[r].committed = 1
  BY DEF RevokeLock
<1>7. TxFits(x)'
  BY <1>3, <1>5, <1>6 DEF TxFits, UserOps
<1>8. txs[x].op # "insert" /\ n.op \notin UserOps
  BY <1>3, TxRecords DEF RevokeLock, UserOps
<1>. QED
  BY <1>3, <1>4, <1>6, <1>7, <1>8, TxStep

LEMMA BeginRevokeKeeps ==
  ASSUME PlatformInvariant, NEW x \in Txs, BeginRevoke(x)
  PROVE  PlatformInvariant'
<1>1. PlatformShape /\ TxFits(x)
  BY DEF PlatformInvariant
<1>2. PICK wave : wave = Family(rows[txs[x].row].login)
  OBVIOUS
<1>3. wave \subseteq Rows
  BY <1>2 DEF Family
<1>4. PICK t \in TxOf : t = txs[x]
  BY <1>1 DEF PlatformShape
<1>5. PICK n : n = [t EXCEPT !.wave = wave]
  OBVIOUS
<1>6. n \in TxOf /\ n.op = t.op /\ n.row = t.row /\ n.next = t.next /\ n.wave = wave
  BY <1>3, <1>4, <1>5 DEF TxOf
<1>7. txs' = [txs EXCEPT ![x] = n]
  BY <1>2, <1>4, <1>5 DEF BeginRevoke
<1>8. txs'[x] = n
  BY <1>1, <1>7 DEF PlatformShape
<1>9. rows' = rows /\ replayed' = replayed /\ t.op \in {"reuse", "sign_out"}
  BY <1>4 DEF BeginRevoke
<1>10. TxFits(x)'
  BY <1>1, <1>2, <1>4, <1>6, <1>8, <1>9 DEF TxFits, UserOps, Family
<1>11. n.op \in UserOps => \A y \in Txs \ {x} : txs[y].op \notin UserOps
  BY <1>4, <1>6 DEF PlatformInvariant, OneRotation
<1>. QED
  BY <1>4, <1>6, <1>7, <1>9, <1>10, <1>11, TxStep


\* A transaction that is over.
LEMMA TxEnds ==
  ASSUME PlatformShape, NEW x \in Txs, txs' = [txs EXCEPT ![x] = NoTx]
  PROVE  /\ txs' \in [Txs -> TxOf] /\ txs'[x] = NoTx
         /\ \A y \in Txs : y # x => txs'[y] = txs[y]
BY TxRecords DEF PlatformShape

\* The first row of a family.
LEMMA SessionRecord ==
  ASSUME NEW A, NEW B, NEW w \in [login : A, used : B, revoked : B, committed : B],
         NEW l \in A, NEW c \in B
  PROVE  LET n == [w EXCEPT !.login = l, !.committed = c]
             k == [w EXCEPT !.login = l]
             d == [w EXCEPT !.committed = c]
             u == [w EXCEPT !.used = c]
             v == [w EXCEPT !.revoked = c]
         IN /\ n \in [login : A, used : B, revoked : B, committed : B]
            /\ n.login = l /\ n.used = w.used /\ n.revoked = w.revoked /\ n.committed = c
            /\ k \in [login : A, used : B, revoked : B, committed : B]
            /\ k.login = l /\ k.used = w.used /\ k.revoked = w.revoked /\ k.committed = w.committed
            /\ d \in [login : A, used : B, revoked : B, committed : B]
            /\ d.login = w.login /\ d.used = w.used /\ d.revoked = w.revoked /\ d.committed = c
            /\ u \in [login : A, used : B, revoked : B, committed : B]
            /\ u.login = w.login /\ u.used = c /\ u.revoked = w.revoked /\ u.committed = w.committed
            /\ v \in [login : A, used : B, revoked : B, committed : B]
            /\ v.login = w.login /\ v.used = w.used /\ v.revoked = c /\ v.committed = w.committed
OBVIOUS

LEMMA IssueKeeps ==
  ASSUME PlatformInvariant, NEW l \in Logins, NEW r \in Rows, IssuePlatformSession(l, r)
  PROVE  PlatformInvariant'
<1>1. PlatformShape /\ NoRow \notin Rows /\ NoRow \notin Logins
  BY PlatformParts DEF PlatformInvariant
<1>2. PICK n : n = [Absent EXCEPT !.login = l, !.committed = 1]
  OBVIOUS
<1>3. n \in SessionOf /\ n.login = l /\ n.used = 0 /\ n.revoked = 0 /\ n.committed = 1
  <2>1. Absent \in [login : Logins \cup {NoRow}, used : {0, 1}, revoked : {0, 1}, committed : {0, 1}]
    BY TxRecords DEF SessionOf
  <2>2. l \in Logins \cup {NoRow} /\ 1 \in {0, 1}
    OBVIOUS
  <2>. QED
    BY <1>2, <2>1, <2>2, TxRecords, SessionRecord DEF SessionOf
<1>4. rows' = [rows EXCEPT ![r] = n] /\ txs' = txs /\ replayed' = replayed
  BY <1>2 DEF IssuePlatformSession
<1>5. rows'[r] = n /\ \A s \in Rows : s # r => rows'[s] = rows[s]
  BY <1>1, <1>4 DEF PlatformShape
<1>6. rows[r].committed = 0 /\ rows[r].login = NoRow /\ \A s \in Rows : rows[s].login # l
  BY TxRecords DEF IssuePlatformSession
<1>7. PlatformShape'
  BY <1>1, <1>3, <1>4 DEF PlatformShape
<1>8. ASSUME NEW x \in Txs PROVE TxFits(x)'
  <2>1. TxFits(x)
    BY DEF PlatformInvariant
  <2>2. txs[x].op \in UserOps \cup {"sign_out"} => txs[x].row # r
    BY <2>1, <1>6 DEF TxFits
  <2>3. txs[x].op = "insert" => txs[x].next # r
    <3>1. txs[x].op = "insert" => rows[txs[x].next].login = rows[txs[x].row].login
                                 /\ rows[txs[x].row].committed = 1 /\ txs[x].row \in Rows
      BY <2>1 DEF TxFits, UserOps
    <3>2. txs[x].op = "insert" => rows[txs[x].row].login # NoRow
      BY <3>1 DEF PlatformInvariant, RowsStand
    <3>. QED
      BY <3>1, <3>2, <1>6
  <2>4. ASSUME NEW k \in Logins \cup {NoRow}, k # l PROVE Family(k)' = Family(k)
    BY <2>4, <1>3, <1>5, <1>6 DEF Family
  <2>5. txs[x].op = "reuse" => txs[x].row \in Rows /\ rows[txs[x].row].login # l
    BY <2>1, <1>6 DEF TxFits, UserOps
  <2>6. txs[x].op = "reuse" => (txs[x].wave = {} \/ txs[x].wave = Family(rows[txs[x].row].login))'
    <3>1. ASSUME txs[x].op = "reuse" PROVE (txs[x].wave = {} \/ txs[x].wave = Family(rows[txs[x].row].login))'
      <4>1. txs[x].row \in Rows /\ rows'[txs[x].row] = rows[txs[x].row] /\ txs'[x] = txs[x]
        BY <3>1, <2>2, <2>5, <1>4, <1>5 DEF UserOps
      <4>2. PICK k : k = rows[txs[x].row].login
        OBVIOUS
      <4>3. k \in Logins \cup {NoRow} /\ k # l
        BY <4>1, <4>2, <3>1, <2>5, <1>1, PlatformParts
      <4>4. Family(k)' = Family(k)
        BY <4>3, <2>4
      <4>5. txs[x].wave = {} \/ txs[x].wave = Family(k)
        BY <2>1, <3>1, <4>2 DEF TxFits
      <4>6. rows'[txs'[x].row].login = k
        BY <4>1, <4>2
      <4>. QED
        BY <4>1, <4>4, <4>5, <4>6 DEF Family
    <3>. QED
      BY <3>1
  <2>7. \A o \in txs[x].wave : o \in Rows /\ rows'[o].committed = 1
    BY <2>1, <1>3, <1>5 DEF TxFits
  <2>. QED
    BY <2>1, <2>2, <2>3, <2>6, <2>7, <1>4, <1>5 DEF TxFits, Exchangeable, UserOps
<1>9. OneRotation'
  BY <1>4 DEF PlatformInvariant, OneRotation
<1>10. RowsStand'
  BY <1>1, <1>3, <1>4, <1>5 DEF PlatformInvariant, RowsStand
<1>11. OneGood'
  BY <1>3, <1>5, <1>6 DEF PlatformInvariant, OneGood, Exchangeable
<1>12. ReplayedEnded'
  <2>1. l \notin replayed
    BY <1>6 DEF PlatformInvariant, ReplayedEnded
  <2>2. replayed \subseteq Logins
    BY <1>1 DEF PlatformShape
  <2>. QED
    BY <2>1, <2>2, <1>1, <1>3, <1>4, <1>5, <1>6 DEF PlatformInvariant, ReplayedEnded
<1>. QED
  BY <1>7, <1>8, <1>9, <1>10, <1>11, <1>12 DEF PlatformInvariant

LEMMA InsertNextKeeps ==
  ASSUME PlatformInvariant, NEW x \in Txs, NEW fresh \in Rows, InsertNext(x, fresh)
  PROVE  PlatformInvariant'
<1>1. PlatformShape /\ NoRow \notin Rows /\ NoRow \notin Logins /\ TxFits(x)
  BY PlatformParts DEF PlatformInvariant
<1>2. PICK t \in TxOf : t = txs[x]
  BY <1>1 DEF PlatformShape
<1>3. t.op = "rotate" /\ t.row \in Rows /\ Exchangeable(t.row) /\ t.wave = {} /\ rows[fresh] = Absent
  BY <1>1, <1>2 DEF TxFits, UserOps, InsertNext
<1>4. PICK l : l = rows[t.row].login
  OBVIOUS
<1>5. l \in Logins
  BY <1>1, <1>3, <1>4, PlatformParts DEF PlatformInvariant, RowsStand, Exchangeable
<1>6. PICK n : n = [Absent EXCEPT !.login = l]
  OBVIOUS
<1>7. n \in SessionOf /\ n.login = l /\ n.used = 0 /\ n.revoked = 0 /\ n.committed = 0
  <2>1. Absent \in [login : Logins \cup {NoRow}, used : {0, 1}, revoked : {0, 1}, committed : {0, 1}]
    BY TxRecords DEF SessionOf
  <2>2. l \in Logins \cup {NoRow} /\ 1 \in {0, 1}
    BY <1>5
  <2>. QED
    BY <1>6, <2>1, <2>2, TxRecords, SessionRecord DEF SessionOf
<1>8. PICK k : k = [t EXCEPT !.op = "insert", !.next = fresh]
  OBVIOUS
<1>9. k \in TxOf /\ k.op = "insert" /\ k.next = fresh /\ k.row = t.row /\ k.wave = {}
  BY <1>2, <1>3, <1>8 DEF TxOf, UserOps
<1>10. rows' = [rows EXCEPT ![fresh] = n] /\ replayed' = replayed
  BY <1>2, <1>4, <1>6 DEF InsertNext
<1>11. txs' = [txs EXCEPT ![x] = k]
  BY <1>2, <1>8, <1>1 DEF InsertNext, PlatformShape
<1>12. rows'[fresh] = n /\ \A s \in Rows : s # fresh => rows'[s] = rows[s]
  BY <1>1, <1>10 DEF PlatformShape
<1>13. txs'[x] = k /\ \A y \in Txs : y # x => txs'[y] = txs[y]
  BY <1>1, <1>11 DEF PlatformShape
<1>14. rows[fresh].committed = 0 /\ rows[fresh].login = NoRow
  BY <1>3, TxRecords
<1>15. t.row # fresh
  BY <1>3, <1>14 DEF Exchangeable
<1>16. \A y \in Txs : y # x => txs[y].op \notin UserOps
  BY <1>2, <1>3 DEF PlatformInvariant, OneRotation, UserOps
<1>17. PlatformShape'
  BY <1>1, <1>7, <1>9, <1>10, <1>11 DEF PlatformShape
<1>18. ASSUME NEW y \in Txs PROVE TxFits(y)'
  <2>1. CASE y = x
    <3>1. rows'[t.row] = rows[t.row]
      BY <1>3, <1>12, <1>15
    <3>. QED
      BY <2>1, <3>1, <1>3, <1>4, <1>7, <1>9, <1>12, <1>13 DEF TxFits, Exchangeable, UserOps
  <2>2. CASE y # x
    <3>1. txs'[y] = txs[y] /\ txs[y].op \notin UserOps /\ TxFits(y)
      BY <2>2, <1>13, <1>16 DEF PlatformInvariant
    <3>2. txs[y].op = "sign_out" => txs[y].row # fresh
      BY <3>1, <1>14 DEF TxFits
    <3>3. \A o \in txs[y].wave : o \in Rows /\ rows'[o].committed = 1
      BY <3>1, <1>12, <1>14 DEF TxFits
    <3>. QED
      BY <3>1, <3>2, <3>3, <1>12 DEF TxFits, Exchangeable, UserOps
  <2>. QED
    BY <2>1, <2>2
<1>19. OneRotation'
  BY <1>9, <1>13, <1>16 DEF OneRotation
<1>20. RowsStand'
  <2>1. \A r \in Rows : rows'[r].committed = 1 => rows'[r].login # NoRow
    BY <1>7, <1>12 DEF PlatformInvariant, RowsStand
  <2>2. ASSUME NEW r \in Rows, rows'[r].committed = 0
        PROVE  rows'[r].login = NoRow \/ \E y \in Txs : txs'[y].op = "insert" /\ txs'[y].next = r
    <3>1. CASE r = fresh
      BY <3>1, <1>9, <1>13
    <3>2. CASE r # fresh
      <4>1. rows'[r] = rows[r]
        BY <3>2, <1>12
      <4>2. rows[r].login = NoRow
        BY <4>1, <2>2, <1>2, <1>3, <1>16 DEF PlatformInvariant, RowsStand, UserOps
      <4>. QED
        BY <4>1, <4>2
    <3>. QED
      BY <3>1, <3>2
  <2>. QED
    BY <2>1, <2>2 DEF RowsStand
<1>21. OneGood'
  BY <1>7, <1>12 DEF PlatformInvariant, OneGood, Exchangeable
<1>22. ReplayedEnded'
  <2>1. l \notin replayed
    BY <1>3, <1>4 DEF PlatformInvariant, ReplayedEnded, Exchangeable
  <2>2. replayed \subseteq Logins
    BY <1>1 DEF PlatformShape
  <2>. QED
    BY <2>1, <2>2, <1>1, <1>7, <1>10, <1>12, <1>14 DEF PlatformInvariant, ReplayedEnded
<1>. QED
  BY <1>17, <1>18, <1>19, <1>20, <1>21, <1>22 DEF PlatformInvariant

LEMMA CommitRotateKeeps ==
  ASSUME PlatformInvariant, NEW x \in Txs, CommitRotate(x)
  PROVE  PlatformInvariant'
<1>1. PlatformShape /\ NoRow \notin Rows /\ NoRow \notin Logins /\ TxFits(x)
  BY PlatformParts DEF PlatformInvariant
<1>2. PICK r : r = txs[x].row
  OBVIOUS
<1>3. PICK s : s = txs[x].next
  OBVIOUS
<1>4. /\ r \in Rows /\ s \in Rows /\ Exchangeable(r) /\ rows[s].committed = 0
      /\ rows[s].login = rows[r].login /\ rows[s].used = 0 /\ rows[s].revoked = 0
      /\ txs[x].op = "insert"
  BY <1>1, <1>2, <1>3 DEF TxFits, UserOps, CommitRotate
<1>5. r # s
  BY <1>4 DEF Exchangeable
<1>6. PICK n : n = [rows[r] EXCEPT !.used = 1]
  OBVIOUS
<1>7. PICK k : k = [rows[s] EXCEPT !.committed = 1]
  OBVIOUS
<1>8. /\ n \in SessionOf /\ n.login = rows[r].login /\ n.used = 1 /\ n.revoked = 0 /\ n.committed = 1
      /\ k \in SessionOf /\ k.login = rows[r].login /\ k.used = 0 /\ k.revoked = 0 /\ k.committed = 1
  <2>1. /\ rows[r] \in [login : Logins \cup {NoRow}, used : {0, 1}, revoked : {0, 1}, committed : {0, 1}]
        /\ rows[s] \in [login : Logins \cup {NoRow}, used : {0, 1}, revoked : {0, 1}, committed : {0, 1}]
    BY <1>1, <1>4 DEF PlatformShape, SessionOf
  <2>2. rows[r].login \in Logins \cup {NoRow} /\ 1 \in {0, 1}
    BY <1>1, <1>4, PlatformParts
  <2>3. n \in SessionOf /\ n.login = rows[r].login /\ n.used = 1 /\ n.revoked = 0 /\ n.committed = 1
    BY <1>4, <1>6, <2>1, <2>2, SessionRecord DEF SessionOf, Exchangeable
  <2>4. k \in SessionOf /\ k.login = rows[r].login /\ k.used = 0 /\ k.revoked = 0 /\ k.committed = 1
    BY <1>4, <1>7, <2>1, <2>2, SessionRecord DEF SessionOf
  <2>. QED
    BY <2>3, <2>4
<1>9. rows' = [rows EXCEPT ![r] = n, ![s] = k] /\ replayed' = replayed
  BY <1>1, <1>2, <1>3, <1>4, <1>5, <1>6, <1>7 DEF CommitRotate, PlatformShape
<1>10. rows'[r] = n /\ rows'[s] = k /\ \A o \in Rows : o # r /\ o # s => rows'[o] = rows[o]
  BY <1>1, <1>4, <1>5, <1>9 DEF PlatformShape
<1>11. txs'[x] = NoTx /\ (\A y \in Txs : y # x => txs'[y] = txs[y]) /\ txs' \in [Txs -> TxOf]
  BY <1>1, TxEnds DEF CommitRotate
<1>12. \A y \in Txs : y # x => txs[y].op \notin UserOps
  BY <1>4 DEF PlatformInvariant, OneRotation, UserOps
<1>13. PlatformShape'
  BY <1>1, <1>8, <1>9, <1>11 DEF PlatformShape
<1>14. ASSUME NEW y \in Txs PROVE TxFits(y)'
  <2>1. CASE y = x
    BY <2>1, <1>11, TxRecords DEF TxFits, UserOps
  <2>2. CASE y # x
    <3>1. txs'[y] = txs[y] /\ txs[y].op \notin UserOps /\ TxFits(y)
      BY <2>2, <1>11, <1>12 DEF PlatformInvariant
    <3>2. \A o \in Rows : rows[o].committed = 1 => rows'[o].committed = 1
      BY <1>8, <1>10
    <3>. QED
      BY <3>1, <3>2 DEF TxFits, Exchangeable, UserOps
  <2>. QED
    BY <2>1, <2>2
<1>15. OneRotation'
  BY <1>11, <1>12, TxRecords DEF OneRotation, UserOps
<1>16. RowsStand'
  <2>1. \A o \in Rows : rows'[o].committed = 1 => rows'[o].login # NoRow
    BY <1>4, <1>8, <1>10 DEF PlatformInvariant, RowsStand, Exchangeable
  <2>2. \A o \in Rows : rows'[o].committed = 0 => rows'[o].login = NoRow
    BY <1>3, <1>8, <1>10, <1>12 DEF PlatformInvariant, RowsStand, UserOps
  <2>. QED
    BY <2>1, <2>2 DEF RowsStand
<1>17. OneGood'
  BY <1>4, <1>8, <1>10 DEF PlatformInvariant, OneGood, Exchangeable
<1>18. ReplayedEnded'
  <2>1. rows[r].login \notin replayed
    BY <1>4 DEF PlatformInvariant, ReplayedEnded
  <2>2. ASSUME NEW o \in Rows
        PROVE  rows'[o].login = rows[o].login /\ (rows[o].login \in replayed => rows'[o] = rows[o])
    BY <2>1, <1>4, <1>8, <1>10
  <2>3. ReplayedEnded /\ replayed' = replayed
    BY <1>9 DEF PlatformInvariant
  <2>4. ASSUME NEW l \in replayed
        PROVE  /\ \E o \in Rows : rows'[o].login = l
               /\ \A o \in Rows : rows'[o].login = l => rows'[o].committed = 1 /\ rows'[o].revoked = 1
    BY <2>2, <2>3 DEF ReplayedEnded
  <2>. QED
    BY <2>3, <2>4 DEF ReplayedEnded
<1>. QED
  BY <1>13, <1>14, <1>15, <1>16, <1>17, <1>18 DEF PlatformInvariant

\* A statement that revokes rows changes nothing else of them.
LEMMA RevokedRows ==
  ASSUME PlatformShape, NEW wave \in SUBSET Rows,
         rows' = [r \in Rows |-> IF r \in wave THEN [rows[r] EXCEPT !.revoked = 1] ELSE rows[r]]
  PROVE  /\ rows' \in [Rows -> SessionOf]
         /\ \A r \in Rows : /\ rows'[r].login = rows[r].login /\ rows'[r].used = rows[r].used
                            /\ rows'[r].committed = rows[r].committed
                            /\ r \in wave => rows'[r].revoked = 1
                            /\ r \notin wave => rows'[r].revoked = rows[r].revoked
<1>1. ASSUME NEW r \in Rows
      PROVE  LET n == [rows[r] EXCEPT !.revoked = 1]
             IN /\ n \in SessionOf /\ n.login = rows[r].login /\ n.used = rows[r].used
                /\ n.committed = rows[r].committed /\ n.revoked = 1
  <2>1. rows[r] \in [login : Logins \cup {NoRow}, used : {0, 1}, revoked : {0, 1}, committed : {0, 1}]
    BY DEF PlatformShape, SessionOf
  <2>2. rows[r].login \in Logins \cup {NoRow} /\ 1 \in {0, 1}
    BY PlatformParts
  <2>. QED
    BY <2>1, <2>2, SessionRecord DEF SessionOf
<1>2. \A r \in Rows : rows[r] \in SessionOf
  BY DEF PlatformShape
<1>3. ASSUME NEW r \in Rows
      PROVE  rows'[r] = IF r \in wave THEN [rows[r] EXCEPT !.revoked = 1] ELSE rows[r]
  OBVIOUS
<1>. QED
  BY <1>1, <1>2, <1>3

LEMMA CommitRevokeKeeps ==
  ASSUME PlatformInvariant, NEW x \in Txs, CommitRevoke(x)
  PROVE  PlatformInvariant'
<1>1. PlatformShape /\ NoRow \notin Rows /\ NoRow \notin Logins /\ TxFits(x)
  BY PlatformParts DEF PlatformInvariant
<1>2. PICK wave \in SUBSET Rows : wave = txs[x].wave
  BY <1>1, PlatformParts
<1>3. PICK r : r = txs[x].row
  OBVIOUS
<1>4. PICK l : l = rows[r].login
  OBVIOUS
<1>5. /\ txs[x].op \in {"reuse", "sign_out"} /\ r \in Rows /\ rows[r].committed = 1 /\ wave # {}
      /\ txs[x].op = "reuse" => wave = Family(l)
  BY <1>1, <1>2, <1>3, <1>4 DEF TxFits, UserOps, CommitRevoke
<1>6. l \in Logins
  BY <1>1, <1>4, <1>5, PlatformParts DEF PlatformInvariant, RowsStand
<1>7. /\ rows' \in [Rows -> SessionOf]
      /\ \A o \in Rows : /\ rows'[o].login = rows[o].login /\ rows'[o].used = rows[o].used
                         /\ rows'[o].committed = rows[o].committed
                         /\ o \in wave => rows'[o].revoked = 1
                         /\ o \notin wave => rows'[o].revoked = rows[o].revoked
  <2>1. rows' = [o \in Rows |-> IF o \in wave THEN [rows[o] EXCEPT !.revoked = 1] ELSE rows[o]]
    BY <1>2 DEF CommitRevoke
  <2>. QED
    BY <2>1, <1>1, RevokedRows
<1>8. replayed' = IF txs[x].op = "reuse" THEN replayed \cup {l} ELSE replayed
  BY <1>3, <1>4 DEF CommitRevoke
<1>9. txs'[x] = NoTx /\ (\A y \in Txs : y # x => txs'[y] = txs[y]) /\ txs' \in [Txs -> TxOf]
  BY <1>1, TxEnds DEF CommitRevoke
<1>10. \A o \in wave, y \in Txs : y # x => txs[y].row # o
  BY <1>2 DEF CommitRevoke, RowFree
<1>11. PlatformShape'
  BY <1>1, <1>6, <1>7, <1>8, <1>9 DEF PlatformShape
<1>12. \A k : Family(k)' = Family(k)
  BY <1>7 DEF Family
<1>13. \A o \in Rows : Exchangeable(o)' => Exchangeable(o)
  BY <1>1, <1>7, PlatformParts DEF Exchangeable
<1>14. ASSUME NEW y \in Txs PROVE TxFits(y)'
  <2>1. CASE y = x
    BY <2>1, <1>9, TxRecords DEF TxFits, UserOps
  <2>2. CASE y # x
    <3>1. txs'[y] = txs[y] /\ TxFits(y)
      BY <2>2, <1>9 DEF PlatformInvariant
    <3>2. txs[y].op \in UserOps \cup {"sign_out"} =>
            /\ txs[y].row \in Rows /\ txs[y].row \notin wave
            /\ rows'[txs[y].row].revoked = rows[txs[y].row].revoked
      BY <3>1, <2>2, <1>7, <1>10 DEF TxFits
    <3>3. txs[y].op = "insert" => txs[y].next \notin wave
      <4>1. ASSUME txs[y].op = "insert", txs[y].next \in wave PROVE FALSE
        <5>1. txs[x].op = "sign_out"
          BY <4>1, <2>2, <1>5 DEF PlatformInvariant, OneRotation, UserOps
        <5>2. rows[txs[y].next].committed = 0
          BY <4>1, <3>1 DEF TxFits
        <5>. QED
          BY <5>1, <5>2, <4>1, <1>2, <1>1 DEF TxFits
      <4>. QED
        BY <4>1
    <3>. QED
      BY <3>1, <3>2, <3>3, <1>7, <1>12 DEF TxFits, Exchangeable, UserOps
  <2>. QED
    BY <2>1, <2>2
<1>15. OneRotation'
  BY <1>9, TxRecords DEF PlatformInvariant, OneRotation, UserOps
<1>16. RowsStand'
  <2>1. \A o \in Rows : rows'[o].committed = 1 => rows'[o].login # NoRow
    BY <1>7 DEF PlatformInvariant, RowsStand
  <2>2. ASSUME NEW o \in Rows, rows'[o].committed = 0
        PROVE  rows'[o].login = NoRow \/ \E y \in Txs : txs'[y].op = "insert" /\ txs'[y].next = o
    BY <2>2, <1>5, <1>7, <1>9 DEF PlatformInvariant, RowsStand
  <2>. QED
    BY <2>1, <2>2 DEF RowsStand
<1>17. OneGood'
  BY <1>7, <1>13 DEF PlatformInvariant, OneGood
<1>18. ReplayedEnded'
  <2>1. ASSUME NEW k \in replayed'
        PROVE  /\ \E o \in Rows : rows'[o].login = k
               /\ \A o \in Rows : rows'[o].login = k => rows'[o].committed = 1 /\ rows'[o].revoked = 1
    <3>1. CASE k \in replayed
      BY <3>1, <1>1, <1>7, PlatformParts DEF PlatformInvariant, ReplayedEnded
    <3>2. CASE k \notin replayed
      <4>1. k = l /\ txs[x].op = "reuse"
        BY <3>2, <2>1, <1>8
      <4>2. \A y \in Txs : txs[y].op # "insert"
        BY <4>1 DEF PlatformInvariant, OneRotation, UserOps
      <4>3. \A o \in Rows : rows[o].login = l => rows[o].committed = 1
        BY <4>2, <1>1, <1>6, PlatformParts DEF PlatformInvariant, RowsStand
      <4>4. \A o \in Rows : rows[o].login = l => o \in wave
        BY <4>1, <4>3, <1>5 DEF Family
      <4>. QED
        BY <4>1, <4>3, <4>4, <1>4, <1>5, <1>7
    <3>. QED
      BY <3>1, <3>2
  <2>. QED
    BY <2>1 DEF ReplayedEnded
<1>. QED
  BY <1>11, <1>14, <1>15, <1>16, <1>17, <1>18 DEF PlatformInvariant

LEMMA PlatformAbortKeeps ==
  ASSUME PlatformInvariant, NEW x \in Txs, PlatformAbort(x)
  PROVE  PlatformInvariant'
<1>1. PlatformShape /\ NoRow \notin Rows /\ NoRow \notin Logins /\ TxFits(x)
  BY PlatformParts DEF PlatformInvariant
<1>2. PICK s : s = txs[x].next
  OBVIOUS
<1>3. replayed' = replayed /\ rows' = [r \in Rows |-> IF r = s THEN Absent ELSE rows[r]]
  BY <1>2 DEF PlatformAbort
<1>4. \A r \in Rows : rows'[r] = IF r = s THEN Absent ELSE rows[r]
  BY <1>3
<1>5. txs'[x] = NoTx /\ (\A y \in Txs : y # x => txs'[y] = txs[y]) /\ txs' \in [Txs -> TxOf]
  BY <1>1, TxEnds DEF PlatformAbort
<1>6. s \in Rows => txs[x].op = "insert" /\ rows[s].committed = 0 /\ rows[s].login # NoRow
  <2>1. s \in Rows => /\ txs[x].op = "insert" /\ rows[s].committed = 0
                      /\ txs[x].row \in Rows /\ rows[s].login = rows[txs[x].row].login
                      /\ rows[txs[x].row].committed = 1
    BY <1>1, <1>2 DEF TxFits, UserOps
  <2>. QED
    BY <2>1 DEF PlatformInvariant, RowsStand
<1>7. \A r \in Rows : rows[r].committed = 1 => rows'[r] = rows[r]
  BY <1>4, <1>6
<1>8. \A r \in Rows : rows'[r].committed = 1 => rows'[r] = rows[r]
  BY <1>4, TxRecords
<1>9. PlatformShape'
  BY <1>1, <1>3, <1>5, TxRecords DEF PlatformShape
<1>10. \A k : Family(k)' = Family(k)
  BY <1>7, <1>8 DEF Family
<1>11. ASSUME NEW y \in Txs PROVE TxFits(y)'
  <2>1. CASE y = x
    BY <2>1, <1>5, TxRecords DEF TxFits, UserOps
  <2>2. CASE y # x
    <3>1. txs'[y] = txs[y] /\ TxFits(y)
      BY <2>2, <1>5 DEF PlatformInvariant
    <3>2. txs[y].op \in UserOps \cup {"sign_out"} => txs[y].row \in Rows /\ rows'[txs[y].row] = rows[txs[y].row]
      BY <3>1, <1>7 DEF TxFits
    <3>3. txs[y].op = "insert" => rows'[txs[y].next] = rows[txs[y].next]
      <4>1. txs[y].op = "insert" => s \notin Rows
        BY <2>2, <1>6 DEF PlatformInvariant, OneRotation, UserOps
      <4>2. txs[y].op = "insert" => txs[y].next \in Rows
        BY <3>1 DEF TxFits
      <4>. QED
        BY <4>1, <4>2, <1>4
    <3>4. \A o \in txs[y].wave : o \in Rows /\ rows'[o].committed = 1
      BY <3>1, <1>7 DEF TxFits
    <3>. QED
      BY <3>1, <3>2, <3>3, <3>4, <1>10 DEF TxFits, Exchangeable, UserOps
  <2>. QED
    BY <2>1, <2>2
<1>12. OneRotation'
  BY <1>5, TxRecords DEF PlatformInvariant, OneRotation, UserOps
<1>13. RowsStand'
  <2>1. \A r \in Rows : rows'[r].committed = 1 => rows'[r].login # NoRow
    BY <1>8 DEF PlatformInvariant, RowsStand
  <2>2. ASSUME NEW r \in Rows, rows'[r].committed = 0, rows'[r].login # NoRow
        PROVE  \E y \in Txs : txs'[y].op = "insert" /\ txs'[y].next = r
    <3>1. r # s /\ rows'[r] = rows[r]
      BY <2>2, <1>4, TxRecords
    <3>2. PICK y \in Txs : txs[y].op = "insert" /\ txs[y].next = r
      BY <2>2, <3>1 DEF PlatformInvariant, RowsStand
    <3>. QED
      BY <3>1, <3>2, <1>2, <1>5
  <2>. QED
    BY <2>1, <2>2 DEF RowsStand
<1>14. OneGood'
  BY <1>8 DEF PlatformInvariant, OneGood, Exchangeable
<1>15. ReplayedEnded'
  <2>1. replayed \subseteq Logins
    BY <1>1 DEF PlatformShape
  <2>2. ASSUME NEW r \in Rows, NEW k \in replayed
        PROVE  /\ rows[r].login = k => rows'[r] = rows[r]
               /\ rows'[r].login = k => rows'[r] = rows[r]
    BY <2>1, <1>1, <1>4, <1>6, TxRecords DEF PlatformInvariant, ReplayedEnded
  <2>. QED
    BY <2>2, <1>3 DEF PlatformInvariant, ReplayedEnded
<1>. QED
  BY <1>9, <1>11, <1>12, <1>13, <1>14, <1>15 DEF PlatformInvariant

LEMMA PlatformStep ==
  PlatformInvariant /\ [PlatformNext]_platformVars => PlatformInvariant'
<1>. SUFFICES ASSUME PlatformInvariant, [PlatformNext]_platformVars PROVE PlatformInvariant'
  OBVIOUS
<1>1. CASE UNCHANGED <<rows, txs, replayed>>
  BY <1>1 DEF PlatformInvariant, PlatformShape, TxFits, OneRotation, RowsStand, OneGood, ReplayedEnded,
              Exchangeable, Family
<1>2. CASE \E l \in Logins, r \in Rows : IssuePlatformSession(l, r)
  BY <1>2, IssueKeeps
<1>3. CASE \E x \in Txs : \E r \in Rows : RotateLock(x, r) \/ InsertNext(x, r) \/ RevokeLock(x, r)
  BY <1>3, RotateLockKeeps, InsertNextKeeps, RevokeLockKeeps
<1>4. CASE \E x \in Txs : CommitRotate(x) \/ BeginRevoke(x) \/ CommitRevoke(x) \/ PlatformAbort(x)
  BY <1>4, CommitRotateKeeps, BeginRevokeKeeps, CommitRevokeKeeps, PlatformAbortKeeps
<1>5. CASE \E value \in {0, 1} : SetPlatformUserDisabled(value)
  BY <1>5, <1>1 DEF SetPlatformUserDisabled
<1>6. CASE UNCHANGED platformVars
  BY <1>6, <1>1 DEF platformVars
<1>. QED
  BY <1>2, <1>3, <1>4, <1>5, <1>6 DEF PlatformNext

LEMMA PlatformMeans ==
  PlatformInvariant => PlatformTypeOK /\ ReuseEndsFamily
<1>. SUFFICES ASSUME PlatformInvariant PROVE PlatformTypeOK /\ ReuseEndsFamily
  OBVIOUS
<1>1. PlatformTypeOK
  BY PlatformParts DEF PlatformInvariant, PlatformTypeOK
<1>2. ReuseEndsFamily
  BY DEF PlatformInvariant, ReuseEndsFamily, ReplayedEnded, OneGood, AuthenticatesRow, Exchangeable
<1>. QED
  BY <1>1, <1>2

\* However refreshes, sign-outs, aborts and the disabling of the user overlap,
\* once the use of a spent token is reported no row of its family can be used,
\* and a family never has two good rows (rotate, revoke_platform_family).
THEOREM ReuseEnds ==
  PlatformSpec => []ReuseEndsFamily
<1>1. PlatformInit => PlatformInvariant
  BY PlatformStarts
<1>2. PlatformInvariant /\ [PlatformNext]_platformVars => PlatformInvariant'
  BY PlatformStep
<1>3. PlatformInvariant => ReuseEndsFamily
  BY PlatformMeans
<1>. QED
  BY <1>1, <1>2, <1>3, PTL DEF PlatformSpec

\* The credentials of a project's users, the keys that sign and the developers'
\* sessions keep their shapes and their promises together
\* (issue_session_with_ttl, consume_one_time_token, rotate).
THEOREM CredentialsAreSound ==
  AuthSpec /\ KeysSpec /\ PlatformSpec => []CredentialsSound
<1>1. AuthInit => AuthInvariant /\ ChecksPrecede
  BY InitHolds, ChecksStart
<1>2. AuthInvariant /\ ChecksPrecede /\ [AuthNext]_authVars => (AuthInvariant /\ ChecksPrecede)'
  BY StepHolds, ChecksStep
<1>3. KeysInit => KeysInvariant
  BY KeysStart
<1>4. KeysInvariant /\ [KeysNext]_keyVars => KeysInvariant'
  BY KeysStep
<1>5. PlatformInit => PlatformInvariant
  BY PlatformStarts
<1>6. PlatformInvariant /\ [PlatformNext]_platformVars => PlatformInvariant'
  BY PlatformStep
<1>7. AuthInvariant /\ ChecksPrecede /\ KeysInvariant /\ PlatformInvariant => CredentialsSound
  <2> SUFFICES ASSUME AuthInvariant, ChecksPrecede, KeysInvariant, PlatformInvariant PROVE CredentialsSound
    OBVIOUS
  <2>1. AuthTypeOK
    BY DEF AuthInvariant, Typed, UserRow, SessionRow, TokenRow, AuthTypeOK
  <2>2. KeysTypeOK
    BY DEF KeysInvariant, KeysTyped, KeyRow, KeysTypeOK
  <2> QED
    BY <2>1, <2>2, PlatformMeans, SessionsFollow DEF CredentialsSound, AuthInvariant
<1> QED
  BY <1>1, <1>2, <1>3, <1>4, <1>5, <1>6, <1>7, PTL DEF AuthSpec, KeysSpec, PlatformSpec

-----------------------------------------------------------------------------
(* Administrative commands. A command is followed from its authorisation to  *)
(* its answer: at each stage it is known what it can have done, what the     *)
(* audit log says of it, and that only it can do it.                         *)

Stages == {"none", "authorized", "recorded", "queued", "asking", "settling", "answered"}
Answers == {"none", "created", "revoked", "rotated", "accepted", "unavailable", "notFound"}
CommandRow == [kind : Kinds \cup {"none"}, by : People \cup {0}, key : Commands \cup {0}, stage : Stages,
               answer : Answers, lost : {"yes", "no"}]
ApiKeyRow == [state : {"none", "active", "revoked"}, scopes : SUBSET Scopes, expires : Nat]
UseRow == [key : Commands \cup {0}, scope : Scopes \cup {"none"},
           stage : {"none", "presented", "accepted", "rejected"}, late : {"yes", "no"}]

CommandsTyped ==
  /\ CommandTypeOK
  /\ command \in [Commands -> CommandRow] /\ apiKeys \in [Commands -> ApiKeyRow]
  /\ use \in [Developers -> UseRow]

\* What a command can have done at its stage.
Done(c) == apiKeys[c] # NoApiKey \/ c \in updates
CommandFits(c) ==
  /\ command[c].stage \in {"none", "authorized", "recorded"} => ~ Done(c) /\ command[c].answer = "none"
  /\ command[c].stage \in {"recorded", "queued", "asking", "settling"} => "requested" \in auditLog[c]
  /\ command[c].stage \in {"queued", "asking"} => c \in updates /\ command[c].answer = "none"
  /\ command[c].stage = "settling" => command[c].answer # "none"
  /\ "success" \in auditLog[c] => command[c].stage = "answered" /\ (Acted(c) \/ command[c].kind = "rotate")
  /\ Acted(c) => "requested" \in auditLog[c]
  /\ command[c].answer = "created" => apiKeys[c] # NoApiKey
  /\ command[c].answer = "accepted" => c \in updates
  /\ command[c].answer = "rotated" => command[c].kind = "rotate"
  /\ command[c].answer = "revoked" => command[c].kind = "revoke"
  /\ command[c].stage \in {"settling", "answered"} /\ command[c].answer \in {"none", "unavailable"} /\ Done(c)
       => command[c].lost = "yes"

\* A revocation that was answered, and a request that came after it.
RevocationsStand ==
  /\ \A c \in Commands : command[c].answer = "revoked" =>
       command[c].key \in Commands /\ apiKeys[command[c].key].state = "revoked"
  /\ \A d \in Developers : use[d].late = "yes" =>
       use[d].key \in Commands /\ apiKeys[use[d].key].state = "revoked" /\ use[d].stage # "accepted"

CommandsInvariant == CommandsTyped /\ RevocationsStand /\ \A c \in Commands : CommandFits(c)

\* Keys are made once and revoked for good.
KeysAdvance ==
  \A k \in Commands : /\ apiKeys[k] # NoApiKey => apiKeys'[k] # NoApiKey
                      /\ apiKeys[k].state = "revoked" => apiKeys'[k].state = "revoked"

\* A command that another one's step leaves alone.
LEMMA OthersFit ==
  ASSUME NEW c \in Commands, CommandFits(c), command'[c] = command[c], auditLog'[c] = auditLog[c],
         c \in updates' <=> c \in updates, apiKeys'[c] = NoApiKey <=> apiKeys[c] = NoApiKey
  PROVE  CommandFits(c)'
BY DEF CommandFits, Done, Acted

\* Revocations stand while keys only advance and no new one is answered.
LEMMA StandKept ==
  ASSUME CommandsInvariant, KeysAdvance, UNCHANGED use,
         \A c \in Commands : command'[c].answer = "revoked" =>
           command'[c] = command[c] \/ (command'[c].answer = command[c].answer /\ command'[c].key = command[c].key)
  PROVE  RevocationsStand'
BY DEF CommandsInvariant, RevocationsStand, KeysAdvance

\* The three ways a step changes a command.
LEMMA SetFacts ==
  ASSUME command \in [Commands -> CommandRow], NEW c \in Commands, NEW stage \in Stages, Set(c, stage)
  PROVE  /\ command' \in [Commands -> CommandRow]
         /\ \A d \in Commands : d # c => command'[d] = command[d]
         /\ command'[c].stage = stage /\ command'[c].answer = command[c].answer
         /\ command'[c].kind = command[c].kind /\ command'[c].key = command[c].key
         /\ command'[c].lost = command[c].lost
BY DEF Set, CommandRow

\* A command moved to a stage with an answer; the other commands stay.
LEMMA SettleFacts ==
  ASSUME command \in [Commands -> CommandRow], NEW c \in Commands, NEW stage \in Stages, NEW answer \in Answers,
         command' = [command EXCEPT ![c].stage = stage, ![c].answer = answer]
  PROVE  /\ command' \in [Commands -> CommandRow]
         /\ \A d \in Commands : d # c => command'[d] = command[d]
         /\ command'[c].stage = stage /\ command'[c].answer = answer
         /\ command'[c].kind = command[c].kind /\ command'[c].key = command[c].key
         /\ command'[c].lost = command[c].lost
<1>1. PICK row \in CommandRow : row = command[c]
  OBVIOUS
<1>2. PICK new : new = [row EXCEPT !.stage = stage, !.answer = answer]
  OBVIOUS
<1>3. command' = [command EXCEPT ![c] = new]
  BY <1>1, <1>2
<1>4. /\ new \in CommandRow /\ new.stage = stage /\ new.answer = answer
      /\ new.kind = row.kind /\ new.key = row.key /\ new.lost = row.lost
  BY <1>2 DEF CommandRow
<1> QED
  BY <1>1, <1>3, <1>4

\* The same, with what became of the caller noted.
LEMMA LoseFacts ==
  ASSUME command \in [Commands -> CommandRow], NEW c \in Commands, NEW stage \in Stages, NEW answer \in Answers,
         NEW lost \in {"yes", "no"},
         command' = [command EXCEPT ![c].stage = stage, ![c].answer = answer, ![c].lost = lost]
  PROVE  /\ command' \in [Commands -> CommandRow]
         /\ \A d \in Commands : d # c => command'[d] = command[d]
         /\ command'[c].stage = stage /\ command'[c].answer = answer
         /\ command'[c].kind = command[c].kind /\ command'[c].key = command[c].key
         /\ command'[c].lost = lost
<1>1. PICK row \in CommandRow : row = command[c]
  OBVIOUS
<1>2. \A d \in Commands : d # c => command'[d] = command[d]
  OBVIOUS
<1>3. PICK new : new = [row EXCEPT !.stage = stage, !.answer = answer, !.lost = lost]
  OBVIOUS
<1>4. command'[c] = new
  BY <1>1, <1>3
<1>5. /\ new \in CommandRow /\ new.stage = stage /\ new.answer = answer
      /\ new.kind = row.kind /\ new.key = row.key /\ new.lost = lost
  BY <1>3 DEF CommandRow
<1>6. command' = [d \in Commands |-> command'[d]]
  OBVIOUS
<1>7. \A d \in Commands : command'[d] \in CommandRow
  BY <1>2, <1>4, <1>5
<1>8. command' \in [Commands -> CommandRow]
  BY <1>6, <1>7
<1> QED
  BY <1>1, <1>2, <1>4, <1>5, <1>8

\* The step of one command that answers no revocation.
LEMMA StepOfCommand ==
  ASSUME CommandsInvariant, NEW c \in Commands, CommandTypeOK', UNCHANGED use, KeysAdvance,
         command' \in [Commands -> CommandRow], apiKeys' \in [Commands -> ApiKeyRow],
         \A d \in Commands : d # c => /\ command'[d] = command[d] /\ auditLog'[d] = auditLog[d]
                                      /\ d \in updates' <=> d \in updates
                                      /\ apiKeys'[d] = NoApiKey <=> apiKeys[d] = NoApiKey,
         command'[c].answer = "revoked" => command[c].answer = "revoked" /\ command'[c].key = command[c].key,
         CommandFits(c)'
  PROVE  CommandsInvariant'
<1>1. CommandsTyped'
  BY DEF CommandsInvariant, CommandsTyped
<1>2. RevocationsStand'
  BY StandKept
<1>3. ASSUME NEW d \in Commands, d # c PROVE CommandFits(d)'
  BY <1>3, OthersFit DEF CommandsInvariant
<1> QED
  BY <1>1, <1>2, <1>3 DEF CommandsInvariant

\* What the invariant says of one command, and what leaves the keys alone.
LEMMA CommandParts ==
  ASSUME CommandsInvariant
  PROVE  /\ CommandTypeOK /\ command \in [Commands -> CommandRow] /\ apiKeys \in [Commands -> ApiKeyRow]
         /\ use \in [Developers -> UseRow] /\ RevocationsStand
         /\ \A c \in Commands : CommandFits(c) /\ command[c] \in CommandRow
         /\ second \in Nat /\ MaxSecond \in Nat /\ trouble \in Nat /\ MaxTrouble \in Nat
         /\ UNCHANGED apiKeys => KeysAdvance
         /\ UNCHANGED <<second, rights, signedIn, updates, auditLog, trouble>>
              /\ command' \in [Commands -> CommandRow] => CommandTypeOK'
<1>1. CommandTypeOK /\ command \in [Commands -> CommandRow] /\ apiKeys \in [Commands -> ApiKeyRow]
      /\ use \in [Developers -> UseRow] /\ RevocationsStand
  BY DEF CommandsInvariant, CommandsTyped
<1>2. second \in Nat /\ MaxSecond \in Nat /\ trouble \in Nat /\ MaxTrouble \in Nat
  BY <1>1, CommandAssumption DEF CommandTypeOK
<1>3. UNCHANGED apiKeys => KeysAdvance
  BY DEF KeysAdvance
<1>4. UNCHANGED <<second, rights, signedIn, updates, auditLog, trouble>>
      /\ command' \in [Commands -> CommandRow] => CommandTypeOK'
  BY <1>1 DEF CommandTypeOK, CommandRow
<1> QED
  BY <1>1, <1>2, <1>3, <1>4 DEF CommandsInvariant

\* Another failure is within the bound.
LEMMA MoreTrouble ==
  ASSUME CommandsInvariant, trouble < MaxTrouble, trouble' = trouble + 1,
         UNCHANGED <<second, signedIn, updates>>, command' \in [Commands -> CommandRow],
         rights' \subseteq People,
         auditLog' \in [Commands -> SUBSET {"requested", "success", "failure", "denied"}]
  PROVE  CommandTypeOK'
BY CommandParts DEF CommandTypeOK, CommandRow

\* Authorisation and the audit log.
LEMMA AuditSteps ==
  ASSUME CommandsInvariant, NEW c \in Commands,
         \/ \E u \in People, k \in Commands \cup {0}, kind \in Kinds : Authorize(c, kind, u, k)
         \/ RequireAudit(c) \/ AuditUnavailable(c) \/ TerminalAudit(c)
  PROVE  CommandsInvariant'
<1>0. CommandTypeOK /\ CommandFits(c) /\ command[c] \in CommandRow /\ command \in [Commands -> CommandRow]
      /\ apiKeys \in [Commands -> ApiKeyRow]
      /\ auditLog \in [Commands -> SUBSET {"requested", "success", "failure", "denied"}]
  BY CommandParts DEF CommandTypeOK
<1>1. ASSUME NEW u \in People, NEW k \in Commands \cup {0}, NEW kind \in Kinds, Authorize(c, kind, u, k)
      PROVE  CommandsInvariant'
  <2>1. PICK none : none = NoCommand
    OBVIOUS
  <2>2. none \in CommandRow /\ none.stage = "none" /\ none.answer = "none" /\ none.kind = "none"
    BY <2>1 DEF NoCommand, CommandRow, Stages, Answers
  <2>3. PICK row : row = [none EXCEPT !.kind = kind, !.by = u, !.key = k, !.stage = "authorized"]
    OBVIOUS
  <2>4. row \in CommandRow /\ row.stage = "authorized" /\ row.answer = "none" /\ row.key = k
    BY <2>2, <2>3 DEF CommandRow, Stages
  <2>5. /\ command[c] = none /\ command' = [command EXCEPT ![c] = row]
        /\ UNCHANGED <<second, rights, signedIn, apiKeys, updates, auditLog, use, trouble>>
    BY <1>1, <2>1, <2>3 DEF Authorize
  <2>6. command' \in [Commands -> CommandRow] /\ command'[c] = row
        /\ \A d \in Commands : d # c => command'[d] = command[d]
    BY <1>0, <2>4, <2>5
  <2>7. CommandTypeOK' /\ KeysAdvance
    BY <2>5, <2>6, CommandParts
  <2>8. CommandFits(c)'
    BY <1>0, <2>2, <2>4, <2>5, <2>6 DEF CommandFits, Done, Acted
  <2> QED
    BY <1>0, <2>4, <2>5, <2>6, <2>7, <2>8, StepOfCommand
<1>2. CASE RequireAudit(c)
  <2>1. /\ command[c].stage = "authorized" /\ Set(c, "recorded")
        /\ auditLog' = [auditLog EXCEPT ![c] = @ \cup {"requested"}]
        /\ UNCHANGED <<second, rights, signedIn, apiKeys, updates, use, trouble>>
    BY <1>2 DEF RequireAudit
  <2>2. "recorded" \in Stages
    BY DEF Stages
  <2>3. /\ command' \in [Commands -> CommandRow]
        /\ \A d \in Commands : d # c => command'[d] = command[d]
        /\ command'[c].stage = "recorded" /\ command'[c].answer = command[c].answer
        /\ command'[c].kind = command[c].kind /\ command'[c].key = command[c].key
        /\ command'[c].lost = command[c].lost
    BY <1>0, <2>1, <2>2, SetFacts
  <2>4. auditLog' \in [Commands -> SUBSET {"requested", "success", "failure", "denied"}]
        /\ auditLog'[c] = auditLog[c] \cup {"requested"}
        /\ \A d \in Commands : d # c => auditLog'[d] = auditLog[d]
    BY <1>0, <2>1
  <2>5. CommandTypeOK' /\ KeysAdvance
    BY <1>0, <2>1, <2>3, <2>4, CommandParts DEF CommandTypeOK, CommandRow
  <2>6. CommandFits(c)'
    BY <1>0, <2>1, <2>3, <2>4 DEF CommandFits, Done, Acted
  <2> QED
    BY <1>0, <2>1, <2>3, <2>4, <2>5, <2>6, StepOfCommand
<1>3. CASE AuditUnavailable(c)
  <2>1. /\ command[c].stage = "authorized" /\ trouble < MaxTrouble /\ trouble' = trouble + 1
        /\ command' = [command EXCEPT ![c].stage = "answered", ![c].answer = "unavailable"]
        /\ UNCHANGED <<second, rights, signedIn, apiKeys, updates, auditLog, use>>
    BY <1>3 DEF AuditUnavailable, AfterNoAudit
  <2>2. "answered" \in Stages /\ "unavailable" \in Answers
    BY DEF Stages, Answers
  <2>3. /\ command' \in [Commands -> CommandRow]
        /\ \A d \in Commands : d # c => command'[d] = command[d]
        /\ command'[c].stage = "answered" /\ command'[c].answer = "unavailable"
        /\ command'[c].kind = command[c].kind /\ command'[c].key = command[c].key
        /\ command'[c].lost = command[c].lost
    BY <1>0, <2>1, <2>2, SettleFacts
  <2>4. CommandTypeOK' /\ KeysAdvance
    BY <1>0, <2>1, <2>3, CommandParts, MoreTrouble DEF CommandTypeOK
  <2>5. CommandFits(c)'
    BY <1>0, <2>1, <2>3 DEF CommandFits, Done, Acted
  <2> QED
    BY <1>0, <2>1, <2>3, <2>4, <2>5, StepOfCommand
<1>4. CASE TerminalAudit(c)
  <2>1. /\ command[c].stage = "settling" /\ Set(c, "answered")
        /\ \/ auditLog' = [auditLog EXCEPT ![c] = @ \cup {Outcome[command[c].answer]}] /\ UNCHANGED trouble
           \/ trouble < MaxTrouble /\ trouble' = trouble + 1 /\ UNCHANGED auditLog
        /\ UNCHANGED <<second, rights, signedIn, apiKeys, updates, use>>
    BY <1>4 DEF TerminalAudit
  <2>2. "answered" \in Stages
    BY DEF Stages
  <2>3. /\ command' \in [Commands -> CommandRow]
        /\ \A d \in Commands : d # c => command'[d] = command[d]
        /\ command'[c].stage = "answered" /\ command'[c].answer = command[c].answer
        /\ command'[c].kind = command[c].kind /\ command'[c].key = command[c].key
        /\ command'[c].lost = command[c].lost
    BY <1>0, <2>1, <2>2, SetFacts
  <2>4. PICK o : o = Outcome[command[c].answer]
    OBVIOUS
  <2>5. command[c].answer \in {"created", "revoked", "rotated", "accepted", "unavailable", "notFound"}
    BY <1>0, <2>1 DEF CommandFits, CommandRow, Answers
  <2>6. o \in {"success", "failure", "denied"}
        /\ (o = "success" => command[c].answer \in {"created", "revoked", "rotated", "accepted"})
    BY <2>4, <2>5 DEF Outcome
  <2>7. auditLog' \in [Commands -> SUBSET {"requested", "success", "failure", "denied"}]
        /\ auditLog[c] \subseteq auditLog'[c] /\ auditLog'[c] \subseteq auditLog[c] \cup {o}
        /\ \A d \in Commands : d # c => auditLog'[d] = auditLog[d]
    BY <1>0, <2>1, <2>4, <2>6
  <2>8. CommandTypeOK' /\ KeysAdvance
    BY <1>0, <2>1, <2>3, <2>7, CommandParts, MoreTrouble DEF CommandTypeOK, CommandRow
  <2>9. CommandFits(c)'
    BY <1>0, <2>1, <2>3, <2>6, <2>7 DEF CommandFits, Done, Acted
  <2> QED
    BY <1>0, <2>1, <2>3, <2>7, <2>8, <2>9, StepOfCommand
<1> QED
  BY <1>1, <1>2, <1>3, <1>4

\* What an administrator does with the project's keys.
LEMMA KeySteps ==
  ASSUME CommandsInvariant, NEW c \in Commands,
         \/ \E scopes \in SUBSET Scopes, life \in {0, KeyLife} : InsertApiKey(c, scopes, life)
         \/ \E scopes \in SUBSET Scopes : InsertUnanswered(c, scopes)
         \/ RotateKey(c) \/ StatementFails(c)
  PROVE  CommandsInvariant'
<1>0. CommandTypeOK /\ CommandFits(c) /\ command[c] \in CommandRow /\ command \in [Commands -> CommandRow]
      /\ apiKeys \in [Commands -> ApiKeyRow] /\ second \in Nat
      /\ auditLog \in [Commands -> SUBSET {"requested", "success", "failure", "denied"}]
  BY CommandParts DEF CommandTypeOK
<1>s. "settling" \in Stages /\ {"created", "rotated", "unavailable"} \subseteq Answers
  BY DEF Stages, Answers
<1>1. ASSUME NEW scopes \in SUBSET Scopes, NEW life \in {0, KeyLife}, InsertApiKey(c, scopes, life)
      PROVE  CommandsInvariant'
  <2>1. PICK key : key = [state |-> "active", scopes |-> scopes, expires |-> IF life = 0 THEN 0 ELSE second + life]
    OBVIOUS
  <2>2. key \in ApiKeyRow /\ key.state = "active"
    BY <1>0, <2>1, CommandAssumption DEF ApiKeyRow
  <2>a. /\ command[c].kind = "create" /\ command[c].stage = "recorded" /\ Settle(c, "created")
        /\ apiKeys' = [apiKeys EXCEPT ![c] = key]
        /\ UNCHANGED <<second, rights, signedIn, updates, auditLog, use, trouble>>
    BY <1>1, <2>1 DEF InsertApiKey
  <2>3. /\ command' \in [Commands -> CommandRow]
        /\ \A d \in Commands : d # c => command'[d] = command[d]
        /\ command'[c].stage = "settling" /\ command'[c].answer = "created"
        /\ command'[c].kind = command[c].kind /\ command'[c].key = command[c].key
        /\ command'[c].lost = command[c].lost
    BY <1>0, <1>s, <2>a, SettleFacts DEF Settle
  <2>4. apiKeys[c] = NoApiKey
    BY <1>0, <2>a DEF CommandFits, Done
  <2>5. apiKeys' \in [Commands -> ApiKeyRow] /\ apiKeys'[c] = key
        /\ \A d \in Commands : d # c => apiKeys'[d] = apiKeys[d]
    BY <1>0, <2>2, <2>a
  <2>6. KeysAdvance /\ apiKeys'[c] # NoApiKey
    BY <2>2, <2>4, <2>5 DEF KeysAdvance, NoApiKey
  <2>7. CommandTypeOK'
    BY <2>a, <2>3, CommandParts
  <2>8. CommandFits(c)'
    BY <1>0, <2>a, <2>3, <2>6 DEF CommandFits, Done, Acted
  <2> QED
    BY <2>a, <2>3, <2>5, <2>6, <2>7, <2>8, StepOfCommand
<1>2. ASSUME NEW scopes \in SUBSET Scopes, InsertUnanswered(c, scopes)
      PROVE  CommandsInvariant'
  <2>1. PICK key : key = [state |-> "active", scopes |-> scopes, expires |-> 0]
    OBVIOUS
  <2>2. key \in ApiKeyRow /\ key.state = "active"
    BY <2>1 DEF ApiKeyRow
  <2>a. /\ command[c].kind = "create" /\ command[c].stage = "recorded"
        /\ command' = [command EXCEPT ![c].stage = "settling", ![c].answer = "unavailable", ![c].lost = "yes"]
        /\ apiKeys' = [apiKeys EXCEPT ![c] = key] /\ trouble < MaxTrouble /\ trouble' = trouble + 1
        /\ UNCHANGED <<second, rights, signedIn, updates, auditLog, use>>
    BY <1>2, <2>1 DEF InsertUnanswered
  <2>3. /\ command' \in [Commands -> CommandRow]
        /\ \A d \in Commands : d # c => command'[d] = command[d]
        /\ command'[c].stage = "settling" /\ command'[c].answer = "unavailable"
        /\ command'[c].kind = command[c].kind /\ command'[c].key = command[c].key
        /\ command'[c].lost = "yes"
    BY <1>0, <1>s, <2>a, LoseFacts
  <2>4. apiKeys[c] = NoApiKey
    BY <1>0, <2>a DEF CommandFits, Done
  <2>5. apiKeys' \in [Commands -> ApiKeyRow] /\ apiKeys'[c] = key
        /\ \A d \in Commands : d # c => apiKeys'[d] = apiKeys[d]
    BY <1>0, <2>2, <2>a
  <2>6. KeysAdvance /\ apiKeys'[c] # NoApiKey
    BY <2>2, <2>4, <2>5 DEF KeysAdvance, NoApiKey
  <2>7. CommandTypeOK'
    BY <1>0, <2>a, <2>3, MoreTrouble DEF CommandTypeOK
  <2>8. CommandFits(c)'
    BY <1>0, <2>a, <2>3, <2>6 DEF CommandFits, Done, Acted
  <2> QED
    BY <2>a, <2>3, <2>5, <2>6, <2>7, <2>8, StepOfCommand
<1>3. CASE RotateKey(c)
  <2>1. /\ command[c].kind = "rotate" /\ command[c].stage = "recorded" /\ Settle(c, "rotated")
        /\ UNCHANGED <<second, rights, signedIn, apiKeys, updates, auditLog, use, trouble>>
    BY <1>3 DEF RotateKey
  <2>3. /\ command' \in [Commands -> CommandRow]
        /\ \A d \in Commands : d # c => command'[d] = command[d]
        /\ command'[c].stage = "settling" /\ command'[c].answer = "rotated"
        /\ command'[c].kind = command[c].kind /\ command'[c].key = command[c].key
        /\ command'[c].lost = command[c].lost
    BY <1>0, <1>s, <2>1, SettleFacts DEF Settle
  <2>4. CommandTypeOK' /\ KeysAdvance
    BY <2>1, <2>3, CommandParts
  <2>5. CommandFits(c)'
    BY <1>0, <2>1, <2>3 DEF CommandFits, Done, Acted
  <2> QED
    BY <1>0, <2>1, <2>3, <2>4, <2>5, StepOfCommand
<1>4. CASE StatementFails(c)
  <2>1. /\ command[c].stage = "recorded" /\ Settle(c, "unavailable")
        /\ trouble < MaxTrouble /\ trouble' = trouble + 1
        /\ UNCHANGED <<second, rights, signedIn, apiKeys, updates, auditLog, use>>
    BY <1>4 DEF StatementFails
  <2>3. /\ command' \in [Commands -> CommandRow]
        /\ \A d \in Commands : d # c => command'[d] = command[d]
        /\ command'[c].stage = "settling" /\ command'[c].answer = "unavailable"
        /\ command'[c].kind = command[c].kind /\ command'[c].key = command[c].key
        /\ command'[c].lost = command[c].lost
    BY <1>0, <1>s, <2>1, SettleFacts DEF Settle
  <2>4. CommandTypeOK' /\ KeysAdvance
    BY <1>0, <2>1, <2>3, CommandParts, MoreTrouble DEF CommandTypeOK
  <2>5. CommandFits(c)'
    BY <1>0, <2>1, <2>3 DEF CommandFits, Done, Acted
  <2> QED
    BY <1>0, <2>1, <2>3, <2>4, <2>5, StepOfCommand
<1> QED
  BY <1>1, <1>2, <1>3, <1>4

\* A revocation: the only step that answers one, and no key comes back.
LEMMA RevokeStep ==
  ASSUME CommandsInvariant, NEW c \in Commands, command[c].key # 0, Revoke(c, command[c].key)
  PROVE  CommandsInvariant'
<1>0. CommandTypeOK /\ CommandFits(c) /\ command[c] \in CommandRow /\ command \in [Commands -> CommandRow]
      /\ apiKeys \in [Commands -> ApiKeyRow] /\ RevocationsStand
  BY CommandParts
<1>s. "settling" \in Stages /\ {"revoked", "notFound"} \subseteq Answers
  BY DEF Stages, Answers
<1>1. PICK k \in Commands : k = command[c].key
  BY <1>0 DEF CommandRow
<1>2. /\ command[c].kind = "revoke" /\ command[c].stage = "recorded"
      /\ \/ /\ apiKeys[k] # NoApiKey
            /\ apiKeys' = [apiKeys EXCEPT ![k].state = "revoked"] /\ Settle(c, "revoked")
         \/ apiKeys[k] = NoApiKey /\ UNCHANGED apiKeys /\ Settle(c, "notFound")
      /\ UNCHANGED <<second, rights, signedIn, updates, auditLog, use, trouble>>
  BY <1>1 DEF Revoke
<1>3. CASE /\ apiKeys[k] # NoApiKey
           /\ apiKeys' = [apiKeys EXCEPT ![k].state = "revoked"] /\ Settle(c, "revoked")
  <2>3. /\ command' \in [Commands -> CommandRow]
        /\ \A d \in Commands : d # c => command'[d] = command[d]
        /\ command'[c].stage = "settling" /\ command'[c].answer = "revoked"
        /\ command'[c].kind = command[c].kind /\ command'[c].key = command[c].key
        /\ command'[c].lost = command[c].lost
    BY <1>0, <1>s, <1>3, SettleFacts DEF Settle
  <2>4. apiKeys' \in [Commands -> ApiKeyRow] /\ apiKeys'[k].state = "revoked"
        /\ \A d \in Commands : d # k => apiKeys'[d] = apiKeys[d]
    BY <1>0, <1>3 DEF ApiKeyRow
  <2>5. apiKeys'[k] # NoApiKey
    BY <2>4 DEF NoApiKey
  <2>6. KeysAdvance /\ \A d \in Commands : apiKeys'[d] = NoApiKey <=> apiKeys[d] = NoApiKey
    BY <1>3, <2>4, <2>5 DEF KeysAdvance
  <2>7. CommandsTyped'
    <3>1. CommandTypeOK' /\ use' \in [Developers -> UseRow]
      BY <1>2, <2>3, CommandParts
    <3> QED
      BY <2>3, <2>4, <3>1 DEF CommandsTyped
  <2>8. ASSUME NEW d \in Commands PROVE CommandFits(d)'
    <3>1. CASE d = c
      BY <1>0, <1>2, <2>3, <2>6, <3>1 DEF CommandFits, Done, Acted
    <3>2. CASE d # c
      BY <1>2, <2>3, <2>6, <3>2, OthersFit, CommandParts
    <3> QED
      BY <3>1, <3>2
  <2>9. RevocationsStand'
    BY <1>0, <1>1, <1>2, <2>3, <2>4, <2>6 DEF RevocationsStand, KeysAdvance
  <2> QED
    BY <2>7, <2>8, <2>9 DEF CommandsInvariant
<1>4. CASE UNCHANGED apiKeys /\ Settle(c, "notFound")
  <2>3. /\ command' \in [Commands -> CommandRow]
        /\ \A d \in Commands : d # c => command'[d] = command[d]
        /\ command'[c].stage = "settling" /\ command'[c].answer = "notFound"
        /\ command'[c].kind = command[c].kind /\ command'[c].key = command[c].key
        /\ command'[c].lost = command[c].lost
    BY <1>0, <1>s, <1>4, SettleFacts DEF Settle
  <2>4. CommandTypeOK' /\ KeysAdvance
    BY <1>2, <1>4, <2>3, CommandParts
  <2>5. CommandFits(c)'
    BY <1>0, <1>2, <1>4, <2>3 DEF CommandFits, Done, Acted
  <2> QED
    BY <1>0, <1>2, <1>4, <2>3, <2>4, <2>5, StepOfCommand
<1> QED
  BY <1>2, <1>3, <1>4

\* The host updater, whose jobs are queued before it answers.
LEMMA UpdaterSteps ==
  ASSUME CommandsInvariant, NEW c \in Commands,
         \/ QueueJob(c) \/ UpdaterRefuses(c) \/ AskForJob(c) \/ SubmitFails(c)
         \/ \E output \in {"job", "identifier"} : ReadOutput(c, output)
  PROVE  CommandsInvariant'
<1>0. CommandTypeOK /\ CommandFits(c) /\ command[c] \in CommandRow /\ command \in [Commands -> CommandRow]
      /\ apiKeys \in [Commands -> ApiKeyRow]
  BY CommandParts
<1>s. {"settling", "queued", "asking"} \subseteq Stages /\ {"accepted", "unavailable"} \subseteq Answers
  BY DEF Stages, Answers
<1>1. CASE QueueJob(c)
  <2>1. /\ command[c].kind \in {"check", "change"} /\ command[c].stage = "recorded" /\ Set(c, "queued")
        /\ updates' = updates \cup {c}
        /\ UNCHANGED <<second, rights, signedIn, apiKeys, auditLog, use, trouble>>
    BY <1>1 DEF QueueJob, Submits
  <2>3. /\ command' \in [Commands -> CommandRow]
        /\ \A d \in Commands : d # c => command'[d] = command[d]
        /\ command'[c].stage = "queued" /\ command'[c].answer = command[c].answer
        /\ command'[c].kind = command[c].kind /\ command'[c].key = command[c].key
        /\ command'[c].lost = command[c].lost
    BY <1>0, <1>s, <2>1, SetFacts
  <2>4. CommandTypeOK' /\ KeysAdvance
    BY <1>0, <2>1, <2>3, CommandParts DEF CommandTypeOK, CommandRow
  <2>5. CommandFits(c)'
    BY <1>0, <2>1, <2>3 DEF CommandFits, Done, Acted
  <2> QED
    BY <1>0, <2>1, <2>3, <2>4, <2>5, StepOfCommand
<1>2. CASE UpdaterRefuses(c)
  <2>1. /\ command[c].stage = "recorded" /\ Settle(c, "unavailable")
        /\ UNCHANGED <<second, rights, signedIn, apiKeys, updates, auditLog, use, trouble>>
    BY <1>2 DEF UpdaterRefuses
  <2>3. /\ command' \in [Commands -> CommandRow]
        /\ \A d \in Commands : d # c => command'[d] = command[d]
        /\ command'[c].stage = "settling" /\ command'[c].answer = "unavailable"
        /\ command'[c].kind = command[c].kind /\ command'[c].key = command[c].key
        /\ command'[c].lost = command[c].lost
    BY <1>0, <1>s, <2>1, SettleFacts DEF Settle
  <2>4. CommandTypeOK' /\ KeysAdvance
    BY <2>1, <2>3, CommandParts
  <2>5. CommandFits(c)'
    BY <1>0, <2>1, <2>3 DEF CommandFits, Done, Acted
  <2> QED
    BY <1>0, <2>1, <2>3, <2>4, <2>5, StepOfCommand
<1>3. CASE SubmitFails(c)
  <2>1. /\ command[c].stage \in {"queued", "asking"} /\ trouble < MaxTrouble /\ trouble' = trouble + 1
        /\ command' = [command EXCEPT ![c].stage = "settling", ![c].answer = "unavailable", ![c].lost = "yes"]
        /\ UNCHANGED <<second, rights, signedIn, apiKeys, updates, auditLog, use>>
    BY <1>3 DEF SubmitFails
  <2>3. /\ command' \in [Commands -> CommandRow]
        /\ \A d \in Commands : d # c => command'[d] = command[d]
        /\ command'[c].stage = "settling" /\ command'[c].answer = "unavailable"
        /\ command'[c].kind = command[c].kind /\ command'[c].key = command[c].key
        /\ command'[c].lost = "yes"
    BY <1>0, <1>s, <2>1, LoseFacts
  <2>4. CommandTypeOK' /\ KeysAdvance
    BY <1>0, <2>1, <2>3, CommandParts, MoreTrouble DEF CommandTypeOK
  <2>5. CommandFits(c)'
    BY <1>0, <2>1, <2>3 DEF CommandFits, Done, Acted
  <2> QED
    BY <1>0, <2>1, <2>3, <2>4, <2>5, StepOfCommand
<1>4. ASSUME command[c].stage \in {"queued", "asking"}, Settle(c, "accepted"),
             UNCHANGED <<second, rights, signedIn, apiKeys, updates, auditLog, use, trouble>>
      PROVE  CommandsInvariant'
  <2>3. /\ command' \in [Commands -> CommandRow]
        /\ \A d \in Commands : d # c => command'[d] = command[d]
        /\ command'[c].stage = "settling" /\ command'[c].answer = "accepted"
        /\ command'[c].kind = command[c].kind /\ command'[c].key = command[c].key
        /\ command'[c].lost = command[c].lost
    BY <1>0, <1>s, <1>4, SettleFacts DEF Settle
  <2>4. CommandTypeOK' /\ KeysAdvance
    BY <1>4, <2>3, CommandParts
  <2>5. CommandFits(c)'
    BY <1>0, <1>4, <2>3 DEF CommandFits, Done, Acted
  <2> QED
    BY <1>0, <1>4, <2>3, <2>4, <2>5, StepOfCommand
<1>5. ASSUME command[c].stage = "queued", Set(c, "asking"),
             UNCHANGED <<second, rights, signedIn, apiKeys, updates, auditLog, use, trouble>>
      PROVE  CommandsInvariant'
  <2>3. /\ command' \in [Commands -> CommandRow]
        /\ \A d \in Commands : d # c => command'[d] = command[d]
        /\ command'[c].stage = "asking" /\ command'[c].answer = command[c].answer
        /\ command'[c].kind = command[c].kind /\ command'[c].key = command[c].key
        /\ command'[c].lost = command[c].lost
    BY <1>0, <1>s, <1>5, SetFacts
  <2>4. CommandTypeOK' /\ KeysAdvance
    BY <1>5, <2>3, CommandParts
  <2>5. CommandFits(c)'
    BY <1>0, <1>5, <2>3 DEF CommandFits, Done, Acted
  <2> QED
    BY <1>0, <1>5, <2>3, <2>4, <2>5, StepOfCommand
<1>6. CASE AskForJob(c)
  BY <1>4, <1>6 DEF AskForJob
<1>7. ASSUME NEW output \in {"job", "identifier"}, ReadOutput(c, output) PROVE CommandsInvariant'
  BY <1>4, <1>5, <1>7 DEF ReadOutput
<1> QED
  BY <1>1, <1>2, <1>3, <1>6, <1>7

\* A request presents a key and has it verified.
LEMMA UseSteps ==
  ASSUME CommandsInvariant, NEW d \in Developers,
         VerifyKey(d) \/ \E k \in Commands, s \in Scopes : PresentKey(d, k, s)
  PROVE  CommandsInvariant'
<1>0. CommandTypeOK /\ command \in [Commands -> CommandRow] /\ apiKeys \in [Commands -> ApiKeyRow]
      /\ use \in [Developers -> UseRow] /\ RevocationsStand /\ \A c \in Commands : CommandFits(c)
  BY CommandParts
<1>1. UNCHANGED <<second, rights, signedIn, command, apiKeys, updates, auditLog, trouble>>
  BY DEF VerifyKey, PresentKey
<1>2. CommandTypeOK' /\ \A c \in Commands : CommandFits(c)'
  <2>1. CommandTypeOK'
    BY <1>0, <1>1 DEF CommandTypeOK
  <2>2. ASSUME NEW c \in Commands PROVE CommandFits(c)'
    BY <1>0, <1>1 DEF CommandFits, Done, Acted
  <2> QED
    BY <2>1, <2>2
<1>3. /\ use' \in [Developers -> UseRow] /\ \A e \in Developers : e # d => use'[e] = use[e]
      /\ use'[d].late = "yes" =>
           use'[d].key \in Commands /\ apiKeys[use'[d].key].state = "revoked" /\ use'[d].stage # "accepted"
  <2>1. CASE VerifyKey(d)
    <3>1. PICK stage : stage = IF KeyVerifies(use[d].key, use[d].scope) THEN "accepted" ELSE "rejected"
      OBVIOUS
    <3>2. use' = [use EXCEPT ![d].stage = stage] /\ stage \in {"accepted", "rejected"}
      BY <2>1, <3>1 DEF VerifyKey
    <3>3. use' \in [Developers -> UseRow] /\ (\A e \in Developers : e # d => use'[e] = use[e])
          /\ use'[d].late = use[d].late /\ use'[d].key = use[d].key /\ use'[d].stage = stage
      BY <1>0, <3>2 DEF UseRow
    <3>4. use[d].late = "yes" => use[d].key \in Commands /\ apiKeys[use[d].key].state = "revoked"
      BY <1>0 DEF RevocationsStand
    <3>5. apiKeys[use[d].key].state = "revoked" => stage = "rejected"
      BY <3>1 DEF KeyVerifies
    <3> QED
      BY <3>3, <3>4, <3>5
  <2>2. ASSUME NEW k \in Commands, NEW s \in Scopes, PresentKey(d, k, s)
        PROVE  /\ use' \in [Developers -> UseRow] /\ \A e \in Developers : e # d => use'[e] = use[e]
               /\ use'[d].late = "yes" =>
                    use'[d].key \in Commands /\ apiKeys[use'[d].key].state = "revoked" /\ use'[d].stage # "accepted"
    <3>1. PICK late : late = IF \E c \in Commands : command[c].key = k /\ command[c].answer = "revoked"
                                        /\ command[c].stage = "answered" THEN "yes" ELSE "no"
      OBVIOUS
    <3>2. PICK row : row = [key |-> k, scope |-> s, stage |-> "presented", late |-> late]
      OBVIOUS
    <3>3. row \in UseRow /\ row.key = k /\ row.stage = "presented" /\ row.late = late
      BY <3>1, <3>2 DEF UseRow
    <3>4. use' = [use EXCEPT ![d] = row]
      BY <2>2, <3>1, <3>2 DEF PresentKey
    <3>5. use' \in [Developers -> UseRow] /\ use'[d] = row /\ \A e \in Developers : e # d => use'[e] = use[e]
      BY <1>0, <3>3, <3>4
    <3>6. late = "yes" => apiKeys[k].state = "revoked"
      BY <1>0, <3>1 DEF RevocationsStand
    <3> QED
      BY <3>3, <3>5, <3>6
  <2> QED
    BY <2>1, <2>2
<1>4. RevocationsStand'
  BY <1>0, <1>1, <1>3 DEF RevocationsStand
<1> QED
  BY <1>0, <1>1, <1>2, <1>3, <1>4 DEF CommandsInvariant, CommandsTyped

\* The process ends, and every command in progress with it.
LEMMA EndStep ==
  ASSUME CommandsInvariant, ApiEnds
  PROVE  CommandsInvariant'
<1>0. CommandTypeOK /\ command \in [Commands -> CommandRow] /\ apiKeys \in [Commands -> ApiKeyRow]
      /\ use \in [Developers -> UseRow] /\ RevocationsStand
  BY CommandParts
<1>1. /\ trouble < MaxTrouble /\ trouble' = trouble + 1
      /\ command' = [c \in Commands |->
           IF command[c].stage \in {"none", "answered"} THEN command[c]
           ELSE [command[c] EXCEPT !.stage = "answered", !.answer = "none", !.lost = "yes"]]
      /\ UNCHANGED <<second, rights, signedIn, apiKeys, updates, auditLog, use>>
  BY DEF ApiEnds
<1>2. ASSUME NEW c \in Commands
      PROVE  /\ command'[c] \in CommandRow
             /\ \/ command'[c] = command[c]
                \/ /\ command[c].stage \notin {"none", "answered"}
                   /\ command'[c].stage = "answered" /\ command'[c].answer = "none" /\ command'[c].lost = "yes"
                   /\ command'[c].kind = command[c].kind
  <2>1. PICK row \in CommandRow : row = command[c]
    BY <1>0
  <2>2. command'[c] = IF row.stage \in {"none", "answered"} THEN row
                      ELSE [row EXCEPT !.stage = "answered", !.answer = "none", !.lost = "yes"]
    BY <1>1, <2>1
  <2>3. CASE row.stage \in {"none", "answered"}
    BY <2>1, <2>2, <2>3
  <2>4. CASE row.stage \notin {"none", "answered"}
    <3>1. PICK new : new = [row EXCEPT !.stage = "answered", !.answer = "none", !.lost = "yes"]
      OBVIOUS
    <3>2. command'[c] = new
      BY <2>2, <2>4, <3>1
    <3>3. "answered" \in Stages /\ "none" \in Answers
      BY DEF Stages, Answers
    <3>4. /\ new \in CommandRow /\ new.stage = "answered" /\ new.answer = "none" /\ new.lost = "yes"
          /\ new.kind = row.kind
      BY <3>1, <3>3 DEF CommandRow
    <3> QED
      BY <2>1, <2>4, <3>2, <3>4
  <2> QED
    BY <2>3, <2>4
<1>3. command' \in [Commands -> CommandRow]
  <2>1. command' = [c \in Commands |-> command'[c]]
    BY <1>1
  <2> QED
    BY <1>2, <2>1
<1>4. CommandTypeOK' /\ KeysAdvance
  BY <1>0, <1>1, <1>3, MoreTrouble, CommandParts DEF CommandTypeOK
<1>5. RevocationsStand'
  BY <1>0, <1>1, <1>2, <1>4, StandKept
<1>6. ASSUME NEW c \in Commands PROVE CommandFits(c)'
  <2>1. CommandFits(c) /\ command[c].stage \in Stages
    BY <1>0 DEF CommandsInvariant, CommandRow
  <2>2. CASE command'[c] = command[c]
    BY <1>1, <2>1, <2>2, OthersFit
  <2>3. CASE command'[c] # command[c]
    BY <1>1, <1>2, <2>1, <2>3 DEF CommandFits, Done, Acted, Stages
  <2> QED
    BY <2>2, <2>3
<1> QED
  BY <1>0, <1>1, <1>3, <1>4, <1>5, <1>6 DEF CommandsInvariant, CommandsTyped

\* The steps that touch no command.
LEMMA WorldSteps ==
  ASSUME CommandsInvariant,
         (\E u \in People : ChangeRights(u) \/ SignInAgain(u)) \/ CommandTick \/ UNCHANGED commandVars
  PROVE  CommandsInvariant'
<1>0. CommandTypeOK /\ command \in [Commands -> CommandRow] /\ apiKeys \in [Commands -> ApiKeyRow]
      /\ use \in [Developers -> UseRow] /\ RevocationsStand /\ \A c \in Commands : CommandFits(c)
  BY CommandParts
<1>1. UNCHANGED <<command, apiKeys, updates, auditLog, use>>
  BY DEF ChangeRights, SignInAgain, CommandTick, commandVars
<1>2. CommandTypeOK'
  <2>1. ASSUME NEW u \in People, ChangeRights(u) PROVE CommandTypeOK'
    BY <1>0, <1>1, <2>1, MoreTrouble DEF ChangeRights, CommandTypeOK
  <2>2. ASSUME NEW u \in People, SignInAgain(u) PROVE CommandTypeOK'
    BY <1>0, <1>1, <2>2 DEF SignInAgain, CommandTypeOK
  <2>3. CASE CommandTick
    BY <1>0, <1>1, <2>3, CommandAssumption DEF CommandTick, CommandTypeOK
  <2>4. CASE UNCHANGED commandVars
    BY <1>0, <2>4 DEF commandVars, CommandTypeOK
  <2> QED
    BY <2>1, <2>2, <2>3, <2>4
<1>3. RevocationsStand' /\ \A c \in Commands : CommandFits(c)'
  <2>1. RevocationsStand'
    BY <1>0, <1>1 DEF RevocationsStand
  <2>2. ASSUME NEW c \in Commands PROVE CommandFits(c)'
    BY <1>0, <1>1, OthersFit
  <2> QED
    BY <2>1, <2>2
<1> QED
  BY <1>0, <1>1, <1>2, <1>3 DEF CommandsInvariant, CommandsTyped

\* However commands, failures, restarts and uses of keys interleave, what a
\* command did is announced in the audit log and answered as it was done, and
\* a key whose revocation was answered admits nobody
\* (require_management_audit, audited_job, revoke_api_key, verify_developer_at).
THEOREM CommandsHold == CommandSpec => []CommandsSound
<1>1. CommandInit => CommandsInvariant
  <2> SUFFICES ASSUME CommandInit PROVE CommandsInvariant
    OBVIOUS
  <2>1. PICK none : none = NoCommand
    OBVIOUS
  <2>2. none \in CommandRow /\ none.stage = "none" /\ none.answer = "none" /\ none.kind = "none"
    BY <2>1 DEF NoCommand, CommandRow, Stages, Answers
  <2>3. command = [c \in Commands |-> none]
    BY <2>1 DEF CommandInit
  <2>4. CommandTypeOK
    BY <2>2, <2>3, CommandAssumption DEF CommandInit, CommandTypeOK
  <2>5. NoApiKey \in ApiKeyRow /\ NoUse \in UseRow /\ NoUse.late = "no"
    BY DEF NoApiKey, NoUse, ApiKeyRow, UseRow
  <2>6. CommandsTyped
    BY <2>2, <2>3, <2>4, <2>5 DEF CommandsTyped, CommandInit
  <2>7. RevocationsStand
    BY <2>2, <2>3, <2>5 DEF RevocationsStand, CommandInit
  <2>8. ASSUME NEW c \in Commands PROVE CommandFits(c)
    BY <2>2, <2>3 DEF CommandFits, Done, Acted, CommandInit
  <2> QED
    BY <2>6, <2>7, <2>8 DEF CommandsInvariant
<1>2. CommandsInvariant /\ [CommandNext]_commandVars => CommandsInvariant'
  <2> SUFFICES ASSUME CommandsInvariant, [CommandNext]_commandVars PROVE CommandsInvariant'
    OBVIOUS
  <2>1. ASSUME NEW c \in Commands, CommandStep(c) PROVE CommandsInvariant'
    <3>1. \A scopes \in SUBSET Scopes \ {{}} : scopes \in SUBSET Scopes
      OBVIOUS
    <3> QED
      BY <2>1, <3>1, AuditSteps, KeySteps, RevokeStep, UpdaterSteps DEF CommandStep
  <2> QED
    BY <2>1, UseSteps, EndStep, WorldSteps DEF CommandNext
<1>3. CommandsInvariant => CommandsSound
  BY DEF CommandsInvariant, CommandsTyped, RevocationsStand, CommandFits, Acted, Done, CommandsSound,
         CommandsAccountable, RevokedKeysEnd
<1> QED
  BY <1>1, <1>2, <1>3, PTL DEF CommandSpec

-----------------------------------------------------------------------------
(* The Stripe account a project sells through.                               *)

Owned == Merchants \cup Connected
RequestIds == Owned \cup Products \cup {NoAccount}
Targets == {"enabled", "restricted", NoAccount} \cup Products \cup Prices
BoundRow == [id : Owned, mode : {"byo_keys", "stripe_connect"}, status : Targets \cup {"onboarding"}]
AccountRequestRow ==
  [op : {"idle", "configure", "onboard", "configuring", "onboarding", "refresh", "deleting", "product",
         "archive", "price"},
   id : RequestIds, target : Targets, found : BOOLEAN]

PaymentRowsTyped ==
  /\ account = Unbound \/ account \in BoundRow
  /\ products \in [Products -> [status : {"none", "active", "archived"}, id : RequestIds]]
  /\ prices \in [Prices -> [status : {"none", "active", "retired"}, product : RequestIds]]
  /\ requests \in [AccountRequests -> AccountRequestRow]
  /\ standing \in [Owned -> {"enabled", "restricted"}]

\* A request binds an account of the kind it asked for.
BindingsFit ==
  \A q \in AccountRequests :
    /\ requests[q].op \in {"configure", "configuring"} => requests[q].id \in Merchants
    /\ requests[q].op \in {"onboard", "onboarding"} => requests[q].id \in Connected

\* One transaction at a time holds the row, and one that will exchange the
\* account found the project unused.
OneHolder ==
  \A p, q \in AccountRequests : requests[p].op \in Holding /\ requests[q].op \in Holding => p = q
WritesChecked ==
  \A q \in AccountRequests :
    requests[q].op \in {"configuring", "onboarding"} /\ Bound /\ requests[q].id # account.id => ~requests[q].found

PaymentAccountInvariant == PaymentRowsTyped /\ BindingsFit /\ SecretsFollowMode

LEMMA PaymentAccountStarts == ASSUME AccountsInit PROVE PaymentAccountInvariant
<1>1. Unbound.mode = "none" /\ Idle.op = "idle" /\ Idle \in AccountRequestRow /\ NoProduct \in [status : {"none", "active", "archived"}, id : RequestIds]
  BY DEF Unbound, Idle, AccountRequestRow, NoProduct, RequestIds, Targets
<1>2. PaymentRowsTyped BY <1>1 DEF AccountsInit, PaymentRowsTyped, RequestIds, Owned
<1>3. BindingsFit BY <1>1 DEF AccountsInit, BindingsFit
<1>4. SecretsFollowMode BY <1>1 DEF AccountsInit, SecretsFollowMode
<1> QED BY <1>2, <1>3, <1>4 DEF PaymentAccountInvariant

\* A request that begins,
LEMMA BeginFits ==
  ASSUME PaymentAccountInvariant, NEW q \in AccountRequests, NEW op, NEW id, NEW target, Begin(q, op, id, target),
         op \in {"configure", "onboard", "refresh", "deleting", "product", "archive", "price"}, id \in RequestIds,
         target \in Targets, op = "configure" => id \in Merchants, op = "onboard" => id \in Connected,
         UNCHANGED <<account, secrets, products, prices, standing>>
  PROVE  PaymentAccountInvariant'
<1>1. requests' = [requests EXCEPT ![q] = [op |-> op, id |-> id, target |-> target, found |-> FALSE]] BY DEF Begin
<1>2. [op |-> op, id |-> id, target |-> target, found |-> FALSE] \in AccountRequestRow BY DEF AccountRequestRow
<1>3. requests' \in [AccountRequests -> AccountRequestRow] BY <1>1, <1>2 DEF PaymentAccountInvariant, PaymentRowsTyped
<1>4. BindingsFit'
  <2> SUFFICES ASSUME NEW p \in AccountRequests
               PROVE  /\ requests'[p].op \in {"configure", "configuring"} => requests'[p].id \in Merchants
                      /\ requests'[p].op \in {"onboard", "onboarding"} => requests'[p].id \in Connected
    BY DEF BindingsFit
  <2>1. requests'[p] = IF p = q THEN [op |-> op, id |-> id, target |-> target, found |-> FALSE]
                        ELSE requests[p]
    BY <1>1 DEF PaymentAccountInvariant, PaymentRowsTyped
  <2> QED BY <2>1 DEF PaymentAccountInvariant, BindingsFit
<1> QED BY <1>3, <1>4 DEF PaymentAccountInvariant, PaymentRowsTyped, SecretsFollowMode, Unbound

\* and one that ends.
LEMMA EndFits ==
  ASSUME PaymentAccountInvariant, NEW q \in AccountRequests, End(q)
  PROVE  requests' \in [AccountRequests -> AccountRequestRow] /\ BindingsFit'
<1>1. requests' = [requests EXCEPT ![q] = Idle] /\ Idle.op = "idle" BY DEF End, Idle
<1>2. Idle \in AccountRequestRow BY DEF Idle, AccountRequestRow, RequestIds, Targets
<1>3. requests' \in [AccountRequests -> AccountRequestRow] BY <1>1, <1>2 DEF PaymentAccountInvariant, PaymentRowsTyped
<1>4. \A p \in AccountRequests : requests'[p] = IF p = q THEN Idle ELSE requests[p]
  BY <1>1 DEF PaymentAccountInvariant, PaymentRowsTyped
<1>5. BindingsFit' BY <1>1, <1>4 DEF PaymentAccountInvariant, BindingsFit
<1> QED BY <1>3, <1>5

\* A bound account is one of Stripe's, and a request's fields are typed.
LEMMA AccountKnown ==
  ASSUME PaymentAccountInvariant
  PROVE  /\ Bound => account \in BoundRow /\ account.id \in Owned /\ standing[account.id] \in Targets
         /\ \A id \in Owned : standing[id] \in Targets
         /\ \A q \in AccountRequests : requests[q].id \in RequestIds /\ requests[q].target \in Targets
         /\ Owned \subseteq RequestIds /\ Products \subseteq RequestIds /\ Products \subseteq Targets /\ Prices \subseteq Targets
BY DEF PaymentAccountInvariant, PaymentRowsTyped, Bound, BoundRow, RequestIds, Targets, AccountRequestRow

\* A request that holds the row was checked by the trigger.
LEMMA WriteShape ==
  ASSUME PaymentAccountInvariant, NEW q \in AccountRequests, WriteAccount(q)
  PROVE  \/ End(q)
         \/ \E op \in {"configuring", "onboarding"}, found \in BOOLEAN :
              /\ requests' = [requests EXCEPT ![q] = [op |-> op, id |-> requests[q].id,
                                                      target |-> requests[q].target, found |-> found]]
              /\ op = IF requests[q].op = "configure" THEN "configuring" ELSE "onboarding"
              /\ found = HasProviderState /\ RebindTrigger(requests[q].id)
<1>1. requests[q] \in AccountRequestRow BY DEF PaymentAccountInvariant, PaymentRowsTyped
<1>2. PICK a, i, t, f : requests[q] = [op |-> a, id |-> i, target |-> t, found |-> f]
  BY <1>1 DEF AccountRequestRow
<1>3. PICK op \in {"configuring", "onboarding"} : op = IF requests[q].op = "configure" THEN "configuring" ELSE "onboarding"
  OBVIOUS
<1>4. PICK found \in BOOLEAN : found = HasProviderState BY DEF HasProviderState
<1>5. [requests[q] EXCEPT !.op = op, !.found = found] = [op |-> op, id |-> i, target |-> t, found |-> found]
  <2>1. PICK r : r = [requests[q] EXCEPT !.op = op] OBVIOUS
  <2>2. r = [op |-> op, id |-> i, target |-> t, found |-> f] BY <1>2, <2>1
  <2>3. [r EXCEPT !.found = found] = [op |-> op, id |-> i, target |-> t, found |-> found] BY ONLY <2>2
  <2>4. [requests[q] EXCEPT !.op = op, !.found = found] = [r EXCEPT !.found = found] BY <2>1
  <2> QED BY <2>3, <2>4
<1>6. requests[q].id = i /\ requests[q].target = t BY <1>2
<1>7. CASE RebindTrigger(requests[q].id)
  <2>1. requests' = [requests EXCEPT ![q] = [requests[q] EXCEPT !.op = op, !.found = found]]
    BY <1>3, <1>4, <1>7 DEF WriteAccount
  <2> QED BY <1>3, <1>4, <1>5, <1>6, <1>7, <2>1
<1>8. CASE ~RebindTrigger(requests[q].id) BY <1>8 DEF WriteAccount
<1> QED BY <1>7, <1>8

\* A write keeps the requests in order.
LEMMA WriteFits ==
  ASSUME PaymentAccountInvariant, NEW q \in AccountRequests, WriteAccount(q)
  PROVE  PaymentAccountInvariant'
<1>1. UNCHANGED <<account, secrets, products, prices, standing>> BY DEF WriteAccount
<1>2. requests' \in [AccountRequests -> AccountRequestRow] /\ BindingsFit'
  <2>1. CASE End(q) BY <2>1, EndFits
  <2>2. ASSUME NEW op \in {"configuring", "onboarding"}, NEW found \in BOOLEAN,
               requests' = [requests EXCEPT ![q] = [op |-> op, id |-> requests[q].id,
                                                    target |-> requests[q].target, found |-> found]],
               op = IF requests[q].op = "configure" THEN "configuring" ELSE "onboarding"
        PROVE  requests' \in [AccountRequests -> AccountRequestRow] /\ BindingsFit'
    <3>1. PICK row : row = [op |-> op, id |-> requests[q].id, target |-> requests[q].target, found |-> found]
      OBVIOUS
    <3>2. row \in AccountRequestRow /\ row.op = op /\ row.id = requests[q].id
      BY <3>1, AccountKnown DEF AccountRequestRow
    <3>3. requests' \in [AccountRequests -> AccountRequestRow]
          /\ \A p \in AccountRequests : requests'[p] = IF p = q THEN row ELSE requests[p]
      BY <2>2, <3>1, <3>2 DEF PaymentAccountInvariant, PaymentRowsTyped
    <3>4. /\ op = "configuring" => requests[q].id \in Merchants
          /\ op = "onboarding" => requests[q].id \in Connected
      BY <2>2 DEF WriteAccount, PaymentAccountInvariant, BindingsFit
    <3>5. BindingsFit' BY <3>2, <3>3, <3>4 DEF PaymentAccountInvariant, BindingsFit
    <3> QED BY <3>3, <3>5
  <2> QED BY <2>1, <2>2, WriteShape
<1> QED BY <1>1, <1>2 DEF PaymentAccountInvariant, PaymentRowsTyped, SecretsFollowMode, Unbound

\* A step that replaces the account's row.
Rebinds(q, mode, secret) ==
  /\ \E s \in Targets \cup {"onboarding"} : account' = [id |-> requests[q].id, mode |-> mode, status |-> s]
  /\ secrets' = secret

LEMMA RebindsFit ==
  ASSUME PaymentAccountInvariant, NEW q \in AccountRequests, End(q), UNCHANGED <<products, prices, standing>>,
         \/ requests[q].op = "configuring" /\ Rebinds(q, "byo_keys", requests[q].id)
         \/ requests[q].op = "onboarding" /\ Rebinds(q, "stripe_connect", NoAccount)
  PROVE  PaymentAccountInvariant'
<1>1. requests' \in [AccountRequests -> AccountRequestRow] /\ BindingsFit' BY EndFits
<1>2. requests[q].id \in Owned BY DEF PaymentAccountInvariant, BindingsFit, Owned
<1>3. account' \in BoundRow BY <1>2 DEF Rebinds, BoundRow
<1>5. SecretsFollowMode' BY DEF Rebinds, PaymentAccountInvariant, SecretsFollowMode
<1>6. PaymentRowsTyped' BY <1>1, <1>3 DEF PaymentAccountInvariant, PaymentRowsTyped, Unbound
<1> QED BY <1>1, <1>5, <1>6 DEF PaymentAccountInvariant

LEMMA CommitRebinds ==
  ASSUME PaymentAccountInvariant, NEW q \in AccountRequests, CommitByo(q) \/ CommitConnect(q)
  PROVE  /\ End(q) /\ UNCHANGED <<products, prices, standing>>
         /\ \/ requests[q].op = "configuring" /\ Rebinds(q, "byo_keys", requests[q].id)
            \/ requests[q].op = "onboarding" /\ Rebinds(q, "stripe_connect", NoAccount)
<1>1. requests[q].target \in Targets /\ "enabled" \in Targets BY AccountKnown DEF Targets
<1>2. CASE CommitByo(q) BY <1>1, <1>2 DEF CommitByo, Rebinds
<1>3. CASE CommitConnect(q) BY <1>1, <1>3 DEF CommitConnect, Rebinds
<1> QED BY <1>2, <1>3

LEMMA PaymentAccountSteps ==
  ASSUME PaymentAccountInvariant, [AccountsNext]_accountVars
  PROVE  PaymentAccountInvariant'
<1>0. CASE UNCHANGED accountVars
  BY <1>0 DEF accountVars, PaymentAccountInvariant, PaymentRowsTyped, BindingsFit, SecretsFollowMode, Unbound
<1>1. ASSUME NEW q \in AccountRequests, NEW id \in Merchants, ConfigureByo(q, id) PROVE PaymentAccountInvariant'
  BY <1>1, AccountKnown, BeginFits DEF ConfigureByo, Owned
<1>2. ASSUME NEW q \in AccountRequests, NEW id \in Connected, ConnectOnboarding(q, id) PROVE PaymentAccountInvariant'
  BY <1>2, AccountKnown, BeginFits DEF ConnectOnboarding, Owned
<1>3. ASSUME NEW q \in AccountRequests, CommitByo(q) \/ CommitConnect(q) PROVE PaymentAccountInvariant'
  BY <1>3, CommitRebinds, RebindsFit
<1>3a. ASSUME NEW q \in AccountRequests, WriteAccount(q) PROVE PaymentAccountInvariant'
  BY <1>3a, WriteFits
<1>4. ASSUME NEW q \in AccountRequests, RefreshAccount(q) PROVE PaymentAccountInvariant'
  BY <1>4, AccountKnown, BeginFits DEF RefreshAccount
<1>5. ASSUME NEW q \in AccountRequests, CommitRefresh(q) PROVE PaymentAccountInvariant'
  <2>1. requests' \in [AccountRequests -> AccountRequestRow] /\ BindingsFit' BY <1>5, EndFits DEF CommitRefresh
  <2>2. PICK s \in Targets : account' = IF Bound THEN [account EXCEPT !.status = s] ELSE account
    BY <1>5, AccountKnown DEF CommitRefresh
  <2>3. account = Unbound \/ account \in BoundRow BY DEF PaymentAccountInvariant, PaymentRowsTyped
  <2>4. CASE Bound
    <3>1. account \in BoundRow /\ account' = [account EXCEPT !.status = s] BY <2>2, <2>3, <2>4 DEF Bound
    <3>2. account' \in BoundRow /\ account'.mode = account.mode /\ account'.id = account.id BY <3>1 DEF BoundRow
    <3> QED BY <1>5, <2>1, <3>2 DEF CommitRefresh, PaymentAccountInvariant, PaymentRowsTyped, SecretsFollowMode, Unbound
  <2>5. CASE ~Bound BY <1>5, <2>1, <2>2, <2>5 DEF CommitRefresh, PaymentAccountInvariant, PaymentRowsTyped, SecretsFollowMode, Unbound
  <2> QED BY <2>4, <2>5
<1>6. ASSUME NEW q \in AccountRequests, DisconnectAccount(q) PROVE PaymentAccountInvariant'
  <2>1. NoAccount \in Targets BY DEF Targets
  <2> QED BY <1>6, <2>1, AccountKnown, BeginFits DEF DisconnectAccount
<1>7. ASSUME NEW q \in AccountRequests, CommitDisconnect(q) PROVE PaymentAccountInvariant'
  <2>1. requests' \in [AccountRequests -> AccountRequestRow] /\ BindingsFit' BY <1>7, EndFits DEF CommitDisconnect
  <2> QED BY <1>7, <2>1 DEF CommitDisconnect, PaymentAccountInvariant, PaymentRowsTyped, SecretsFollowMode, Unbound
<1>8. ASSUME NEW q \in AccountRequests, NEW p \in Products, CreateProduct(q, p) \/ ArchiveProduct(q, p)
      PROVE  PaymentAccountInvariant'
  <2>1. Bound /\ UNCHANGED <<account, secrets, products, prices, standing>>
        /\ (Begin(q, "product", account.id, p) \/ Begin(q, "archive", account.id, p))
    BY <1>8 DEF CreateProduct, ArchiveProduct
  <2>2. account.id \in RequestIds /\ p \in Targets BY <2>1, AccountKnown
  <2> QED BY <2>1, <2>2, BeginFits
<1>9. ASSUME NEW q \in AccountRequests, NEW p \in Prices, NEW product \in Products, CreatePrice(q, p, product)
      PROVE  PaymentAccountInvariant'
  BY <1>9, AccountKnown, BeginFits DEF CreatePrice
<1>10. ASSUME NEW q \in AccountRequests, RecordProduct(q) \/ RecordArchive(q) PROVE PaymentAccountInvariant'
  <2>1. requests' \in [AccountRequests -> AccountRequestRow] /\ BindingsFit' BY <1>10, EndFits DEF RecordProduct, RecordArchive
  <2>2. products' \in [Products -> [status : {"none", "active", "archived"}, id : RequestIds]]
    <3>1. requests[q].id \in RequestIds BY AccountKnown
    <3>2. CASE RecordProduct(q) BY <3>1, <3>2 DEF RecordProduct, PaymentAccountInvariant, PaymentRowsTyped
    <3>3. CASE RecordArchive(q) BY <3>3 DEF RecordArchive, PaymentAccountInvariant, PaymentRowsTyped
    <3> QED BY <1>10, <3>2, <3>3
  <2> QED BY <1>10, <2>1, <2>2
    DEF RecordProduct, RecordArchive, PaymentAccountInvariant, PaymentRowsTyped, SecretsFollowMode, Unbound
<1>11. ASSUME NEW q \in AccountRequests, RecordPrice(q) PROVE PaymentAccountInvariant'
  <2>1. requests' \in [AccountRequests -> AccountRequestRow] /\ BindingsFit' BY <1>11, EndFits DEF RecordPrice
  <2>2. prices' \in [Prices -> [status : {"none", "active", "retired"}, product : RequestIds]]
    <3>1. requests[q].id \in RequestIds BY AccountKnown
    <3> QED BY <1>11, <3>1 DEF RecordPrice, PaymentAccountInvariant, PaymentRowsTyped
  <2> QED BY <1>11, <2>1, <2>2 DEF RecordPrice, PaymentAccountInvariant, PaymentRowsTyped, SecretsFollowMode, Unbound
<1>12. ASSUME NEW q \in AccountRequests, RequestEnds(q) PROVE PaymentAccountInvariant'
  <2>1. requests' \in [AccountRequests -> AccountRequestRow] /\ BindingsFit' BY <1>12, EndFits DEF RequestEnds
  <2> QED BY <1>12, <2>1 DEF RequestEnds, PaymentAccountInvariant, PaymentRowsTyped, SecretsFollowMode, Unbound
<1>13. ASSUME NEW p \in Prices, RetirePrice(p) PROVE PaymentAccountInvariant'
  BY <1>13 DEF RetirePrice, PaymentAccountInvariant, PaymentRowsTyped, BindingsFit, SecretsFollowMode, Unbound
<1>14. ASSUME NEW id \in Merchants \cup Connected, StandingChanges(id) PROVE PaymentAccountInvariant'
  BY <1>14 DEF StandingChanges, PaymentAccountInvariant, PaymentRowsTyped, BindingsFit, SecretsFollowMode, Unbound, Owned
<1> QED
  BY <1>0, <1>1, <1>2, <1>3, <1>3a, <1>4, <1>5, <1>6, <1>7, <1>8, <1>9, <1>10, <1>11, <1>12, <1>13, <1>14
  DEF AccountsNext

\* The row has one holder, and what it found stays true of the account it found:
\* nobody else writes the row meanwhile.
HoldersChecked == OneHolder /\ WritesChecked

\* A step that leaves the account alone and makes nobody a holder.
LEMMA HoldersKept ==
  ASSUME HoldersChecked, account' = account \/ (account'.id = account.id /\ (Bound' <=> Bound)),
         \A q \in AccountRequests : requests'[q] = requests[q] \/ requests'[q].op \notin Holding
  PROVE  HoldersChecked'
<1>1. OneHolder' BY DEF HoldersChecked, OneHolder
<1>2. WritesChecked' BY DEF HoldersChecked, WritesChecked, Holding, Bound, Unbound
<1> QED BY <1>1, <1>2 DEF HoldersChecked

\* A request that becomes the holder, when there is none.
LEMMA HolderBegins ==
  ASSUME HoldersChecked, ~Locked, NEW q \in AccountRequests, account' = account,
         \A p \in AccountRequests : p # q => requests'[p] = requests[p],
         requests'[q].op \in {"configuring", "onboarding"} /\ Bound /\ requests'[q].id # account.id => ~requests'[q].found
  PROVE  HoldersChecked'
<1>1. \A p \in AccountRequests : p # q => requests'[p].op \notin Holding BY DEF Locked
<1>2. OneHolder' BY <1>1 DEF OneHolder
<1>3. WritesChecked' BY <1>1 DEF WritesChecked, Holding, Bound, Unbound
<1> QED BY <1>2, <1>3 DEF HoldersChecked

\* A commit: afterwards nobody holds the row.
LEMMA HolderCommits ==
  ASSUME PaymentAccountInvariant, HoldersChecked, NEW q \in AccountRequests, requests[q].op \in Holding, End(q)
  PROVE  HoldersChecked'
<1>1. requests' = [requests EXCEPT ![q] = Idle] /\ Idle.op \notin Holding BY DEF End, Idle, Holding
<1>2. \A p \in AccountRequests : requests'[p] = IF p = q THEN Idle ELSE requests[p]
  BY <1>1 DEF PaymentAccountInvariant, PaymentRowsTyped
<1>3. \A p \in AccountRequests : requests'[p].op \notin Holding BY <1>1, <1>2 DEF HoldersChecked, OneHolder
<1>4. OneHolder' BY <1>3 DEF OneHolder
<1>5. WritesChecked' BY <1>3 DEF WritesChecked, Holding
<1> QED BY <1>4, <1>5 DEF HoldersChecked

LEMMA HoldersStep ==
  ASSUME PaymentAccountInvariant, HoldersChecked, [AccountsNext]_accountVars
  PROVE  HoldersChecked'
<1>a. ASSUME NEW q \in AccountRequests, End(q)
      PROVE  \A p \in AccountRequests : requests'[p] = requests[p] \/ requests'[p].op \notin Holding
  <2>1. requests' = [requests EXCEPT ![q] = Idle] /\ Idle.op \notin Holding BY <1>a DEF End, Idle, Holding
  <2> QED BY <2>1 DEF PaymentAccountInvariant, PaymentRowsTyped
<1>b. ASSUME NEW q \in AccountRequests, NEW op, NEW id, NEW target, Begin(q, op, id, target)
      PROVE  /\ \A p \in AccountRequests : p # q => requests'[p] = requests[p]
             /\ requests'[q].op = op
  <2>1. PICK row : row = [op |-> op, id |-> id, target |-> target, found |-> FALSE] /\ requests' = [requests EXCEPT ![q] = row]
    BY <1>b DEF Begin
  <2>2. requests'[q] = row /\ \A p \in AccountRequests : p # q => requests'[p] = requests[p]
    BY <2>1 DEF PaymentAccountInvariant, PaymentRowsTyped
  <2> QED BY <2>1, <2>2
<1>1. CASE UNCHANGED accountVars BY <1>1, HoldersKept DEF accountVars
<1>2. ASSUME NEW q \in AccountRequests, CommitByo(q) \/ CommitConnect(q) \/ CommitDisconnect(q) PROVE HoldersChecked'
  BY <1>2, HolderCommits DEF CommitByo, CommitConnect, CommitDisconnect, Holding
<1>3. ASSUME NEW q \in AccountRequests, CommitRefresh(q) PROVE HoldersChecked'
  <2>1. CASE Bound
    <3>1. account \in BoundRow BY <2>1, AccountKnown
    <3>2. account' = [account EXCEPT !.status = requests[q].target] BY <1>3, <2>1 DEF CommitRefresh
    <3>3. account'.id = account.id /\ account'.mode = account.mode /\ account.mode # "none" BY <3>1, <3>2 DEF BoundRow
    <3>4. Bound' BY <3>3 DEF Bound, Unbound
    <3> QED BY <1>3, <2>1, <3>3, <3>4, <1>a, HoldersKept DEF CommitRefresh
  <2>2. CASE ~Bound BY <1>3, <2>2, <1>a, HoldersKept DEF CommitRefresh
  <2> QED BY <2>1, <2>2
<1>4. ASSUME NEW q \in AccountRequests, DisconnectAccount(q) PROVE HoldersChecked'
  <2>1. Begin(q, "deleting", account.id, NoAccount) /\ ~Locked /\ account' = account BY <1>4 DEF DisconnectAccount
  <2>2. requests'[q].op = "deleting" /\ \A p \in AccountRequests : p # q => requests'[p] = requests[p] BY <2>1, <1>b
  <2> QED BY <2>1, <2>2, HolderBegins
<1>5. ASSUME NEW q \in AccountRequests, WriteAccount(q) PROVE HoldersChecked'
  <2>1. ~Locked /\ account' = account BY <1>5 DEF WriteAccount
  <2>2. CASE End(q) BY <2>1, <2>2, <1>a, HoldersKept
  <2>3. ASSUME NEW op \in {"configuring", "onboarding"}, NEW found \in BOOLEAN,
               requests' = [requests EXCEPT ![q] = [op |-> op, id |-> requests[q].id,
                                                    target |-> requests[q].target, found |-> found]],
               found = HasProviderState, RebindTrigger(requests[q].id)
        PROVE  HoldersChecked'
    <3>1. PICK row : row = [op |-> op, id |-> requests[q].id, target |-> requests[q].target, found |-> found]
      OBVIOUS
    <3>2. row.id = requests[q].id /\ row.found = found BY <3>1
    <3>3. requests'[q] = row /\ \A p \in AccountRequests : p # q => requests'[p] = requests[p]
      BY <2>3, <3>1 DEF PaymentAccountInvariant, PaymentRowsTyped
    <3>4. Bound /\ row.id # account.id => ~row.found BY <2>3, <3>2 DEF RebindTrigger
    <3> QED BY <2>1, <3>3, <3>4, HolderBegins
  <2> QED BY <1>5, <2>2, <2>3, WriteShape
<1>6. ASSUME NEW q \in AccountRequests, NEW op, NEW id, NEW target, Begin(q, op, id, target), op \notin Holding,
             account' = account
      PROVE  HoldersChecked'
  BY <1>6, <1>b, HoldersKept
<1>7. ASSUME NEW q \in AccountRequests,
             \/ \E id \in Merchants : ConfigureByo(q, id)
             \/ \E id \in Connected : ConnectOnboarding(q, id)
             \/ RefreshAccount(q)
             \/ \E p \in Products : CreateProduct(q, p) \/ ArchiveProduct(q, p)
             \/ \E p \in Prices, product \in Products : CreatePrice(q, p, product)
      PROVE  HoldersChecked'
  <2>1. \E op, id, target : Begin(q, op, id, target) /\ op \notin Holding
    BY <1>7 DEF ConfigureByo, ConnectOnboarding, RefreshAccount, CreateProduct, ArchiveProduct, CreatePrice, Holding
  <2>2. account' = account
    BY <1>7 DEF ConfigureByo, ConnectOnboarding, RefreshAccount, CreateProduct, ArchiveProduct, CreatePrice
  <2> QED BY <2>1, <2>2, <1>6
<1>8. ASSUME NEW q \in AccountRequests, RecordProduct(q) \/ RecordArchive(q) \/ RecordPrice(q) \/ RequestEnds(q)
      PROVE  HoldersChecked'
  BY <1>8, <1>a, HoldersKept DEF RecordProduct, RecordArchive, RecordPrice, RequestEnds
<1>9. CASE (\E p \in Prices : RetirePrice(p)) \/ \E id \in Merchants \cup Connected : StandingChanges(id)
  BY <1>9, HoldersKept DEF RetirePrice, StandingChanges
<1> QED BY <1>1, <1>2, <1>3, <1>4, <1>5, <1>7, <1>8, <1>9 DEF AccountsNext

\* Only the commits of a configuration or an onboarding can give a bound
\* project another account, and each knows what the trigger found.
LEMMA BindingStays ==
  ASSUME PaymentAccountInvariant, HoldersChecked, [AccountsNext]_accountVars, Exchanged
  PROVE  \E q \in AccountRequests :
           requests[q].op \in Holding /\ requests[q].id = account'.id /\ ~requests[q].found
<1>1. ASSUME NEW q \in AccountRequests, CommitByo(q) \/ CommitConnect(q)
      PROVE  requests[q].op \in Holding /\ requests[q].id = account'.id /\ ~requests[q].found
  <2>1. requests[q].op \in {"configuring", "onboarding"} /\ account'.id = requests[q].id
    BY <1>1 DEF CommitByo, CommitConnect
  <2> QED BY <2>1 DEF Exchanged, HoldersChecked, WritesChecked, Holding
<1>2. ASSUME NEW q \in AccountRequests, CommitRefresh(q) PROVE FALSE
  <2>1. account \in BoundRow BY AccountKnown DEF Exchanged
  <2> QED BY <1>2, <2>1 DEF CommitRefresh, BoundRow, Exchanged
<1>3. ASSUME NEW q \in AccountRequests, CommitDisconnect(q) PROVE FALSE BY <1>3 DEF CommitDisconnect, Exchanged
<1>4. CASE account' = account BY <1>4 DEF Exchanged
<1> QED BY <1>1, <1>2, <1>3, <1>4
  DEF AccountsNext, accountVars, ConfigureByo, ConnectOnboarding, WriteAccount, RefreshAccount, DisconnectAccount,
      CreateProduct, ArchiveProduct, CreatePrice, RecordProduct, RecordArchive, RecordPrice, RequestEnds, RetirePrice,
      StandingChanges

\* Whatever configurations, onboardings, refreshes, disconnects and catalog
\* requests overlap, keys are kept exactly in the merchant's own mode and are
\* those of the bound account, and a bound account is only exchanged by a
\* transaction that found no provider state with the row's lock in hand
\* (configure_byo, connect_onboarding, disconnect_account,
\* guard_project_commerce_account_rebind).
THEOREM PaymentAccountsHold == AccountsSpec => PaymentAccountsSound
<1>1. AccountsInit => PaymentAccountInvariant /\ HoldersChecked
  <2>1. AccountsInit => HoldersChecked BY DEF AccountsInit, HoldersChecked, OneHolder, WritesChecked, Holding, Idle
  <2> QED BY <2>1, PaymentAccountStarts
<1>2. PaymentAccountInvariant /\ HoldersChecked /\ [AccountsNext]_accountVars => (PaymentAccountInvariant /\ HoldersChecked)'
  BY PaymentAccountSteps, HoldersStep
<1>3. PaymentAccountInvariant => AccountsTypeOK /\ SecretsFollowMode
  BY DEF PaymentAccountInvariant, PaymentRowsTyped, AccountsTypeOK, BoundRow, Unbound, Owned
<1>4. PaymentAccountInvariant /\ HoldersChecked /\ [AccountsNext]_accountVars
        => [Exchanged => \E q \in AccountRequests :
              requests[q].op \in Holding /\ requests[q].id = account'.id /\ ~requests[q].found]_accountVars
  BY BindingStays
<1> QED BY <1>1, <1>2, <1>3, <1>4, PTL DEF AccountsSpec, PaymentAccountsSound, NoRebinding
=============================================================================
