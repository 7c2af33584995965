----------------------------- MODULE Credentials -----------------------------
(* The credentials beside those of a project's users: the keys that sign     *)
(* access tokens and the sessions of developers; and what holds of all of    *)
(* them together.                                                            *)
(*                                                                           *)
(* Signing keys. A rotation and a request that signs read the clock first    *)
(* and the table later; a token is checked against the keys the table lists  *)
(* at that time, with a tolerance for clocks that disagree.                  *)
(*                                                                           *)
(* The sessions of a developer. Every refresh inserts a row in the family of *)
(* the row it uses up. The transactions run at READ COMMITTED: a lock is     *)
(* waited for, a statement sees the rows that were committed when it began,  *)
(* and rows of a transaction that has not committed are seen by nobody else. *)
EXTENDS ProjectAuth

-----------------------------------------------------------------------------
(* Signing keys.                                                             *)

CONSTANTS
  Kids,          \* key ids
  Signers,       \* requests that sign
  JwtTtl, Grace, Skew,
  MaxKeyTime     \* bound on the clock

ASSUME SigningKeysAssumption ==
  /\ {JwtTtl, Grace, Skew, MaxKeyTime} \subseteq Nat
  /\ JwtTtl <= Grace

VARIABLES
  keys,      \* jwt_signing_keys
  signing,   \* a request's time and the key it was given
  rotation,  \* a rotation's time, 0 when none runs
  jwts,      \* when the newest token of a key was issued
  keyClock

keyVars == <<keys, signing, rotation, jwts, keyClock>>

NoKey == [status |-> "none", from |-> 0, until |-> 0]
NotSigning == [iat |-> 0, kids |-> {}]

KeysInit ==
  /\ keys = [k \in Kids |-> NoKey]
  /\ signing = [q \in Signers |-> NotSigning]
  /\ rotation = 0 /\ jwts = [k \in Kids |-> 0] /\ keyClock = 1

\* insert_key.
InsertKey(table, k, at) == [table EXCEPT ![k] = [status |-> "active", from |-> at, until |-> 0]]

\* bootstrap: the first key, unless one is active under the project's lock.
BootstrapKey(k) ==
  /\ keys[k] = NoKey
  /\ \A other \in Kids : keys[other].status # "active"
  /\ keys' = InsertKey(keys, k, keyClock)
  /\ UNCHANGED <<signing, rotation, jwts, keyClock>>

\* rotate until the lock: the end of the grace period is fixed here.
BeginRotation ==
  /\ rotation = 0
  /\ rotation' = keyClock
  /\ UNCHANGED <<keys, signing, jwts, keyClock>>

\* Mutant: only one earlier key is kept.
RetireAll(at) ==
  [k \in Kids |-> CASE keys[k].status = "active" ->
                         [keys[k] EXCEPT !.status = "grace", !.until = at + Grace]
                    [] keys[k].status = "grace" -> [keys[k] EXCEPT !.status = "retired"]
                    [] OTHER -> keys[k]]

\* rotate: the active key stays until at least a second after it began.
Retire(at) ==
  [k \in Kids |-> IF keys[k].status = "active"
    THEN [keys[k] EXCEPT !.status = "grace",
            !.until = IF at + Grace > keys[k].from THEN at + Grace ELSE keys[k].from + 1]
    ELSE keys[k]]

\* rotate under the project's lock.
CommitRotation(k) ==
  /\ rotation # 0 /\ keys[k] = NoKey
  /\ \E active \in Kids : keys[active].status = "active"
  /\ keys' = InsertKey(Retire(rotation), k, rotation)
  /\ rotation' = 0
  /\ UNCHANGED <<signing, jwts, keyClock>>

\* sign_in and refresh: the time of the token is read first.
BeginSigning(q) ==
  /\ signing[q] = NotSigning
  /\ signing' = [signing EXCEPT ![q].iat = keyClock]
  /\ UNCHANGED <<keys, rotation, jwts, keyClock>>

\* active_signer: the key of this moment.
ActiveSigner(q) ==
  /\ signing[q].iat # 0 /\ signing[q].kids = {}
  /\ \E k \in Kids :
       /\ keys[k].status = "active" /\ keys[k].from <= keyClock
       /\ signing' = [signing EXCEPT ![q].kids = {k}]
  /\ UNCHANGED <<keys, rotation, jwts, keyClock>>

\* claims_with_session_policy and sign.
SignClaims(q) ==
  /\ signing[q].kids # {}
  /\ jwts' = [k \in Kids |-> IF k \in signing[q].kids /\ signing[q].iat > jwts[k]
                             THEN signing[q].iat ELSE jwts[k]]
  /\ signing' = [signing EXCEPT ![q] = NotSigning]
  /\ UNCHANGED <<keys, rotation, keyClock>>

\* Time passes; a rotation finishes within the tolerance of the clocks.
KeyTick ==
  /\ keyClock < MaxKeyTime
  /\ rotation # 0 => keyClock < rotation + Skew
  /\ keyClock' = keyClock + 1
  /\ UNCHANGED <<keys, signing, rotation, jwts>>

\* verification_keys lists active keys and keys in grace; verify_access_token
\* takes the one the token names if it is in its time.
KeyAccepted(k) ==
  /\ keys[k].status \in {"active", "grace"}
  /\ keyClock + Skew >= keys[k].from
  /\ keys[k].until # 0 => keyClock <= keys[k].until + Skew

\* verify_access_token: the time of the claims.
ClaimsInTime(iat) == iat <= keyClock + Skew /\ keyClock < iat + JwtTtl + Skew

KeysNext ==
  \/ \E k \in Kids : BootstrapKey(k) \/ CommitRotation(k)
  \/ BeginRotation
  \/ \E q \in Signers : BeginSigning(q) \/ ActiveSigner(q) \/ SignClaims(q)
  \/ KeyTick

KeysSpec == KeysInit /\ [][KeysNext]_keyVars

-----------------------------------------------------------------------------
(* The sessions of a developer.                                              *)

CONSTANTS Logins,  \* families of sessions of one user
          Rows,    \* rows of platform_sessions
          Txs,     \* transactions
          NoRow

ASSUME PlatformSessionsAssumption == NoRow \notin Rows \cup Logins

VARIABLES
  rows,     \* platform_sessions
  txs,      \* running transactions
  disabled, \* the user's disabled_at
  replayed, \* families whose reuse was reported
  left      \* families that were signed out

platformVars == <<rows, txs, disabled, replayed, left>>

Absent == [login |-> NoRow, used |-> 0, revoked |-> 0, committed |-> 0]
NoTx == [op |-> "none", row |-> NoRow, next |-> NoRow, wave |-> {}]

PlatformInit ==
  /\ rows = [r \in Rows |-> Absent]
  /\ txs = [x \in Txs |-> NoTx]
  /\ disabled = 0 /\ replayed = {} /\ left = {}

Family(l) == {r \in Rows : rows[r].login = l /\ rows[r].committed = 1}

\* sign_in and insert_platform_session: the first row of a new family.
IssuePlatformSession(l, r) ==
  /\ disabled = 0 /\ rows[r] = Absent
  /\ \A other \in Rows : rows[other].login # l
  /\ rows' = [rows EXCEPT ![r] = [Absent EXCEPT !.login = l, !.committed = 1]]
  /\ UNCHANGED <<txs, disabled, replayed, left>>

RowFree(x, r) == \A other \in Txs \ {x} : txs[other].row # r

\* Mutant: FOR UPDATE OF s.
RowOnly(x) == TRUE

\* FOR UPDATE OF s,u: rotations of one user wait for each other.
UserFree(x) == \A other \in Txs \ {x} : txs[other].op \notin {"rotate", "insert", "reuse"}

\* rotate: the row and its user are locked, then the row is looked at.
RotateLock(x, r) ==
  /\ txs[x] = NoTx /\ rows[r].committed = 1
  /\ RowFree(x, r) /\ UserFree(x)
  /\ rows[r].revoked = 0 /\ disabled = 0
  /\ txs' = [txs EXCEPT ![x] = [NoTx EXCEPT !.row = r,
               !.op = IF rows[r].used = 1 THEN "reuse" ELSE "rotate"]]
  /\ UNCHANGED <<rows, disabled, replayed, left>>

\* insert_platform_session_transaction.
InsertNext(x, fresh) ==
  /\ txs[x].op = "rotate" /\ rows[fresh] = Absent
  /\ rows' = [rows EXCEPT ![fresh] = [Absent EXCEPT !.login = rows[txs[x].row].login]]
  /\ txs' = [txs EXCEPT ![x] = [@ EXCEPT !.op = "insert", !.next = fresh]]
  /\ UNCHANGED <<disabled, replayed, left>>

\* The row is used up and the transaction commits.
CommitRotate(x) ==
  /\ txs[x].op = "insert"
  /\ rows' = [rows EXCEPT ![txs[x].row].used = 1, ![txs[x].next].committed = 1]
  /\ txs' = [txs EXCEPT ![x] = NoTx]
  /\ UNCHANGED <<disabled, replayed, left>>

\* revoke: only the presented row is locked.
RevokeLock(x, r) ==
  /\ txs[x] = NoTx /\ rows[r].committed = 1 /\ RowFree(x, r)
  /\ txs' = [txs EXCEPT ![x] = [NoTx EXCEPT !.op = "sign_out", !.row = r]]
  /\ UNCHANGED <<rows, disabled, replayed, left>>

\* revoke_platform_family: the statement begins with the rows it can see.
BeginRevoke(x) ==
  /\ txs[x].op \in {"reuse", "sign_out"} /\ txs[x].wave = {}
  /\ txs' = [txs EXCEPT ![x].wave = Family(rows[txs[x].row].login)]
  /\ UNCHANGED <<rows, disabled, replayed, left>>

\* revoke_platform_family: it waits for rows that others hold, and commits.
CommitRevoke(x) ==
  LET t == txs[x]
      l == rows[t.row].login
  IN /\ t.wave # {}
     /\ \A r \in t.wave : RowFree(x, r)
     /\ rows' = [r \in Rows |-> IF r \in t.wave THEN [rows[r] EXCEPT !.revoked = 1] ELSE rows[r]]
     /\ replayed' = IF t.op = "reuse" THEN replayed \cup {l} ELSE replayed
     /\ left' = IF t.op = "sign_out" THEN left \cup {l} ELSE left
     /\ txs' = [txs EXCEPT ![x] = NoTx]
     /\ UNCHANGED disabled

\* set_user_disabled: waits for the user's row; the sessions stay as they are
\* and work again when the user is enabled.
SetPlatformUserDisabled(value) ==
  /\ \A x \in Txs : txs[x].op \notin {"rotate", "insert", "reuse"}
  /\ disabled' = value
  /\ UNCHANGED <<rows, txs, replayed, left>>

\* A failure, or the end of a deadlock between two transactions, undoes one.
PlatformAbort(x) ==
  /\ txs[x] # NoTx
  /\ rows' = [r \in Rows |-> IF r = txs[x].next THEN Absent ELSE rows[r]]
  /\ txs' = [txs EXCEPT ![x] = NoTx]
  /\ UNCHANGED <<disabled, replayed, left>>

\* authenticate_record.
AuthenticatesRow(r) ==
  rows[r].committed = 1 /\ rows[r].used = 0 /\ rows[r].revoked = 0 /\ disabled = 0

PlatformNext ==
  \/ \E l \in Logins, r \in Rows : IssuePlatformSession(l, r)
  \/ \E x \in Txs :
       \/ \E r \in Rows : RotateLock(x, r) \/ InsertNext(x, r) \/ RevokeLock(x, r)
       \/ CommitRotate(x) \/ BeginRevoke(x) \/ CommitRevoke(x) \/ PlatformAbort(x)
  \/ \E value \in {0, 1} : SetPlatformUserDisabled(value)

PlatformSpec == PlatformInit /\ [][PlatformNext]_platformVars

-----------------------------------------------------------------------------
(* Properties.                                                               *)

\* Keys, requests and tokens have the shapes of their tables.
KeysTypeOK ==
  /\ \A k \in Kids : keys[k].status \in {"none", "active", "grace"}
  /\ \A k \in Kids : jwts[k] \in Nat
  /\ keyClock \in Nat \ {0}

\* Rotating the keys, any number of times and however the rotations overlap
\* with requests that sign, never ends an access token before its time; and
\* there is one key to sign with from the first on.
KeysOutliveTokens ==
  /\ \A k \in Kids : jwts[k] # 0 /\ keyClock < jwts[k] + JwtTtl
       => KeyAccepted(k) /\ ClaimsInTime(jwts[k])
  /\ (\E k \in Kids : keys[k] # NoKey)
       => Cardinality({k \in Kids : keys[k].status = "active"}) = 1

\* Rows and transactions refer to each other.
PlatformTypeOK ==
  /\ \A r \in Rows : rows[r].login \in Logins \cup {NoRow}
  /\ \A x \in Txs : txs[x].row \in Rows \cup {NoRow} /\ txs[x].wave \subseteq Rows

\* When the use of a spent token is reported, nobody holds a session of its
\* family any more, whatever refreshes ran at the time; and of a family at most
\* one row is ever good.
ReuseEndsFamily ==
  /\ \A r \in Rows : rows[r].login \in replayed => ~AuthenticatesRow(r)
  /\ \A r, s \in Rows :
       AuthenticatesRow(r) /\ AuthenticatesRow(s) /\ rows[r].login = rows[s].login => r = s

\* Not so for a sign-out that presents a spent token: the row a refresh is
\* about to commit is not among the rows the statement sees.
SignOutEnds == \A r \in Rows : rows[r].login \in left => ~AuthenticatesRow(r)

\* A session that is answered for rests on the user's newest password, a
\* one-time code has its effect once, and presenting a token that was used
\* ends the platform's session (issue_session_with_ttl,
\* consume_one_time_token, rotate).
CredentialsSound ==
  AuthTypeOK /\ KeysTypeOK /\ PlatformTypeOK /\ SessionsFollowPassword /\ CodesWorkOnce /\ ReuseEndsFamily
=============================================================================
