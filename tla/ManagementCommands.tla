------------------------- MODULE ManagementCommands -------------------------
(* The commands of project and instance administrators that follow one       *)
(* order: authorise, record the request in the audit log, act, record the    *)
(* outcome, answer (management.rs: create_api_key, revoke_api_key,           *)
(* rotate_signing_key; host_updates.rs: check, install, rollback,            *)
(* configure).  The acts are rows of api_keys, a rotation of the project's   *)
(* signing key (its effect is modelled by Credentials) and jobs that the     *)
(* host updater, a program of its own, queues before it answers.             *)
(* Beside them developers' requests verify API keys.                         *)
EXTENDS Naturals, FiniteSets

CONSTANTS
  Commands,       \* requests of administrators
  People,         \* users of the platform
  Developers,     \* requests that carry an API key
  Scopes,         \* what a key may be used for
  KeyLife,        \* the lifetime a key may be given
  Recent,         \* how old a sign-in may be for a change of the host
  MaxSecond, MaxTrouble   \* bounds

ASSUME CommandAssumption ==
  Recent \in Nat /\ KeyLife \in Nat \ {0} /\ MaxSecond \in Nat /\ MaxTrouble \in Nat

VARIABLES
  second,      \* the clock
  rights,      \* the users who are administrators
  signedIn,    \* when each user signed in
  command,     \* the commands in progress
  apiKeys,     \* the table api_keys; a key is named by the command that made it
  updates,     \* the jobs of the host updater, by the command that asked
  auditLog,    \* the audit events of each command
  use,         \* the requests with an API key
  trouble
commandVars == <<second, rights, signedIn, command, apiKeys, updates, auditLog, use, trouble>>

Kinds == {"create", "revoke", "rotate", "check", "change"}
NoCommand == [kind |-> "none", by |-> 0, key |-> 0, stage |-> "none", answer |-> "none", lost |-> "no"]
NoApiKey == [state |-> "none", scopes |-> {}, expires |-> 0]
NoUse == [key |-> 0, scope |-> "none", stage |-> "none", late |-> "no"]

Set(c, stage) == command' = [command EXCEPT ![c].stage = stage]
Settle(c, answer) == command' = [command EXCEPT ![c].stage = "settling", ![c].answer = answer]
----------------------------------------------------------------------------
(* Authorisation and the audit log.                                          *)
RecentlySignedIn(u) == second - signedIn[u] <= Recent

\* An administrator, for a change of the host one who signed in recently.
Authorized(kind, u) == u \in rights /\ (kind = "change" => RecentlySignedIn(u))

Authorize(c, kind, u, key) ==
  /\ command[c] = NoCommand /\ Authorized(kind, u)
  /\ (kind = "revoke") = (key # 0)
  /\ command' = [command EXCEPT ![c] =
       [NoCommand EXCEPT !.kind = kind, !.by = u, !.key = key, !.stage = "authorized"]]
  /\ UNCHANGED <<second, rights, signedIn, apiKeys, updates, auditLog, use, trouble>>

\* Mutant: the command goes on without its event.
AfterNoAuditLenient(c) == Set(c, "recorded")

\* Without its event in the log the command ends here.
AfterNoAudit(c) == command' = [command EXCEPT ![c].stage = "answered", ![c].answer = "unavailable"]

RequireAudit(c) ==
  /\ command[c].stage = "authorized"
  /\ auditLog' = [auditLog EXCEPT ![c] = @ \cup {"requested"}]
  /\ Set(c, "recorded")
  /\ UNCHANGED <<second, rights, signedIn, apiKeys, updates, use, trouble>>

AuditUnavailable(c) ==
  /\ command[c].stage = "authorized" /\ trouble < MaxTrouble
  /\ AfterNoAudit(c) /\ trouble' = trouble + 1
  /\ UNCHANGED <<second, rights, signedIn, apiKeys, updates, auditLog, use>>

\* The event of the outcome is written if it can be; the answer is given anyway.
Outcome == [created |-> "success", revoked |-> "success", rotated |-> "success",
            accepted |-> "success", unavailable |-> "failure", notFound |-> "denied"]

TerminalAudit(c) ==
  /\ command[c].stage = "settling" /\ Set(c, "answered")
  /\ \/ auditLog' = [auditLog EXCEPT ![c] = @ \cup {Outcome[command[c].answer]}] /\ UNCHANGED trouble
     \/ trouble < MaxTrouble /\ trouble' = trouble + 1 /\ UNCHANGED auditLog
  /\ UNCHANGED <<second, rights, signedIn, apiKeys, updates, use>>
----------------------------------------------------------------------------
(* API keys.                                                                 *)
\* The new key has the scopes and the expiry that were asked for.
InsertApiKey(c, scopes, life) ==
  /\ command[c].kind = "create" /\ command[c].stage = "recorded" /\ scopes # {}
  /\ apiKeys' = [apiKeys EXCEPT ![c] =
       [state |-> "active", scopes |-> scopes, expires |-> IF life = 0 THEN 0 ELSE second + life]]
  /\ Settle(c, "created")
  /\ UNCHANGED <<second, rights, signedIn, updates, auditLog, use, trouble>>

\* The answer of the statement is lost: the row is there and its secret is not given.
InsertUnanswered(c, scopes) ==
  /\ command[c].kind = "create" /\ command[c].stage = "recorded" /\ trouble < MaxTrouble
  /\ apiKeys' = [apiKeys EXCEPT ![c] = [state |-> "active", scopes |-> scopes, expires |-> 0]]
  /\ command' = [command EXCEPT ![c].stage = "settling", ![c].answer = "unavailable", ![c].lost = "yes"]
  /\ trouble' = trouble + 1
  /\ UNCHANGED <<second, rights, signedIn, updates, auditLog, use>>

\* The statement revokes a key only while it is not expired.
RevokeUnexpired(c, k) ==
  /\ command[c].kind = "revoke" /\ command[c].stage = "recorded"
  /\ apiKeys' = [apiKeys EXCEPT ![k].state = IF second >= apiKeys[k].expires THEN @ ELSE "revoked"]
  /\ Settle(c, "revoked")
  /\ UNCHANGED <<second, rights, signedIn, updates, auditLog, use, trouble>>

Revoke(c, k) ==
  /\ command[c].kind = "revoke" /\ command[c].stage = "recorded"
  /\ \/ /\ apiKeys[k] # NoApiKey
        /\ apiKeys' = [apiKeys EXCEPT ![k].state = "revoked"] /\ Settle(c, "revoked")
     \/ apiKeys[k] = NoApiKey /\ UNCHANGED apiKeys /\ Settle(c, "notFound")
  /\ UNCHANGED <<second, rights, signedIn, updates, auditLog, use, trouble>>

RotateKey(c) ==
  /\ command[c].kind = "rotate" /\ command[c].stage = "recorded" /\ Settle(c, "rotated")
  /\ UNCHANGED <<second, rights, signedIn, apiKeys, updates, auditLog, use, trouble>>

\* A statement fails and has changed nothing.
StatementFails(c) ==
  /\ command[c].kind \in {"create", "revoke", "rotate"} /\ command[c].stage = "recorded"
  /\ trouble < MaxTrouble /\ trouble' = trouble + 1 /\ Settle(c, "unavailable")
  /\ UNCHANGED <<second, rights, signedIn, apiKeys, updates, auditLog, use>>

\* A request presents its key: the row is read, and the revocations answered
\* before are known to the one who presents it.
PresentKey(d, k, scope) ==
  /\ use[d] = NoUse
  /\ use' = [use EXCEPT ![d] = [key |-> k, scope |-> scope, stage |-> "presented",
       late |-> IF \E c \in Commands : command[c].key = k /\ command[c].answer = "revoked"
                                        /\ command[c].stage = "answered" THEN "yes" ELSE "no"]]
  /\ UNCHANGED <<second, rights, signedIn, command, apiKeys, updates, auditLog, trouble>>

Unexpired(row) == row.expires = 0 \/ second < row.expires

\* find_by_prefix, then the digest, the revocation, the expiry and the scope.
KeyVerifies(k, scope) ==
  apiKeys[k].state = "active" /\ Unexpired(apiKeys[k]) /\ scope \in apiKeys[k].scopes

VerifyKey(d) ==
  /\ use[d].stage = "presented"
  /\ use' = [use EXCEPT ![d].stage =
       IF KeyVerifies(use[d].key, use[d].scope) THEN "accepted" ELSE "rejected"]
  /\ UNCHANGED <<second, rights, signedIn, command, apiKeys, updates, auditLog, trouble>>
----------------------------------------------------------------------------
(* The host updater.                                                         *)
Submits(c) == command[c].kind \in {"check", "change"}

\* What the program prints, read up to a limit: the job, or its identifier only.
Understood(output) == output = "job"
Identified(output) == output = "identifier"

\* The updater queues the job, then answers.
QueueJob(c) ==
  /\ Submits(c) /\ command[c].stage = "recorded" /\ Set(c, "queued")
  /\ updates' = updates \cup {c}
  /\ UNCHANGED <<second, rights, signedIn, apiKeys, auditLog, use, trouble>>

\* It is not installed, or it refuses the job with an error of its own.
UpdaterRefuses(c) ==
  /\ Submits(c) /\ command[c].stage = "recorded" /\ Settle(c, "unavailable")
  /\ UNCHANGED <<second, rights, signedIn, apiKeys, updates, auditLog, use, trouble>>

\* An identifier is followed by a question for the job.
ReadOutput(c, output) ==
  /\ command[c].stage = "queued"
  /\ \/ Understood(output) /\ Settle(c, "accepted")
     \/ Identified(output) /\ Set(c, "asking")
  /\ UNCHANGED <<second, rights, signedIn, apiKeys, updates, auditLog, use, trouble>>

AskForJob(c) ==
  /\ command[c].stage = "asking" /\ Settle(c, "accepted")
  /\ UNCHANGED <<second, rights, signedIn, apiKeys, updates, auditLog, use, trouble>>

\* The time for the program is over, or what it printed is too long or is not
\* understood, or the question fails: the job stays queued.
SubmitFails(c) ==
  /\ command[c].stage \in {"queued", "asking"} /\ trouble < MaxTrouble
  /\ command' = [command EXCEPT ![c].stage = "settling", ![c].answer = "unavailable", ![c].lost = "yes"]
  /\ trouble' = trouble + 1
  /\ UNCHANGED <<second, rights, signedIn, apiKeys, updates, auditLog, use>>
----------------------------------------------------------------------------
(* The rest of the world.                                                    *)
\* An installation restarts the API process, and any process may end.
ApiEnds ==
  /\ trouble < MaxTrouble /\ trouble' = trouble + 1
  /\ command' = [c \in Commands |->
       IF command[c].stage \in {"none", "answered"} THEN command[c]
       ELSE [command[c] EXCEPT !.stage = "answered", !.answer = "none", !.lost = "yes"]]
  /\ UNCHANGED <<second, rights, signedIn, apiKeys, updates, auditLog, use>>

ChangeRights(u) ==
  /\ rights' = IF u \in rights THEN rights \ {u} ELSE rights \cup {u}
  /\ trouble < MaxTrouble /\ trouble' = trouble + 1
  /\ UNCHANGED <<second, signedIn, command, apiKeys, updates, auditLog, use>>

SignInAgain(u) ==
  /\ signedIn[u] < second /\ signedIn' = [signedIn EXCEPT ![u] = second]
  /\ UNCHANGED <<second, rights, command, apiKeys, updates, auditLog, use, trouble>>

CommandTick ==
  /\ second < MaxSecond /\ second' = second + 1
  /\ UNCHANGED <<rights, signedIn, command, apiKeys, updates, auditLog, use, trouble>>

CommandInit ==
  /\ second = 0 /\ rights = People /\ signedIn = [u \in People |-> 0]
  /\ command = [c \in Commands |-> NoCommand]
  /\ apiKeys = [c \in Commands |-> NoApiKey] /\ updates = {}
  /\ auditLog = [c \in Commands |-> {}]
  /\ use = [d \in Developers |-> NoUse] /\ trouble = 0

CommandStep(c) ==
  \/ \E u \in People, k \in Commands \cup {0}, kind \in Kinds : Authorize(c, kind, u, k)
  \/ RequireAudit(c) \/ AuditUnavailable(c) \/ TerminalAudit(c)
  \/ \E scopes \in SUBSET Scopes, life \in {0, KeyLife} : InsertApiKey(c, scopes, life)
  \/ \E scopes \in SUBSET Scopes \ {{}} : InsertUnanswered(c, scopes)
  \/ command[c].key # 0 /\ Revoke(c, command[c].key)
  \/ RotateKey(c) \/ StatementFails(c)
  \/ QueueJob(c) \/ UpdaterRefuses(c) \/ AskForJob(c) \/ SubmitFails(c)
  \/ \E output \in {"job", "identifier"} : ReadOutput(c, output)

CommandNext ==
  \/ \E c \in Commands : CommandStep(c)
  \/ \E d \in Developers : VerifyKey(d) \/ \E k \in Commands, s \in Scopes : PresentKey(d, k, s)
  \/ \E u \in People : ChangeRights(u) \/ SignInAgain(u)
  \/ ApiEnds \/ CommandTick

CommandSpec == CommandInit /\ [][CommandNext]_commandVars
----------------------------------------------------------------------------
CommandTypeOK ==
  /\ second \in 0..MaxSecond /\ rights \subseteq People /\ signedIn \in [People -> 0..MaxSecond]
  /\ \A c \in Commands : command[c].kind \in Kinds \cup {"none"}
  /\ updates \subseteq Commands
  /\ auditLog \in [Commands -> SUBSET {"requested", "success", "failure", "denied"}]
  /\ trouble \in 0..MaxTrouble

Acted(c) ==
  \/ apiKeys[c] # NoApiKey \/ c \in updates
  \/ command[c].kind = "revoke" /\ command[c].answer = "revoked"

\* Whatever a command has done is announced in the audit log, and a command
\* that is answered with success has done what it says; one answered otherwise,
\* or not at all, has done something only if an answer was lost on the way
\* (require_management_audit, terminal_management_audit, audited_job).
CommandsAccountable ==
  \A c \in Commands :
    /\ Acted(c) => "requested" \in auditLog[c]
    /\ command[c].answer = "created" => apiKeys[c] # NoApiKey
    /\ command[c].answer = "accepted" => c \in updates
    /\ command[c].stage = "answered" /\ command[c].answer \in {"none", "unavailable"} /\ Acted(c)
         => command[c].lost = "yes"
    /\ "success" \in auditLog[c] => Acted(c) \/ command[c].kind = "rotate"

\* A key whose revocation was answered is not accepted by any request that
\* presents it afterwards, whatever else is revoked, made or expires meanwhile
\* (revoke_api_key, verify_developer_at).
RevokedKeysEnd == \A d \in Developers : use[d].late = "yes" => use[d].stage # "accepted"

\* What an administrator's command did is announced in the audit log and
\* answered as it was done, and a key whose revocation was answered admits
\* nobody (require_management_audit, audited_job, revoke_api_key,
\* verify_developer_at).
CommandsSound == CommandTypeOK /\ CommandsAccountable /\ RevokedKeysEnd
=============================================================================
