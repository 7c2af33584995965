----------------------------- MODULE MCAccounts -----------------------------
(* The account components, each on its own: a behaviour picks one component  *)
(* and runs it while the others stand still. The users of a project are run  *)
(* three times: sessions and passwords of a verified user, one-time codes    *)
(* and one session, and the settings changing under registration and         *)
(* sign-in within one second.                                                *)
EXTENDS Credentials, ManagementCommands, TLC

VARIABLE lane
accountVars == <<authVars, keyVars, platformVars, commandVars, lane>>

Verified == [status |-> "active", verified |-> 1, password |-> 1, changed |-> 1]

AccountsInit ==
  /\ lane \in {"sessions", "codes", "settings", "keys", "platform", "commands"}
  /\ users = [u \in Users |-> IF lane = "sessions" THEN Verified ELSE NoUser]
  /\ NoTraffic /\ KeysInit /\ PlatformInit /\ CommandInit

\* Ids are used in order: they carry no meaning.
InOrder(f, none) == \A i, j \in DOMAIN f : i < j /\ f[j] # none => f[i] # none
NotRunning(ops) == \A q \in Requests : reqs'[q].op \notin ops

SessionsLane ==
  /\ lane = "sessions"
  /\ AuthNext
  /\ codes' = codes /\ settings' = settings
  /\ NotRunning({"settings", "reset", "verification"})

CodesLane ==
  /\ lane = "codes"
  /\ AuthNext
  /\ sessions'[2] = NoSession /\ tokens'[2] = NoToken
  /\ NotRunning({"settings", "change"})

SettingsLane ==
  /\ lane = "settings"
  /\ AuthNext
  /\ sessions'[2] = NoSession /\ tokens'[3] = NoToken /\ codes'[2] = NoCode /\ now' = now
  /\ NotRunning({"reset", "change", "sign_out", "revoke"})

AccountsNext ==
  /\ \/ /\ SessionsLane \/ CodesLane \/ SettingsLane
        /\ InOrder(sessions', NoSession) /\ InOrder(tokens', NoToken) /\ InOrder(codes', NoCode)
        /\ UNCHANGED <<keyVars, platformVars, commandVars>>
     \/ /\ lane = "keys" /\ KeysNext /\ InOrder(keys', NoKey)
        /\ UNCHANGED <<authVars, platformVars, commandVars>>
     \/ /\ lane = "platform" /\ PlatformNext /\ InOrder(rows', Absent)
        /\ UNCHANGED <<authVars, keyVars, commandVars>>
     \/ /\ lane = "commands" /\ CommandNext
        /\ UNCHANGED <<authVars, keyVars, platformVars>>
  /\ UNCHANGED lane

AccountsSpec == AccountsInit /\ [][AccountsNext]_accountVars

\* Requests are alike.
Symmetric == Permutations(Requests)
=============================================================================
