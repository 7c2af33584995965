------------------------ MODULE MCRestoreOperations -------------------------
(* Restores, in three lanes: the operation across the API and the worker,    *)
(* with two restore keys for one backup, or for two, and one write, once     *)
(* with answers that go astray and once with lost leases; and the files of a *)
(* database's backups, with two workers and two backup names.                *)
EXTENDS RestoreOperations, BackupFiles, TLC

CONSTANTS k1, k2, b1, b2

VARIABLE lane

OneBackup == [k \in RestoreKeys |-> b1]
TwoBackups == (k1 :> b1) @@ (k2 :> b2)

MCContents == {<<1>>, <<1, 2, 3>>}

MCInit ==
  /\ lane \in {"shifted", "leases", "files"}
  /\ Init /\ BackupInit
  /\ lane # "files" => live = <<1>>

\* The second name of a backup is used once the first one was, and then by one
\* worker at a time.
NamesInOrder ==
  \A w \in BackupWorkers : job'[w].name = b2 \/ taken'[b2] # {} =>
    taken'[b1] # {} /\ \A v, x \in BackupWorkers : job'[v] # Down /\ job'[x] # Down => v = x

\* Calls get the answers to other requests while those who are served keep
\* their leases and no receipt is torn, and workers are left behind with the
\* frames of one key; or leases are lost and receipts torn while every call
\* gets its own answer.
Shifted ==
  /\ Cardinality(strays') <= 1
  /\ \A k \in Keys : rows[k].live /\ rows'[k].state = "held" /\ ~rows'[k].live => rows[k].owner = Nobody
  /\ \A k \in RestoreKeys : receipts'[k] # "torn"

Unshifted == strays' = {}

MCNext ==
  /\ lane' = lane
  /\ \/ lane = "shifted" /\ Next /\ Shifted /\ UNCHANGED backupVars
     \/ lane = "leases" /\ Next /\ Unshifted /\ UNCHANGED backupVars
     \/ lane = "files" /\ BackupNext /\ NamesInOrder /\ UNCHANGED operationVars

MCSpec == MCInit /\ [][MCNext]_<<lane, operationVars, backupVars>>

\* The keys are alike while both restore one backup.
RestoreSymmetry == Permutations(Slots) \cup Permutations(RestoreKeys)

=============================================================================
