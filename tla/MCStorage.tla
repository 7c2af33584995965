------------------------------ MODULE MCStorage ------------------------------
(* A project's protected tables, in lanes. Storage: single uploads and       *)
(* deletions, three uploads that share the quota, a multipart upload from    *)
(* its creation, and one that is in progress and is completed and aborted    *)
(* under several grants. Row-level security: every policy and schema         *)
(* statement with restarts, backups and restores, and the rows of a table    *)
(* under every pair of policies.                                             *)
EXTENDS ObjectStorage, RowSecurity

CONSTANTS Lanes, Key, SomeSize

VARIABLE lane

Ops == [objects |-> {"upload", "delete"}, quota |-> {"upload"}, multipart |-> {"create", "part", "abort"},
        completion |-> {"complete", "abort"}]
GrantsOf == [objects |-> 2, quota |-> 3, multipart |-> 2, completion |-> 2]

StorageLanes == DOMAIN Ops

Underway == [NoUpload EXCEPT !.key = Key, !.size = SomeSize, !.parts = 1]

MCInit ==
  /\ lane \in Lanes /\ SecurityInit
  /\ IF lane = "completion"
     THEN /\ objects = [k \in Objects |-> NoObject] /\ uploads = [b \in Blobs |-> IF b = 1 THEN Underway ELSE NoUpload]
          /\ reserved = {} /\ receipts = {} /\ cleanup = {} /\ local = {}
          /\ grants = [n \in Nonces |-> NoGrant] /\ cleaners = [c \in Cleaners |-> NoCleaner]
          /\ blobs = {} /\ open = {1} /\ strays = {} /\ erased = {}
     ELSE StorageInit

InOrder == \A n, q \in Nonces : n < q /\ grants'[q] # NoGrant => grants'[n] # NoGrant
BlobsInOrder == \A b, d \in Blobs : b < d /\ Fresh(b)' => Fresh(d)'

\* The quota lane stops before the cleanup, only single uploads and deletions
\* try an item twice, with one size, and a completion's cleanup keeps its
\* leases.
StorageStep ==
  /\ StorageNext /\ InOrder /\ BlobsInOrder
  /\ \A n \in Nonces : grants'[n].op \in Ops[lane] \cup {"none"} /\ (grants'[n] # NoGrant => n <= GrantsOf[lane])
  /\ lane = "quota" => cleanup' = {} /\ cleaners' = cleaners
  /\ lane = "objects" => \A n \in Nonces : grants'[n].size <= 1
  /\ lane = "completion" => ~\E i \in cleanup : LeaseLapses(i)
  /\ lane # "objects" => \A i \in cleanup' : i.tries <= 1
  /\ UNCHANGED securityVars

MCRoleOf == [u \in Users |-> IF u = "alice" THEN "authenticated" ELSE "anon"]

\* Both modes, every command but DELETE, a role only some have, a check of
\* its own, rows that may be seen and not changed, and a predicate that is
\* NULL for a developer.
MCDrafts ==
  {[mode |-> "permissive", command |-> "ALL", roles |-> {"public"}, using |-> "own", check |-> "omitted"],
   [mode |-> "permissive", command |-> "UPDATE", roles |-> {"authenticated"}, using |-> "any", check |-> "own"],
   [mode |-> "permissive", command |-> "SELECT", roles |-> {"authenticated"}, using |-> "any", check |-> "omitted"],
   [mode |-> "restrictive", command |-> "SELECT", roles |-> {"authenticated"}, using |-> "own", check |-> "omitted"],
   [mode |-> "permissive", command |-> "INSERT", roles |-> {"service_role"}, using |-> "omitted", check |-> "any"]}

\* The second policy of a table comes after the first and goes before it.
NamesInOrder == \A t \in Tables : LET p == db'.meta[t].policies IN p["q"] # NoPolicy => p["p"] # NoPolicy

\* Statements without rows, one fewer of them.
PolicyStep ==
  /\ SecurityNext /\ statements' < MaxStatements /\ db'.rows = db.rows /\ NamesInOrder
  /\ UNCHANGED storageVars

\* A table is created, protected and given policies in any order; then its
\* rows are read and written.
RowStep ==
  /\ \/ BeginMigration \/ CommitMigration
     \/ CreateTable("docs", "plain")
     \/ AlterTable("docs", "ENABLE") \/ AlterTable("docs", "FORCE")
     \/ \E n \in Names, d \in Drafts : CreatePolicy("docs", n, d)
     \/ statements = MaxStatements /\ \E p \in Principals : DataStatement("docs", p)
  /\ UNCHANGED storageVars

MCNext ==
  /\ lane' = lane
  /\ \/ lane \in StorageLanes /\ StorageStep
     \/ lane = "policies" /\ PolicyStep
     \/ lane = "rows" /\ RowStep

MCSpec == MCInit /\ [][MCNext]_<<storageVars, securityVars, lane>>

\* In every state, in the middle of a migration too, a table whose catalog
\* entry enables RLS is behind its view, and the generated code of every
\* protected table that the connection approves lets a principal see or write
\* exactly the rows that the stored policies declare (compile, apply_rls_plan).
PoliciesEnforced == lane \in StorageLanes \/ (SecurityTypeOK /\ EnforcedAsDeclared)
=============================================================================
