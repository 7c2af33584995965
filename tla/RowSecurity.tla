----------------------------- MODULE RowSecurity -----------------------------
(* Row-level security of a project database. Policy statements run inside    *)
(* migrations: each one changes the catalog, compiles every table the        *)
(* catalog names into a view over a renamed backing table with INSTEAD OF    *)
(* triggers, and stores the catalog. The authorizer lets only generated      *)
(* objects whose names the connection approved touch a backing table; that   *)
(* set lives in memory, so rollbacks, restarts and restores must keep it in  *)
(* step with the file.                                                       *)
EXTENDS Naturals, FiniteSets

CONSTANTS Tables,
          Builtin,        \* the storage tables, protected when a database is opened
          Keys,           \* primary keys of rows; a row is its owner column
          Users, RoleOf,  \* end users and the role in each one's token
          Names,          \* policy names
          Drafts,         \* the policies CREATE POLICY statements may carry
          Copies,         \* backups
          MaxStatements   \* bound: policy and schema statements

Developer == "developer"
Principals == Users \cup {Developer}

Owners == Users \cup {"null"}
Cells == Owners \cup {"none"}   \* "none": no row has the key

Commands == {"ALL", "SELECT", "INSERT", "UPDATE", "DELETE"}
Operations == Commands \ {"ALL"}
Predicates == {"own", "any"}    \* owner_id = auth.uid(), and 1
Clauses == Predicates \cup {"omitted"}
Roles == {"public", "service_role"} \cup {RoleOf[u] : u \in Users}

\* USING has no meaning for INSERT, nor WITH CHECK for SELECT and DELETE.
ClausesValid(command, using, check) ==
  /\ command = "INSERT" => using = "omitted"
  /\ command \in {"SELECT", "DELETE"} => check = "omitted"

Policy == [mode : {"permissive", "restrictive"}, command : Commands, roles : SUBSET Roles,
           using : Clauses, check : Clauses]
NoPolicy == [mode |-> "none", command |-> "ALL", roles |-> {}, using |-> "omitted",
             check |-> "omitted"]
TablePolicies == [rls : {"on", "off"}, forced : {"yes", "no"},
                  policies : [Names -> Policy \cup {NoPolicy}]]
NoPolicies == [rls |-> "off", forced |-> "no", policies |-> [n \in Names |-> NoPolicy]]

ASSUME RowSecurityAssumption ==
  /\ Builtin \subseteq Tables /\ MaxStatements \in Nat
  /\ Developer \notin Users /\ {"null", "none"} \cap Users = {}
  /\ Drafts \subseteq Policy /\ NoPolicy \notin Policy
  /\ \A d \in Drafts : d.roles # {} /\ ClausesValid(d.command, d.using, d.check)

VARIABLES
  db,          \* the database file
  approved,    \* tables whose generated sources the connection approves
  migration,   \* the open migration, with what a rollback restores
  copies,      \* backups, none of them taken at first
  restored,    \* a backup was restored since the file was opened
  statements

securityVars == <<db, approved, migration, copies, restored, statements>>

\* kind: absent, keyless (no primary key), plain, or protected (a view over
\* the backing table); listed and meta: the stored catalog; code: what the
\* view and the triggers of a protected table were generated from.
Databases == [kind : [Tables -> {"absent", "keyless", "plain", "protected"}],
              listed : SUBSET Tables, meta : [Tables -> TablePolicies],
              code : [Tables -> TablePolicies], rows : [Tables -> [Keys -> Cells]]]

Enabled == [NoPolicies EXCEPT !.rls = "on"]
NoRows == [k \in Keys |-> "none"]

\* A new project: the storage tables, enabled and without a policy.
NewDatabase ==
  [kind |-> [t \in Tables |-> IF t \in Builtin THEN "protected" ELSE "absent"],
   listed |-> Builtin,
   meta |-> [t \in Tables |-> IF t \in Builtin THEN Enabled ELSE NoPolicies],
   code |-> [t \in Tables |-> IF t \in Builtin THEN Enabled ELSE NoPolicies],
   rows |-> [t \in Tables |-> NoRows]]

NoMigration == [open |-> "no", db |-> NewDatabase, approved |-> Builtin]

SecurityInit ==
  /\ db = NewDatabase /\ approved = Builtin /\ migration = NoMigration
  /\ copies = [c \in Copies |-> [taken |-> "no", db |-> NewDatabase]]
  /\ restored = FALSE /\ statements = 0

--------------------------------------------------------------------------------
(* What the generated predicates compute, in SQLite's three-valued logic.    *)

AuthRole(p) == IF p = Developer THEN "service_role" ELSE RoleOf[p]

\* auth.uid() is NULL for a developer.
Holds(predicate, p, owner) ==
  IF predicate # "own" THEN "true"
  ELSE IF p = Developer \/ owner = "null" THEN "null"
  ELSE IF owner = p THEN "true" ELSE "false"

AnyOf(values) == IF "true" \in values THEN "true" ELSE IF "null" \in values THEN "null" ELSE "false"
AllOf(values) == IF "false" \in values THEN "false" ELSE IF "null" \in values THEN "null" ELSE "true"

Applies(policy, operation) == policy.mode # "none" /\ policy.command \in {"ALL", operation}

RoleGuard(policy, p) == "public" \in policy.roles \/ AuthRole(p) \in policy.roles

\* The new row is checked with WITH CHECK, or with USING where it is omitted.
Clause(policy, purpose) ==
  IF purpose = "check" /\ policy.check # "omitted" THEN policy.check ELSE policy.using

Applicable(meta, operation, mode) ==
  {n \in Names : Applies(meta.policies[n], operation) /\ meta.policies[n].mode = mode}

Permissive(meta, operation, purpose, p, owner) ==
  AnyOf({IF RoleGuard(meta.policies[n], p)
           THEN Holds(Clause(meta.policies[n], purpose), p, owner) ELSE "false" :
         n \in Applicable(meta, operation, "permissive")})

Restrictive(meta, operation, purpose, p, owner) ==
  AllOf({IF RoleGuard(meta.policies[n], p)
           THEN Holds(Clause(meta.policies[n], purpose), p, owner) ELSE "true" :
         n \in Applicable(meta, operation, "restrictive")})

Combine(meta, operation, purpose, p, owner) ==
  LET result == AllOf({Permissive(meta, operation, purpose, p, owner),
                       Restrictive(meta, operation, purpose, p, owner)})
  IN  IF meta.forced = "yes" THEN result
      ELSE AnyOf({IF p = Developer THEN "true" ELSE "false", result})

CombinedPredicate(meta, operation, purpose, p, owner) ==
  IF meta.rls = "off" THEN "true" ELSE Combine(meta, operation, purpose, p, owner)

--------------------------------------------------------------------------------
(* Migrations.                                                               *)

Listed(d, t) == d.kind[t] \in {"keyless", "plain"} \/ (d.kind[t] = "protected" /\ t \in d.listed)

\* Tables a compilation generates; it fails when a table of the catalog is
\* gone, or has no primary key to generate triggers with.
Compiled(d) == {t \in d.listed : d.meta[t].rls = "on" \/ d.kind[t] = "protected"}
Compiles(d) == /\ \A t \in d.listed : Listed(d, t)
               /\ \A t \in Compiled(d) : d.kind[t] # "keyless"

\* The first use of a table's name lists it in the catalog.
Entered(d, t, meta) == [d EXCEPT !.listed = @ \cup {t}, !.meta[t] = meta]

\* Mutant: a table that is protected already is not generated again.
ApplyPlan_once(d) ==
  [d EXCEPT !.kind = [t \in Tables |-> IF t \in Compiled(d) THEN "protected" ELSE @[t]],
            !.code = [t \in Tables |-> IF t \in Compiled(d) /\ d.kind[t] # "protected" THEN d.meta[t] ELSE @[t]]]

ApplyPlan(d) ==
  [d EXCEPT !.kind = [t \in Tables |-> IF t \in Compiled(d) THEN "protected" ELSE @[t]],
            !.code = [t \in Tables |-> IF t \in Compiled(d) THEN d.meta[t] ELSE @[t]]]

Count == statements < MaxStatements /\ statements' = statements + 1

BeginMigration ==
  /\ migration.open = "no" /\ statements < MaxStatements
  /\ migration' = [open |-> "yes", db |-> db, approved |-> approved]
  /\ UNCHANGED <<db, approved, copies, restored, statements>>

\* Mutant: the approved sources are not put back.
RollBack_keeps_sources ==
  /\ migration.open = "yes"
  /\ db' = migration.db /\ migration' = NoMigration
  /\ UNCHANGED <<approved, copies, restored, statements>>

\* A statement that fails, a deadline, a full database or a failed COMMIT:
\* the transaction is rolled back and the approved sources are put back.
RollBack ==
  /\ migration.open = "yes"
  /\ db' = migration.db /\ approved' = migration.approved /\ migration' = NoMigration
  /\ UNCHANGED <<copies, restored, statements>>

CommitMigration ==
  /\ migration.open = "yes" /\ migration' = NoMigration
  /\ UNCHANGED <<db, approved, copies, restored, statements>>

\* A policy statement that gives table t the metadata meta.
RlsStatement(t, meta) ==
  LET next == Entered(db, t, meta) IN
  /\ migration.open = "yes" /\ Listed(db, t) /\ Compiles(next) /\ Count
  /\ db' = ApplyPlan(next)
  /\ approved' = approved \cup Compiled(next)
  /\ UNCHANGED <<migration, copies, restored>>

MetaOf(t) == IF t \in db.listed THEN db.meta[t] ELSE NoPolicies

AlterTable(t, action) ==
  RlsStatement(t, CASE action = "ENABLE"   -> [MetaOf(t) EXCEPT !.rls = "on"]
                    [] action = "DISABLE"  -> [MetaOf(t) EXCEPT !.rls = "off"]
                    [] action = "FORCE"    -> [MetaOf(t) EXCEPT !.forced = "yes"]
                    [] action = "NO FORCE" -> [MetaOf(t) EXCEPT !.forced = "no"])

CreatePolicy(t, n, draft) ==
  /\ MetaOf(t).policies[n] = NoPolicy
  /\ RlsStatement(t, [MetaOf(t) EXCEPT !.policies[n] = draft])

\* A clause that is not given keeps its value; the command never changes.
Altered(policy, roles, using, check) ==
  [policy EXCEPT !.roles = IF roles = {} THEN @ ELSE roles,
                 !.using = IF using = "omitted" THEN @ ELSE using,
                 !.check = IF check = "omitted" THEN @ ELSE check]

AlterPolicy(t, n, roles, using, check) ==
  LET policy == MetaOf(t).policies[n] IN
  /\ policy # NoPolicy /\ ClausesValid(policy.command, using, check)
  /\ roles # {} \/ {using, check} # {"omitted"}
  /\ RlsStatement(t, [MetaOf(t) EXCEPT !.policies[n] = Altered(policy, roles, using, check)])

\* Renaming to the policy's own name is accepted.
RenamePolicy(t, n, new) ==
  LET policies == MetaOf(t).policies IN
  /\ policies[n] # NoPolicy /\ (new = n \/ policies[new] = NoPolicy)
  /\ RlsStatement(t, [MetaOf(t) EXCEPT !.policies =
                        [[policies EXCEPT ![n] = NoPolicy] EXCEPT ![new] = policies[n]]])

DropPolicy(t, n, ifExists) ==
  /\ MetaOf(t).policies[n] # NoPolicy \/ ifExists
  /\ RlsStatement(t, [MetaOf(t) EXCEPT !.policies[n] = NoPolicy])

--------------------------------------------------------------------------------
(* Schema and data statements, by the authorizer's leave.                    *)

MayUseBacking(t) == t \in approved
MayChangeSchema(t) == t \notin approved

\* A developer's DDL, in a migration or as a query.
CreateTable(t, kind) ==
  /\ db.kind[t] = "absent" /\ MayChangeSchema(t) /\ Count
  /\ db' = [db EXCEPT !.kind[t] = kind, !.rows[t] = NoRows]
  /\ UNCHANGED <<approved, migration, copies, restored>>

DropTable(t) ==
  /\ db.kind[t] \in {"keyless", "plain"} /\ MayChangeSchema(t) /\ Count
  /\ db' = [db EXCEPT !.kind[t] = "absent", !.rows[t] = NoRows]
  /\ UNCHANGED <<approved, migration, copies, restored>>

\* The generated code of a protected table, or the table itself.
Admits(t, operation, purpose, p, owner) ==
  CASE db.kind[t] = "protected" ->
         MayUseBacking(t) /\ CombinedPredicate(db.code[t], operation, purpose, p, owner) = "true"
    [] OTHER -> db.kind[t] # "absent"

Visible(t, p) == {k \in Keys : db.rows[t][k] # "none" /\ Admits(t, "SELECT", "using", p, db.rows[t][k])}

\* End users have no session while a migration runs.
Runs(p) == migration.open = "yes" => p = Developer

\* The key is free, or the statement says REPLACE: the trigger's own INSERT
\* takes the conflict clause of the statement that fired it, and the row that
\* had the key is gone without a check of its own.
Insert(t, p, k, owner) ==
  /\ Runs(p) /\ db.kind[t] # "absent"
  /\ Admits(t, "INSERT", "check", p, owner)
  /\ db' = [db EXCEPT !.rows[t][k] = owner]
  /\ UNCHANGED <<approved, migration, copies, restored, statements>>

\* Mutant: the old row is not checked with the policies of UPDATE.
Update_any_visible(t, p, asked, owner) ==
  LET hit == asked \cap Visible(t, p) IN
  /\ Runs(p) /\ hit # {}
  /\ Admits(t, "UPDATE", "check", p, owner)
  /\ db' = [db EXCEPT !.rows[t] = [k \in Keys |-> IF k \in hit THEN owner ELSE @[k]]]
  /\ UNCHANGED <<approved, migration, copies, restored, statements>>

\* One row that fails a check aborts the statement, and with it every row.
Update(t, p, asked, owner) ==
  LET hit == asked \cap Visible(t, p) IN
  /\ Runs(p) /\ hit # {}
  /\ \A k \in hit : Admits(t, "UPDATE", "using", p, db.rows[t][k])
  /\ Admits(t, "UPDATE", "check", p, owner)
  /\ db' = [db EXCEPT !.rows[t] = [k \in Keys |-> IF k \in hit THEN owner ELSE @[k]]]
  /\ UNCHANGED <<approved, migration, copies, restored, statements>>

\* An update that gives a row another key, one that is free or, by UPDATE OR
\* REPLACE, one that another row has.
Move(t, p, from, to, owner) ==
  /\ Runs(p) /\ from \in Visible(t, p) /\ from # to
  /\ Admits(t, "UPDATE", "using", p, db.rows[t][from])
  /\ Admits(t, "UPDATE", "check", p, owner)
  /\ db' = [db EXCEPT !.rows[t] = [k \in Keys |-> CASE k = from -> "none" [] k = to -> owner [] OTHER -> @[k]]]
  /\ UNCHANGED <<approved, migration, copies, restored, statements>>

Delete(t, p, asked) ==
  LET hit == asked \cap Visible(t, p) IN
  /\ Runs(p) /\ hit # {}
  /\ \A k \in hit : Admits(t, "DELETE", "using", p, db.rows[t][k])
  /\ db' = [db EXCEPT !.rows[t] = [k \in Keys |-> IF k \in hit THEN "none" ELSE @[k]]]
  /\ UNCHANGED <<approved, migration, copies, restored, statements>>

--------------------------------------------------------------------------------
(* Restarts, backups and restores.                                           *)

\* The worker ends at any moment and another opens the file: an open
\* transaction is undone, and every table the catalog lists is approved.
Reopen ==
  LET file == IF migration.open = "yes" THEN migration.db ELSE db IN
  /\ db' = file /\ approved' = file.listed /\ migration' = NoMigration
  /\ restored' = FALSE
  /\ UNCHANGED <<copies, statements>>

BackUp(c) ==
  /\ migration.open = "no" /\ copies[c].taken = "no"
  /\ copies' = [copies EXCEPT ![c] = [taken |-> "yes", db |-> db]]
  /\ UNCHANGED <<db, approved, migration, restored, statements>>

\* The pages are replaced under the open connection; the storage tables are
\* in the restored catalog, so nothing is compiled and nothing is approved.
Restore(c) ==
  /\ migration.open = "no" /\ copies[c].taken = "yes"
  /\ db' = copies[c].db /\ restored' = TRUE
  /\ UNCHANGED <<approved, migration, copies, statements>>

PolicyStatement(t) ==
  \/ \E a \in {"ENABLE", "DISABLE", "FORCE", "NO FORCE"} : AlterTable(t, a)
  \/ \E n \in Names :
       \/ \E d \in Drafts : CreatePolicy(t, n, d)
       \/ \E d \in Drafts : AlterPolicy(t, n, {}, d.using, d.check)
       \/ \E d \in Drafts : AlterPolicy(t, n, d.roles, "omitted", "omitted")
       \/ \E m \in Names : RenamePolicy(t, n, m)
       \/ \E e \in BOOLEAN : DropPolicy(t, n, e)

\* INSERT, UPDATE and DELETE, which fail where a key is taken.
Statement(t, p) ==
  \/ \E k \in Keys, o \in Owners :
       db.rows[t][k] = "none" /\ (Insert(t, p, k, o) \/ \E i \in Keys : Move(t, p, i, k, o))
  \/ \E asked \in SUBSET Keys : (\E o \in Owners : Update(t, p, asked, o)) \/ Delete(t, p, asked)

\* REPLACE INTO, INSERT OR REPLACE and UPDATE OR REPLACE, where a key is taken.
ReplacingStatement(t, p) ==
  \E k \in Keys, o \in Owners :
    db.rows[t][k] # "none" /\ (Insert(t, p, k, o) \/ \E i \in Keys : Move(t, p, i, k, o))

DataStatement(t, p) == Statement(t, p) \/ ReplacingStatement(t, p)

SecurityNext ==
  \/ BeginMigration \/ RollBack \/ CommitMigration \/ Reopen
  \/ \E t \in Tables :
       \/ PolicyStatement(t)
       \/ \E kind \in {"keyless", "plain"} : CreateTable(t, kind)
       \/ DropTable(t)
       \/ \E p \in Principals : DataStatement(t, p)
  \/ \E c \in Copies : BackUp(c) \/ Restore(c)

SecuritySpec == SecurityInit /\ [][SecurityNext]_securityVars

--------------------------------------------------------------------------------
(* Properties.                                                               *)

SecurityTypeOK ==
  /\ db \in Databases /\ approved \subseteq Tables
  /\ migration \in [open : {"yes", "no"}, db : Databases, approved : SUBSET Tables]
  /\ copies \in [Copies -> [taken : {"yes", "no"}, db : Databases]]
  /\ restored \in BOOLEAN /\ statements \in 0..MaxStatements

\* What docs/rls-semantics promises of a table's declared policies: any
\* permissive policy and every restrictive one of the command and the role,
\* a developer exempt unless RLS is forced.
True(clause, p, owner) == clause # "own" \/ (p # Developer /\ owner = p)
Grants(policy, operation, purpose, p, owner) ==
  /\ policy.command \in {"ALL", operation}
  /\ {"public", AuthRole(p)} \cap policy.roles # {}
  /\ True(Clause(policy, purpose), p, owner)
Targets(policy, operation, p) ==
  policy.command \in {"ALL", operation} /\ {"public", AuthRole(p)} \cap policy.roles # {}
Declared(meta, operation, purpose, p, owner) ==
  \/ meta.rls = "off"
  \/ p = Developer /\ meta.forced = "no"
  \/ /\ \E n \in Names : meta.policies[n].mode = "permissive"
                         /\ Grants(meta.policies[n], operation, purpose, p, owner)
     /\ \A n \in Names : meta.policies[n].mode = "restrictive"
                         /\ Targets(meta.policies[n], operation, p)
                         => True(Clause(meta.policies[n], purpose), p, owner)

\* In every state, in the middle of a migration too, a table whose catalog
\* entry enables RLS is behind its view, and the generated code of every
\* protected table lets a principal see or write exactly the rows that the
\* stored policies declare, or nothing when the connection does not approve
\* it.
EnforcedAsDeclared ==
  \A t \in Tables :
    /\ t \in db.listed /\ db.meta[t].rls = "on" => db.kind[t] = "protected"
    /\ db.kind[t] = "protected" /\ t \in approved =>
         \A p \in Principals, o \in Owners, operation \in Operations, purpose \in {"using", "check"} :
           Admits(t, operation, purpose, p, o) <=> Declared(db.meta[t], operation, purpose, p, o)

\* What the policies of one operation allow a row to become. A row that is
\* replaced is asked nothing; the row that takes its key is checked.
Allowed(meta, operation, p, old, new, replacing) ==
  /\ new # "none" => operation # "DELETE" /\ Declared(meta, operation, "check", p, new)
  /\ old # "none" => \/ /\ operation # "INSERT"
                        /\ Declared(meta, "SELECT", "using", p, old)
                        /\ Declared(meta, operation, "using", p, old)
                     \/ replacing /\ new # "none"

\* The stored policies of one operation allow every row that a statement
\* changes in a table of the catalog, whatever other rows it asked for: the
\* principal may see and change each old row and may write each new one, and
\* rows that only disappear are allowed to be deleted. The one exception is
\* what the generated triggers leave to SQLite: a statement that says REPLACE
\* and meets a taken key puts the new row there, checked, without asking for
\* the row that had it.
RowsFollowPolicy ==
  [][\A t \in Tables, p \in Principals :
       db'.rows[t] # db.rows[t] /\ t \in db.listed /\ DataStatement(t, p) =>
         \E operation \in {"INSERT", "UPDATE", "DELETE"} :
           /\ \A k \in Keys : db'.rows[t][k] # db.rows[t][k] =>
                Allowed(db.meta[t], operation, p, db.rows[t][k], db'.rows[t][k], ~Statement(t, p))
           /\ Statement(t, p) /\ operation # "DELETE" =>
                \E k \in Keys : db'.rows[t][k] \notin {"none", db.rows[t][k]}]_securityVars

\* Until a backup is restored under it, the connection approves every
\* protected table, which would be unreadable otherwise, and only tables of
\* the catalog, also after a migration that protected a table is rolled back.
ApprovedInStep ==
  ~restored => /\ \A t \in Tables : db.kind[t] = "protected" => t \in approved
               /\ approved \subseteq db.listed

\* The same without the exception: a restore "refreshes protected RLS/sync
\* structures" (docs/operations/backup-restore.md).
SourcesApproved == \A t \in Tables : db.kind[t] = "protected" => t \in approved
================================================================================
