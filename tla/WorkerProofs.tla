----------------------------- MODULE WorkerProofs -----------------------------
(* What holds of the worker processes, for every value of the constants.     *)
(*                                                                           *)
(* Row-level security, for every set of tables, users, roles, policies and   *)
(* rows: the generated predicates mean what the policies declare, the        *)
(* connection's approved sources stay in step with the file, and no          *)
(* statement changes a row that the policies keep from its principal.        *)
(*                                                                           *)
(* The worker pool, for every number of calls, processes and routes: whose   *)
(* answer a call of execute returns.                                         *)
EXTENDS RowSecurity, WorkerPool, TLAPS

\* What is true of every database file that exists: the open one, the one a
\* rollback returns to, and every backup. A protected table is listed and its
\* code is generated from the stored metadata.
Generated(d) ==
  \A t \in Tables :
    /\ d.kind[t] = "protected" => t \in d.listed /\ d.code[t] = d.meta[t]
    /\ t \in d.listed /\ d.meta[t].rls = "on" => d.kind[t] = "protected"

\* The sources a connection approves for a file.
InStep(d, sources) ==
  /\ \A t \in Tables : d.kind[t] = "protected" => t \in sources
  /\ sources \subseteq d.listed

SecurityInvariant ==
  /\ SecurityTypeOK
  /\ Generated(db) /\ Generated(migration.db) /\ \A c \in Copies : Generated(copies[c].db)
  /\ ~restored => InStep(db, approved) /\ InStep(migration.db, migration.approved)

-----------------------------------------------------------------------------
(* The generated predicates.                                                 *)

Values == {"true", "false", "null"}

\* OR over a set of SQL values is true when one of them is.
LEMMA AnyOfMeans ==
  ASSUME NEW S \in SUBSET Values
  PROVE  AnyOf(S) \in Values /\ (AnyOf(S) = "true" <=> "true" \in S)
BY DEF AnyOf, Values

\* AND over a set of SQL values is true when all of them are.
LEMMA AllOfMeans ==
  ASSUME NEW S \in SUBSET Values
  PROVE  AllOf(S) \in Values /\ (AllOf(S) = "true" <=> \A v \in S : v = "true")
BY DEF AllOf, Values

\* A predicate that is NULL counts as one that is false.
LEMMA HoldsMeans ==
  ASSUME NEW p \in Principals, NEW o \in Owners, NEW clause
  PROVE  Holds(clause, p, o) \in Values /\ (Holds(clause, p, o) = "true" <=> True(clause, p, o))
<1>1. p = "null" => p = Developer
  BY RowSecurityAssumption DEF Principals
<1>2. CASE clause # "own"
  BY <1>2 DEF Holds, True, Values
<1>3. CASE clause = "own" /\ (p = Developer \/ o = "null")
  <2>1. Holds(clause, p, o) = "null"
    BY <1>3 DEF Holds
  <2> QED
    BY <1>1, <1>3, <2>1 DEF True, Values
<1>4. CASE clause = "own" /\ ~ (p = Developer \/ o = "null")
  <2>1. Holds(clause, p, o) = IF o = p THEN "true" ELSE "false"
    BY <1>4 DEF Holds
  <2> QED
    BY <1>4, <2>1 DEF True, Values
<1> QED
  BY <1>2, <1>3, <1>4

\* The OR of the permissive policies is true for the rows one of them grants.
LEMMA PermissiveMeans ==
  ASSUME NEW meta \in TablePolicies, NEW operation \in Operations, NEW purpose, NEW p \in Principals, NEW o \in Owners
  PROVE  /\ Permissive(meta, operation, purpose, p, o) \in Values
         /\ Permissive(meta, operation, purpose, p, o) = "true" <=>
              \E n \in Names : meta.policies[n].mode = "permissive" /\ Grants(meta.policies[n], operation, purpose, p, o)
<1> DEFINE value(n) == IF RoleGuard(meta.policies[n], p)
                       THEN Holds(Clause(meta.policies[n], purpose), p, o) ELSE "false"
           S == {value(n) : n \in Applicable(meta, operation, "permissive")}
<1>1. \A n \in Names : value(n) \in Values
                       /\ (value(n) = "true" <=> RoleGuard(meta.policies[n], p)
                                                 /\ True(Clause(meta.policies[n], purpose), p, o))
  BY HoldsMeans DEF Values
<1>2. \A n : n \in Applicable(meta, operation, "permissive") <=>
               n \in Names /\ meta.policies[n].mode = "permissive" /\ meta.policies[n].command \in {"ALL", operation}
  BY DEF Applicable, Applies
<1>3. \A n \in Names : RoleGuard(meta.policies[n], p) <=> {"public", AuthRole(p)} \cap meta.policies[n].roles # {}
  BY DEF RoleGuard
<1>4. Permissive(meta, operation, purpose, p, o) = AnyOf(S)
  BY DEF Permissive
<1> HIDE DEF value
<1>5. S \in SUBSET Values /\ ("true" \in S <=> \E n \in Applicable(meta, operation, "permissive") : value(n) = "true")
  BY <1>1, <1>2
<1>6. AnyOf(S) \in Values /\ (AnyOf(S) = "true" <=> "true" \in S)
  BY <1>5, AnyOfMeans
<1> HIDE DEF S
<1> QED
  BY <1>1, <1>2, <1>3, <1>4, <1>5, <1>6 DEF Grants

\* The AND of the restrictive policies is true for the rows none of them withholds.
LEMMA RestrictiveMeans ==
  ASSUME NEW meta \in TablePolicies, NEW operation \in Operations, NEW purpose, NEW p \in Principals, NEW o \in Owners
  PROVE  /\ Restrictive(meta, operation, purpose, p, o) \in Values
         /\ Restrictive(meta, operation, purpose, p, o) = "true" <=>
              \A n \in Names : meta.policies[n].mode = "restrictive" /\ Targets(meta.policies[n], operation, p)
                               => True(Clause(meta.policies[n], purpose), p, o)
<1> DEFINE value(n) == IF RoleGuard(meta.policies[n], p)
                       THEN Holds(Clause(meta.policies[n], purpose), p, o) ELSE "true"
           S == {value(n) : n \in Applicable(meta, operation, "restrictive")}
<1>1. \A n \in Names : value(n) \in Values
                       /\ (value(n) = "true" <=> (RoleGuard(meta.policies[n], p)
                                                  => True(Clause(meta.policies[n], purpose), p, o)))
  BY HoldsMeans DEF Values
<1>2. \A n : n \in Applicable(meta, operation, "restrictive") <=>
               n \in Names /\ meta.policies[n].mode = "restrictive" /\ meta.policies[n].command \in {"ALL", operation}
  BY DEF Applicable, Applies
<1>3. \A n \in Names : RoleGuard(meta.policies[n], p) <=> {"public", AuthRole(p)} \cap meta.policies[n].roles # {}
  BY DEF RoleGuard
<1>4. Restrictive(meta, operation, purpose, p, o) = AllOf(S)
  BY DEF Restrictive
<1> HIDE DEF value
<1>5. /\ S \in SUBSET Values
      /\ (\A v \in S : v = "true") <=> \A n \in Applicable(meta, operation, "restrictive") : value(n) = "true"
  BY <1>1, <1>2
<1>6. AllOf(S) \in Values /\ (AllOf(S) = "true" <=> \A v \in S : v = "true")
  BY <1>5, AllOfMeans
<1> HIDE DEF S
<1> QED
  BY <1>1, <1>2, <1>3, <1>4, <1>5, <1>6 DEF Targets

\* The expression generated for a table, an operation and the old or the new
\* row is true exactly where the declared policies allow it, although it is
\* evaluated in three-valued logic: the compiler's disjunctions, conjunctions
\* and role guards never turn a NULL into a permission or into a refusal that
\* was not declared (combined_predicate, permissive_expression,
\* restrictive_expression).
THEOREM PredicatesMeanPolicies ==
  ASSUME NEW meta \in TablePolicies, NEW operation \in Operations, NEW purpose, NEW p \in Principals, NEW o \in Owners
  PROVE  CombinedPredicate(meta, operation, purpose, p, o) = "true" <=> Declared(meta, operation, purpose, p, o)
<1> DEFINE P == Permissive(meta, operation, purpose, p, o)
           R == Restrictive(meta, operation, purpose, p, o)
           developer == IF p = Developer THEN "true" ELSE "false"
<1>1. P \in Values /\ (P = "true" <=> \E n \in Names : meta.policies[n].mode = "permissive"
                                        /\ Grants(meta.policies[n], operation, purpose, p, o))
  BY PermissiveMeans
<1>2. R \in Values /\ (R = "true" <=> \A n \in Names : meta.policies[n].mode = "restrictive"
                                        /\ Targets(meta.policies[n], operation, p)
                                        => True(Clause(meta.policies[n], purpose), p, o))
  BY RestrictiveMeans
<1>3. meta.rls \in {"on", "off"} /\ meta.forced \in {"yes", "no"}
  BY DEF TablePolicies
<1>4. Combine(meta, operation, purpose, p, o) =
        IF meta.forced = "yes" THEN AllOf({P, R}) ELSE AnyOf({developer, AllOf({P, R})})
  BY DEF Combine
<1> HIDE DEF P, R
<1>5. AllOf({P, R}) \in Values /\ (AllOf({P, R}) = "true" <=> P = "true" /\ R = "true")
  <2>1. {P, R} \in SUBSET Values
    BY <1>1, <1>2
  <2> QED
    BY <2>1, AllOfMeans
<1>6. AnyOf({developer, AllOf({P, R})}) = "true" <=> p = Developer \/ AllOf({P, R}) = "true"
  <2>1. {developer, AllOf({P, R})} \in SUBSET Values
    BY <1>5 DEF Values
  <2> QED
    BY <2>1, AnyOfMeans
<1>7. Combine(meta, operation, purpose, p, o) = "true" <=>
        (p = Developer /\ meta.forced = "no") \/ (P = "true" /\ R = "true")
  BY <1>3, <1>4, <1>5, <1>6
<1> QED
  BY <1>1, <1>2, <1>3, <1>7 DEF CombinedPredicate, Declared

-----------------------------------------------------------------------------
(* Statements keep every file generated and the connection in step with it.  *)

\* The parts of a file.
LEMMA DatabaseParts ==
  ASSUME NEW d \in Databases
  PROVE  /\ d.kind \in [Tables -> {"absent", "keyless", "plain", "protected"}] /\ d.listed \in SUBSET Tables
         /\ d.meta \in [Tables -> TablePolicies] /\ d.code \in [Tables -> TablePolicies]
         /\ d.rows \in [Tables -> [Keys -> Cells]]
BY DEF Databases

\* A table without policies, and one with row security just enabled, are well-formed metadata.
LEMMA EmptyMetadata == NoPolicies \in TablePolicies /\ Enabled \in TablePolicies /\ Enabled.rls = "on"
                       /\ NoPolicies.rls = "off"
<1>1. NoPolicies \in TablePolicies /\ NoPolicies.rls = "off"
  BY DEF NoPolicies, TablePolicies
<1>2. PICK none \in TablePolicies : none = NoPolicies
  BY <1>1
<1>3. Enabled = [none EXCEPT !.rls = "on"]
  BY <1>2 DEF Enabled
<1> QED
  BY <1>1, <1>3 DEF TablePolicies

\* A new project's file.
LEMMA NewDatabaseFits == NewDatabase \in Databases /\ Generated(NewDatabase) /\ InStep(NewDatabase, Builtin)
<1>0. Builtin \subseteq Tables
  BY RowSecurityAssumption
<1>1. "none" \in Cells /\ NoRows \in [Keys -> Cells]
  BY DEF Cells, NoRows
<1>2. NewDatabase \in Databases
  BY <1>0, <1>1, EmptyMetadata DEF NewDatabase, Databases
<1>3. Generated(NewDatabase)
  BY <1>0, EmptyMetadata DEF NewDatabase, Generated
<1>4. InStep(NewDatabase, Builtin)
  BY <1>0 DEF NewDatabase, InStep
<1> QED
  BY <1>2, <1>3, <1>4

\* The catalog as a policy statement leaves it.
LEMMA EnteredParts ==
  ASSUME NEW d \in Databases, NEW t \in Tables, NEW meta \in TablePolicies, NEW e, e = Entered(d, t, meta)
  PROVE  /\ e \in Databases /\ e.kind = d.kind /\ e.code = d.code /\ e.rows = d.rows
         /\ e.listed = d.listed \cup {t} /\ e.meta = [d.meta EXCEPT ![t] = meta]
BY DEF Entered, Databases

\* The file as the compilation leaves it.
LEMMA PlanParts ==
  ASSUME NEW d \in Databases, NEW e, e = ApplyPlan(d)
  PROVE  /\ e \in Databases /\ e.listed = d.listed /\ e.meta = d.meta /\ e.rows = d.rows
         /\ \A t \in Tables : /\ e.kind[t] = IF t \in Compiled(d) THEN "protected" ELSE d.kind[t]
                              /\ e.code[t] = IF t \in Compiled(d) THEN d.meta[t] ELSE d.code[t]
<1>1. PICK kind : kind = [t \in Tables |-> IF t \in Compiled(d) THEN "protected" ELSE d.kind[t]]
  OBVIOUS
<1>2. PICK code : code = [t \in Tables |-> IF t \in Compiled(d) THEN d.meta[t] ELSE d.code[t]]
  OBVIOUS
<1>3. e = [d EXCEPT !.kind = kind, !.code = code]
  BY <1>1, <1>2 DEF ApplyPlan
<1>4. kind \in [Tables -> {"absent", "keyless", "plain", "protected"}] /\ code \in [Tables -> TablePolicies]
  BY <1>1, <1>2, DatabaseParts
<1>5. e \in Databases /\ e.listed = d.listed /\ e.meta = d.meta /\ e.rows = d.rows /\ e.kind = kind /\ e.code = code
  BY <1>3, <1>4 DEF Databases
<1> QED
  BY <1>1, <1>2, <1>5

\* A policy statement with metadata of its type.
LEMMA RlsStatementFits ==
  ASSUME SecurityInvariant, NEW t \in Tables, NEW meta \in TablePolicies, RlsStatement(t, meta)
  PROVE  SecurityInvariant'
<1>0. db \in Databases /\ approved \subseteq Tables /\ Generated(db)
  BY DEF SecurityInvariant, SecurityTypeOK
<1>1. PICK next : next = Entered(db, t, meta)
  OBVIOUS
<1>2. /\ db' = ApplyPlan(next) /\ approved' = approved \cup Compiled(next) /\ Compiles(next)
      /\ statements < MaxStatements /\ statements' = statements + 1
      /\ UNCHANGED <<migration, copies, restored>>
  BY <1>1 DEF RlsStatement, Count
<1>3. /\ next \in Databases /\ next.kind = db.kind /\ next.code = db.code
      /\ next.listed = db.listed \cup {t} /\ next.meta = [db.meta EXCEPT ![t] = meta]
  BY <1>0, <1>1, EnteredParts
<1>4. /\ db' \in Databases /\ db'.listed = next.listed /\ db'.meta = next.meta
      /\ \A u \in Tables : /\ db'.kind[u] = IF u \in Compiled(next) THEN "protected" ELSE next.kind[u]
                           /\ db'.code[u] = IF u \in Compiled(next) THEN next.meta[u] ELSE next.code[u]
  <2>0. next \in Databases
    BY <1>3
  <2>1. PICK after : after = ApplyPlan(next)
    OBVIOUS
  <2>2. /\ after \in Databases /\ after.listed = next.listed /\ after.meta = next.meta
        /\ \A u \in Tables : /\ after.kind[u] = IF u \in Compiled(next) THEN "protected" ELSE next.kind[u]
                             /\ after.code[u] = IF u \in Compiled(next) THEN next.meta[u] ELSE next.code[u]
    BY <2>0, <2>1, PlanParts
  <2>3. db' = after
    BY <1>2, <2>1
  <2> QED
    BY <2>2, <2>3
<1>5. \A u \in Tables : u \in Compiled(next) <=>
                          u \in next.listed /\ (next.meta[u].rls = "on" \/ db.kind[u] = "protected")
  BY <1>3 DEF Compiled
<1>6. Compiled(next) \subseteq next.listed /\ next.listed \in SUBSET Tables
  BY <1>3, DatabaseParts DEF Compiled
<1>7. Generated(db')
  <2> SUFFICES ASSUME NEW u \in Tables
               PROVE  /\ db'.kind[u] = "protected" => u \in db'.listed /\ db'.code[u] = db'.meta[u]
                      /\ u \in db'.listed /\ db'.meta[u].rls = "on" => db'.kind[u] = "protected"
    BY DEF Generated
  <2>1. db.kind[u] = "protected" => u \in db.listed
    BY <1>0 DEF Generated
  <2> QED
    BY <1>3, <1>4, <1>5, <2>1
<1>8. InStep(db, approved) => InStep(db', approved')
  <2> SUFFICES ASSUME InStep(db, approved) PROVE InStep(db', approved')
    OBVIOUS
  <2>1. approved' \subseteq db'.listed
    BY <1>2, <1>3, <1>4, <1>6 DEF InStep
  <2>2. ASSUME NEW u \in Tables, db'.kind[u] = "protected" PROVE u \in approved'
    BY <1>2, <1>3, <1>4, <2>2 DEF InStep
  <2> QED
    BY <2>1, <2>2 DEF InStep
<1>9. SecurityTypeOK'
  <2>1. approved' \subseteq Tables /\ statements' \in 0..MaxStatements
    BY <1>0, <1>2, <1>6, RowSecurityAssumption DEF SecurityInvariant, SecurityTypeOK
  <2> QED
    BY <1>2, <1>4, <2>1 DEF SecurityInvariant, SecurityTypeOK
<1> QED
  BY <1>2, <1>7, <1>8, <1>9 DEF SecurityInvariant

\* The metadata that statements give a table is of its type.
LEMMA PolicyStatementFits ==
  ASSUME SecurityInvariant, NEW t \in Tables, PolicyStatement(t)
  PROVE  SecurityInvariant'
<1>0. PICK meta \in TablePolicies : meta = MetaOf(t)
  <2>1. db.meta \in [Tables -> TablePolicies]
    BY DatabaseParts DEF SecurityInvariant, SecurityTypeOK
  <2> QED
    BY <2>1, EmptyMetadata DEF MetaOf
<1>1. ASSUME NEW a \in {"ENABLE", "DISABLE", "FORCE", "NO FORCE"}, AlterTable(t, a) PROVE SecurityInvariant'
  <2>1. \E m \in TablePolicies : RlsStatement(t, m)
    <3>1. [meta EXCEPT !.rls = "on"] \in TablePolicies /\ [meta EXCEPT !.rls = "off"] \in TablePolicies
          /\ [meta EXCEPT !.forced = "yes"] \in TablePolicies /\ [meta EXCEPT !.forced = "no"] \in TablePolicies
      BY DEF TablePolicies
    <3> QED
      BY <1>0, <1>1, <3>1 DEF AlterTable
  <2> QED
    BY <2>1, RlsStatementFits
<1>2. ASSUME NEW policies \in [Names -> Policy \cup {NoPolicy}] PROVE [meta EXCEPT !.policies = policies] \in TablePolicies
  BY DEF TablePolicies
<1>3. meta.policies \in [Names -> Policy \cup {NoPolicy}]
  BY DEF TablePolicies
<1>4. ASSUME NEW n \in Names, NEW policy \in Policy \cup {NoPolicy},
             RlsStatement(t, [MetaOf(t) EXCEPT !.policies[n] = policy])
      PROVE  SecurityInvariant'
  <2>1. PICK m : m = [meta EXCEPT !.policies[n] = policy]
    OBVIOUS
  <2>2. m = [meta EXCEPT !.policies = [meta.policies EXCEPT ![n] = policy]]
    BY <2>1 DEF TablePolicies
  <2>3. [meta.policies EXCEPT ![n] = policy] \in [Names -> Policy \cup {NoPolicy}]
    BY <1>3
  <2>4. m \in TablePolicies
    BY <1>2, <2>2, <2>3
  <2>5. RlsStatement(t, m)
    BY <1>0, <1>4, <2>1
  <2> QED
    BY <2>4, <2>5, RlsStatementFits
<1>5. ASSUME NEW n \in Names, NEW d \in Drafts, CreatePolicy(t, n, d) PROVE SecurityInvariant'
  <2>1. d \in Policy
    BY RowSecurityAssumption
  <2> QED
    BY <1>4, <1>5, <2>1 DEF CreatePolicy
<1>6. ASSUME NEW n \in Names, NEW roles \in SUBSET Roles, NEW using \in Clauses, NEW check \in Clauses,
             AlterPolicy(t, n, roles, using, check)
      PROVE  SecurityInvariant'
  <2>1. PICK policy : policy = MetaOf(t).policies[n]
    OBVIOUS
  <2>2. policy # NoPolicy /\ RlsStatement(t, [MetaOf(t) EXCEPT !.policies[n] = Altered(policy, roles, using, check)])
    BY <1>6, <2>1 DEF AlterPolicy
  <2>3. policy \in Policy
    BY <1>0, <1>3, <2>1, <2>2
  <2>4. Altered(policy, roles, using, check) \in Policy
    BY <2>3 DEF Altered, Policy
  <2> QED
    BY <1>4, <2>2, <2>4
<1>7. ASSUME NEW n \in Names, NEW m \in Names, RenamePolicy(t, n, m) PROVE SecurityInvariant'
  <2>1. PICK policies : policies = meta.policies
    OBVIOUS
  <2>2. RlsStatement(t, [meta EXCEPT !.policies = [[policies EXCEPT ![n] = NoPolicy] EXCEPT ![m] = policies[n]]])
    BY <1>0, <1>7, <2>1 DEF RenamePolicy
  <2>3. [[policies EXCEPT ![n] = NoPolicy] EXCEPT ![m] = policies[n]] \in [Names -> Policy \cup {NoPolicy}]
    BY <1>3, <2>1
  <2>4. [meta EXCEPT !.policies = [[policies EXCEPT ![n] = NoPolicy] EXCEPT ![m] = policies[n]]] \in TablePolicies
    BY <1>2, <2>3
  <2> QED
    BY <2>2, <2>4, RlsStatementFits
<1>8. ASSUME NEW n \in Names, NEW e \in BOOLEAN, DropPolicy(t, n, e) PROVE SecurityInvariant'
  BY <1>4, <1>8 DEF DropPolicy
<1>9. \A d \in Drafts : d.roles \in SUBSET Roles /\ d.using \in Clauses /\ d.check \in Clauses
  BY RowSecurityAssumption DEF Policy
<1>10. {} \in SUBSET Roles /\ "omitted" \in Clauses
  BY DEF Clauses
<1> QED
  BY <1>1, <1>5, <1>6, <1>7, <1>8, <1>9, <1>10 DEF PolicyStatement

\* A table is made or dropped; a protected one is neither.
LEMMA SchemaFits ==
  ASSUME SecurityInvariant, NEW t \in Tables, NEW kind \in {"absent", "keyless", "plain"},
         db.kind[t] \in {"absent", "keyless", "plain"}, Count,
         db' = [db EXCEPT !.kind[t] = kind, !.rows[t] = NoRows],
         UNCHANGED <<approved, migration, copies, restored>>
  PROVE  SecurityInvariant'
<1>0. db \in Databases /\ Generated(db)
  BY DEF SecurityInvariant, SecurityTypeOK
<1>1. NoRows \in [Keys -> Cells]
  BY DEF NoRows, Cells
<1>2. PICK kinds : kinds = [db.kind EXCEPT ![t] = kind]
  OBVIOUS
<1>3. PICK rows : rows = [db.rows EXCEPT ![t] = NoRows]
  OBVIOUS
<1>4. kinds \in [Tables -> {"absent", "keyless", "plain", "protected"}] /\ rows \in [Tables -> [Keys -> Cells]]
  BY <1>0, <1>1, <1>2, <1>3, DatabaseParts
<1>5. db' = [db EXCEPT !.kind = kinds, !.rows = rows]
  BY <1>0, <1>2, <1>3 DEF Databases
<1>6. /\ db' \in Databases /\ db'.listed = db.listed /\ db'.meta = db.meta /\ db'.code = db.code
      /\ db'.kind = kinds
  BY <1>0, <1>4, <1>5 DEF Databases
<1>7. db'.kind[t] = kind /\ \A u \in Tables : u # t => db'.kind[u] = db.kind[u]
  BY <1>0, <1>2, <1>6, DatabaseParts
<1>8. Generated(db') /\ (InStep(db, approved) => InStep(db', approved))
  BY <1>0, <1>6, <1>7 DEF Generated, InStep
<1>9. SecurityTypeOK'
  <2>1. statements' \in 0..MaxStatements
    BY RowSecurityAssumption DEF Count, SecurityInvariant, SecurityTypeOK
  <2> QED
    BY <1>6, <2>1 DEF SecurityInvariant, SecurityTypeOK
<1> QED
  BY <1>8, <1>9 DEF SecurityInvariant

\* Rows change and nothing else does.
LEMMA RowsFit ==
  ASSUME SecurityInvariant, NEW t \in Tables, NEW rows \in [Keys -> Cells], db' = [db EXCEPT !.rows[t] = rows],
         UNCHANGED <<approved, migration, copies, restored, statements>>
  PROVE  SecurityInvariant'
<1>0. db \in Databases /\ Generated(db)
  BY DEF SecurityInvariant, SecurityTypeOK
<1>1. PICK all : all = [db.rows EXCEPT ![t] = rows]
  OBVIOUS
<1>2. all \in [Tables -> [Keys -> Cells]]
  BY <1>0, <1>1, DatabaseParts
<1>3. db' = [db EXCEPT !.rows = all]
  BY <1>0, <1>1 DEF Databases
<1>4. /\ db' \in Databases /\ db'.listed = db.listed /\ db'.meta = db.meta /\ db'.code = db.code
      /\ db'.kind = db.kind
  BY <1>0, <1>2, <1>3 DEF Databases
<1>5. Generated(db') /\ (InStep(db, approved) => InStep(db', approved))
  BY <1>0, <1>4 DEF Generated, InStep
<1> QED
  BY <1>4, <1>5 DEF SecurityInvariant, SecurityTypeOK

\* A user's insert, update or delete leaves the generated objects as they were.
LEMMA DataFits ==
  ASSUME SecurityInvariant, NEW t \in Tables, NEW p \in Principals, DataStatement(t, p)
  PROVE  SecurityInvariant'
<1>0. db \in Databases /\ db.rows \in [Tables -> [Keys -> Cells]] /\ Owners \subseteq Cells /\ "none" \in Cells
  BY DatabaseParts DEF SecurityInvariant, SecurityTypeOK, Cells
<1>1. ASSUME NEW k \in Keys, NEW o \in Owners, Insert(t, p, k, o) PROVE SecurityInvariant'
  <2>1. db' = [db EXCEPT !.rows[t][k] = o] /\ UNCHANGED <<approved, migration, copies, restored, statements>>
    BY <1>1 DEF Insert
  <2>2. PICK rows : rows = [db.rows[t] EXCEPT ![k] = o]
    OBVIOUS
  <2>3. rows \in [Keys -> Cells] /\ db' = [db EXCEPT !.rows[t] = rows]
    BY <1>0, <2>1, <2>2
  <2> QED
    BY <2>1, <2>3, RowsFit
<1>2. ASSUME NEW asked \in SUBSET Keys, NEW o \in Cells, NEW hit,
             db' = [db EXCEPT !.rows[t] = [k \in Keys |-> IF k \in hit THEN o ELSE @[k]]],
             UNCHANGED <<approved, migration, copies, restored, statements>>
      PROVE  SecurityInvariant'
  <2>1. PICK rows : rows = [k \in Keys |-> IF k \in hit THEN o ELSE db.rows[t][k]]
    OBVIOUS
  <2>2. rows \in [Keys -> Cells]
    BY <1>0, <2>1
  <2>3. db' = [db EXCEPT !.rows[t] = rows]
    BY <1>0, <1>2, <2>1
  <2> QED
    BY <1>2, <2>2, <2>3, RowsFit
<1>3. ASSUME NEW asked \in SUBSET Keys, NEW o \in Owners, Update(t, p, asked, o) PROVE SecurityInvariant'
  BY <1>0, <1>2, <1>3 DEF Update
<1>4. ASSUME NEW asked \in SUBSET Keys, Delete(t, p, asked) PROVE SecurityInvariant'
  BY <1>0, <1>2, <1>4 DEF Delete
<1>5. ASSUME NEW i \in Keys, NEW j \in Keys, NEW o \in Owners, Move(t, p, i, j, o) PROVE SecurityInvariant'
  <2>1. PICK rows : rows = [k \in Keys |-> CASE k = i -> "none" [] k = j -> o [] OTHER -> db.rows[t][k]]
    OBVIOUS
  <2>2. rows \in [Keys -> Cells]
    BY <1>0, <2>1
  <2>3. db' = [db EXCEPT !.rows[t] = rows] /\ UNCHANGED <<approved, migration, copies, restored, statements>>
    BY <1>0, <1>5, <2>1 DEF Move
  <2> QED
    BY <2>2, <2>3, RowsFit
<1> QED
  BY <1>1, <1>3, <1>4, <1>5 DEF DataStatement, Statement, ReplacingStatement

\* Every step of statements, migrations, copies and restores keeps the invariant.
LEMMA SecurityStep ==
  ASSUME SecurityInvariant, [SecurityNext]_securityVars
  PROVE  SecurityInvariant'
<1>0. /\ SecurityTypeOK /\ Generated(db) /\ Generated(migration.db) /\ \A c \in Copies : Generated(copies[c].db)
      /\ ~restored => InStep(db, approved) /\ InStep(migration.db, migration.approved)
  BY DEF SecurityInvariant
<1>1. /\ NoMigration \in [open : {"yes", "no"}, db : Databases, approved : SUBSET Tables]
      /\ NoMigration.db = NewDatabase /\ NoMigration.approved = Builtin
  BY NewDatabaseFits, RowSecurityAssumption DEF NoMigration
<1>2. CASE BeginMigration
  <2>1. migration' = [open |-> "yes", db |-> db, approved |-> approved]
        /\ UNCHANGED <<db, approved, copies, restored, statements>>
    BY <1>2 DEF BeginMigration
  <2>2. migration'.db = db /\ migration'.approved = approved
        /\ migration' \in [open : {"yes", "no"}, db : Databases, approved : SUBSET Tables]
    BY <1>0, <2>1 DEF SecurityTypeOK
  <2> QED
    BY <1>0, <2>1, <2>2 DEF SecurityInvariant, SecurityTypeOK
<1>3. CASE RollBack
  <2>1. db' = migration.db /\ approved' = migration.approved /\ migration' = NoMigration
        /\ UNCHANGED <<copies, restored, statements>>
    BY <1>3 DEF RollBack
  <2> QED
    BY <1>0, <1>1, <2>1, NewDatabaseFits DEF SecurityInvariant, SecurityTypeOK
<1>4. CASE CommitMigration
  <2>1. migration' = NoMigration /\ UNCHANGED <<db, approved, copies, restored, statements>>
    BY <1>4 DEF CommitMigration
  <2> QED
    BY <1>0, <1>1, <2>1, NewDatabaseFits DEF SecurityInvariant, SecurityTypeOK
<1>5. CASE Reopen
  <2>1. PICK file : file = IF migration.open = "yes" THEN migration.db ELSE db
    OBVIOUS
  <2>2. db' = file /\ approved' = file.listed /\ migration' = NoMigration /\ restored' = FALSE
        /\ UNCHANGED <<copies, statements>>
    BY <1>5, <2>1 DEF Reopen
  <2>3. file \in Databases /\ Generated(file)
    BY <1>0, <2>1 DEF SecurityTypeOK
  <2>4. InStep(file, file.listed) /\ file.listed \subseteq Tables
    BY <2>3, DatabaseParts DEF Generated, InStep
  <2> QED
    BY <1>0, <1>1, <2>2, <2>3, <2>4, NewDatabaseFits DEF SecurityInvariant, SecurityTypeOK
<1>6. ASSUME NEW t \in Tables, NEW kind \in {"keyless", "plain"}, CreateTable(t, kind) PROVE SecurityInvariant'
  BY <1>6, SchemaFits DEF CreateTable
<1>7. ASSUME NEW t \in Tables, DropTable(t) PROVE SecurityInvariant'
  BY <1>7, SchemaFits DEF DropTable
<1>8. ASSUME NEW c \in Copies, BackUp(c) PROVE SecurityInvariant'
  <2>1. PICK copy : copy = [taken |-> "yes", db |-> db]
    OBVIOUS
  <2>2. copy \in [taken : {"yes", "no"}, db : Databases] /\ copy.db = db
    BY <1>0, <2>1 DEF SecurityTypeOK
  <2>3. copies' = [copies EXCEPT ![c] = copy] /\ UNCHANGED <<db, approved, migration, restored, statements>>
    BY <1>8, <2>1 DEF BackUp
  <2>4. copies' \in [Copies -> [taken : {"yes", "no"}, db : Databases]]
        /\ \A e \in Copies : copies'[e] = copies[e] \/ copies'[e] = copy
    BY <1>0, <2>2, <2>3 DEF SecurityTypeOK
  <2> QED
    BY <1>0, <2>2, <2>3, <2>4 DEF SecurityInvariant, SecurityTypeOK
<1>9. ASSUME NEW c \in Copies, Restore(c) PROVE SecurityInvariant'
  <2>1. db' = copies[c].db /\ restored' = TRUE /\ UNCHANGED <<approved, migration, copies, statements>>
    BY <1>9 DEF Restore
  <2> QED
    BY <1>0, <2>1 DEF SecurityInvariant, SecurityTypeOK
<1>10. CASE UNCHANGED securityVars
  BY <1>0, <1>10 DEF SecurityInvariant, SecurityTypeOK, securityVars
<1> QED
  BY <1>2, <1>3, <1>4, <1>5, <1>6, <1>7, <1>8, <1>9, <1>10, PolicyStatementFits, DataFits DEF SecurityNext

\* A new database has no policies and nothing generated.
LEMMA SecurityStart == SecurityInit => SecurityInvariant
<1> SUFFICES ASSUME SecurityInit PROVE SecurityInvariant
  OBVIOUS
<1>1. /\ NoMigration \in [open : {"yes", "no"}, db : Databases, approved : SUBSET Tables]
      /\ NoMigration.db = NewDatabase /\ NoMigration.approved = Builtin
  BY NewDatabaseFits, RowSecurityAssumption DEF NoMigration
<1>2. PICK copy : copy = [taken |-> "no", db |-> NewDatabase]
  OBVIOUS
<1>3. copy \in [taken : {"yes", "no"}, db : Databases] /\ copy.db = NewDatabase
  BY <1>2, NewDatabaseFits
<1>4. /\ db = NewDatabase /\ approved = Builtin /\ migration = NoMigration
      /\ copies = [c \in Copies |-> copy] /\ restored = FALSE /\ statements = 0
  BY <1>2 DEF SecurityInit
<1>5. SecurityTypeOK
  <2>0. restored \in BOOLEAN
    BY <1>4, Zenon
  <2>1. statements \in 0..MaxStatements
    BY <1>4, RowSecurityAssumption
  <2>2. copies \in [Copies -> [taken : {"yes", "no"}, db : Databases]]
    BY <1>3, <1>4
  <2> QED
    BY <1>1, <1>4, <2>0, <2>1, <2>2, NewDatabaseFits, RowSecurityAssumption DEF SecurityTypeOK
<1> QED
  BY <1>1, <1>3, <1>4, <1>5, NewDatabaseFits DEF SecurityInvariant

-----------------------------------------------------------------------------
(* The theorems.                                                             *)

\* What is admitted to a table of the catalog is what its policies declare.
LEMMA AdmittedIsDeclared ==
  ASSUME SecurityInvariant, NEW t \in Tables, t \in db.listed, NEW operation \in Operations,
         NEW purpose, NEW p \in Principals, NEW o \in Owners, Admits(t, operation, purpose, p, o)
  PROVE  Declared(db.meta[t], operation, purpose, p, o)
<1>0. db \in Databases /\ Generated(db)
  BY DEF SecurityInvariant, SecurityTypeOK
<1>1. db.meta[t] \in TablePolicies
  BY <1>0, DatabaseParts
<1>2. CASE db.kind[t] = "protected"
  <2>1. db.code[t] = db.meta[t]
    BY <1>0, <1>2 DEF Generated
  <2>2. CombinedPredicate(db.meta[t], operation, purpose, p, o) = "true"
    BY <1>2, <2>1 DEF Admits
  <2> QED
    BY <1>1, <2>2, PredicatesMeanPolicies
<1>3. CASE db.kind[t] # "protected"
  <2>1. db.meta[t].rls = "off"
    BY <1>0, <1>1, <1>3 DEF Generated, TablePolicies
  <2> QED
    BY <2>1 DEF Declared
<1> QED
  BY <1>2, <1>3

\* The invariant implies what the runs check of the generated objects and the approved sources.
LEMMA InvariantEnforces == SecurityInvariant => EnforcedAsDeclared /\ ApprovedInStep
<1> SUFFICES ASSUME SecurityInvariant PROVE EnforcedAsDeclared /\ ApprovedInStep
  OBVIOUS
<1>0. db \in Databases /\ Generated(db)
  BY DEF SecurityInvariant, SecurityTypeOK
<1>1. ASSUME NEW t \in Tables, t \in db.listed, db.meta[t].rls = "on" PROVE db.kind[t] = "protected"
  BY <1>0, <1>1 DEF Generated
<1>2. ASSUME NEW t \in Tables, db.kind[t] = "protected", t \in approved, NEW p \in Principals, NEW o \in Owners,
             NEW operation \in Operations, NEW purpose \in {"using", "check"}
      PROVE  Admits(t, operation, purpose, p, o) <=> Declared(db.meta[t], operation, purpose, p, o)
  <2>1. db.code[t] = db.meta[t] /\ db.meta[t] \in TablePolicies
    BY <1>0, <1>2, DatabaseParts DEF Generated
  <2>2. CombinedPredicate(db.meta[t], operation, purpose, p, o) = "true"
          <=> Declared(db.meta[t], operation, purpose, p, o)
    BY <2>1, PredicatesMeanPolicies
  <2> QED
    BY <1>2, <2>1, <2>2 DEF Admits, MayUseBacking
<1>3. EnforcedAsDeclared
  BY <1>1, <1>2 DEF EnforcedAsDeclared
<1>4. ApprovedInStep
  BY DEF SecurityInvariant, InStep, ApprovedInStep
<1> QED
  BY <1>3, <1>4

\* Through every sequence of policy and schema statements, migrations,
\* rollbacks, restarts, backups and restores: a table whose catalog entry
\* enables RLS is behind its view, and what its generated code admits is
\* exactly what the stored policies declare (compile, apply_rls_plan).
THEOREM PoliciesHold == SecuritySpec => [](SecurityTypeOK /\ EnforcedAsDeclared)
<1>1. SecurityInvariant /\ [SecurityNext]_securityVars => SecurityInvariant'
  BY SecurityStep
<1>2. SecurityInvariant => SecurityTypeOK /\ EnforcedAsDeclared
  BY InvariantEnforces DEF SecurityInvariant
<1> QED
  BY <1>1, <1>2, SecurityStart, PTL DEF SecuritySpec

\* Until a backup is restored under it, the connection approves every
\* protected table and only tables of the catalog: rollbacks put back what
\* they undo, and a restart reads what the file lists
\* (approve_rls_sources, rollback of a migration, open).
THEOREM SourcesInStep == SecuritySpec => []ApprovedInStep
<1>1. SecurityInvariant /\ [SecurityNext]_securityVars => SecurityInvariant'
  BY SecurityStep
<1> QED
  BY <1>1, SecurityStart, InvariantEnforces, PTL DEF SecuritySpec

\* What each kind of statement does to one row that it changes in a table of
\* the catalog.
LEMMA ChangedRow ==
  ASSUME SecurityInvariant, NEW t \in Tables, NEW p \in Principals, t \in db.listed, NEW k \in Keys,
         NEW old, NEW new, old = db.rows[t][k], new = db'.rows[t][k], old # new
  PROVE  /\ \A i \in Keys, o \in Owners : Insert(t, p, i, o) =>
              k = i /\ new = o /\ Declared(db.meta[t], "INSERT", "check", p, new)
         /\ \A asked \in SUBSET Keys, o \in Owners : Update(t, p, asked, o) =>
              /\ old # "none" /\ new = o /\ Declared(db.meta[t], "SELECT", "using", p, old)
              /\ Declared(db.meta[t], "UPDATE", "using", p, old) /\ Declared(db.meta[t], "UPDATE", "check", p, new)
         /\ \A asked \in SUBSET Keys : Delete(t, p, asked) =>
              /\ old # "none" /\ new = "none" /\ Declared(db.meta[t], "SELECT", "using", p, old)
              /\ Declared(db.meta[t], "DELETE", "using", p, old)
         /\ \A i \in Keys, j \in Keys, o \in Owners : Move(t, p, i, j, o) =>
              \/ /\ k = i /\ old # "none" /\ new = "none" /\ Declared(db.meta[t], "SELECT", "using", p, old)
                 /\ Declared(db.meta[t], "UPDATE", "using", p, old)
              \/ k = j /\ new = o /\ Declared(db.meta[t], "UPDATE", "check", p, new)
<1>0. db \in Databases /\ db.rows \in [Tables -> [Keys -> Cells]] /\ "none" \notin Owners
  BY DatabaseParts, RowSecurityAssumption DEF SecurityInvariant, SecurityTypeOK, Owners
<1>1. {"SELECT", "INSERT", "UPDATE", "DELETE"} \subseteq Operations
  BY DEF Operations, Commands
<1>2. old \in Cells /\ (old # "none" => old \in Owners)
  BY <1>0 DEF Cells
<1>3. ASSUME NEW i \in Keys, NEW o \in Owners, Insert(t, p, i, o)
      PROVE  k = i /\ new = o /\ Declared(db.meta[t], "INSERT", "check", p, new)
  <2>1. db' = [db EXCEPT !.rows[t][i] = o] /\ Admits(t, "INSERT", "check", p, o)
    BY <1>3 DEF Insert
  <2>2. db'.rows[t][k] = IF k = i THEN o ELSE db.rows[t][k]
    BY <1>0, <2>1 DEF Databases
  <2>3. Declared(db.meta[t], "INSERT", "check", p, o)
    BY <1>1, <2>1, AdmittedIsDeclared
  <2> QED
    BY <2>2, <2>3
<1>4. ASSUME NEW hit, NEW value,
             db' = [db EXCEPT !.rows[t] = [i \in Keys |-> IF i \in hit THEN value ELSE @[i]]]
      PROVE  k \in hit /\ new = value
  <2>1. db'.rows[t][k] = IF k \in hit THEN value ELSE db.rows[t][k]
    BY <1>0, <1>4 DEF Databases
  <2> QED
    BY <2>1
<1>5. ASSUME k \in Visible(t, p) PROVE old # "none" /\ Declared(db.meta[t], "SELECT", "using", p, old)
  <2>1. old # "none" /\ Admits(t, "SELECT", "using", p, old)
    BY <1>5 DEF Visible
  <2> QED
    BY <1>1, <1>2, <2>1, AdmittedIsDeclared
<1>6. ASSUME NEW asked \in SUBSET Keys, NEW o \in Owners, Update(t, p, asked, o)
      PROVE  /\ old # "none" /\ new = o /\ Declared(db.meta[t], "SELECT", "using", p, old)
             /\ Declared(db.meta[t], "UPDATE", "using", p, old) /\ Declared(db.meta[t], "UPDATE", "check", p, new)
  <2>1. PICK hit : hit = asked \cap Visible(t, p)
    OBVIOUS
  <2>2. /\ \A i \in hit : Admits(t, "UPDATE", "using", p, db.rows[t][i])
        /\ Admits(t, "UPDATE", "check", p, o)
        /\ db' = [db EXCEPT !.rows[t] = [i \in Keys |-> IF i \in hit THEN o ELSE @[i]]]
    BY <1>6, <2>1 DEF Update
  <2>3. k \in hit /\ new = o
    BY <1>4, <2>2
  <2>4. old # "none" /\ Declared(db.meta[t], "SELECT", "using", p, old)
    BY <1>5, <2>1, <2>3
  <2>5. Admits(t, "UPDATE", "using", p, old)
    BY <2>2, <2>3
  <2> QED
    BY <1>1, <1>2, <2>2, <2>3, <2>4, <2>5, AdmittedIsDeclared
<1>7. ASSUME NEW asked \in SUBSET Keys, Delete(t, p, asked)
      PROVE  /\ old # "none" /\ new = "none" /\ Declared(db.meta[t], "SELECT", "using", p, old)
             /\ Declared(db.meta[t], "DELETE", "using", p, old)
  <2>1. PICK hit : hit = asked \cap Visible(t, p)
    OBVIOUS
  <2>2. /\ \A i \in hit : Admits(t, "DELETE", "using", p, db.rows[t][i])
        /\ db' = [db EXCEPT !.rows[t] = [i \in Keys |-> IF i \in hit THEN "none" ELSE @[i]]]
    BY <1>7, <2>1 DEF Delete
  <2>3. k \in hit /\ new = "none"
    BY <1>4, <2>2
  <2>4. old # "none" /\ Declared(db.meta[t], "SELECT", "using", p, old)
    BY <1>5, <2>1, <2>3
  <2>5. Admits(t, "DELETE", "using", p, old)
    BY <2>2, <2>3
  <2> QED
    BY <1>1, <1>2, <2>3, <2>4, <2>5, AdmittedIsDeclared
<1>8. ASSUME NEW i \in Keys, NEW j \in Keys, NEW o \in Owners, Move(t, p, i, j, o)
      PROVE  \/ /\ k = i /\ old # "none" /\ new = "none" /\ Declared(db.meta[t], "SELECT", "using", p, old)
                /\ Declared(db.meta[t], "UPDATE", "using", p, old)
             \/ k = j /\ new = o /\ Declared(db.meta[t], "UPDATE", "check", p, new)
  <2>1. /\ i \in Visible(t, p) /\ i # j
        /\ Admits(t, "UPDATE", "using", p, db.rows[t][i]) /\ Admits(t, "UPDATE", "check", p, o)
        /\ db' = [db EXCEPT !.rows[t] = [m \in Keys |-> CASE m = i -> "none" [] m = j -> o [] OTHER -> @[m]]]
    BY <1>8 DEF Move
  <2>2. db'.rows[t][k] = CASE k = i -> "none" [] k = j -> o [] OTHER -> db.rows[t][k]
    BY <1>0, <2>1 DEF Databases
  <2>3. CASE k = i
    <3>0. new = "none" /\ old = db.rows[t][i]
      BY <2>1, <2>2, <2>3
    <3>1. new = "none" /\ Admits(t, "UPDATE", "using", p, old)
      BY <2>1, <3>0
    <3>2. old # "none" /\ Declared(db.meta[t], "SELECT", "using", p, old)
      BY <1>5, <2>1, <2>3
    <3> QED
      BY <1>1, <1>2, <2>3, <3>1, <3>2, AdmittedIsDeclared
  <2>4. CASE k # i
    <3>1. k = j /\ new = o
      BY <2>2, <2>4
    <3>2. Declared(db.meta[t], "UPDATE", "check", p, o)
      BY <1>1, <2>1, AdmittedIsDeclared
    <3> QED
      BY <3>1, <3>2
  <2> QED
    BY <2>3, <2>4
<1> QED
  BY <1>3, <1>6, <1>7, <1>8

\* Every data statement has an operation whose policies allow all that it
\* changes.
LEMMA StatementFollowsPolicy ==
  ASSUME SecurityInvariant, NEW t \in Tables, NEW p \in Principals, t \in db.listed, DataStatement(t, p),
         db'.rows[t] # db.rows[t]
  PROVE  \E operation \in {"INSERT", "UPDATE", "DELETE"} :
           /\ \A k \in Keys : db'.rows[t][k] # db.rows[t][k] =>
                Allowed(db.meta[t], operation, p, db.rows[t][k], db'.rows[t][k], ~Statement(t, p))
           /\ Statement(t, p) /\ operation # "DELETE" =>
                \E k \in Keys : db'.rows[t][k] \notin {"none", db.rows[t][k]}
<1>0. "none" \notin Owners /\ db.rows[t] \in [Keys -> Cells] /\ db'.rows[t] \in [Keys -> Cells]
  <2>1. SecurityInvariant'
    BY DataFits
  <2> QED
    BY <2>1, DatabaseParts, RowSecurityAssumption DEF SecurityInvariant, SecurityTypeOK, Owners
<1>1. PICK c \in Keys : db'.rows[t][c] # db.rows[t][c]
  BY <1>0
<1>2. ASSUME NEW i \in Keys, NEW o \in Owners, Insert(t, p, i, o), db.rows[t][i] = "none" \/ ~Statement(t, p)
      PROVE  /\ \A k \in Keys : db'.rows[t][k] # db.rows[t][k] =>
                  Allowed(db.meta[t], "INSERT", p, db.rows[t][k], db'.rows[t][k], ~Statement(t, p))
             /\ db'.rows[t][c] \notin {"none", db.rows[t][c]}
  <2>1. ASSUME NEW k \in Keys, db'.rows[t][k] # db.rows[t][k]
        PROVE  k = i /\ db'.rows[t][k] = o /\ Declared(db.meta[t], "INSERT", "check", p, db'.rows[t][k])
    BY <1>2, <2>1, ChangedRow
  <2>2. db'.rows[t][c] \notin {"none", db.rows[t][c]}
    BY <1>0, <1>1, <2>1
  <2>3. ASSUME NEW k \in Keys, db'.rows[t][k] # db.rows[t][k]
        PROVE  Allowed(db.meta[t], "INSERT", p, db.rows[t][k], db'.rows[t][k], ~Statement(t, p))
    BY <1>0, <1>2, <2>1, <2>3 DEF Allowed
  <2> QED
    BY <2>2, <2>3
<1>3. ASSUME NEW asked \in SUBSET Keys, NEW o \in Owners, Update(t, p, asked, o)
      PROVE  /\ \A k \in Keys : db'.rows[t][k] # db.rows[t][k] =>
                  Allowed(db.meta[t], "UPDATE", p, db.rows[t][k], db'.rows[t][k], ~Statement(t, p))
             /\ db'.rows[t][c] \notin {"none", db.rows[t][c]}
  <2>1. ASSUME NEW k \in Keys, db'.rows[t][k] # db.rows[t][k]
        PROVE  /\ db.rows[t][k] # "none" /\ db'.rows[t][k] = o /\ Declared(db.meta[t], "SELECT", "using", p, db.rows[t][k])
               /\ Declared(db.meta[t], "UPDATE", "using", p, db.rows[t][k])
               /\ Declared(db.meta[t], "UPDATE", "check", p, db'.rows[t][k])
    BY <1>3, <2>1, ChangedRow
  <2>2. db'.rows[t][c] \notin {"none", db.rows[t][c]}
    BY <1>0, <1>1, <2>1
  <2>3. ASSUME NEW k \in Keys, db'.rows[t][k] # db.rows[t][k]
        PROVE  Allowed(db.meta[t], "UPDATE", p, db.rows[t][k], db'.rows[t][k], ~Statement(t, p))
    BY <2>1, <2>3 DEF Allowed
  <2> QED
    BY <2>2, <2>3
<1>4. ASSUME NEW asked \in SUBSET Keys, Delete(t, p, asked)
      PROVE  \A k \in Keys : db'.rows[t][k] # db.rows[t][k] =>
                Allowed(db.meta[t], "DELETE", p, db.rows[t][k], db'.rows[t][k], ~Statement(t, p))
  <2>1. ASSUME NEW k \in Keys, db'.rows[t][k] # db.rows[t][k]
        PROVE  /\ db'.rows[t][k] = "none" /\ Declared(db.meta[t], "SELECT", "using", p, db.rows[t][k])
               /\ Declared(db.meta[t], "DELETE", "using", p, db.rows[t][k])
    BY <1>4, <2>1, ChangedRow
  <2> QED
    BY <2>1 DEF Allowed
<1>5. ASSUME NEW i \in Keys, NEW j \in Keys, NEW o \in Owners, Move(t, p, i, j, o),
             db.rows[t][j] = "none" \/ ~Statement(t, p)
      PROVE  /\ \A k \in Keys : db'.rows[t][k] # db.rows[t][k] =>
                  Allowed(db.meta[t], "UPDATE", p, db.rows[t][k], db'.rows[t][k], ~Statement(t, p))
             /\ Statement(t, p) => db'.rows[t][j] \notin {"none", db.rows[t][j]}
  <2>1. ASSUME NEW k \in Keys, db'.rows[t][k] # db.rows[t][k]
        PROVE  \/ /\ k = i /\ db'.rows[t][k] = "none" /\ Declared(db.meta[t], "SELECT", "using", p, db.rows[t][k])
                  /\ Declared(db.meta[t], "UPDATE", "using", p, db.rows[t][k])
               \/ k = j /\ db'.rows[t][k] = o /\ Declared(db.meta[t], "UPDATE", "check", p, db'.rows[t][k])
    BY <1>5, <2>1, ChangedRow
  <2>2. ASSUME NEW k \in Keys, db'.rows[t][k] # db.rows[t][k]
        PROVE  Allowed(db.meta[t], "UPDATE", p, db.rows[t][k], db'.rows[t][k], ~Statement(t, p))
    BY <1>0, <1>5, <2>1, <2>2 DEF Allowed
  <2>3. db'.rows[t][j] = o
    <3>1. db' = [db EXCEPT !.rows[t] = [m \in Keys |-> CASE m = i -> "none" [] m = j -> o [] OTHER -> @[m]]] /\ i # j
      BY <1>5 DEF Move
    <3>2. db \in Databases
      BY DEF SecurityInvariant, SecurityTypeOK
    <3> QED
      BY <3>1, <3>2 DEF Databases
  <2> QED
    BY <1>0, <1>5, <2>2, <2>3
<1>6. CASE Statement(t, p)
  <2>1. CASE \E k \in Keys, o \in Owners : db.rows[t][k] = "none" /\ Insert(t, p, k, o)
    BY <1>2, <2>1
  <2>2. CASE \E k \in Keys, o \in Owners, i \in Keys : db.rows[t][k] = "none" /\ Move(t, p, i, k, o)
    BY <1>5, <2>2
  <2>3. CASE \E asked \in SUBSET Keys, o \in Owners : Update(t, p, asked, o)
    BY <1>3, <2>3
  <2>4. CASE \E asked \in SUBSET Keys : Delete(t, p, asked)
    BY <1>4, <2>4
  <2> QED
    BY <1>6, <2>1, <2>2, <2>3, <2>4 DEF Statement
<1>7. CASE ~Statement(t, p)
  <2>1. CASE \E k \in Keys, o \in Owners : Insert(t, p, k, o)
    BY <1>2, <1>7, <2>1
  <2>2. CASE \E k \in Keys, o \in Owners, i \in Keys : Move(t, p, i, k, o)
    BY <1>5, <1>7, <2>2
  <2> QED
    BY <1>7, <2>1, <2>2 DEF DataStatement, ReplacingStatement
<1> QED
  BY <1>6, <1>7

\* The stored policies of one operation allow every row that a data statement
\* changes in a table of the catalog, also in the middle of a migration and
\* after a restore; the row that a REPLACE finds under its key is not asked
\* for (the INSTEAD OF triggers that compile generates).
THEOREM RowsFollow == SecuritySpec => RowsFollowPolicy
<1>1. SecurityInvariant /\ [SecurityNext]_securityVars => SecurityInvariant'
  BY SecurityStep
<1>2. ASSUME SecurityInvariant
      PROVE  [\A t \in Tables, p \in Principals :
       db'.rows[t] # db.rows[t] /\ t \in db.listed /\ DataStatement(t, p) =>
         \E operation \in {"INSERT", "UPDATE", "DELETE"} :
           /\ \A k \in Keys : db'.rows[t][k] # db.rows[t][k] =>
                Allowed(db.meta[t], operation, p, db.rows[t][k], db'.rows[t][k], ~Statement(t, p))
           /\ Statement(t, p) /\ operation # "DELETE" =>
                \E k \in Keys : db'.rows[t][k] \notin {"none", db.rows[t][k]}]_securityVars
  BY <1>2, StatementFollowsPolicy
<1> QED
  BY <1>1, <1>2, SecurityStart, PTL DEF SecuritySpec, RowsFollowPolicy

-----------------------------------------------------------------------------
(* The pipes of a worker.                                                    *)

Frame == [request: Requests \cup {Torn}, ok: BOOLEAN]

Carries(s, x) == \E i \in 1 .. Len(s) : s[i] = x
Answers(t, x) == \E i \in 1 .. Len(t) : t[i].request = x

\* No request is in the pipe twice.
Once(s) == \A i, j \in 1 .. Len(s) : s[i] = s[j] /\ s[i] # Torn => i = j
OnceOut(t) == \A i, j \in 1 .. Len(t) : t[i].request = t[j].request /\ t[i].request # Torn => i = j

\* The rest of a torn frame is no answer.
TornFails(t) == \A i \in 1 .. Len(t) : t[i].request = Torn => ~t[i].ok

\* Values of Option are told apart.
LEMMA OptionDistinct ==
  /\ \A x : Some(x) # None
  /\ \A x, y : Some(x) = Some(y) => x = y
BY DEF Some, None

\* An empty pipe.
LEMMA EmptyPipe ==
  /\ \A x : ~Carries(<<>>, x) /\ ~Answers(<<>>, x)
  /\ Once(<<>>) /\ OnceOut(<<>>) /\ TornFails(<<>>)
BY DEF Carries, Answers, Once, OnceOut, TornFails

\* A frame is written.
LEMMA AppendIn ==
  ASSUME NEW s \in Seq(Requests \cup {Torn}), NEW x \in Requests \cup {Torn}, NEW n, n = Append(s, x)
  PROVE  /\ n \in Seq(Requests \cup {Torn})
         /\ \A y : Carries(n, y) <=> Carries(s, y) \/ y = x
         /\ Once(s) /\ (x = Torn \/ ~Carries(s, x)) => Once(n)
<1>1. /\ n \in Seq(Requests \cup {Torn}) /\ Len(n) = Len(s) + 1 /\ Len(s) \in Nat
      /\ n[Len(s) + 1] = x /\ \A i \in 1 .. Len(s) : n[i] = s[i]
  OBVIOUS
<1>2. /\ \A i \in 1 .. Len(n) : i \in 1 .. Len(s) \/ i = Len(s) + 1
      /\ \A i \in 1 .. Len(s) : i \in 1 .. Len(n)
      /\ Len(s) + 1 \in 1 .. Len(n)
  BY <1>1
<1>3. \A y : Carries(n, y) <=> Carries(s, y) \/ y = x
  BY <1>1, <1>2 DEF Carries
<1>4. Once(s) /\ (x = Torn \/ ~Carries(s, x)) => Once(n)
  BY <1>1, <1>2 DEF Once, Carries
<1>. QED
  BY <1>1, <1>3, <1>4

\* The same for an answer.
LEMMA AppendOut ==
  ASSUME NEW t \in Seq(Frame), NEW f \in Frame, NEW n, n = Append(t, f)
  PROVE  /\ n \in Seq(Frame)
         /\ \A y : Answers(n, y) <=> Answers(t, y) \/ y = f.request
         /\ OnceOut(t) /\ ~Answers(t, f.request) => OnceOut(n)
         /\ TornFails(t) /\ f.request # Torn => TornFails(n)
<1>1. /\ n \in Seq(Frame) /\ Len(n) = Len(t) + 1 /\ Len(t) \in Nat
      /\ n[Len(t) + 1] = f /\ \A i \in 1 .. Len(t) : n[i] = t[i]
  OBVIOUS
<1>2. /\ \A i \in 1 .. Len(n) : i \in 1 .. Len(t) \/ i = Len(t) + 1
      /\ \A i \in 1 .. Len(t) : i \in 1 .. Len(n)
      /\ Len(t) + 1 \in 1 .. Len(n)
  BY <1>1
<1>3. \A y : Answers(n, y) <=> Answers(t, y) \/ y = f.request
  BY <1>1, <1>2 DEF Answers
<1>4. OnceOut(t) /\ ~Answers(t, f.request) => OnceOut(n)
  BY <1>1, <1>2 DEF OnceOut, Answers
<1>5. TornFails(t) /\ f.request # Torn => TornFails(n)
  BY <1>1, <1>2 DEF TornFails
<1>. QED
  BY <1>1, <1>3, <1>4, <1>5

\* A frame is read.
LEMMA TailIn ==
  ASSUME NEW s \in Seq(Requests \cup {Torn}), s # <<>>, NEW n, n = Tail(s)
  PROVE  /\ n \in Seq(Requests \cup {Torn}) /\ Head(s) \in Requests \cup {Torn}
         /\ \A y : Carries(n, y) => Carries(s, y)
         /\ Carries(s, Head(s))
         /\ Once(s) => Once(n) /\ (Head(s) # Torn => ~Carries(n, Head(s)))
<1>1. /\ n \in Seq(Requests \cup {Torn}) /\ Len(n) = Len(s) - 1 /\ Len(s) \in Nat /\ Len(s) > 0
      /\ \A i \in 1 .. Len(n) : n[i] = s[i + 1]
      /\ Head(s) = s[1]
  OBVIOUS
<1>2. /\ 1 \in 1 .. Len(s)
      /\ \A i \in 1 .. Len(n) : i + 1 \in 1 .. Len(s) /\ i + 1 # 1
      /\ \A i, j \in 1 .. Len(n) : i + 1 = j + 1 => i = j
  BY <1>1
<1>3. Head(s) \in Requests \cup {Torn} /\ Carries(s, Head(s))
  BY <1>1, <1>2 DEF Carries
<1>4. \A y : Carries(n, y) => Carries(s, y)
  BY <1>1, <1>2 DEF Carries
<1>5. Once(s) => Once(n)
  BY <1>1, <1>2 DEF Once
<1>6. Once(s) /\ Head(s) # Torn => ~Carries(n, Head(s))
  BY <1>1, <1>2 DEF Once, Carries
<1>. QED
  BY <1>1, <1>3, <1>4, <1>5, <1>6

\* The same for an answer, which is torn or not.
LEMMA TailOut ==
  ASSUME NEW t \in Seq(Frame), t # <<>>, NEW n, n = Tail(t)
  PROVE  /\ n \in Seq(Frame) /\ Head(t) \in Frame
         /\ \A y : Answers(n, y) => Answers(t, y)
         /\ Answers(t, Head(t).request)
         /\ OnceOut(t) => OnceOut(n) /\ (Head(t).request # Torn => ~Answers(n, Head(t).request))
         /\ TornFails(t) => TornFails(n) /\ (Head(t).request = Torn => ~Head(t).ok)
<1>1. /\ n \in Seq(Frame) /\ Len(n) = Len(t) - 1 /\ Len(t) \in Nat /\ Len(t) > 0
      /\ \A i \in 1 .. Len(n) : n[i] = t[i + 1]
      /\ Head(t) = t[1]
  OBVIOUS
<1>2. /\ 1 \in 1 .. Len(t)
      /\ \A i \in 1 .. Len(n) : i + 1 \in 1 .. Len(t) /\ i + 1 # 1
      /\ \A i, j \in 1 .. Len(n) : i + 1 = j + 1 => i = j
  BY <1>1
<1>3. Head(t) \in Frame /\ Answers(t, Head(t).request)
  BY <1>1, <1>2 DEF Answers
<1>4. \A y : Answers(n, y) => Answers(t, y)
  BY <1>1, <1>2 DEF Answers
<1>5. OnceOut(t) => OnceOut(n)
  BY <1>1, <1>2 DEF OnceOut
<1>6. OnceOut(t) /\ Head(t).request # Torn => ~Answers(n, Head(t).request)
  BY <1>1, <1>2 DEF OnceOut, Answers
<1>7. TornFails(t) => TornFails(n) /\ (Head(t).request = Torn => ~Head(t).ok)
  BY <1>1, <1>2 DEF TornFails
<1>. QED
  BY <1>1, <1>3, <1>4, <1>5, <1>6, <1>7

\* The first frame is torn.
LEMMA TearOut ==
  ASSUME NEW t \in Seq(Frame), t # <<>>,
         NEW n, n = [t EXCEPT ![1] = [request |-> Torn, ok |-> FALSE]]
  PROVE  /\ n \in Seq(Frame)
         /\ \A y : Answers(n, y) /\ y # Torn => Answers(t, y)
         /\ OnceOut(t) => OnceOut(n)
         /\ TornFails(t) => TornFails(n)
<1>1. PICK f : f = [request |-> Torn, ok |-> FALSE]
  OBVIOUS
<1>2. f.request = Torn /\ ~f.ok
  BY <1>1
<1>3. f \in Frame
  BY <1>1 DEF Frame
<1>4. n = [t EXCEPT ![1] = f]
  BY <1>1
<1>5. Len(t) \in Nat /\ Len(t) > 0 /\ 1 \in 1 .. Len(t) /\ DOMAIN t = 1 .. Len(t)
  OBVIOUS
<1>6. /\ n \in Seq(Frame) /\ Len(n) = Len(t) /\ n[1] = f
      /\ \A i \in 1 .. Len(t) : i # 1 => n[i] = t[i]
  <2>1. \A i \in 1 .. Len(t) : t[i] \in Frame
    OBVIOUS
  <2>2. n \in [1 .. Len(t) -> Frame]
    BY <2>1, <1>3, <1>4, <1>5
  <2>3. n \in Seq(Frame) /\ Len(n) = Len(t)
    BY <2>2, <1>5
  <2>. QED
    BY <2>3, <1>4, <1>5
<1>7. \A y : Answers(n, y) /\ y # Torn => Answers(t, y)
  BY <1>2, <1>6 DEF Answers
<1>8. OnceOut(t) => OnceOut(n)
  BY <1>2, <1>6 DEF OnceOut
<1>9. TornFails(t) => TornFails(n)
  BY <1>2, <1>6 DEF TornFails
<1>. QED
  BY <1>6, <1>7, <1>8, <1>9

-----------------------------------------------------------------------------
(* The inductive invariant of the pool.                                      *)

\* The phases in which a call may have written its frame.
Past == {"reading", "evicting", "answered", "failed"}
Exchanging == {"writing", "reading"}

PoolShape ==
  /\ call \in [Requests -> Call]
  /\ workers \in [Routes -> Option(Processes)]
  /\ process \in [Processes -> Process]
  /\ holder \in [Processes -> Option(Requests)]
  /\ unused \subseteq Processes

\* The mutex belongs to the call that exchanges a frame.
MutexHeld ==
  \A p \in Processes, r \in Requests :
    holder[p] = Some(r) <=> call[r].process = Some(p) /\ call[r].phase \in Exchanging

LateIsOver == \A r \in Requests : call[r].late = 1 => call[r].phase \in {"evicting", "failed"}

InPipes(x) == \E p \in Processes : Carries(process[p].stdin, x) \/ Answers(process[p].stdout, x)

\* A request is in the pipes of its own process, once, after it was written.
PipesOrdered ==
  \A p \in Processes :
    /\ Once(process[p].stdin) /\ OnceOut(process[p].stdout) /\ TornFails(process[p].stdout)
    /\ \A x \in Requests : ~(Carries(process[p].stdin, x) /\ Answers(process[p].stdout, x))
    /\ \A x \in Requests : Carries(process[p].stdin, x) \/ Answers(process[p].stdout, x) =>
         call[x].process = Some(p) /\ call[x].phase \in Past

\* No call gave up while it had the process.
Clean(p) == \A r \in Requests : call[r].process = Some(p) => call[r].late = 0

\* The pipes of such a process hold at most the frame of the call that has the
\* mutex and waits for its answer.
CleanPipes ==
  \A p \in Processes : Clean(p) =>
    /\ \A x \in Requests \cup {Torn} :
         Carries(process[p].stdin, x) \/ Answers(process[p].stdout, x) =>
           holder[p] = Some(x) /\ call[x].phase = "reading"
    /\ process[p].state = "dead" => process[p].stdin = <<>>

\* An answer that was read is in no pipe and in no other call.
AnswersRead ==
  \A r, x \in Requests : call[r].answer = Some(x) =>
    /\ call[x].phase \in Past /\ ~InPipes(x)
    /\ \A q \in Requests : call[q].answer = Some(x) => q = r

\* What a call that was answered got.
AnsweredWith ==
  \A r \in Requests : call[r].phase = "answered" =>
    /\ \E x \in Requests : call[r].answer = Some(x)
    /\ call[r].answer = Some(r) \/ \E q \in Requests \ {r} : /\ call[q].late = 1
                                                             /\ call[q].process = call[r].process

PoolInvariant ==
  /\ PoolShape /\ MutexHeld /\ LateIsOver /\ PipesOrdered
  /\ CleanPipes /\ AnswersRead /\ AnsweredWith

\* The parts of a call and of a process.
LEMMA PoolParts ==
  ASSUME PoolShape
  PROVE  /\ \A r \in Requests : /\ call[r] \in Call /\ call[r].phase \in Phase
                                /\ call[r].process \in Option(Processes)
                                /\ call[r].late \in {0, 1}
         /\ \A p \in Processes : /\ process[p] \in Process
                                 /\ process[p].stdin \in Seq(Requests \cup {Torn})
                                 /\ process[p].stdout \in Seq(Frame)
                                 /\ process[p].state \in {"free", "running", "dead"}
                                 /\ process[p].route \in Option(Routes)
BY DEF PoolShape, Call, Process, Frame

\* The pool starts with empty pipes and no call.
LEMMA PoolStarts ==
  PoolInit => PoolInvariant
<1>. SUFFICES ASSUME PoolInit PROVE PoolInvariant
  OBVIOUS
<1>1. PICK none : none = [phase |-> "new", process |-> None, answer |-> None, late |-> 0]
  OBVIOUS
<1>2. PICK free : free = [state |-> "free", route |-> None, stdin |-> <<>>, stdout |-> <<>>]
  OBVIOUS
<1>3. none \in Call /\ none.phase = "new" /\ none.process = None /\ none.answer = None
      /\ none.late = 0
  BY <1>1 DEF Call, Phase, Option
<1>4. free \in Process /\ free.state = "free" /\ free.stdin = <<>> /\ free.stdout = <<>>
  BY <1>2 DEF Process, Option
<1>5. (\A r \in Requests : call[r] = none) /\ (\A p \in Processes : process[p] = free)
  BY <1>1, <1>2 DEF PoolInit
<1>6. PoolShape
  <2>1. call \in [Requests -> Call] /\ process \in [Processes -> Process]
    BY <1>1, <1>2, <1>3, <1>4 DEF PoolInit
  <2>2. workers \in [Routes -> Option(Processes)] /\ holder \in [Processes -> Option(Requests)]
        /\ unused \subseteq Processes
    BY DEF PoolInit, Option
  <2>. QED
    BY <2>1, <2>2 DEF PoolShape
<1>7. MutexHeld /\ LateIsOver
  BY <1>3, <1>5, OptionDistinct DEF PoolInit, MutexHeld, LateIsOver
<1>8. PipesOrdered /\ CleanPipes
  BY <1>4, <1>5, EmptyPipe DEF PipesOrdered, CleanPipes
<1>9. AnswersRead /\ AnsweredWith
  BY <1>3, <1>5, OptionDistinct DEF AnswersRead, AnsweredWith
<1>. QED
  BY <1>6, <1>7, <1>8, <1>9 DEF PoolInvariant

\* Processes may be killed: then they read no more.
Killed(old, new) ==
  /\ new \in [Processes -> Process]
  /\ \A p \in Processes :
       /\ new[p].stdout = old[p].stdout
       /\ \/ new[p].stdin = old[p].stdin /\ (new[p].state = "dead" => old[p].state = "dead")
          \/ new[p].stdin = <<>>

\* A process is stopped, or started: the other fields are as they were.
LEMMA StoppedRecord ==
  ASSUME NEW A, NEW B, NEW C, NEW D, NEW w \in [state: A, route: B, stdin: C, stdout: D],
         NEW a \in A, NEW e \in C, NEW n, n = [w EXCEPT !.state = a, !.stdin = e]
  PROVE  /\ n \in [state: A, route: B, stdin: C, stdout: D]
         /\ n.state = a /\ n.stdin = e /\ n.stdout = w.stdout
OBVIOUS

\* The same for a process that is started.
LEMMA StartedRecord ==
  ASSUME NEW A, NEW B, NEW C, NEW D, NEW w \in [state: A, route: B, stdin: C, stdout: D],
         NEW a \in A, NEW e \in B, NEW n, n = [w EXCEPT !.state = a, !.route = e]
  PROVE  /\ n \in [state: A, route: B, stdin: C, stdout: D]
         /\ n.state = a /\ n.stdin = w.stdin /\ n.stdout = w.stdout
OBVIOUS

\* A dead process has an empty standard input and keeps its output.
LEMMA DeadIsProcess ==
  ASSUME NEW w \in Process
  PROVE  Dead(w) \in Process /\ Dead(w).stdin = <<>> /\ Dead(w).stdout = w.stdout
<1>1. PICK A, B, C, D : /\ A = {"free", "running", "dead"} /\ B = Option(Routes)
                        /\ C = Seq(Requests \cup {Torn})
                        /\ D = Seq([request: Requests \cup {Torn}, ok: BOOLEAN])
  OBVIOUS
<1>2. Process = [state: A, route: B, stdin: C, stdout: D]
  BY <1>1 DEF Process
<1>3. PICK a, e : a = "dead" /\ e = <<>>
  OBVIOUS
<1>4. a \in A /\ e \in C
  BY <1>1, <1>3
<1>5. PICK n : n = [w EXCEPT !.state = a, !.stdin = e]
  OBVIOUS
<1>6. /\ n \in [state: A, route: B, stdin: C, stdout: D]
      /\ n.state = a /\ n.stdin = e /\ n.stdout = w.stdout
  BY <1>2, <1>4, <1>5, StoppedRecord
<1>7. Dead(w) = n
  BY <1>3, <1>5 DEF Dead
<1>. QED
  BY <1>2, <1>3, <1>6, <1>7

\* kill_on_drop kills, and does nothing else to a process.
LEMMA ReapedKills ==
  ASSUME NEW old \in [Processes -> Process], NEW calls, NEW map
  PROVE  Killed(old, Reaped(old, calls, map))
<1>1. PICK new : new = Reaped(old, calls, map)
  OBVIOUS
<1>2. ASSUME NEW p \in Processes
      PROVE  /\ new[p] \in Process
             /\ new[p].stdout = old[p].stdout
             /\ new[p] = old[p] \/ new[p].stdin = <<>>
  <2>1. new[p] = Dead(old[p]) \/ new[p] = old[p]
    BY <1>1 DEF Reaped
  <2>2. PICK w \in Process : w = old[p]
    OBVIOUS
  <2>3. Dead(w) \in Process /\ Dead(w).stdin = <<>> /\ Dead(w).stdout = w.stdout
    BY DeadIsProcess
  <2>. QED
    BY <2>1, <2>2, <2>3
<1>3. new = [p \in Processes |-> new[p]]
  BY <1>1 DEF Reaped
<1>4. new \in [Processes -> Process]
  BY <1>2, <1>3
<1>. QED
  BY <1>1, <1>2, <1>4 DEF Killed

-----------------------------------------------------------------------------
(* The records the actions write.                                            *)

\* What is written to a call.
LEMMA PhaseRecord ==
  ASSUME NEW A, NEW B, NEW C, NEW D, NEW c \in [phase: A, process: B, answer: C, late: D],
         NEW a \in A, NEW n, n = [c EXCEPT !.phase = a]
  PROVE  n \in [phase: A, process: B, answer: C, late: D] /\ n.phase = a /\ n.process = c.process /\ n.answer = c.answer /\ n.late = c.late
OBVIOUS

LEMMA ProcessRecord ==
  ASSUME NEW A, NEW B, NEW C, NEW D, NEW c \in [phase: A, process: B, answer: C, late: D],
         NEW a \in A, NEW b \in B, NEW n, n = [c EXCEPT !.phase = a, !.process = b]
  PROVE  n \in [phase: A, process: B, answer: C, late: D] /\ n.phase = a /\ n.process = b /\ n.answer = c.answer /\ n.late = c.late
OBVIOUS

LEMMA AnswerRecord ==
  ASSUME NEW A, NEW B, NEW C, NEW D, NEW c \in [phase: A, process: B, answer: C, late: D],
         NEW a \in A, NEW e \in C, NEW n, n = [c EXCEPT !.phase = a, !.answer = e]
  PROVE  n \in [phase: A, process: B, answer: C, late: D] /\ n.phase = a /\ n.process = c.process /\ n.answer = e /\ n.late = c.late
OBVIOUS

LEMMA LateRecord ==
  ASSUME NEW A, NEW B, NEW C, NEW D, NEW c \in [phase: A, process: B, answer: C, late: D],
         NEW a \in A, NEW d \in D, NEW n, n = [c EXCEPT !.phase = a, !.late = d]
  PROVE  n \in [phase: A, process: B, answer: C, late: D] /\ n.phase = a /\ n.process = c.process /\ n.answer = c.answer /\ n.late = d
OBVIOUS

\* A call whose record is replaced.
Becomes(r, phase, itsProcess, answer, late) ==
  /\ call' \in [Requests -> Call]
  /\ call'[r].phase = phase /\ call'[r].process = itsProcess
  /\ call'[r].answer = answer /\ call'[r].late = late
  /\ \A q \in Requests : q # r => call'[q] = call[q]

\* What the actions make of a call.
LEMMA CallBecomes ==
  ASSUME PoolShape, NEW r \in Requests, NEW ph \in Phase, NEW pr \in Option(Processes),
         NEW an \in Option(Requests \cup {Torn}), NEW la \in {0, 1}
  PROVE  /\ call' = [call EXCEPT ![r].phase = ph] =>
              Becomes(r, ph, call[r].process, call[r].answer, call[r].late)
         /\ call' = [call EXCEPT ![r].phase = ph, ![r].process = pr] =>
              Becomes(r, ph, pr, call[r].answer, call[r].late)
         /\ call' = [call EXCEPT ![r].phase = ph, ![r].answer = an] =>
              Becomes(r, ph, call[r].process, an, call[r].late)
         /\ call' = [call EXCEPT ![r].phase = ph, ![r].late = la] =>
              Becomes(r, ph, call[r].process, call[r].answer, la)
<1>1. call \in [Requests -> Call]
  BY DEF PoolShape
<1>2. PICK A, B, C, D : /\ A = Phase /\ B = Option(Processes)
                        /\ C = Option(Requests \cup {Torn}) /\ D = {0, 1}
  OBVIOUS
<1>3. Call = [phase: A, process: B, answer: C, late: D]
  BY <1>2 DEF Call
<1>4. PICK c : c = call[r]
  OBVIOUS
<1>5. c \in [phase: A, process: B, answer: C, late: D] /\ ph \in A /\ pr \in B /\ an \in C /\ la \in D
  BY <1>1, <1>2, <1>3, <1>4
<1>6. ASSUME call' = [call EXCEPT ![r].phase = ph]
      PROVE  Becomes(r, ph, call[r].process, call[r].answer, call[r].late)
  <2>1. PICK n : n = [c EXCEPT !.phase = ph]
    OBVIOUS
  <2>2. call' = [call EXCEPT ![r] = n]
    BY <1>1, <1>4, <1>6, <2>1
  <2>3. /\ n \in [phase: A, process: B, answer: C, late: D] /\ n.phase = ph
        /\ n.process = c.process /\ n.answer = c.answer /\ n.late = c.late
    BY <1>5, <2>1, PhaseRecord
  <2>. QED
    BY <1>1, <1>3, <1>4, <2>2, <2>3 DEF Becomes
<1>7. ASSUME call' = [call EXCEPT ![r].phase = ph, ![r].process = pr]
      PROVE  Becomes(r, ph, pr, call[r].answer, call[r].late)
  <2>1. PICK n : n = [c EXCEPT !.phase = ph, !.process = pr]
    OBVIOUS
  <2>2. call' = [call EXCEPT ![r] = n]
    BY <1>1, <1>4, <1>7, <2>1
  <2>3. /\ n \in [phase: A, process: B, answer: C, late: D] /\ n.phase = ph
        /\ n.process = pr /\ n.answer = c.answer /\ n.late = c.late
    BY <1>5, <2>1, ProcessRecord
  <2>. QED
    BY <1>1, <1>3, <1>4, <2>2, <2>3 DEF Becomes
<1>8. ASSUME call' = [call EXCEPT ![r].phase = ph, ![r].answer = an]
      PROVE  Becomes(r, ph, call[r].process, an, call[r].late)
  <2>1. PICK n : n = [c EXCEPT !.phase = ph, !.answer = an]
    OBVIOUS
  <2>2. call' = [call EXCEPT ![r] = n]
    BY <1>1, <1>4, <1>8, <2>1
  <2>3. /\ n \in [phase: A, process: B, answer: C, late: D] /\ n.phase = ph
        /\ n.process = c.process /\ n.answer = an /\ n.late = c.late
    BY <1>5, <2>1, AnswerRecord
  <2>. QED
    BY <1>1, <1>3, <1>4, <2>2, <2>3 DEF Becomes
<1>9. ASSUME call' = [call EXCEPT ![r].phase = ph, ![r].late = la]
      PROVE  Becomes(r, ph, call[r].process, call[r].answer, la)
  <2>1. PICK n : n = [c EXCEPT !.phase = ph, !.late = la]
    OBVIOUS
  <2>2. call' = [call EXCEPT ![r] = n]
    BY <1>1, <1>4, <1>9, <2>1
  <2>3. /\ n \in [phase: A, process: B, answer: C, late: D] /\ n.phase = ph
        /\ n.process = c.process /\ n.answer = c.answer /\ n.late = la
    BY <1>5, <2>1, LateRecord
  <2>. QED
    BY <1>1, <1>3, <1>4, <2>2, <2>3 DEF Becomes
<1>. QED
  BY <1>6, <1>7, <1>8, <1>9

-----------------------------------------------------------------------------
(* Calls that exchange nothing: they are admitted, routed, refused, evicted. *)

\* r moves between phases in which it holds no mutex; only a call that has
\* written nothing is given a process.
Moves(r, phase, itsProcess) ==
  /\ Becomes(r, phase, itsProcess, call[r].answer, call[r].late)
  /\ call[r].phase \notin {"writing", "reading", "answered"}
  /\ phase \notin {"writing", "reading", "answered"}
  /\ call[r].phase \in Past => phase \in Past
  /\ call[r].late = 1 => phase \in {"evicting", "failed"}
  /\ itsProcess = call[r].process \/ call[r].phase = "admitted"

\* What processes and pipes hold is at most what they held.
LEMMA KilledPipes ==
  ASSUME PoolShape, Killed(process, process'), NEW p \in Processes
  PROVE  /\ \A x : Carries(process'[p].stdin, x) => Carries(process[p].stdin, x)
         /\ \A x : Answers(process'[p].stdout, x) <=> Answers(process[p].stdout, x)
         /\ Once(process[p].stdin) => Once(process'[p].stdin)
         /\ process'[p].stdout = process[p].stdout
         /\ process'[p].state = "dead" =>
              process'[p].stdin = <<>> \/ (process[p].state = "dead" /\ process'[p].stdin = process[p].stdin)
<1>1. /\ process'[p].stdout = process[p].stdout
      /\ \/ /\ process'[p].stdin = process[p].stdin
            /\ process'[p].state = "dead" => process[p].state = "dead"
         \/ process'[p].stdin = <<>>
  BY DEF Killed
<1>2. CASE process'[p].stdin = <<>>
  BY <1>1, <1>2, EmptyPipe
<1>3. CASE process'[p].stdin = process[p].stdin /\ (process'[p].state = "dead" => process[p].state = "dead")
  BY <1>1, <1>3
<1>. QED
  BY <1>1, <1>2, <1>3

\* Such a step keeps the invariant, whatever processes it kills.
LEMMA MovesKeep ==
  ASSUME PoolInvariant, NEW r \in Requests, NEW phase, NEW itsProcess,
         Moves(r, phase, itsProcess), Killed(process, process'),
         holder' = holder, workers' \in [Routes -> Option(Processes)], unused' \subseteq Processes
  PROVE  PoolInvariant'
<1>1. PoolShape
  BY DEF PoolInvariant
<1>2. /\ call'[r].phase = phase /\ call'[r].process = itsProcess
      /\ call'[r].answer = call[r].answer /\ call'[r].late = call[r].late
      /\ \A q \in Requests : q # r => call'[q] = call[q]
  BY DEF Moves, Becomes
<1>3. PoolShape'
  BY <1>1 DEF PoolShape, Moves, Becomes, Killed
<1>4. \A q \in Requests : call'[q].answer = call[q].answer /\ call'[q].late = call[q].late
  BY <1>2 DEF Moves
<1>5. \A q \in Requests : /\ call'[q].phase \in Exchanging <=> call[q].phase \in Exchanging
                          /\ call'[q].phase = "answered" <=> call[q].phase = "answered"
                          /\ call'[q].phase = "reading" <=> call[q].phase = "reading"
                          /\ call[q].phase \in Past => call'[q].phase \in Past
                          /\ call[q].phase \in Past \cup Exchanging => call'[q].process = call[q].process
  BY <1>2 DEF Moves, Exchanging, Past
<1>6. MutexHeld'
  <2>. SUFFICES ASSUME NEW p \in Processes, NEW q \in Requests
                PROVE  (holder[p] = Some(q)) <=> (call'[q].process = Some(p) /\ call'[q].phase \in Exchanging)
    BY DEF MutexHeld
  <2>1. (holder[p] = Some(q)) <=> (call[q].process = Some(p) /\ call[q].phase \in Exchanging)
    BY DEF PoolInvariant, MutexHeld
  <2>. QED
    BY <2>1, <1>5
<1>7. LateIsOver'
  BY <1>2, <1>4 DEF PoolInvariant, LateIsOver, Moves
<1>8. PipesOrdered'
  <2>. SUFFICES ASSUME NEW p \in Processes
                PROVE  /\ Once(process'[p].stdin) /\ OnceOut(process'[p].stdout)
                       /\ TornFails(process'[p].stdout)
                       /\ \A x \in Requests : ~(Carries(process'[p].stdin, x) /\ Answers(process'[p].stdout, x))
                       /\ \A x \in Requests : Carries(process'[p].stdin, x) \/ Answers(process'[p].stdout, x) =>
                            call'[x].process = Some(p) /\ call'[x].phase \in Past
    BY DEF PipesOrdered
  <2>. QED
    BY <1>1, <1>5, KilledPipes DEF PoolInvariant, PipesOrdered
<1>9. CleanPipes'
  <2>. SUFFICES ASSUME NEW p \in Processes, Clean(p)'
                PROVE  /\ \A x \in Requests \cup {Torn} :
                            Carries(process'[p].stdin, x) \/ Answers(process'[p].stdout, x) =>
                              holder[p] = Some(x) /\ call'[x].phase = "reading"
                       /\ process'[p].state = "dead" => process'[p].stdin = <<>>
    BY DEF CleanPipes
  <2>1. Clean(p)
    <3>. SUFFICES ASSUME NEW q \in Requests, call[q].process = Some(p) PROVE call[q].late = 0
      BY DEF Clean
    <3>1. CASE call'[q].process = Some(p)
      BY <3>1, <1>4 DEF Clean
    <3>2. CASE call'[q].process # Some(p)
      <4>1. call[q].phase \notin Past
        BY <3>2, <1>5
      <4>2. call[q].late # 1 /\ call[q].late \in {0, 1}
        BY <4>1, <1>1, PoolParts DEF PoolInvariant, LateIsOver, Past
      <4>. QED
        BY <4>2
    <3>. QED
      BY <3>1, <3>2
  <2>2. /\ \A x \in Requests \cup {Torn} :
             Carries(process[p].stdin, x) \/ Answers(process[p].stdout, x) =>
               holder[p] = Some(x) /\ call[x].phase = "reading"
        /\ process[p].state = "dead" => process[p].stdin = <<>>
    BY <2>1 DEF PoolInvariant, CleanPipes
  <2>3. ASSUME NEW x \in Requests \cup {Torn},
               Carries(process'[p].stdin, x) \/ Answers(process'[p].stdout, x)
        PROVE  holder[p] = Some(x) /\ call'[x].phase = "reading"
    <3>1. holder[p] = Some(x) /\ call[x].phase = "reading"
      BY <2>2, <2>3, <1>1, KilledPipes
    <3>2. x \in Requests
      <4>1. holder[p] \in Option(Requests)
        BY <1>1 DEF PoolShape
      <4>. QED
        BY <4>1, <3>1, OptionDistinct DEF Option
    <3>. QED
      BY <3>1, <3>2, <1>5
  <2>4. process'[p].state = "dead" => process'[p].stdin = <<>>
    BY <2>2, <1>1, KilledPipes
  <2>. QED
    BY <2>3, <2>4
<1>10. AnswersRead'
  <2>1. \A x : InPipes(x)' => InPipes(x)
    BY <1>1, KilledPipes DEF InPipes
  <2>. QED
    BY <2>1, <1>4, <1>5 DEF PoolInvariant, AnswersRead
<1>11. AnsweredWith'
  <2>. SUFFICES ASSUME NEW q \in Requests, call'[q].phase = "answered"
                PROVE  /\ \E x \in Requests : call'[q].answer = Some(x)
                       /\ call'[q].answer = Some(q) \/ \E w \in Requests \ {q} :
                            call'[w].late = 1 /\ call'[w].process = call'[q].process
    BY DEF AnsweredWith
  <2>1. call[q].phase = "answered" /\ call'[q].process = call[q].process
    BY <1>5 DEF Past
  <2>2. /\ \E x \in Requests : call[q].answer = Some(x)
        /\ call[q].answer = Some(q) \/ \E w \in Requests \ {q} :
             call[w].late = 1 /\ call[w].process = call[q].process
    BY <2>1 DEF PoolInvariant, AnsweredWith
  <2>3. \A w \in Requests : call[w].late = 1 => call'[w].late = 1 /\ call'[w].process = call[w].process
    BY <1>4, <1>5 DEF PoolInvariant, LateIsOver, Past
  <2>. QED
    BY <2>1, <2>2, <2>3, <1>4
<1>. QED
  BY <1>3, <1>6, <1>7, <1>8, <1>9, <1>10, <1>11 DEF PoolInvariant


\* A call is admitted, or refused for want of a permit.
LEMMA AcquireKeeps ==
  ASSUME PoolInvariant, NEW r \in Requests, AcquirePermit(r)
  PROVE  PoolInvariant'
<1>1. PoolShape
  BY DEF PoolInvariant
<1>2. PICK phase \in {"admitted", "failed"} : call' = [call EXCEPT ![r].phase = phase]
  BY DEF AcquirePermit
<1>3. call[r].phase = "new" /\ phase \in Phase
  BY <1>2 DEF AcquirePermit, Phase
<1>4. Becomes(r, phase, call[r].process, call[r].answer, call[r].late)
  <2>1. call[r].process \in Option(Processes) /\ None \in Option(Requests \cup {Torn}) /\ 0 \in {0, 1}
    BY <1>1, PoolParts DEF Option
  <2>. QED
    BY <1>1, <1>2, <1>3, <2>1, CallBecomes
<1>5. call[r].late # 1
  BY <1>3 DEF PoolInvariant, LateIsOver
<1>6. Moves(r, phase, call[r].process)
  BY <1>2, <1>3, <1>4, <1>5 DEF Moves, Past
<1>7. Killed(process, process')
  BY <1>1 DEF AcquirePermit, Killed, PoolShape
<1>. QED
  BY <1>1, <1>6, <1>7, MovesKeep DEF AcquirePermit, PoolShape

\* The map keeps its shape when entries leave it.
LEMMA MapShape ==
  ASSUME PoolShape
  PROVE  /\ Retained \in [Routes -> Option(Processes)]
         /\ \A database : Retired(database) \in [Routes -> Option(Processes)]
         /\ \A r \in Requests : Route[r] \in Routes
<1>1. None \in Option(Processes)
  BY DEF Option
<1>2. Retained \in [Routes -> Option(Processes)]
  BY <1>1 DEF PoolShape, Retained
<1>3. \A database : Retired(database) \in [Routes -> Option(Processes)]
  BY <1>1, <1>2 DEF Retired
<1>. QED
  BY <1>2, <1>3 DEF Routes

\* A call is given the process of its route.
LEMMA UseKeeps ==
  ASSUME PoolInvariant, NEW r \in Requests, UseWorker(r)
  PROVE  PoolInvariant'
<1>1. PoolShape
  BY DEF PoolInvariant
<1>2. PICK pr : pr = Retained[Route[r]]
  OBVIOUS
<1>3. pr \in Option(Processes)
  BY <1>1, <1>2, MapShape
<1>4. PICK phase \in {"waiting", "failed"} :
        call' = [call EXCEPT ![r].phase = phase, ![r].process = pr]
  BY <1>2 DEF UseWorker, AfterRouting
<1>5. call[r].phase = "admitted" /\ phase \in Phase
  BY DEF UseWorker, Phase
<1>6. Becomes(r, phase, pr, call[r].answer, call[r].late)
  <2>1. None \in Option(Requests \cup {Torn}) /\ 0 \in {0, 1}
    BY DEF Option
  <2>. QED
    BY <1>1, <1>3, <1>4, <1>5, <2>1, CallBecomes
<1>7. call[r].late # 1
  BY <1>5 DEF PoolInvariant, LateIsOver
<1>8. Moves(r, phase, pr)
  BY <1>4, <1>5, <1>6, <1>7 DEF Moves, Past
<1>9. Killed(process, process')
  <2>1. process \in [Processes -> Process] /\ process' = Reaped(process, call', workers')
    BY <1>1 DEF UseWorker, PoolShape
  <2>. QED
    BY <2>1, ReapedKills
<1>10. workers' \in [Routes -> Option(Processes)] /\ unused' \subseteq Processes /\ holder' = holder
  BY <1>1, MapShape DEF UseWorker, PoolShape
<1>. QED
  BY <1>8, <1>9, <1>10, MovesKeep

\* A call is given a new process.
LEMMA SpawnKeeps ==
  ASSUME PoolInvariant, NEW r \in Requests, SpawnWorker(r)
  PROVE  PoolInvariant'
<1>1. PoolShape
  BY DEF PoolInvariant
<1>2. PICK p \in Processes, phase \in {"waiting", "failed"} :
        /\ call' = [call EXCEPT ![r].phase = phase, ![r].process = Some(p)]
        /\ workers' = [Retired(Route[r].database) EXCEPT ![Route[r]] = Some(p)]
        /\ process' = [Reaped(process, call', workers') EXCEPT
                         ![p].state = "running", ![p].route = Some(Route[r])]
  BY DEF SpawnWorker, AfterRouting
<1>3. PICK pr : pr = Some(p)
  OBVIOUS
<1>4. pr \in Option(Processes)
  BY <1>3 DEF Option
<1>5. call[r].phase = "admitted" /\ phase \in Phase
  BY DEF SpawnWorker, Phase
<1>6. Becomes(r, phase, pr, call[r].answer, call[r].late)
  <2>1. None \in Option(Requests \cup {Torn}) /\ 0 \in {0, 1}
    BY DEF Option
  <2>. QED
    BY <1>1, <1>2, <1>3, <1>4, <1>5, <2>1, CallBecomes
<1>7. call[r].late # 1
  BY <1>5 DEF PoolInvariant, LateIsOver
<1>8. Moves(r, phase, pr)
  BY <1>5, <1>6, <1>7 DEF Moves, Past
<1>9. Killed(process, process')
  <2>1. PICK reaped : reaped = Reaped(process, call', workers')
    OBVIOUS
  <2>2. process \in [Processes -> Process]
    BY <1>1 DEF PoolShape
  <2>3. Killed(process, reaped)
    BY <2>1, <2>2, ReapedKills
  <2>4. PICK A, B, C, D : /\ A = {"free", "running", "dead"} /\ B = Option(Routes)
                          /\ C = Seq(Requests \cup {Torn})
                          /\ D = Seq([request: Requests \cup {Torn}, ok: BOOLEAN])
    OBVIOUS
  <2>5. Process = [state: A, route: B, stdin: C, stdout: D]
    BY <2>4 DEF Process
  <2>6. PICK a, e : a = "running" /\ e = Some(Route[r])
    OBVIOUS
  <2>7. a \in A /\ e \in B
    BY <2>4, <2>6, <1>1, MapShape DEF Option
  <2>8. reaped \in [Processes -> Process]
    BY <2>3 DEF Killed
  <2>9. PICK w \in Process : w = reaped[p]
    BY <2>8
  <2>10. PICK n : n = [w EXCEPT !.state = a, !.route = e]
    OBVIOUS
  <2>11. /\ n \in [state: A, route: B, stdin: C, stdout: D]
         /\ n.state = a /\ n.stdin = w.stdin /\ n.stdout = w.stdout
    BY <2>5, <2>7, <2>9, <2>10, StartedRecord
  <2>12. process' = [reaped EXCEPT ![p] = n]
    <3>1. process' = [reaped EXCEPT ![p].state = a, ![p].route = e]
      BY <1>2, <2>1, <2>6
    <3>2. DOMAIN reaped = Processes /\ reaped[p] = w
      BY <2>8, <2>9
    <3>. QED
      BY <3>1, <3>2, <2>10
  <2>13. n \in Process
    BY <2>5, <2>11
  <2>14. process' \in [Processes -> Process]
    BY <2>8, <2>12, <2>13
  <2>15. \A q \in Processes : process'[q] = IF q = p THEN n ELSE reaped[q]
    BY <2>8, <2>12
  <2>16. n.state # "dead" /\ n.stdin = reaped[p].stdin /\ n.stdout = reaped[p].stdout
    BY <2>6, <2>9, <2>11
  <2>. QED
    BY <2>3, <2>14, <2>15, <2>16 DEF Killed
<1>10. workers' \in [Routes -> Option(Processes)] /\ unused' \subseteq Processes /\ holder' = holder
  BY <1>1, <1>2, <1>3, <1>4, MapShape DEF SpawnWorker, PoolShape
<1>. QED
  BY <1>8, <1>9, <1>10, MovesKeep

\* A call that gets no process, and one that evicts its own.
LEMMA RefuseKeeps ==
  ASSUME PoolInvariant, NEW r \in Requests, RefuseWorker(r) \/ Evict(r)
  PROVE  PoolInvariant'
<1>1. PoolShape
  BY DEF PoolInvariant
<1>2. call[r].phase \in {"admitted", "evicting"} /\ call' = [call EXCEPT ![r].phase = "failed"]
  BY DEF RefuseWorker, Evict
<1>3. Becomes(r, "failed", call[r].process, call[r].answer, call[r].late)
  <2>1. /\ call[r].process \in Option(Processes) /\ None \in Option(Requests \cup {Torn})
        /\ 0 \in {0, 1} /\ "failed" \in Phase
    BY <1>1, PoolParts DEF Option, Phase
  <2>. QED
    BY <1>1, <1>2, <2>1, CallBecomes
<1>4. Moves(r, "failed", call[r].process)
  BY <1>2, <1>3 DEF Moves, Past
<1>5. Killed(process, process')
  <2>1. process \in [Processes -> Process] /\ process' = Reaped(process, call', workers')
    BY <1>1 DEF RefuseWorker, Evict, PoolShape
  <2>. QED
    BY <2>1, ReapedKills
<1>6. workers' \in [Routes -> Option(Processes)]
  <2>1. None \in Option(Processes)
    BY DEF Option
  <2>. QED
    BY <1>1, <2>1, MapShape DEF RefuseWorker, Evict, PoolShape
<1>7. unused' \subseteq Processes /\ holder' = holder
  BY <1>1 DEF RefuseWorker, Evict, PoolShape
<1>. QED
  BY <1>4, <1>5, <1>6, <1>7, MovesKeep

-----------------------------------------------------------------------------
(* The exchange of a frame.                                                  *)

\* What is written to the pipes of a process.
LEMMA InputRecord ==
  ASSUME NEW A, NEW B, NEW C, NEW D, NEW w \in [state: A, route: B, stdin: C, stdout: D],
         NEW e \in C, NEW n, n = [w EXCEPT !.stdin = e]
  PROVE  /\ n \in [state: A, route: B, stdin: C, stdout: D]
         /\ n.state = w.state /\ n.stdin = e /\ n.stdout = w.stdout
OBVIOUS

LEMMA OutputRecord ==
  ASSUME NEW A, NEW B, NEW C, NEW D, NEW w \in [state: A, route: B, stdin: C, stdout: D],
         NEW f \in D, NEW n, n = [w EXCEPT !.stdout = f]
  PROVE  /\ n \in [state: A, route: B, stdin: C, stdout: D]
         /\ n.state = w.state /\ n.stdin = w.stdin /\ n.stdout = f
OBVIOUS

LEMMA PipesRecord ==
  ASSUME NEW A, NEW B, NEW C, NEW D, NEW w \in [state: A, route: B, stdin: C, stdout: D],
         NEW e \in C, NEW f \in D, NEW n, n = [w EXCEPT !.stdin = e, !.stdout = f]
  PROVE  /\ n \in [state: A, route: B, stdin: C, stdout: D]
         /\ n.state = w.state /\ n.stdin = e /\ n.stdout = f
OBVIOUS

\* new is old with other pipes of p.
Piped(old, new, p, in, out) ==
  /\ new \in [Processes -> Process]
  /\ new[p].stdin = in /\ new[p].stdout = out /\ new[p].state = old[p].state
  /\ \A q \in Processes : q # p => new[q] = old[q]

\* The same within the table of the processes.
LEMMA PipesBecome ==
  ASSUME NEW old \in [Processes -> Process], NEW p \in Processes, NEW new,
         NEW in \in Seq(Requests \cup {Torn}), NEW out \in Seq(Frame)
  PROVE  /\ new = [old EXCEPT ![p].stdin = in] => Piped(old, new, p, in, old[p].stdout)
         /\ new = [old EXCEPT ![p].stdout = out] => Piped(old, new, p, old[p].stdin, out)
         /\ new = [old EXCEPT ![p].stdin = in, ![p].stdout = out] => Piped(old, new, p, in, out)
<1>1. PICK A, B, C, D : /\ A = {"free", "running", "dead"} /\ B = Option(Routes)
                        /\ C = Seq(Requests \cup {Torn}) /\ D = Seq(Frame)
  OBVIOUS
<1>2. Process = [state: A, route: B, stdin: C, stdout: D]
  BY <1>1 DEF Process, Frame
<1>3. PICK w \in Process : w = old[p]
  OBVIOUS
<1>4. ASSUME NEW n
      PROVE  /\ n = [w EXCEPT !.stdin = in] =>
                  n \in Process /\ n.state = w.state /\ n.stdin = in /\ n.stdout = w.stdout
             /\ n = [w EXCEPT !.stdout = out] =>
                  n \in Process /\ n.state = w.state /\ n.stdin = w.stdin /\ n.stdout = out
             /\ n = [w EXCEPT !.stdin = in, !.stdout = out] =>
                  n \in Process /\ n.state = w.state /\ n.stdin = in /\ n.stdout = out
  <2>1. w \in [state: A, route: B, stdin: C, stdout: D] /\ in \in C /\ out \in D
    BY <1>1, <1>2
  <2>2. n = [w EXCEPT !.stdin = in] =>
          n \in Process /\ n.state = w.state /\ n.stdin = in /\ n.stdout = w.stdout
    BY <1>2, <2>1, InputRecord
  <2>3. n = [w EXCEPT !.stdout = out] =>
          n \in Process /\ n.state = w.state /\ n.stdin = w.stdin /\ n.stdout = out
    BY <1>2, <2>1, OutputRecord
  <2>4. n = [w EXCEPT !.stdin = in, !.stdout = out] =>
          n \in Process /\ n.state = w.state /\ n.stdin = in /\ n.stdout = out
    BY <1>2, <2>1, PipesRecord
  <2>. QED
    BY <2>2, <2>3, <2>4
<1>5. ASSUME new = [old EXCEPT ![p].stdin = in]
      PROVE  Piped(old, new, p, in, old[p].stdout)
  <2>1. PICK n : n = [w EXCEPT !.stdin = in]
    OBVIOUS
  <2>2. new = [old EXCEPT ![p] = n]
    BY <1>3, <1>5, <2>1
  <2>. QED
    BY <1>3, <1>4, <2>1, <2>2 DEF Piped
<1>6. ASSUME new = [old EXCEPT ![p].stdout = out]
      PROVE  Piped(old, new, p, old[p].stdin, out)
  <2>1. PICK n : n = [w EXCEPT !.stdout = out]
    OBVIOUS
  <2>2. new = [old EXCEPT ![p] = n]
    BY <1>3, <1>6, <2>1
  <2>. QED
    BY <1>3, <1>4, <2>1, <2>2 DEF Piped
<1>7. ASSUME new = [old EXCEPT ![p].stdin = in, ![p].stdout = out]
      PROVE  Piped(old, new, p, in, out)
  <2>1. PICK n : n = [w EXCEPT !.stdin = in, !.stdout = out]
    OBVIOUS
  <2>2. DOMAIN old = Processes /\ old[p] = w
    BY <1>3
  <2>3. new = [old EXCEPT ![p] = n]
    BY <1>7, <2>1, <2>2
  <2>. QED
    BY <1>3, <1>4, <2>1, <2>3 DEF Piped
<1>. QED
  BY <1>5, <1>6, <1>7

\* The mutex goes to a call that waits for it.
LEMMA LockKeeps ==
  ASSUME PoolInvariant, NEW r \in Requests, Lock(r)
  PROVE  PoolInvariant'
<1>1. PoolShape
  BY DEF PoolInvariant
<1>2. PICK p \in Processes : /\ call[r].phase = "waiting" /\ call[r].process = Some(p)
                             /\ holder[p] = None
                             /\ call' = [call EXCEPT ![r].phase = "writing"]
                             /\ holder' = [holder EXCEPT ![p] = Some(r)]
                             /\ workers' = workers /\ process' = process /\ unused' = unused
  BY DEF Lock
<1>3. Becomes(r, "writing", call[r].process, call[r].answer, call[r].late)
  <2>1. /\ call[r].process \in Option(Processes) /\ None \in Option(Requests \cup {Torn})
        /\ 0 \in {0, 1} /\ "writing" \in Phase
    BY <1>1, PoolParts DEF Option, Phase
  <2>. QED
    BY <1>1, <1>2, <2>1, CallBecomes
<1>4. PoolShape'
  BY <1>1, <1>2, <1>3 DEF PoolShape, Becomes, Option
<1>5. \A q \in Requests : /\ call'[q].process = call[q].process /\ call'[q].answer = call[q].answer
                          /\ call'[q].late = call[q].late
                          /\ q # r => call'[q].phase = call[q].phase
  BY <1>3 DEF Becomes
<1>6. call'[r].phase = "writing"
  BY <1>3 DEF Becomes
<1>7. \A q \in Processes : holder'[q] = IF q = p THEN Some(r) ELSE holder[q]
  BY <1>1, <1>2 DEF PoolShape
<1>8. MutexHeld'
  <2>. SUFFICES ASSUME NEW q \in Processes, NEW x \in Requests
                PROVE  (holder'[q] = Some(x)) <=> (call'[x].process = Some(q) /\ call'[x].phase \in Exchanging)
    BY DEF MutexHeld
  <2>1. (holder[q] = Some(x)) <=> (call[x].process = Some(q) /\ call[x].phase \in Exchanging)
    BY DEF PoolInvariant, MutexHeld
  <2>2. CASE x = r
    BY <2>1, <2>2, <1>2, <1>5, <1>6, <1>7, OptionDistinct DEF Exchanging
  <2>3. CASE x # r
    BY <2>1, <2>3, <1>2, <1>5, <1>7, OptionDistinct
  <2>. QED
    BY <2>2, <2>3
<1>9. LateIsOver'
  BY <1>2, <1>5, <1>6 DEF PoolInvariant, LateIsOver
<1>10. PipesOrdered'
  BY <1>2, <1>5, <1>6 DEF PoolInvariant, PipesOrdered, Past
<1>11. CleanPipes'
  <2>. SUFFICES ASSUME NEW q \in Processes, Clean(q)'
                PROVE  /\ \A x \in Requests \cup {Torn} :
                            Carries(process[q].stdin, x) \/ Answers(process[q].stdout, x) =>
                              holder'[q] = Some(x) /\ call'[x].phase = "reading"
                       /\ process[q].state = "dead" => process[q].stdin = <<>>
    BY <1>2 DEF CleanPipes
  <2>1. Clean(q)
    BY <1>5 DEF Clean
  <2>2. /\ \A x \in Requests \cup {Torn} :
             Carries(process[q].stdin, x) \/ Answers(process[q].stdout, x) =>
               holder[q] = Some(x) /\ call[x].phase = "reading"
        /\ process[q].state = "dead" => process[q].stdin = <<>>
    BY <2>1 DEF PoolInvariant, CleanPipes
  <2>3. ASSUME NEW x \in Requests \cup {Torn},
               Carries(process[q].stdin, x) \/ Answers(process[q].stdout, x)
        PROVE  holder'[q] = Some(x) /\ call'[x].phase = "reading"
    <3>1. holder[q] = Some(x) /\ call[x].phase = "reading"
      BY <2>2, <2>3
    <3>2. q # p /\ x # r
      BY <3>1, <1>2, OptionDistinct
    <3>3. x \in Requests
      <4>1. holder[q] \in Option(Requests)
        BY <1>1 DEF PoolShape
      <4>. QED
        BY <4>1, <3>1, OptionDistinct DEF Option
    <3>. QED
      BY <3>1, <3>2, <3>3, <1>5, <1>7
  <2>. QED
    BY <2>2, <2>3
<1>12. AnswersRead'
  <2>1. \A x : InPipes(x)' <=> InPipes(x)
    BY <1>2 DEF InPipes
  <2>. QED
    BY <2>1, <1>2, <1>5 DEF PoolInvariant, AnswersRead, Past
<1>13. AnsweredWith'
  BY <1>5, <1>6 DEF PoolInvariant, AnsweredWith
<1>. QED
  BY <1>4, <1>8, <1>9, <1>10, <1>11, <1>12, <1>13 DEF PoolInvariant

\* What the pipes of a process that no call gave up on hold.
LEMMA CleanPipe ==
  ASSUME PoolInvariant, NEW p \in Processes, Clean(p), NEW x \in Requests \cup {Torn},
         Carries(process[p].stdin, x) \/ Answers(process[p].stdout, x)
  PROVE  x \in Requests /\ holder[p] = Some(x) /\ call[x].phase = "reading"
<1>1. holder[p] = Some(x) /\ call[x].phase = "reading"
  BY DEF PoolInvariant, CleanPipes
<1>2. holder[p] \in Option(Requests)
  BY DEF PoolInvariant, PoolShape
<1>. QED
  BY <1>1, <1>2, OptionDistinct DEF Option

\* A call that fails in the exchange gives the mutex back; it leaves no frame
\* in the pipes of a process that no call gave up on.
LEMMA BreakKeeps ==
  ASSUME PoolInvariant, NEW r \in Requests, Oversized(r) \/ PipeBreaks(r)
  PROVE  PoolInvariant'
<1>1. PoolShape
  BY DEF PoolInvariant
<1>2. PICK p \in Processes : /\ call[r].phase \in {"writing", "reading"} /\ call[r].process = Some(p)
                             /\ \/ call[r].phase = "writing"
                                \/ process[p].state = "dead" /\ process[p].stdout = <<>>
                             /\ call' = [call EXCEPT ![r].phase = "evicting"]
                             /\ holder' = [holder EXCEPT ![p] = None]
                             /\ workers' = workers /\ process' = process /\ unused' = unused
  BY DEF Oversized, PipeBreaks
<1>3. Becomes(r, "evicting", call[r].process, call[r].answer, call[r].late)
  <2>1. /\ call[r].process \in Option(Processes) /\ None \in Option(Requests \cup {Torn})
        /\ 0 \in {0, 1} /\ "evicting" \in Phase
    BY <1>1, PoolParts DEF Option, Phase
  <2>. QED
    BY <1>1, <1>2, <2>1, CallBecomes
<1>4. PoolShape'
  BY <1>1, <1>2, <1>3 DEF PoolShape, Becomes, Option
<1>5. \A q \in Requests : /\ call'[q].process = call[q].process /\ call'[q].answer = call[q].answer
                          /\ call'[q].late = call[q].late
                          /\ q # r => call'[q].phase = call[q].phase
  BY <1>3 DEF Becomes
<1>6. call'[r].phase = "evicting"
  BY <1>3 DEF Becomes
<1>7. \A q \in Processes : holder'[q] = IF q = p THEN None ELSE holder[q]
  BY <1>1, <1>2 DEF PoolShape
<1>8. holder[p] = Some(r)
  BY <1>2 DEF PoolInvariant, MutexHeld, Exchanging
<1>9. MutexHeld'
  <2>. SUFFICES ASSUME NEW q \in Processes, NEW x \in Requests
                PROVE  (holder'[q] = Some(x)) <=> (call'[x].process = Some(q) /\ call'[x].phase \in Exchanging)
    BY DEF MutexHeld
  <2>1. (holder[q] = Some(x)) <=> (call[x].process = Some(q) /\ call[x].phase \in Exchanging)
    BY DEF PoolInvariant, MutexHeld
  <2>2. CASE x = r
    BY <2>1, <2>2, <1>2, <1>5, <1>6, <1>7, OptionDistinct DEF Exchanging
  <2>3. CASE x # r
    BY <2>1, <2>3, <1>2, <1>5, <1>7, <1>8, OptionDistinct
  <2>. QED
    BY <2>2, <2>3
<1>10. LateIsOver'
  BY <1>2, <1>5, <1>6 DEF PoolInvariant, LateIsOver
<1>11. PipesOrdered'
  BY <1>2, <1>5, <1>6 DEF PoolInvariant, PipesOrdered, Past
<1>12. CleanPipes'
  <2>. SUFFICES ASSUME NEW q \in Processes, Clean(q)'
                PROVE  /\ \A x \in Requests \cup {Torn} :
                            Carries(process[q].stdin, x) \/ Answers(process[q].stdout, x) =>
                              holder'[q] = Some(x) /\ call'[x].phase = "reading"
                       /\ process[q].state = "dead" => process[q].stdin = <<>>
    BY <1>2 DEF CleanPipes
  <2>1. Clean(q)
    BY <1>5 DEF Clean
  <2>2. process[q].state = "dead" => process[q].stdin = <<>>
    BY <2>1 DEF PoolInvariant, CleanPipes
  <2>3. ASSUME NEW x \in Requests \cup {Torn},
               Carries(process[q].stdin, x) \/ Answers(process[q].stdout, x)
        PROVE  holder'[q] = Some(x) /\ call'[x].phase = "reading"
    <3>1. x \in Requests /\ holder[q] = Some(x) /\ call[x].phase = "reading"
      BY <2>1, <2>3, CleanPipe
    <3>2. q # p
      <4>1. SUFFICES ASSUME q = p PROVE FALSE
        OBVIOUS
      <4>2. x = r
        BY <4>1, <3>1, <1>8, OptionDistinct
      <4>3. process[p].stdout = <<>> /\ process[p].stdin = <<>>
        BY <4>1, <4>2, <3>1, <2>2, <1>2
      <4>. QED
        BY <4>1, <4>3, <2>3, EmptyPipe
    <3>3. x # r
      BY <3>1, <3>2, <1>2, OptionDistinct DEF PoolInvariant, MutexHeld
    <3>. QED
      BY <3>1, <3>2, <3>3, <1>5, <1>7
  <2>. QED
    BY <2>2, <2>3
<1>13. AnswersRead'
  <2>1. \A x : InPipes(x)' <=> InPipes(x)
    BY <1>2 DEF InPipes
  <2>. QED
    BY <2>1, <1>2, <1>5, <1>6 DEF PoolInvariant, AnswersRead, Past
<1>14. AnsweredWith'
  BY <1>5, <1>6 DEF PoolInvariant, AnsweredWith
<1>. QED
  BY <1>4, <1>9, <1>10, <1>11, <1>12, <1>13, <1>14 DEF PoolInvariant

\* A frame is written once, by the call that has the mutex.
LEMMA WriteKeeps ==
  ASSUME PoolInvariant, NEW r \in Requests, Write(r)
  PROVE  PoolInvariant'
<1>1. PoolShape
  BY DEF PoolInvariant
<1>2. PICK p \in Processes : /\ call[r].phase = "writing" /\ call[r].process = Some(p)
                             /\ process[p].state = "running"
                             /\ call' = [call EXCEPT ![r].phase = "reading"]
                             /\ process' = [process EXCEPT ![p].stdin = Append(@, r)]
                             /\ workers' = workers /\ holder' = holder /\ unused' = unused
  BY DEF Write
<1>3. Becomes(r, "reading", call[r].process, call[r].answer, call[r].late)
  <2>1. /\ call[r].process \in Option(Processes) /\ None \in Option(Requests \cup {Torn})
        /\ 0 \in {0, 1} /\ "reading" \in Phase
    BY <1>1, PoolParts DEF Option, Phase
  <2>. QED
    BY <1>1, <1>2, <2>1, CallBecomes
<1>4. \A q \in Requests : /\ call'[q].process = call[q].process /\ call'[q].answer = call[q].answer
                          /\ call'[q].late = call[q].late
                          /\ q # r => call'[q].phase = call[q].phase
  BY <1>3 DEF Becomes
<1>5. call'[r].phase = "reading"
  BY <1>3 DEF Becomes
<1>6. PICK s : s = process[p].stdin
  OBVIOUS
<1>7. PICK n : n = Append(s, r)
  OBVIOUS
<1>8. s \in Seq(Requests \cup {Torn}) /\ <<>> \in Seq(Frame)
  BY <1>1, <1>6, PoolParts
<1>9. /\ n \in Seq(Requests \cup {Torn})
      /\ \A y : Carries(n, y) <=> Carries(s, y) \/ y = r
      /\ Once(s) /\ (r = Torn \/ ~Carries(s, r)) => Once(n)
  BY <1>7, <1>8, AppendIn
<1>10. Piped(process, process', p, n, process[p].stdout)
  <2>1. process' = [process EXCEPT ![p].stdin = n]
    BY <1>2, <1>6, <1>7
  <2>2. process \in [Processes -> Process]
    BY <1>1 DEF PoolShape
  <2>. QED
    BY <1>8, <1>9, <2>1, <2>2, PipesBecome
<1>11. \A q \in Processes : /\ process'[q].stdin = IF q = p THEN n ELSE process[q].stdin
                            /\ process'[q].stdout = process[q].stdout
                            /\ process'[q].state = process[q].state
  BY <1>10 DEF Piped
<1>12. PoolShape'
  BY <1>1, <1>2, <1>3, <1>10 DEF PoolShape, Becomes, Piped
<1>13. \A q \in Processes : ~Carries(process[q].stdin, r) /\ ~Answers(process[q].stdout, r)
  BY <1>2 DEF PoolInvariant, PipesOrdered, Past
<1>14. MutexHeld'
  <2>. SUFFICES ASSUME NEW q \in Processes, NEW x \in Requests
                PROVE  (holder[q] = Some(x)) <=> (call'[x].process = Some(q) /\ call'[x].phase \in Exchanging)
    BY <1>2 DEF MutexHeld
  <2>1. (holder[q] = Some(x)) <=> (call[x].process = Some(q) /\ call[x].phase \in Exchanging)
    BY DEF PoolInvariant, MutexHeld
  <2>. QED
    BY <2>1, <1>2, <1>4, <1>5 DEF Exchanging
<1>15. LateIsOver'
  BY <1>2, <1>4, <1>5 DEF PoolInvariant, LateIsOver
<1>16. PipesOrdered'
  <2>. SUFFICES ASSUME NEW q \in Processes
                PROVE  /\ Once(process'[q].stdin) /\ OnceOut(process'[q].stdout)
                       /\ TornFails(process'[q].stdout)
                       /\ \A x \in Requests : ~(Carries(process'[q].stdin, x) /\ Answers(process'[q].stdout, x))
                       /\ \A x \in Requests : Carries(process'[q].stdin, x) \/ Answers(process'[q].stdout, x) =>
                            call'[x].process = Some(q) /\ call'[x].phase \in Past
    BY DEF PipesOrdered
  <2>1. /\ Once(process[q].stdin) /\ OnceOut(process[q].stdout) /\ TornFails(process[q].stdout)
        /\ \A x \in Requests : ~(Carries(process[q].stdin, x) /\ Answers(process[q].stdout, x))
        /\ \A x \in Requests : Carries(process[q].stdin, x) \/ Answers(process[q].stdout, x) =>
             call[x].process = Some(q) /\ call[x].phase \in Past
    BY DEF PoolInvariant, PipesOrdered
  <2>2. \A x : Carries(process'[q].stdin, x) <=> Carries(process[q].stdin, x) \/ (q = p /\ x = r)
    BY <1>6, <1>9, <1>11
  <2>3. Once(process'[q].stdin)
    BY <2>1, <1>6, <1>9, <1>11, <1>13
  <2>4. \A x \in Requests : call[x].phase \in Past => call'[x].phase \in Past
    BY <1>4, <1>5 DEF Past
  <2>5. call'[r].phase \in Past /\ call'[r].process = Some(p)
    BY <1>2, <1>4, <1>5 DEF Past
  <2>. QED
    BY <2>1, <2>2, <2>3, <2>4, <2>5, <1>4, <1>11, <1>13
<1>17. CleanPipes'
  <2>. SUFFICES ASSUME NEW q \in Processes, Clean(q)'
                PROVE  /\ \A x \in Requests \cup {Torn} :
                            Carries(process'[q].stdin, x) \/ Answers(process'[q].stdout, x) =>
                              holder[q] = Some(x) /\ call'[x].phase = "reading"
                       /\ process'[q].state = "dead" => process'[q].stdin = <<>>
    BY <1>2 DEF CleanPipes
  <2>1. Clean(q)
    BY <1>4 DEF Clean
  <2>2. process'[q].state = "dead" => process'[q].stdin = <<>>
    BY <2>1, <1>2, <1>11 DEF PoolInvariant, CleanPipes
  <2>3. ASSUME NEW x \in Requests \cup {Torn},
               Carries(process'[q].stdin, x) \/ Answers(process'[q].stdout, x)
        PROVE  holder[q] = Some(x) /\ call'[x].phase = "reading"
    <3>1. CASE q = p /\ x = r
      BY <3>1, <1>2, <1>5 DEF PoolInvariant, MutexHeld, Exchanging
    <3>2. CASE ~(q = p /\ x = r)
      <4>1. Carries(process[q].stdin, x) \/ Answers(process[q].stdout, x)
        BY <2>3, <3>2, <1>6, <1>9, <1>11
      <4>2. x \in Requests /\ holder[q] = Some(x) /\ call[x].phase = "reading"
        BY <2>1, <4>1, CleanPipe
      <4>. QED
        BY <4>2, <1>2, <1>4
    <3>. QED
      BY <3>1, <3>2
  <2>. QED
    BY <2>2, <2>3
<1>18. AnswersRead'
  <2>1. \A x : InPipes(x)' => InPipes(x) \/ x = r
    BY <1>6, <1>9, <1>11 DEF InPipes
  <2>2. \A q \in Requests : call[q].answer # Some(r)
    BY <1>2 DEF PoolInvariant, AnswersRead, Past
  <2>3. \A q \in Requests : call[q].phase \in Past => call'[q].phase \in Past
    BY <1>4, <1>5 DEF Past
  <2>. QED
    BY <2>1, <2>2, <2>3, <1>4 DEF PoolInvariant, AnswersRead
<1>19. AnsweredWith'
  BY <1>4, <1>5 DEF PoolInvariant, AnsweredWith
<1>. QED
  BY <1>12, <1>14, <1>15, <1>16, <1>17, <1>18, <1>19 DEF PoolInvariant

\* A frame that is read leaves the pipe, unless it is the rest of a torn one;
\* it is the answer to r when no call gave up on the process.
LEMMA ReadKeeps ==
  ASSUME PoolInvariant, NEW r \in Requests, Read(r)
  PROVE  PoolInvariant'
<1>1. PoolShape
  BY DEF PoolInvariant
<1>2. PICK p \in Processes :
        /\ call[r].phase = "reading" /\ call[r].process = Some(p)
        /\ process[p].stdout # <<>>
        /\ LET frame == Head(process[p].stdout) IN
             /\ call' = [call EXCEPT ![r].phase = IF frame.ok THEN "answered" ELSE "evicting",
                                     ![r].answer = Some(frame.request)]
             /\ \E left \in {Tail(process[p].stdout)} \cup
                             IF frame.request = Torn THEN {process[p].stdout} ELSE {} :
                  process' = Reaped([process EXCEPT ![p].stdout = left], call', workers)
        /\ holder' = [holder EXCEPT ![p] = None]
        /\ workers' = workers /\ unused' = unused
  BY DEF Read
<1>3. PICK t : t = process[p].stdout
  OBVIOUS
<1>4. PICK x : x = Head(t).request
  OBVIOUS
<1>5. PICK left : /\ left = Tail(t) \/ (x = Torn /\ left = t)
                  /\ process' = Reaped([process EXCEPT ![p].stdout = left], call', workers)
  BY <1>2, <1>3, <1>4
<1>6. PICK phase \in {"answered", "evicting"} :
        /\ phase = "answered" <=> Head(t).ok
        /\ call' = [call EXCEPT ![r].phase = phase, ![r].answer = Some(x)]
  BY <1>2, <1>3, <1>4
<1>7. t \in Seq(Frame) /\ t # <<>> /\ OnceOut(t) /\ TornFails(t)
  BY <1>1, <1>2, <1>3, PoolParts DEF PoolInvariant, PipesOrdered
<1>8. PICK rest : rest = Tail(t)
  OBVIOUS
<1>9. /\ rest \in Seq(Frame) /\ Head(t) \in Frame
      /\ \A y : Answers(rest, y) => Answers(t, y)
      /\ Answers(t, x)
      /\ OnceOut(rest) /\ (x # Torn => ~Answers(rest, x))
      /\ TornFails(rest) /\ (x = Torn => ~Head(t).ok)
  BY <1>4, <1>7, <1>8, TailOut
<1>10. /\ left \in Seq(Frame) /\ OnceOut(left) /\ TornFails(left)
       /\ \A y : Answers(left, y) => Answers(t, y)
       /\ x # Torn => ~Answers(left, x)
  BY <1>5, <1>7, <1>8, <1>9
<1>11. x \in Requests \cup {Torn}
  BY <1>4, <1>9 DEF Frame
<1>12. Becomes(r, phase, call[r].process, Some(x), call[r].late)
  <2>1. PICK an : an = Some(x)
    OBVIOUS
  <2>2. /\ call[r].process \in Option(Processes) /\ an \in Option(Requests \cup {Torn})
        /\ 0 \in {0, 1} /\ phase \in Phase
    BY <1>1, <1>11, <2>1, PoolParts DEF Option, Phase
  <2>. QED
    BY <1>1, <1>6, <2>1, <2>2, CallBecomes
<1>13. \A q \in Requests : /\ call'[q].process = call[q].process /\ call'[q].late = call[q].late
                           /\ q # r => call'[q].phase = call[q].phase /\ call'[q].answer = call[q].answer
  BY <1>12 DEF Becomes
<1>14. call'[r].phase = phase /\ call'[r].answer = Some(x)
  BY <1>12 DEF Becomes
<1>15. PICK mid : mid = [process EXCEPT ![p].stdout = left]
  OBVIOUS
<1>16. Piped(process, mid, p, process[p].stdin, left)
  <2>1. process \in [Processes -> Process] /\ <<>> \in Seq(Requests \cup {Torn})
    BY <1>1 DEF PoolShape
  <2>. QED
    BY <1>10, <1>15, <2>1, PipesBecome
<1>17. Killed(mid, process')
  <2>1. mid \in [Processes -> Process]
    BY <1>16 DEF Piped
  <2>. QED
    BY <1>5, <1>15, <2>1, ReapedKills
<1>18. \A q \in Processes :
         /\ process'[q].stdout = IF q = p THEN left ELSE process[q].stdout
         /\ \/ /\ process'[q].stdin = process[q].stdin
               /\ process'[q].state = "dead" => process[q].state = "dead"
            \/ process'[q].stdin = <<>>
  BY <1>16, <1>17 DEF Killed, Piped
<1>19. \A q \in Processes :
         /\ \A y : Carries(process'[q].stdin, y) => Carries(process[q].stdin, y)
         /\ \A y : Answers(process'[q].stdout, y) => Answers(process[q].stdout, y)
         /\ Once(process[q].stdin) => Once(process'[q].stdin)
  BY <1>3, <1>10, <1>18, EmptyPipe
<1>20. \A q \in Processes : holder'[q] = IF q = p THEN None ELSE holder[q]
  BY <1>1, <1>2 DEF PoolShape
<1>21. holder[p] = Some(r)
  BY <1>2, SMTT(60) DEF PoolInvariant, MutexHeld, Exchanging
<1>22. PoolShape'
  <2>1. holder' \in [Processes -> Option(Requests)]
    BY <1>1, <1>2 DEF PoolShape, Option
  <2>. QED
    BY <1>1, <1>2, <1>12, <1>17, <2>1 DEF PoolShape, Becomes, Killed
<1>23. MutexHeld'
  <2>. SUFFICES ASSUME NEW q \in Processes, NEW y \in Requests
                PROVE  (holder'[q] = Some(y)) <=> (call'[y].process = Some(q) /\ call'[y].phase \in Exchanging)
    BY DEF MutexHeld
  <2>1. (holder[q] = Some(y)) <=> (call[y].process = Some(q) /\ call[y].phase \in Exchanging)
    BY SMTT(60) DEF PoolInvariant, MutexHeld
  <2>2. CASE y = r
    BY <2>1, <2>2, <1>2, <1>6, <1>13, <1>14, <1>20, OptionDistinct DEF Exchanging
  <2>3. CASE y # r
    <3>1. call'[y].process = call[y].process /\ call'[y].phase = call[y].phase
      BY <2>3, <1>13
    <3>2. CASE q = p
      BY <2>1, <2>3, <3>1, <3>2, <1>20, <1>21, OptionDistinct
    <3>3. CASE q # p
      BY <2>1, <3>1, <3>3, <1>20
    <3>. QED
      BY <3>2, <3>3
  <2>. QED
    BY <2>2, <2>3
<1>24. call[r].late # 1
  BY <1>2 DEF PoolInvariant, LateIsOver
<1>25. LateIsOver'
  BY <1>13, <1>24 DEF PoolInvariant, LateIsOver
<1>26. \A y \in Requests : call[y].phase \in Past => call'[y].phase \in Past
  BY <1>6, <1>13, <1>14 DEF Past
<1>27. PipesOrdered'
  <2>. SUFFICES ASSUME NEW q \in Processes
                PROVE  /\ Once(process'[q].stdin) /\ OnceOut(process'[q].stdout)
                       /\ TornFails(process'[q].stdout)
                       /\ \A y \in Requests : ~(Carries(process'[q].stdin, y) /\ Answers(process'[q].stdout, y))
                       /\ \A y \in Requests : Carries(process'[q].stdin, y) \/ Answers(process'[q].stdout, y) =>
                            call'[y].process = Some(q) /\ call'[y].phase \in Past
    BY DEF PipesOrdered
  <2>1. /\ Once(process[q].stdin) /\ OnceOut(process[q].stdout) /\ TornFails(process[q].stdout)
        /\ \A y \in Requests : ~(Carries(process[q].stdin, y) /\ Answers(process[q].stdout, y))
        /\ \A y \in Requests : Carries(process[q].stdin, y) \/ Answers(process[q].stdout, y) =>
             call[y].process = Some(q) /\ call[y].phase \in Past
    BY DEF PoolInvariant, PipesOrdered
  <2>2. OnceOut(process'[q].stdout) /\ TornFails(process'[q].stdout)
    BY <2>1, <1>10, <1>18
  <2>. QED
    BY <2>1, <2>2, <1>13, <1>19, <1>26
<1>28. Clean(p) => x = r
  BY <1>3, <1>9, <1>11, <1>21, CleanPipe, OptionDistinct
<1>29. x # Torn => /\ x \in Requests
                   /\ call[x].process = Some(p) /\ call[x].phase \in Past
                   /\ ~Carries(process[p].stdin, x)
                   /\ InPipes(x) /\ ~InPipes(x)'
  <2>1. SUFFICES ASSUME x # Torn
                 PROVE  /\ x \in Requests
                        /\ call[x].process = Some(p) /\ call[x].phase \in Past
                        /\ ~Carries(process[p].stdin, x)
                        /\ InPipes(x) /\ ~InPipes(x)'
    OBVIOUS
  <2>2. x \in Requests /\ Answers(process[p].stdout, x)
    BY <2>1, <1>3, <1>9, <1>11
  <2>3. call[x].process = Some(p) /\ call[x].phase \in Past /\ ~Carries(process[p].stdin, x)
    BY <2>2 DEF PoolInvariant, PipesOrdered
  <2>4. InPipes(x)
    BY <2>2 DEF InPipes
  <2>5. \A q \in Processes : q # p => ~Carries(process[q].stdin, x) /\ ~Answers(process[q].stdout, x)
    BY <2>2, <2>3, OptionDistinct DEF PoolInvariant, PipesOrdered
  <2>6. ~Answers(process'[p].stdout, x)
    BY <2>1, <1>10, <1>18
  <2>7. ~InPipes(x)'
    BY <2>3, <2>5, <2>6, <1>19 DEF InPipes
  <2>. QED
    BY <2>2, <2>3, <2>4, <2>7
<1>30. CleanPipes'
  <2>. SUFFICES ASSUME NEW q \in Processes, Clean(q)'
                PROVE  /\ \A y \in Requests \cup {Torn} :
                            Carries(process'[q].stdin, y) \/ Answers(process'[q].stdout, y) =>
                              holder'[q] = Some(y) /\ call'[y].phase = "reading"
                       /\ process'[q].state = "dead" => process'[q].stdin = <<>>
    BY DEF CleanPipes
  <2>1. Clean(q)
    BY <1>13 DEF Clean
  <2>2. process'[q].state = "dead" => process'[q].stdin = <<>>
    BY <2>1, <1>18 DEF PoolInvariant, CleanPipes
  <2>3. ASSUME NEW y \in Requests \cup {Torn},
               Carries(process'[q].stdin, y) \/ Answers(process'[q].stdout, y)
        PROVE  holder'[q] = Some(y) /\ call'[y].phase = "reading"
    <3>1. Carries(process[q].stdin, y) \/ Answers(process[q].stdout, y)
      BY <2>3, <1>19
    <3>2. y \in Requests /\ holder[q] = Some(y) /\ call[y].phase = "reading"
      BY <2>1, <3>1, CleanPipe
    <3>3. q # p
      <4>1. SUFFICES ASSUME q = p PROVE FALSE
        OBVIOUS
      <4>2. y = r /\ x = r
        BY <4>1, <3>2, <2>1, <1>21, <1>28, OptionDistinct
      <4>3. x # Torn
        BY <4>2, PoolAssumption
      <4>4. ~InPipes(y)'
        BY <4>2, <4>3, <1>29
      <4>. QED
        BY <4>4, <2>3 DEF InPipes
    <3>4. y # r
      BY <3>2, <3>3, <1>2, OptionDistinct DEF PoolInvariant, MutexHeld
    <3>. QED
      BY <3>2, <3>3, <3>4, <1>13, <1>20
  <2>. QED
    BY <2>2, <2>3
<1>31. AnswersRead'
  <2>. SUFFICES ASSUME NEW q \in Requests, NEW y \in Requests, call'[q].answer = Some(y)
                PROVE  /\ call'[y].phase \in Past /\ ~InPipes(y)'
                       /\ \A w \in Requests : call'[w].answer = Some(y) => w = q
    BY DEF AnswersRead
  <2>0. \A z : InPipes(z)' => InPipes(z)
    BY <1>19 DEF InPipes
  <2>1. CASE q = r
    <3>1. y = x /\ x # Torn
      BY <2>1, <1>14, OptionDistinct, PoolAssumption
    <3>2. \A w \in Requests : call[w].answer # Some(y)
      BY <3>1, <1>29 DEF PoolInvariant, AnswersRead
    <3>. QED
      BY <2>1, <3>1, <3>2, <1>13, <1>26, <1>29
  <2>2. CASE q # r
    <3>1. call[q].answer = Some(y)
      BY <2>2, <1>13
    <3>2. /\ call[y].phase \in Past /\ ~InPipes(y)
          /\ \A w \in Requests : call[w].answer = Some(y) => w = q
      BY <3>1 DEF PoolInvariant, AnswersRead
    <3>3. y # x
      BY <3>2, <1>29, PoolAssumption
    <3>. QED
      BY <2>0, <3>2, <3>3, <1>13, <1>14, <1>26, OptionDistinct
  <2>. QED
    BY <2>1, <2>2
<1>32. AnsweredWith'
  <2>. SUFFICES ASSUME NEW q \in Requests, call'[q].phase = "answered"
                PROVE  /\ \E y \in Requests : call'[q].answer = Some(y)
                       /\ call'[q].answer = Some(q) \/ \E w \in Requests \ {q} :
                            call'[w].late = 1 /\ call'[w].process = call'[q].process
    BY DEF AnsweredWith
  <2>1. CASE q # r
    BY <2>1, <1>13 DEF PoolInvariant, AnsweredWith
  <2>2. CASE q = r
    <3>1. x \in Requests
      BY <2>2, <1>6, <1>9, <1>11, <1>14
    <3>2. CASE Clean(p)
      BY <2>2, <3>1, <3>2, <1>14, <1>28
    <3>3. CASE ~Clean(p)
      <4>1. PICK w \in Requests : call[w].process = Some(p) /\ call[w].late # 0
        BY <3>3 DEF Clean
      <4>2. call[w].late = 1
        BY <4>1, <1>1, PoolParts
      <4>. QED
        <5>1. w # r /\ call[r].process = Some(p)
          BY <4>2, <1>2, <1>24
        <5>2. call'[w].late = 1 /\ call'[w].process = call'[r].process
          BY <4>1, <4>2, <5>1, <1>13
        <5>. QED
          BY <2>2, <3>1, <5>1, <5>2, <1>14
    <3>. QED
      BY <3>2, <3>3
  <2>. QED
    BY <2>1, <2>2
<1>. QED
  BY <1>22, <1>23, <1>25, <1>27, <1>30, <1>31, <1>32 DEF PoolInvariant

\* The process of a call that gives up is clean no more: what the call leaves
\* in the pipes binds only the requests that were in them.
LEMMA DeadlineKeeps ==
  ASSUME PoolInvariant, NEW r \in Requests, DeadlinePasses(r)
  PROVE  PoolInvariant'
<1>1. PoolShape
  BY DEF PoolInvariant
<1>2. PICK p \in Processes :
        /\ call[r].phase \in {"waiting", "writing", "reading"} /\ call[r].process = Some(p)
        /\ call' = [call EXCEPT ![r].phase = "evicting", ![r].late = 1]
        /\ holder' = [holder EXCEPT ![p] = IF @ = Some(r) THEN None ELSE @]
        /\ \/ process' = process
           \/ process' = [process EXCEPT ![p].stdin = Append(@, Torn)]
           \/ /\ process[p].stdout # <<>>
              /\ process' = [process EXCEPT ![p].stdout[1] = [request |-> Torn, ok |-> FALSE]]
        /\ workers' = workers /\ unused' = unused
  BY DEF DeadlinePasses
<1>3. Becomes(r, "evicting", call[r].process, call[r].answer, 1)
  <2>1. /\ call[r].process \in Option(Processes) /\ None \in Option(Requests \cup {Torn})
        /\ 1 \in {0, 1} /\ "evicting" \in Phase
    BY <1>1, PoolParts DEF Option, Phase
  <2>. QED
    BY <1>1, <1>2, <2>1, CallBecomes
<1>4. \A q \in Requests : /\ call'[q].process = call[q].process /\ call'[q].answer = call[q].answer
                          /\ q # r => call'[q].phase = call[q].phase /\ call'[q].late = call[q].late
  BY <1>3 DEF Becomes
<1>5. call'[r].phase = "evicting" /\ call'[r].late = 1
  BY <1>3 DEF Becomes
<1>6. process \in [Processes -> Process]
  BY <1>1 DEF PoolShape
<1>7. /\ process' \in [Processes -> Process]
      /\ \A q \in Processes : q # p => process'[q] = process[q]
      /\ \A y \in Requests : /\ Carries(process'[p].stdin, y) => Carries(process[p].stdin, y)
                             /\ Answers(process'[p].stdout, y) => Answers(process[p].stdout, y)
      /\ Once(process[p].stdin) => Once(process'[p].stdin)
      /\ OnceOut(process[p].stdout) => OnceOut(process'[p].stdout)
      /\ TornFails(process[p].stdout) => TornFails(process'[p].stdout)
  <2>0. PICK s, t : s = process[p].stdin /\ t = process[p].stdout
    OBVIOUS
  <2>1. s \in Seq(Requests \cup {Torn}) /\ t \in Seq(Frame) /\ Torn \notin Requests
    BY <2>0, <1>1, PoolParts, PoolAssumption
  <2>2. CASE process' = process
    BY <2>2, <1>6
  <2>3. CASE process' = [process EXCEPT ![p].stdin = Append(@, Torn)]
    <3>1. PICK n : n = Append(s, Torn)
      OBVIOUS
    <3>2. /\ n \in Seq(Requests \cup {Torn})
          /\ \A y : Carries(n, y) <=> Carries(s, y) \/ y = Torn
          /\ Once(s) => Once(n)
      BY <2>1, <3>1, AppendIn
    <3>3. process' = [process EXCEPT ![p].stdin = n]
      BY <2>0, <2>3, <3>1
    <3>4. Piped(process, process', p, n, process[p].stdout)
      BY <1>6, <2>1, <3>2, <3>3, PipesBecome
    <3>. QED
      BY <2>0, <2>1, <3>2, <3>4 DEF Piped
  <2>4. CASE /\ process[p].stdout # <<>>
             /\ process' = [process EXCEPT ![p].stdout[1] = [request |-> Torn, ok |-> FALSE]]
    <3>1. PICK n : n = [t EXCEPT ![1] = [request |-> Torn, ok |-> FALSE]]
      OBVIOUS
    <3>2. /\ n \in Seq(Frame)
          /\ \A y : Answers(n, y) /\ y # Torn => Answers(t, y)
          /\ OnceOut(t) => OnceOut(n)
          /\ TornFails(t) => TornFails(n)
      BY <2>0, <2>1, <2>4, <3>1, TearOut
    <3>3. process' = [process EXCEPT ![p].stdout = n]
      BY <2>0, <2>4, <3>1
    <3>4. Piped(process, process', p, process[p].stdin, n)
      BY <1>6, <2>0, <2>1, <3>2, <3>3, PipesBecome
    <3>. QED
      BY <2>0, <2>1, <3>2, <3>4 DEF Piped
  <2>. QED
    BY <2>2, <2>3, <2>4, <1>2
<1>8. \A q \in Processes : holder'[q] = IF q = p /\ holder[q] = Some(r) THEN None ELSE holder[q]
  BY <1>1, <1>2 DEF PoolShape
<1>9. PoolShape'
  <2>1. holder' \in [Processes -> Option(Requests)]
    BY <1>1, <1>2 DEF PoolShape, Option
  <2>. QED
    BY <1>1, <1>2, <1>3, <1>7, <2>1 DEF PoolShape, Becomes
<1>10. MutexHeld'
  <2>. SUFFICES ASSUME NEW q \in Processes, NEW y \in Requests
                PROVE  (holder'[q] = Some(y)) <=> (call'[y].process = Some(q) /\ call'[y].phase \in Exchanging)
    BY DEF MutexHeld
  <2>1. (holder[q] = Some(y)) <=> (call[y].process = Some(q) /\ call[y].phase \in Exchanging)
    BY DEF PoolInvariant, MutexHeld
  <2>2. CASE y = r
    <3>1. call'[r].phase \notin Exchanging /\ call[r].process = Some(p)
      BY <1>2, <1>5 DEF Exchanging
    <3>2. holder'[q] # Some(r)
      BY <2>1, <2>2, <3>1, <1>8, OptionDistinct
    <3>. QED
      BY <2>2, <3>1, <3>2
  <2>3. CASE y # r
    <3>1. call'[y].process = call[y].process /\ call'[y].phase = call[y].phase
      BY <2>3, <1>4
    <3>2. (holder'[q] = Some(y)) <=> (holder[q] = Some(y))
      BY <2>3, <1>8, OptionDistinct
    <3>. QED
      BY <2>1, <3>1, <3>2
  <2>. QED
    BY <2>2, <2>3
<1>11. LateIsOver'
  BY <1>4, <1>5 DEF PoolInvariant, LateIsOver
<1>12. \A y \in Requests : call[y].phase \in Past => call'[y].phase \in Past
  BY <1>4, <1>5 DEF Past
<1>13. PipesOrdered'
  <2>. SUFFICES ASSUME NEW q \in Processes
                PROVE  /\ Once(process'[q].stdin) /\ OnceOut(process'[q].stdout)
                       /\ TornFails(process'[q].stdout)
                       /\ \A y \in Requests : ~(Carries(process'[q].stdin, y) /\ Answers(process'[q].stdout, y))
                       /\ \A y \in Requests : Carries(process'[q].stdin, y) \/ Answers(process'[q].stdout, y) =>
                            call'[y].process = Some(q) /\ call'[y].phase \in Past
    BY DEF PipesOrdered
  <2>1. /\ Once(process[q].stdin) /\ OnceOut(process[q].stdout) /\ TornFails(process[q].stdout)
        /\ \A y \in Requests : ~(Carries(process[q].stdin, y) /\ Answers(process[q].stdout, y))
        /\ \A y \in Requests : Carries(process[q].stdin, y) \/ Answers(process[q].stdout, y) =>
             call[y].process = Some(q) /\ call[y].phase \in Past
    BY DEF PoolInvariant, PipesOrdered
  <2>2. CASE q = p
    BY <2>1, <2>2, <1>4, <1>7, <1>12
  <2>3. CASE q # p
    BY <2>1, <2>3, <1>4, <1>7, <1>12
  <2>. QED
    BY <2>2, <2>3
<1>14. CleanPipes'
  <2>. SUFFICES ASSUME NEW q \in Processes, Clean(q)'
                PROVE  /\ \A y \in Requests \cup {Torn} :
                            Carries(process'[q].stdin, y) \/ Answers(process'[q].stdout, y) =>
                              holder'[q] = Some(y) /\ call'[y].phase = "reading"
                       /\ process'[q].state = "dead" => process'[q].stdin = <<>>
    BY DEF CleanPipes
  <2>1. q # p
    <3>1. call'[r].process = Some(p)
      BY <1>2, <1>4
    <3>. QED
      BY <3>1, <1>5 DEF Clean
  <2>2. process'[q] = process[q]
    BY <2>1, <1>7
  <2>3. Clean(q)
    <3>. SUFFICES ASSUME NEW y \in Requests, call[y].process = Some(q) PROVE call[y].late = 0
      BY DEF Clean
    <3>1. y # r
      BY <2>1, <1>2, OptionDistinct
    <3>. QED
      BY <3>1, <1>4 DEF Clean
  <2>4. ASSUME NEW y \in Requests \cup {Torn},
               Carries(process'[q].stdin, y) \/ Answers(process'[q].stdout, y)
        PROVE  holder'[q] = Some(y) /\ call'[y].phase = "reading"
    <3>1. y \in Requests /\ holder[q] = Some(y) /\ call[y].phase = "reading"
      BY <2>2, <2>3, <2>4, CleanPipe
    <3>2. call[y].process = Some(q)
      BY <3>1 DEF PoolInvariant, MutexHeld
    <3>3. y # r
      BY <2>1, <3>2, <1>2, OptionDistinct
    <3>. QED
      BY <2>1, <3>1, <3>3, <1>4, <1>8
  <2>5. process[q].state = "dead" => process[q].stdin = <<>>
    BY <2>3 DEF PoolInvariant, CleanPipes
  <2>. QED
    BY <2>2, <2>4, <2>5
<1>15. AnswersRead'
  <2>1. \A y \in Requests : InPipes(y)' => InPipes(y)
    BY <1>7 DEF InPipes
  <2>. QED
    BY <2>1, <1>4, <1>12 DEF PoolInvariant, AnswersRead
<1>16. AnsweredWith'
  <2>. SUFFICES ASSUME NEW q \in Requests, call'[q].phase = "answered"
                PROVE  /\ \E y \in Requests : call'[q].answer = Some(y)
                       /\ call'[q].answer = Some(q) \/ \E w \in Requests \ {q} :
                            call'[w].late = 1 /\ call'[w].process = call'[q].process
    BY DEF AnsweredWith
  <2>1. call[q].phase = "answered"
    BY <1>4, <1>5
  <2>2. \A w \in Requests : call[w].late = 1 => call'[w].late = 1
    BY <1>4, <1>5
  <2>. QED
    BY <2>1, <2>2, <1>4 DEF PoolInvariant, AnsweredWith
<1>. QED
  BY <1>9, <1>10, <1>11, <1>13, <1>14, <1>15, <1>16 DEF PoolInvariant

-----------------------------------------------------------------------------
(* The steps of the workers.                                                 *)

\* A request moves from one pipe of its process to the other.
LEMMA ServeKeeps ==
  ASSUME PoolInvariant, NEW p \in Processes, Serve(p)
  PROVE  PoolInvariant'
<1>1. PoolShape
  BY DEF PoolInvariant
<1>2. call' = call /\ workers' = workers /\ holder' = holder /\ unused' = unused
  BY DEF Serve
<1>3. PICK s, t : s = process[p].stdin /\ t = process[p].stdout
  OBVIOUS
<1>4. PICK x : x = Head(s)
  OBVIOUS
<1>5. PICK ok \in BOOLEAN :
        process' = [process EXCEPT ![p].stdin = Tail(@),
                                   ![p].stdout = Append(@, [request |-> Head(process[p].stdin),
                                                            ok |-> ok])]
  BY DEF Serve
<1>6. PICK f : f = [request |-> x, ok |-> ok]
  OBVIOUS
<1>7. PICK in, out : in = Tail(s) /\ out = Append(t, f)
  OBVIOUS
<1>8. /\ s \in Seq(Requests \cup {Torn}) /\ t \in Seq(Frame) /\ s # <<>> /\ x # Torn
      /\ Once(s) /\ OnceOut(t) /\ TornFails(t)
  <2>1. s \in Seq(Requests \cup {Torn}) /\ t \in Seq(Frame)
    BY <1>1, <1>3, PoolParts
  <2>2. s # <<>> /\ x # Torn
    BY <1>3, <1>4 DEF Serve
  <2>3. Once(s) /\ OnceOut(t) /\ TornFails(t)
    BY <1>3 DEF PoolInvariant, PipesOrdered
  <2>. QED
    BY <2>1, <2>2, <2>3
<1>9. /\ in \in Seq(Requests \cup {Torn}) /\ x \in Requests \cup {Torn}
      /\ \A y : Carries(in, y) => Carries(s, y)
      /\ Carries(s, x) /\ Once(in) /\ ~Carries(in, x)
  BY <1>4, <1>7, <1>8, TailIn
<1>10. x \in Requests
  BY <1>8, <1>9
<1>11. f.request = x
  BY <1>6
<1>12. f \in Frame
  BY <1>6, <1>10 DEF Frame
<1>13. ~Answers(t, x)
  BY <1>3, <1>9, <1>10 DEF PoolInvariant, PipesOrdered
<1>14. /\ out \in Seq(Frame)
       /\ \A y : Answers(out, y) <=> Answers(t, y) \/ y = x
       /\ OnceOut(out) /\ TornFails(out)
  BY <1>7, <1>8, <1>11, <1>12, <1>13, AppendOut
<1>15. Piped(process, process', p, in, out)
  <2>1. process \in [Processes -> Process]
    BY <1>1 DEF PoolShape
  <2>2. process' = [process EXCEPT ![p].stdin = in, ![p].stdout = out]
    <3>1. process' = [process EXCEPT ![p].stdin = Tail(@), ![p].stdout = Append(@, f)]
      BY <1>3, <1>4, <1>5, <1>6
    <3>2. /\ in = Tail(process[p].stdin) /\ out = Append(process[p].stdout, f)
          /\ DOMAIN process = Processes
      BY <1>3, <1>7, <2>1
    <3>. QED
      BY <2>1, <3>1, <3>2
  <2>. QED
    BY <1>9, <1>14, <2>1, <2>2, PipesBecome
<1>16. /\ process' \in [Processes -> Process]
       /\ process'[p].stdin = in /\ process'[p].stdout = out /\ process'[p].state = process[p].state
       /\ \A q \in Processes : q # p => process'[q] = process[q]
  BY <1>15 DEF Piped
<1>17. PoolShape'
  BY <1>1, <1>2, <1>16 DEF PoolShape
<1>18. MutexHeld' /\ LateIsOver' /\ AnsweredWith'
  BY <1>2 DEF PoolInvariant, MutexHeld, LateIsOver, AnsweredWith
<1>19. \A q \in Processes : \A y :
         Carries(process'[q].stdin, y) \/ Answers(process'[q].stdout, y) =>
           Carries(process[q].stdin, y) \/ Answers(process[q].stdout, y)
  <2>. SUFFICES ASSUME NEW q \in Processes, NEW y,
                       Carries(process'[q].stdin, y) \/ Answers(process'[q].stdout, y)
                PROVE  Carries(process[q].stdin, y) \/ Answers(process[q].stdout, y)
    OBVIOUS
  <2>1. CASE q = p
    BY <2>1, <1>3, <1>9, <1>14, <1>16
  <2>2. CASE q # p
    BY <2>2, <1>16
  <2>. QED
    BY <2>1, <2>2
<1>20. PipesOrdered'
  <2>. SUFFICES ASSUME NEW q \in Processes
                PROVE  /\ Once(process'[q].stdin) /\ OnceOut(process'[q].stdout)
                       /\ TornFails(process'[q].stdout)
                       /\ \A y \in Requests : ~(Carries(process'[q].stdin, y) /\ Answers(process'[q].stdout, y))
                       /\ \A y \in Requests : Carries(process'[q].stdin, y) \/ Answers(process'[q].stdout, y) =>
                            call[y].process = Some(q) /\ call[y].phase \in Past
    BY <1>2 DEF PipesOrdered
  <2>1. /\ Once(process[q].stdin) /\ OnceOut(process[q].stdout) /\ TornFails(process[q].stdout)
        /\ \A y \in Requests : ~(Carries(process[q].stdin, y) /\ Answers(process[q].stdout, y))
        /\ \A y \in Requests : Carries(process[q].stdin, y) \/ Answers(process[q].stdout, y) =>
             call[y].process = Some(q) /\ call[y].phase \in Past
    BY DEF PoolInvariant, PipesOrdered
  <2>2. CASE q = p
    <3>1. \A y \in Requests : ~(Carries(in, y) /\ Answers(out, y))
      BY <2>1, <2>2, <1>3, <1>9, <1>14
    <3>. QED
      BY <2>1, <2>2, <3>1, <1>9, <1>14, <1>16, <1>19
  <2>3. CASE q # p
    BY <2>1, <2>3, <1>16
  <2>. QED
    BY <2>2, <2>3
<1>21. CleanPipes'
  <2>. SUFFICES ASSUME NEW q \in Processes, Clean(q)
                PROVE  /\ \A y \in Requests \cup {Torn} :
                            Carries(process'[q].stdin, y) \/ Answers(process'[q].stdout, y) =>
                              holder[q] = Some(y) /\ call[y].phase = "reading"
                       /\ process'[q].state = "dead" => process'[q].stdin = <<>>
    BY <1>2 DEF CleanPipes, Clean
  <2>1. \A y \in Requests \cup {Torn} :
          Carries(process'[q].stdin, y) \/ Answers(process'[q].stdout, y) =>
            holder[q] = Some(y) /\ call[y].phase = "reading"
    BY <1>19, CleanPipe
  <2>2. process[q].state = "dead" => process[q].stdin = <<>>
    BY DEF PoolInvariant, CleanPipes
  <2>3. process[p].state # "dead"
    BY DEF Serve
  <2>. QED
    BY <2>1, <2>2, <2>3, <1>16
<1>22. AnswersRead'
  <2>1. \A y \in Requests : InPipes(y)' => InPipes(y)
    BY <1>19 DEF InPipes
  <2>. QED
    BY <2>1, <1>2 DEF PoolInvariant, AnswersRead
<1>. QED
  BY <1>17, <1>18, <1>20, <1>21, <1>22 DEF PoolInvariant

\* A worker that dies reads no more; nothing else changes.
LEMMA DieKeeps ==
  ASSUME PoolInvariant, Killed(process, process'), call' = call, holder' = holder,
         workers' = workers, unused' \subseteq Processes
  PROVE  PoolInvariant'
<1>1. PoolShape
  BY DEF PoolInvariant
<1>2. PoolShape'
  BY <1>1 DEF PoolShape, Killed
<1>3. MutexHeld' /\ LateIsOver' /\ AnsweredWith'
  BY DEF PoolInvariant, MutexHeld, LateIsOver, AnsweredWith
<1>4. PipesOrdered'
  BY <1>1, KilledPipes DEF PoolInvariant, PipesOrdered
<1>5. CleanPipes'
  BY <1>1, KilledPipes DEF PoolInvariant, CleanPipes, Clean
<1>6. AnswersRead'
  <2>1. \A y : InPipes(y)' => InPipes(y)
    BY <1>1, KilledPipes DEF InPipes
  <2>. QED
    BY <2>1 DEF PoolInvariant, AnswersRead
<1>. QED
  BY <1>2, <1>3, <1>4, <1>5, <1>6 DEF PoolInvariant

\* Every step of the pool keeps the invariant.
LEMMA PoolSteps ==
  ASSUME PoolInvariant, [PoolNext]_poolVars
  PROVE  PoolInvariant'
<1>1. process \in [Processes -> Process] /\ unused \subseteq Processes
  BY DEF PoolInvariant, PoolShape
<1>2. Killed(process, process)
  BY <1>1 DEF Killed
<1>3. CASE UNCHANGED poolVars
  BY <1>1, <1>2, <1>3, DieKeeps DEF poolVars
<1>4. ASSUME NEW r \in Requests, CallNext(r) \/ DeadlinePasses(r)
      PROVE  PoolInvariant'
  BY <1>4, AcquireKeeps, UseKeeps, SpawnKeeps, RefuseKeeps, LockKeeps, WriteKeeps, BreakKeeps,
     ReadKeeps, DeadlineKeeps DEF CallNext
<1>5. ASSUME NEW p \in Processes, Misread(p) \/ Die(p)
      PROVE  PoolInvariant'
  <2>1. PICK w \in Process : w = process[p]
    BY <1>1
  <2>2. PICK n : n = Dead(w)
    OBVIOUS
  <2>3. n \in Process /\ n.stdin = <<>> /\ n.stdout = w.stdout
    BY <2>2, DeadIsProcess
  <2>4. /\ process' = [process EXCEPT ![p] = n]
        /\ call' = call /\ workers' = workers /\ holder' = holder /\ unused' = unused
    BY <1>5, <2>1, <2>2 DEF Misread, Die
  <2>5. Killed(process, process')
    <3>1. process' \in [Processes -> Process]
      BY <1>1, <2>3, <2>4
    <3>2. \A q \in Processes : process'[q] = IF q = p THEN n ELSE process[q]
      BY <1>1, <2>4
    <3>. QED
      BY <2>1, <2>3, <3>1, <3>2 DEF Killed
  <2>. QED
    BY <1>1, <2>4, <2>5, DieKeeps
<1>6. ASSUME NEW p \in Processes, IdleTtlPasses(p)
      PROVE  PoolInvariant'
  BY <1>1, <1>2, <1>6, DieKeeps DEF IdleTtlPasses
<1>. QED
  BY <1>3, <1>4, <1>5, <1>6, ServeKeeps DEF PoolNext

\* The invariant implies the property.
LEMMA PoolSound ==
  ASSUME PoolInvariant
  PROVE  AnswersSound
<1>1. PoolShape
  BY DEF PoolInvariant
<1>2. PoolTypeOK
  BY <1>1, PoolParts DEF PoolTypeOK, PoolShape
<1>3. \A r \in Requests : call[r].phase = "answered" /\ call[r].answer # Some(r) =>
        \E q \in Requests \ {r} : call[q].late = 1 /\ call[q].process = call[r].process
  BY DEF PoolInvariant, AnsweredWith
<1>4. AnswersDistinct
  <2>. SUFFICES ASSUME NEW r \in Requests, NEW q \in Requests, r # q,
                       call[r].phase = "answered", call[q].phase = "answered",
                       call[r].answer = call[q].answer
                PROVE  FALSE
    BY DEF AnswersDistinct
  <2>1. PICK x \in Requests : call[r].answer = Some(x)
    BY DEF PoolInvariant, AnsweredWith
  <2>. QED
    BY <2>1 DEF PoolInvariant, AnswersRead
<1>. QED
  BY <1>2, <1>3, <1>4 DEF AnswersSound

\* A call of execute gets the answer to another request only after some other
\* call gave up on the same worker, and no answer is returned by two calls:
\* however permits, evictions, generations, deadlines, torn frames and dying
\* workers interleave, for every number of calls, processes and routes.
THEOREM AnswersAreSound ==
  PoolSpec => []AnswersSound
<1>1. PoolInit => PoolInvariant
  BY PoolStarts
<1>2. PoolInvariant /\ [PoolNext]_poolVars => PoolInvariant'
  BY PoolSteps
<1>3. PoolInvariant => AnswersSound
  BY PoolSound
<1>. QED
  BY <1>1, <1>2, <1>3, PTL DEF PoolSpec
=============================================================================
