-------------------------- MODULE MigrationsProofs --------------------------
(***************************************************************************)
(* Theorems about Migrations, for any number of processes and any builds.  *)
(***************************************************************************)
EXTENDS Migrations, TLAPS

(* Process p, and no other, comes to r *)
Moves(p, r) ==
  /\ DOMAIN proc' = Processes
  /\ proc' = [q \in Processes |-> proc'[q]]
  /\ proc'[p] = r
  /\ \A q \in Processes \ {p} : proc'[q] = proc[q]

(* A jump of open() or open_existing(). *)
LEMMA GotoMoves ==
  ASSUME MTypeOK, NEW p \in Processes, NEW a \in Places, Goto(p, a)
  PROVE  Moves(p, [build |-> proc[p].build, at |-> a, next |-> proc[p].next])
BY DEF MTypeOK, Goto, Moves

(* A jump that also sets the next migration. *)
LEMMA JumpMoves ==
  ASSUME MTypeOK, NEW p \in Processes, NEW a \in Places, NEW n \in Nat,
         proc' = [proc EXCEPT ![p].at = a, ![p].next = n]
  PROVE  Moves(p, [build |-> proc[p].build, at |-> a, next |-> n])
BY DEF MTypeOK, Moves

(* The next round of the loop over MIGRATIONS. *)
LEMMA LoopMoves ==
  ASSUME MTypeOK, NEW p \in Processes, NEW n \in Nat, proc' = [proc EXCEPT ![p].next = n]
  PROVE  Moves(p, [build |-> proc[p].build, at |-> proc[p].at, next |-> n])
BY DEF MTypeOK, Moves

(* What makes the properties inductive: in the course of open() the migrations   *)
(* before the next one have been found or made to agree with the build.     *)
MigratedSoFar ==
  \A p \in Processes :
    /\ proc[p].at \in {"create", "max", "check", "apply"} =>
         \A v \in 1..(proc[p].next - 1) :
           v \in DOMAIN applied /\ applied[v] = proc[p].build[v]
    /\ At(p, "apply") => proc[p].next <= Supported(p)

MInv == MTypeOK /\ SchemaIsRecorded /\ OpenedSchemaAgrees /\ MigratedSoFar

(* The greatest recorded version is the number of migrations executed       *)
(* (COALESCE(MAX(version), 0) in migrate and require_current).              *)
LEMMA VersionIsLength ==
  ASSUME NEW n \in Nat, DOMAIN applied = 1..n
  PROVE  CurrentVersion = n
<1> DEFINE S == {0} \cup 1..n
<1>1. n \in S /\ \A y \in S : n >= y
  OBVIOUS
<1>2. \A x \in S : (\A y \in S : x >= y) => x = n
  OBVIOUS
<1>3. (CHOOSE x \in S : \A y \in S : x >= y) = n
  <2> HIDE DEF S
  <2> QED BY <1>1, <1>2
<1> QED BY <1>3 DEF CurrentVersion, Max

(* An opener knows at least one migration, and each has a checksum. *)
LEMMA BuildTypes ==
  ASSUME MTypeOK, NEW p \in Processes
  PROVE  /\ proc[p].build \in Seq(Checksums)
         /\ Supported(p) \in Nat
         /\ proc[p].next \in 1..(Supported(p) + 1)
         /\ \A v \in 1..Supported(p) : proc[p].build[v] \in Checksums
BY MigrationsAssumption DEF MTypeOK, Supported

(* A new database file, and no process in open(). *)
LEMMA MInitInv == MInit => MInv
<1> SUFFICES ASSUME MInit PROVE MInv
  OBVIOUS
<1>1. \A b \in Builds : Len(b) \in Nat
  BY MigrationsAssumption
<1>2. MTypeOK
  <2>1. proc \in [Processes -> [build : Builds, at : Places, next : Nat]]
    BY DEF MInit, Places
  <2>2. \A p \in Processes : proc[p].next \in 1..(Len(proc[p].build) + 1)
    BY <1>1 DEF MInit
  <2>3. faults \in 0..MaxFaults
    BY MigrationsAssumption DEF MInit
  <2>4. schema \in Seq(Checksums)
    BY DEF MInit
  <2>5. hasTable \in BOOLEAN
    BY Zenon DEF MInit
  <2>6. DOMAIN applied = {}
    BY DEF MInit
  <2> QED BY <2>1, <2>2, <2>3, <2>4, <2>5, <2>6 DEF MTypeOK
<1>3. SchemaIsRecorded
  BY DEF MInit, SchemaIsRecorded
<1>4. OpenedSchemaAgrees /\ MigratedSoFar
  BY DEF MInit, OpenedSchemaAgrees, MigratedSoFar, At
<1> QED BY <1>2, <1>3, <1>4 DEF MInv

(* A step of one process that leaves the tables alone keeps the invariant   *)
(* if its own part of it holds afterwards.                                  *)
LEMMA LocalStep ==
  ASSUME MInv, NEW p \in Processes,
         NEW r \in [build : Builds, at : Places, next : Nat],
         Moves(p, r),
         UNCHANGED <<applied, schema>>,
         hasTable' \in BOOLEAN, faults' \in 0..MaxFaults,
         r.next \in 1..(Len(r.build) + 1),
         r.at \in {"create", "max", "check", "apply"} =>
           \A v \in 1..(r.next - 1) : v \in DOMAIN applied /\ applied[v] = r.build[v],
         r.at = "apply" => r.next <= Len(r.build),
         r.at = "open" =>
           \A v \in 1..Len(r.build) : v \in DOMAIN applied /\ applied[v] = r.build[v],
         r.at = "reading" => CurrentVersion >= Len(r.build)
  PROVE  MInv'
<1>1. /\ proc' \in [Processes -> [build : Builds, at : Places, next : Nat]]
      /\ proc'[p] = r
      /\ \A q \in Processes \ {p} : proc'[q] = proc[q]
  BY DEF MInv, MTypeOK, Moves
<1>2. MTypeOK'
  BY <1>1 DEF MInv, MTypeOK
<1>3. SchemaIsRecorded'
  BY DEF MInv, SchemaIsRecorded
<1>4. CurrentVersion' = CurrentVersion
  BY DEF CurrentVersion
<1>5. OpenedSchemaAgrees'
  BY <1>1, <1>4 DEF MInv, OpenedSchemaAgrees, At, Supported
<1>6. MigratedSoFar'
  BY <1>1 DEF MInv, MigratedSoFar, At, Supported
<1> QED BY <1>2, <1>3, <1>5, <1>6 DEF MInv

(* The steps of open_existing, of a fresh open(), of a failure and of an    *)
(* exit claim nothing about the schema, apart from require_current.         *)
LEMMA OpeningSteps ==
  ASSUME MInv, NEW p \in Processes,
         Open(p) \/ CreateTable(p) \/ ReadVersion(p) \/ OpenExisting(p)
           \/ RequireCurrent(p) \/ OpenFails(p) \/ Exit(p)
  PROVE  MInv'
<1> USE DEF MInv
<1>0. /\ proc[p] \in [build : Builds, at : Places, next : Nat]
      /\ proc[p].next \in 1..(Len(proc[p].build) + 1)
      /\ Len(proc[p].build) \in Nat
      /\ hasTable \in BOOLEAN /\ faults \in 0..MaxFaults /\ MaxFaults \in Nat
  BY BuildTypes, MigrationsAssumption DEF MTypeOK, Supported
<1>1. CASE Open(p)
  <2> DEFINE r == [build |-> proc[p].build, at |-> "create", next |-> 1]
  <2>1. r \in [build : Builds, at : Places, next : Nat] /\ Moves(p, r)
    BY <1>0, <1>1, JumpMoves DEF Open, Places
  <2> QED BY <1>0, <1>1, <2>1, LocalStep DEF Open
<1>2. CASE CreateTable(p)
  <2> DEFINE r == [build |-> proc[p].build, at |-> "max", next |-> proc[p].next]
  <2>1. r \in [build : Builds, at : Places, next : Nat] /\ Moves(p, r)
    BY <1>0, <1>2, GotoMoves DEF CreateTable, Places
  <2> QED BY <1>0, <1>2, <2>1, LocalStep DEF CreateTable, At, MigratedSoFar
<1>3. CASE ReadVersion(p)
  <2> DEFINE a == IF CurrentVersion > Supported(p) THEN "failed" ELSE "check"
             r == [build |-> proc[p].build, at |-> a, next |-> proc[p].next]
  <2>1. a \in {"failed", "check"}
    OBVIOUS
  <2>2. Moves(p, r)
    BY <1>3, <2>1, GotoMoves DEF ReadVersion, Places
  <2> HIDE DEF a
  <2>3. r \in [build : Builds, at : Places, next : Nat]
    BY <1>0, <2>1 DEF Places
  <2> QED BY <1>0, <1>3, <2>1, <2>2, <2>3, LocalStep DEF ReadVersion, At, MigratedSoFar
<1>4. CASE OpenExisting(p)
  <2> DEFINE r == [build |-> proc[p].build, at |-> "inspect", next |-> proc[p].next]
  <2>1. r \in [build : Builds, at : Places, next : Nat] /\ Moves(p, r)
    BY <1>0, <1>4, GotoMoves DEF OpenExisting, Places
  <2> QED BY <1>0, <1>4, <2>1, LocalStep DEF OpenExisting
<1>5. CASE RequireCurrent(p)
  <2> DEFINE a == IF hasTable /\ CurrentVersion = Supported(p) THEN "reading" ELSE "failed"
             r == [build |-> proc[p].build, at |-> a, next |-> proc[p].next]
  <2>1. a \in {"failed", "reading"} /\ (a = "reading" => CurrentVersion >= Len(proc[p].build))
    BY <1>0 DEF Supported
  <2>2. Moves(p, r)
    BY <1>5, <2>1, GotoMoves DEF RequireCurrent, Places
  <2> HIDE DEF a
  <2>3. r \in [build : Builds, at : Places, next : Nat]
    BY <1>0, <2>1 DEF Places
  <2> QED BY <1>0, <1>5, <2>1, <2>2, <2>3, LocalStep DEF RequireCurrent
<1>6. CASE OpenFails(p)
  <2> DEFINE r == [build |-> proc[p].build, at |-> "failed", next |-> proc[p].next]
  <2>1. r \in [build : Builds, at : Places, next : Nat] /\ Moves(p, r)
    BY <1>0, <1>6, GotoMoves DEF OpenFails, Places
  <2> QED BY <1>0, <1>6, <2>1, LocalStep DEF OpenFails
<1>7. CASE Exit(p)
  <2>1. PICK b \in Builds :
          proc' = [proc EXCEPT ![p] = [build |-> b, at |-> "closed", next |-> 1]]
    BY <1>7 DEF Exit
  <2> DEFINE r == [build |-> b, at |-> "closed", next |-> 1]
  <2>2. r \in [build : Builds, at : Places, next : Nat] /\ Len(b) \in Nat
    BY MigrationsAssumption DEF Places
  <2>3. Moves(p, r)
    BY <2>1 DEF Moves, MTypeOK
  <2> QED BY <1>0, <1>7, <2>3, <2>1, <2>2, LocalStep DEF Exit
<1> QED BY <1>1, <1>2, <1>3, <1>4, <1>5, <1>6, <1>7

(* The loop over MIGRATIONS: the end of it, a version found, one missing.   *)
LEMMA CheckInv ==
  ASSUME MInv, NEW p \in Processes, CheckMigration(p)
  PROVE  MInv'
<1> USE DEF MInv
<1> DEFINE v == proc[p].next
<1>0. /\ proc[p] \in [build : Builds, at : Places, next : Nat]
      /\ v \in 1..(Len(proc[p].build) + 1)
      /\ Len(proc[p].build) \in Nat
      /\ hasTable' \in BOOLEAN /\ faults' \in 0..MaxFaults
  BY BuildTypes DEF MTypeOK, Supported, CheckMigration
<1>00. \A w \in 1..(v - 1) : w \in DOMAIN applied /\ applied[w] = proc[p].build[w]
  BY DEF MigratedSoFar, CheckMigration, At
<1>1. CASE v > Supported(p)
  <2> DEFINE r == [build |-> proc[p].build, at |-> "open", next |-> v]
  <2>1. r \in [build : Builds, at : Places, next : Nat]
    BY <1>0 DEF Places
  <2>2. Moves(p, r)
    <3>1. Goto(p, "open")
      BY <1>0, <1>1 DEF CheckMigration, Supported
    <3> QED BY <3>1, GotoMoves DEF Places
  <2>3. v - 1 = Len(proc[p].build)
    BY <1>0, <1>1 DEF Supported
  <2> QED BY <1>0, <1>00, <2>1, <2>2, <2>3, LocalStep DEF CheckMigration
<1>2. CASE v <= Supported(p) /\ v \in DOMAIN applied /\ applied[v] = proc[p].build[v]
  <2> DEFINE r == [build |-> proc[p].build, at |-> "check", next |-> v + 1]
  <2>1. r \in [build : Builds, at : Places, next : Nat] /\ v + 1 \in 1..(Len(proc[p].build) + 1)
    BY <1>0, <1>2 DEF Places, Supported
  <2>2. Moves(p, r)
    <3>1. proc' = [proc EXCEPT ![p].next = v + 1] /\ proc[p].at = "check"
      BY <1>0, <1>2 DEF CheckMigration, ChecksumOk, Supported, At
    <3>2. v + 1 \in Nat
      BY <1>0
    <3> QED BY <3>1, <3>2, LoopMoves
  <2>3. \A w \in 1..v : w \in DOMAIN applied /\ applied[w] = proc[p].build[w]
    BY <1>0, <1>00, <1>2
  <2> QED BY <1>0, <2>1, <2>2, <2>3, LocalStep DEF CheckMigration
<1>3. CASE v <= Supported(p) /\ v \in DOMAIN applied /\ applied[v] # proc[p].build[v]
  <2> DEFINE r == [build |-> proc[p].build, at |-> "failed", next |-> v]
  <2>1. r \in [build : Builds, at : Places, next : Nat]
    BY <1>0 DEF Places
  <2>2. Moves(p, r)
    <3>1. Goto(p, "failed")
      BY <1>0, <1>3 DEF CheckMigration, ChecksumOk, Supported, Goto
    <3> QED BY <3>1, GotoMoves DEF Places
  <2> QED BY <1>0, <2>1, <2>2, LocalStep DEF CheckMigration
<1>4. CASE v <= Supported(p) /\ v \notin DOMAIN applied
  <2> DEFINE r == [build |-> proc[p].build, at |-> "apply", next |-> v]
  <2>1. r \in [build : Builds, at : Places, next : Nat]
    BY <1>0 DEF Places
  <2>2. Moves(p, r)
    <3>1. Goto(p, "apply")
      BY <1>0, <1>4 DEF CheckMigration, Supported
    <3> QED BY <3>1, GotoMoves DEF Places
  <2> QED BY <1>0, <1>00, <1>4, <2>1, <2>2, LocalStep DEF CheckMigration, Supported
<1> QED BY <1>0, <1>1, <1>2, <1>3, <1>4 DEF Supported

(* The transaction of one migration: the version applied is the one after   *)
(* all recorded ones, whatever the other openers did since the lookup.      *)
LEMMA ApplyInv ==
  ASSUME MInv, NEW p \in Processes, ApplyMigration(p)
  PROVE  MInv'
<1> USE DEF MInv
<1> DEFINE v == proc[p].next
           c == proc[p].build[v]
<1>0. /\ proc[p] \in [build : Builds, at : Places, next : Nat]
      /\ v \in 1..Len(proc[p].build)
      /\ Len(proc[p].build) \in Nat
      /\ c \in Checksums
      /\ hasTable' \in BOOLEAN /\ faults' \in 0..MaxFaults
  BY BuildTypes DEF MTypeOK, Supported, ApplyMigration, MigratedSoFar, At
<1>00. \A w \in 1..(v - 1) : w \in DOMAIN applied /\ applied[w] = proc[p].build[w]
  BY DEF MigratedSoFar, ApplyMigration, At
<1>1. CASE v \in DOMAIN applied
  <2> DEFINE r == [build |-> proc[p].build, at |-> "failed", next |-> v]
  <2>1. r \in [build : Builds, at : Places, next : Nat]
    BY <1>0 DEF Places
  <2>2. Moves(p, r)
    BY <1>1, GotoMoves DEF ApplyMigration, Places
  <2> QED BY <1>0, <1>1, <2>1, <2>2, LocalStep DEF ApplyMigration
<1>2. CASE v \notin DOMAIN applied
  <2>1. /\ applied' = [w \in DOMAIN applied \cup {v} |-> IF w = v THEN c ELSE applied[w]]
        /\ schema' = Append(schema, c)
        /\ proc' = [proc EXCEPT ![p].at = "check", ![p].next = v + 1]
    BY <1>2 DEF ApplyMigration
  <2>2. schema \in Seq(Checksums) /\ Len(schema) \in Nat /\ DOMAIN applied = 1..Len(schema)
    BY DEF MTypeOK, SchemaIsRecorded
  <2>3. Len(schema) = v - 1
    BY <1>0, <1>00, <1>2, <2>2
  <2>4. /\ DOMAIN applied' = 1..v
        /\ applied'[v] = c
        /\ \A w \in 1..(v - 1) : applied'[w] = applied[w]
    BY <1>0, <2>1, <2>2, <2>3
  <2>5. /\ schema' \in Seq(Checksums) /\ Len(schema') = v
        /\ schema'[v] = c
        /\ \A w \in 1..(v - 1) : schema'[w] = schema[w]
    BY <1>0, <2>1, <2>2, <2>3
  <2>6. SchemaIsRecorded'
    BY <1>0, <2>2, <2>3, <2>4, <2>5 DEF SchemaIsRecorded
  <2>7. /\ proc' \in [Processes -> [build : Builds, at : Places, next : Nat]]
        /\ proc'[p] = [build |-> proc[p].build, at |-> "check", next |-> v + 1]
        /\ \A q \in Processes \ {p} : proc'[q] = proc[q]
    BY <1>0, <2>1 DEF MTypeOK, Places
  <2>8. MTypeOK'
    <3>1. \A w \in DOMAIN applied' : applied'[w] \in Checksums
      BY <1>0, <2>2, <2>3, <2>4, <2>5, <2>6 DEF MTypeOK
    <3>2. \A q \in Processes : proc'[q].next \in 1..(Len(proc'[q].build) + 1)
      BY <1>0, <2>7 DEF MTypeOK
    <3>3. DOMAIN applied' \subseteq Nat
      BY <1>0, <2>4
    <3> QED BY <1>0, <2>5, <2>7, <3>1, <3>2, <3>3 DEF MTypeOK
  <2>9. CurrentVersion = v - 1
    BY <1>0, <2>2, <2>3, VersionIsLength
  <2>10. CurrentVersion' = v
    <3>1. CurrentVersion' = Max({0} \cup 1..v)
      BY <2>4 DEF CurrentVersion
    <3> DEFINE S == {0} \cup 1..v
    <3>2. v \in S /\ \A y \in S : v >= y
      BY <1>0
    <3>3. \A x \in S : (\A y \in S : x >= y) => x = v
      BY <1>0
    <3>4. (CHOOSE x \in S : \A y \in S : x >= y) = v
      <4> HIDE DEF S
      <4> QED BY <3>2, <3>3
    <3> QED BY <3>1, <3>4 DEF Max
  <2>11. OpenedSchemaAgrees'
    <3> SUFFICES ASSUME NEW q \in Processes
                 PROVE  /\ proc'[q].at = "open" =>
                             \A w \in 1..Len(proc'[q].build) :
                               w \in DOMAIN applied' /\ applied'[w] = proc'[q].build[w]
                        /\ proc'[q].at = "reading" => CurrentVersion' >= Len(proc'[q].build)
      BY DEF OpenedSchemaAgrees, At, Supported
    <3>1. CASE q = p
      BY <2>7, <3>1
    <3>2. CASE q # p
      <4>1. proc'[q] = proc[q] /\ Len(proc[q].build) \in Nat
        BY <2>7, <3>2, BuildTypes DEF Supported
      <4> QED BY <1>0, <2>2, <2>3, <2>4, <2>9, <2>10, <4>1
              DEF OpenedSchemaAgrees, At, Supported
    <3> QED BY <3>1, <3>2
  <2>12. MigratedSoFar'
    <3> SUFFICES ASSUME NEW q \in Processes
                 PROVE  /\ proc'[q].at \in {"create", "max", "check", "apply"} =>
                             \A w \in 1..(proc'[q].next - 1) :
                               w \in DOMAIN applied' /\ applied'[w] = proc'[q].build[w]
                        /\ proc'[q].at = "apply" => proc'[q].next <= Len(proc'[q].build)
      BY DEF MigratedSoFar, At, Supported
    <3>1. CASE q = p
      BY <1>0, <1>00, <2>4, <2>7, <3>1
    <3>2. CASE q # p
      <4>1. proc'[q] = proc[q] /\ proc[q].next \in Nat
        BY <2>7, <3>2 DEF MTypeOK
      <4> QED BY <1>0, <2>2, <2>3, <2>4, <4>1 DEF MigratedSoFar, At, Supported
    <3> QED BY <3>1, <3>2
  <2> QED BY <2>6, <2>8, <2>11, <2>12
<1> QED BY <1>1, <1>2

(* The inductive invariant of opening a database. *)
THEOREM MigrationsInvariant == MSpec => []MInv
<1>1. MInv /\ [MNext]_mvars => MInv'
  <2> SUFFICES ASSUME MInv, [MNext]_mvars PROVE MInv'
    OBVIOUS
  <2>1. CASE UNCHANGED mvars
    BY <2>1 DEF mvars, MInv, MTypeOK, SchemaIsRecorded, OpenedSchemaAgrees,
                MigratedSoFar, At, Supported, CurrentVersion
  <2>2. CASE MNext
    <3>1. PICK p \in Processes : Open(p) \/ OpenStep(p) \/ OpenExisting(p)
                                   \/ RequireCurrent(p) \/ OpenFails(p) \/ Exit(p)
      BY <2>2 DEF MNext
    <3> QED BY <3>1, OpeningSteps, CheckInv, ApplyInv DEF OpenStep
  <2> QED BY <2>1, <2>2
<1> QED BY <1>1, MInitInv, PTL DEF MSpec

(* However many openers interleave and wherever they die, the SQL executed  *)
(* is that of the recorded versions, each once and in order.                *)
THEOREM SchemaNeverHalfApplied == MSpec => []SchemaIsRecorded
<1>1. MInv => SchemaIsRecorded
  BY DEF MInv
<1> QED BY <1>1, MigrationsInvariant, PTL

(* A process that open() let in works on a schema that agrees with every    *)
(* migration of its build.                                                  *)
THEOREM OpenedSchemasAgree == MSpec => []OpenedSchemaAgrees
<1>1. MInv => OpenedSchemaAgrees
  BY DEF MInv
<1> QED BY <1>1, MigrationsInvariant, PTL

=============================================================================
