----------------------------- MODULE Migrations -----------------------------
(***************************************************************************)
(* Opening a database from several processes (src/store/migrations.rs,     *)
(* StoreBuilder in src/store/mod.rs).  A build of the library is the       *)
(* sequence of the migrations it knows; a migration is represented by its  *)
(* checksum.  migrate() reads outside any transaction what is applied and  *)
(* then applies one migration per BEGIN IMMEDIATE transaction, so each     *)
(* statement is a step of its own here and openers interleave freely.      *)
(***************************************************************************)
EXTENDS Naturals, Sequences, FiniteSetsExt

CONSTANTS
  Processes,    \* processes that open the database
  Checksums,    \* checksums of migrations
  Builds,       \* the migrations each build of the library knows
  MaxFaults     \* bound on the exits, crashes and SQLite errors

ASSUME MigrationsAssumption ==
  /\ Builds \subseteq Seq(Checksums) \ {<<>>}
  /\ MaxFaults \in Nat

VARIABLES
  hasTable,  \* table schema_migrations exists
  applied,   \* table schema_migrations: version -> checksum
  schema,    \* the migrations whose SQL has been executed, in order
  proc,      \* process -> its build and where it is in open()
  faults     \* number of exits, crashes and SQLite errors

mvars == <<hasTable, applied, schema, proc, faults>>

Places == {"closed", "create", "max", "check", "apply", "open",
           "inspect", "reading", "failed"}

MTypeOK ==
  /\ hasTable \in BOOLEAN
  /\ DOMAIN applied \subseteq Nat
  /\ \A v \in DOMAIN applied : applied[v] \in Checksums
  /\ schema \in Seq(Checksums)
  /\ proc \in [Processes -> [build : Builds, at : Places, next : Nat]]
  /\ \A p \in Processes : proc[p].next \in 1..(Len(proc[p].build) + 1)
  /\ faults \in 0..MaxFaults

MInit ==
  /\ hasTable = FALSE
  /\ applied = [v \in {} |-> 0]
  /\ schema = <<>>
  /\ proc \in [Processes -> [build : Builds, at : {"closed"}, next : {1}]]
  /\ faults = 0

At(p, place) == proc[p].at = place

Goto(p, place) == proc' = [proc EXCEPT ![p].at = place]

CurrentVersion == Max({0} \cup DOMAIN applied)

Supported(p) == Len(proc[p].build)

----------------------------------------------------------------------------
(* StoreBuilder::open: connection::open, then migrate                      *)

Open(p) ==
  /\ proc[p].at \in {"closed", "failed"}
  /\ proc' = [proc EXCEPT ![p].at = "create", ![p].next = 1]
  /\ UNCHANGED <<hasTable, applied, schema, faults>>

CreateTable(p) ==
  /\ At(p, "create")
  /\ hasTable' = TRUE
  /\ Goto(p, "max")
  /\ UNCHANGED <<applied, schema, faults>>

(* StorageError::SchemaTooNew *)
ReadVersion(p) ==
  /\ At(p, "max")
  /\ Goto(p, IF CurrentVersion > Supported(p) THEN "failed" ELSE "check")
  /\ UNCHANGED <<hasTable, applied, schema, faults>>

(* Mutant: the stored checksum is not compared *)
ChecksumIgnored(v, checksum) == TRUE

ChecksumOk(v, checksum) == applied[v] = checksum

(* Mutant: every migration is applied without looking whether it was *)
CheckNothing(p) ==
  /\ At(p, "check")
  /\ Goto(p, IF proc[p].next > Supported(p) THEN "open" ELSE "apply")
  /\ UNCHANGED <<hasTable, applied, schema, faults>>

CheckMigration(p) ==
  LET v == proc[p].next
  IN  /\ At(p, "check")
      /\ \/ v > Supported(p) /\ Goto(p, "open")
         \/ /\ v \in DOMAIN applied
            /\ v <= Supported(p)
            /\ proc' = IF ChecksumOk(v, proc[p].build[v])
                       THEN [proc EXCEPT ![p].next = v + 1]
                       ELSE [proc EXCEPT ![p].at = "failed"]
         \/ /\ v \notin DOMAIN applied
            /\ v <= Supported(p)
            /\ Goto(p, "apply")
      /\ UNCHANGED <<hasTable, applied, schema, faults>>

(* Mutant: the SQL of a migration runs outside the transaction of its row,  *)
(* so that the loser of a race has executed it although the row fails.      *)
ApplyOutsideTx(p) ==
  LET v == proc[p].next
  IN  /\ At(p, "apply")
      /\ schema' = Append(schema, proc[p].build[v])
      /\ IF v \in DOMAIN applied
         THEN Goto(p, "failed") /\ UNCHANGED applied
         ELSE /\ applied' = [w \in DOMAIN applied \cup {v} |->
                               IF w = v THEN proc[p].build[v] ELSE applied[w]]
              /\ proc' = [proc EXCEPT ![p].at = "check", ![p].next = v + 1]
      /\ UNCHANGED <<hasTable, faults>>

(* One transaction: the SQL and the row.  If another opener was faster the  *)
(* SQL fails on existing tables, or the row on the primary key, and all of  *)
(* it is rolled back.                                                       *)
ApplyMigration(p) ==
  LET v == proc[p].next
  IN  /\ At(p, "apply")
      /\ IF v \in DOMAIN applied
         THEN Goto(p, "failed") /\ UNCHANGED <<applied, schema>>
         ELSE /\ applied' = [w \in DOMAIN applied \cup {v} |->
                               IF w = v THEN proc[p].build[v] ELSE applied[w]]
              /\ schema' = Append(schema, proc[p].build[v])
              /\ proc' = [proc EXCEPT ![p].at = "check", ![p].next = v + 1]
      /\ UNCHANGED <<hasTable, faults>>

----------------------------------------------------------------------------
(* StoreBuilder::open_existing: read-only, never migrates                  *)

OpenExisting(p) ==
  /\ proc[p].at \in {"closed", "failed"}
  /\ Goto(p, "inspect")
  /\ UNCHANGED <<hasTable, applied, schema, faults>>

(* require_current; without the table the version is 0 *)
RequireCurrent(p) ==
  /\ At(p, "inspect")
  /\ Goto(p, IF hasTable /\ CurrentVersion = Supported(p) THEN "reading" ELSE "failed")
  /\ UNCHANGED <<hasTable, applied, schema, faults>>

----------------------------------------------------------------------------
(* A statement of migrate() fails, as after the busy timeout; the           *)
(* transaction of a migration is rolled back.                               *)
OpenFails(p) ==
  /\ proc[p].at \in {"create", "max", "check", "apply"}
  /\ faults < MaxFaults
  /\ faults' = faults + 1
  /\ Goto(p, "failed")
  /\ UNCHANGED <<hasTable, applied, schema>>

(* The process ends, or dies at any point, and may come back upgraded *)
Exit(p) ==
  /\ ~At(p, "closed")
  /\ faults < MaxFaults
  /\ faults' = faults + 1
  /\ \E b \in Builds : proc' = [proc EXCEPT ![p] = [build |-> b, at |-> "closed", next |-> 1]]
  /\ UNCHANGED <<hasTable, applied, schema>>

OpenStep(p) ==
  CreateTable(p) \/ ReadVersion(p) \/ CheckMigration(p) \/ ApplyMigration(p)

Retry(p) == At(p, "failed") /\ Open(p)

MNext == \E p \in Processes :
           Open(p) \/ OpenStep(p) \/ OpenExisting(p) \/ RequireCurrent(p)
           \/ OpenFails(p) \/ Exit(p)

MSpec == MInit /\ [][MNext]_mvars

(* A process that runs takes its steps; one whose open() failed, and that   *)
(* does not turn to open_existing, tries again.                             *)
FairMSpec ==
  /\ MSpec
  /\ \A p \in Processes : WF_mvars(OpenStep(p)) /\ SF_mvars(Retry(p))

----------------------------------------------------------------------------
(* Properties                                                              *)

(* "The schema is never half-applied": in every state another process can   *)
(* see, however the openers interleave and wherever they die, the SQL that  *)
(* has been executed is that of the recorded versions, each once, in order. *)
SchemaIsRecorded ==
  /\ DOMAIN applied = 1..Len(schema)
  /\ \A v \in DOMAIN applied : applied[v] = schema[v]

(* A writer that got through open() works on a schema that agrees with its  *)
(* build in every migration the build knows, from then on; a reader on one  *)
(* that has at least its build's version.                                   *)
OpenedSchemaAgrees ==
  \A p \in Processes :
    /\ At(p, "open") =>
         \A v \in 1..Supported(p) : v \in DOMAIN applied /\ applied[v] = proc[p].build[v]
    /\ At(p, "reading") => CurrentVersion >= Supported(p)

(* The database does not rule out p's build *)
Compatible(p) ==
  \A v \in DOMAIN applied : v <= Supported(p) /\ applied[v] = proc[p].build[v]

(* Losing the race to apply a migration costs an error, not the database:   *)
(* a process that keeps trying to open gets in, unless the database has     *)
(* become incompatible with its build.                                      *)
OpenersGetIn ==
  \A p \in Processes :
    At(p, "create") ~> proc[p].at \in {"open", "closed", "inspect"} \/ ~Compatible(p)

=============================================================================
