------------------------------- MODULE Backup -------------------------------
(***************************************************************************)
(* Online backup (src/store/ops.rs, ControlPlaneStore::backup).  A backup  *)
(* runs in the process that owns the store, on the writer connection and   *)
(* under its mutex, or in the command line's process, on a read-only       *)
(* connection of its own, beside an owner that goes on committing.         *)
(*                                                                         *)
(* SQLite's backup API is external.  A database is a few groups of pages,  *)
(* a step copies one group, and reads the source as it is then; a step     *)
(* that finds that another connection has committed starts again with the  *)
(* first group.  The destination is locked from the first step on, and     *)
(* what was copied is in the file when the last step commits it, all at    *)
(* once.  Files are kept apart from the paths that name them: unlinking a  *)
(* path leaves an open file to those who have it open.                     *)
(***************************************************************************)
EXTENDS Integers, FiniteSets

CONSTANTS
  Backups,      \* calls of backup
  InOwner,      \* those made in the process that owns the store
  Dest,         \* backup -> the path it writes to
  Overwrite,    \* the backups that may replace an existing file
  Paths,        \* paths of files
  Db,           \* the path of the store
  Taken,        \* paths where another file may be at first
  Groups,       \* number of groups of pages of the database
  Versions,     \* number of versions of a group that are told apart
  NULL

ASSUME BackupAssumption ==
  /\ InOwner \subseteq Backups /\ Overwrite \subseteq Backups
  /\ Dest \in [Backups -> Paths]
  /\ Db \in Paths /\ Taken \subseteq Paths \ {Db}
  /\ Groups \in Nat \ {0} /\ Versions \in Nat \ {0}
  /\ IsFiniteSet(Backups) /\ IsFiniteSet(Paths)
  /\ NULL \notin Backups /\ NULL \notin Nat

VARIABLES
  path,     \* path -> the file it names, or NULL
  content,  \* file -> its content
  owned,    \* the file the owner of the store has open
  writer,   \* the backup that holds the writer's mutex, or NULL
  at,       \* backup -> the step it is at
  target,   \* backup -> the destination file it has open
  locked,   \* file -> the backup that holds its lock, or NULL
  copied,   \* backup -> the groups it has copied so far
  stale,    \* the backups whose source was changed by another connection
  during    \* history: backup -> the committed states since it was called

bVars == <<path, content, owned, writer, at, target, locked, copied, stale, during>>

(* A database, the empty file that opening a new path creates, other data *)
Databases == [1..Groups -> 0..(Versions - 1)]
Empty == <<>>
Other == [g \in 1..Groups |-> Versions]

(* One file for the store, one for each path taken, and one for each backup *)
Files == 1..(1 + Cardinality(Paths) + Cardinality(Backups))

Running == {"Exists", "Remove", "Open", "Copy", "Verify"}
Ended == {"Ok", "Refused", "Failed"}

(* The writer and the locks of files are held by calls in progress only *)
BTypeOK ==
  /\ path \in [Paths -> Files \cup {NULL}]
  /\ content \in [Files -> Databases \cup {Empty, Other}]
  /\ owned \in Files
  /\ writer \in {b \in InOwner : at[b] \in Running} \cup {NULL}
  /\ at \in [Backups -> {"Idle"} \cup Running \cup Ended]
  /\ target \in [Backups -> Files \cup {NULL}]
  /\ locked \in [Files -> {b \in Backups : at[b] = "Copy"} \cup {NULL}]
  /\ \A b \in Backups : copied[b] \in [1..Cardinality(DOMAIN copied[b]) -> 0..(Versions - 1)]
  /\ stale \subseteq {b \in Backups : at[b] = "Copy"}
  /\ during \in [Backups -> SUBSET Databases]

BInit ==
  /\ \E T \in SUBSET Taken : \E f \in [{Db} \cup T -> Files] :
       /\ \A p, q \in DOMAIN f : f[p] = f[q] => p = q
       /\ f[Db] = 1 /\ \A p \in DOMAIN f : f[p] <= Cardinality(DOMAIN f)
       /\ path = [p \in Paths |-> IF p \in DOMAIN f THEN f[p] ELSE NULL]
       /\ content = [i \in Files |->
            IF i = 1 THEN [g \in 1..Groups |-> 0]
            ELSE IF \E p \in T : f[p] = i THEN Other ELSE Empty]
  /\ owned = 1
  /\ writer = NULL
  /\ at = [b \in Backups |-> "Idle"]
  /\ target = [b \in Backups |-> NULL]
  /\ locked = [f \in Files |-> NULL]
  /\ copied = [b \in Backups |-> <<>>]
  /\ stale = {}
  /\ during = [b \in Backups |-> {}]

----------------------------------------------------------------------------
(* The owner of the store                                                  *)

Source == content[owned]

(* A commit changes some groups of pages.  It waits for the writer's mutex, *)
(* and every backup that is on another connection finds out.                *)
Commit ==
  /\ writer = NULL
  /\ \E G \in SUBSET (1..Groups) \ {{}} :
       content' = [content EXCEPT ![owned] =
         [g \in 1..Groups |-> IF g \in G THEN (@[g] + 1) % Versions ELSE @[g]]]
  /\ stale' = stale \cup {b \in Backups : at[b] = "Copy"}
  /\ during' = [b \in Backups |->
       IF at[b] \in Running THEN during[b] \cup {content'[owned]} ELSE during[b]]
  /\ UNCHANGED <<path, owned, writer, at, target, locked, copied>>

----------------------------------------------------------------------------
(* backup                                                                  *)

(* Mutant: the backup runs on a pooled read connection *)
StartOnReader(b) ==
  /\ at[b] = "Idle"
  /\ at' = [at EXCEPT ![b] = "Exists"]
  /\ during' = [during EXCEPT ![b] = {Source}]
  /\ UNCHANGED <<path, content, owned, writer, target, locked, copied, stale>>

(* In the owner's process the call takes the writer and keeps it *)
Start(b) ==
  /\ at[b] = "Idle"
  /\ b \in InOwner => writer = NULL
  /\ writer' = IF b \in InOwner THEN b ELSE writer
  /\ at' = [at EXCEPT ![b] = "Exists"]
  /\ during' = [during EXCEPT ![b] = {Source}]
  /\ UNCHANGED <<path, content, owned, target, locked, copied, stale>>

Return(b, result) ==
  /\ at' = [at EXCEPT ![b] = result]
  /\ writer' = IF writer = b THEN NULL ELSE writer

(* Mutant: an existing destination is always replaced *)
DestExistsIgnored(b) ==
  /\ at[b] = "Exists"
  /\ at' = [at EXCEPT ![b] = IF path[Dest[b]] = NULL THEN "Open" ELSE "Remove"]
  /\ UNCHANGED <<path, content, owned, writer, target, locked, copied, stale, during>>

(* dest_path.exists() *)
DestExists(b) ==
  /\ at[b] = "Exists"
  /\ \/ path[Dest[b]] = NULL /\ at' = [at EXCEPT ![b] = "Open"] /\ UNCHANGED writer
     \/ /\ path[Dest[b]] # NULL /\ b \in Overwrite
        /\ at' = [at EXCEPT ![b] = "Remove"] /\ UNCHANGED writer
     \/ path[Dest[b]] # NULL /\ b \notin Overwrite /\ Return(b, "Refused")
  /\ UNCHANGED <<path, content, owned, target, locked, copied, stale, during>>

(* std::fs::remove_file, an error when someone else was faster *)
RemoveDest(b) ==
  /\ at[b] = "Remove"
  /\ \/ /\ path[Dest[b]] # NULL
        /\ path' = [path EXCEPT ![Dest[b]] = NULL]
        /\ at' = [at EXCEPT ![b] = "Open"] /\ UNCHANGED writer
     \/ path[Dest[b]] = NULL /\ Return(b, "Failed") /\ UNCHANGED path
  /\ UNCHANGED <<content, owned, target, locked, copied, stale, during>>

(* A file that no path names and nobody has open *)
NewFile ==
  CHOOSE f \in Files :
    /\ f # owned
    /\ \A p \in Paths : path[p] # f
    /\ \A b \in Backups : target[b] # f

(* Connection::open opens the file at the path, or creates it *)
OpenDest(b) ==
  /\ at[b] = "Open"
  /\ LET f == IF path[Dest[b]] = NULL THEN NewFile ELSE path[Dest[b]]
     IN  /\ target' = [target EXCEPT ![b] = f]
         /\ path' = [path EXCEPT ![Dest[b]] = f]
         /\ content' = IF path[Dest[b]] = NULL THEN [content EXCEPT ![f] = Empty] ELSE content
  /\ at' = [at EXCEPT ![b] = "Copy"]
  /\ UNCHANGED <<owned, writer, locked, copied, stale, during>>

(* Mutant: one step, whether or not it was the last *)
CopyOnce(b) ==
  /\ at[b] = "Copy"
  /\ at' = [at EXCEPT ![b] = "Verify"]
  /\ UNCHANGED <<path, content, owned, writer, target, locked, copied, stale, during>>

(* run_to_completion: a step that copies a group.  On a destination that is *)
(* locked by another it is Busy and tried again.                            *)
CopyStep(b) ==
  /\ at[b] = "Copy"
  /\ locked[target[b]] \in {NULL, b}
  /\ LET sofar == IF b \in stale THEN <<>> ELSE copied[b]
         n     == Cardinality(DOMAIN sofar) + 1
         next  == [g \in 1..n |-> IF g = n THEN Source[g] ELSE sofar[g]]
     IN  IF n < Groups
         THEN /\ copied' = [copied EXCEPT ![b] = next]
              /\ locked' = [locked EXCEPT ![target[b]] = b]
              /\ UNCHANGED <<content, at>>
         ELSE /\ copied' = [copied EXCEPT ![b] = <<>>]
              /\ content' = [content EXCEPT ![target[b]] = next]
              /\ locked' = [locked EXCEPT ![target[b]] = NULL]
              /\ at' = [at EXCEPT ![b] = "Verify"]
  /\ stale' = stale \ {b}
  /\ UNCHANGED <<path, owned, writer, target, during>>

(* PRAGMA integrity_check on the destination; an empty database passes too *)
Verify(b) ==
  /\ at[b] = "Verify"
  /\ Return(b, "Ok")
  /\ target' = [target EXCEPT ![b] = NULL]
  /\ UNCHANGED <<path, content, owned, locked, copied, stale, during>>

(* Mutant: the error leaves the transaction on the destination open *)
FailKeepingLock(b) ==
  /\ at[b] \in Running
  /\ Return(b, "Failed")
  /\ target' = [target EXCEPT ![b] = NULL]
  /\ copied' = [copied EXCEPT ![b] = <<>>]
  /\ stale' = stale \ {b}
  /\ UNCHANGED <<path, content, owned, locked, during>>

(* An error, or the death of the call: what it did to files stays, but for   *)
(* an unfinished copy, which the destination's journal takes back.           *)
Fail(b) ==
  /\ at[b] \in Running
  /\ Return(b, "Failed")
  /\ locked' = [f \in Files |-> IF locked[f] = b THEN NULL ELSE locked[f]]
  /\ target' = [target EXCEPT ![b] = NULL]
  /\ copied' = [copied EXCEPT ![b] = <<>>]
  /\ stale' = stale \ {b}
  /\ UNCHANGED <<path, content, owned, during>>

Step(b) == DestExists(b) \/ RemoveDest(b) \/ OpenDest(b) \/ CopyStep(b) \/ Verify(b)

BNext ==
  \/ Commit
  \/ \E b \in Backups : Start(b) \/ Step(b) \/ Fail(b)

BSpec == BInit /\ [][BNext]_bVars

(* The thread that runs a backup goes on; nothing is assumed of commits *)
BFairSpec == BSpec /\ \A b \in Backups : WF_bVars(Step(b))

----------------------------------------------------------------------------
(* Properties                                                              *)

(* A backup that reports success has put at its destination, whole, a state  *)
(* of the store that was committed between its call and its return: never a  *)
(* mixture of two states, though commits go on between its steps.            *)
BackupPointInTime ==
  [][\A b \in Backups :
       at[b] # "Ok" /\ at'[b] = "Ok" =>
         path'[Dest[b]] # NULL /\ content'[path'[Dest[b]]] \in during[b]]_bVars

(* A file that holds something is replaced only by a backup that was told to *)
(* overwrite; one that was not leaves the existing file untouched.           *)
ExistingKept ==
  [][\A p \in Paths \ {Db} :
       path[p] # NULL /\ content[path[p]] # Empty =>
         \/ path'[p] = path[p] /\ content'[path[p]] = content[path[p]]
         \/ \E b \in Overwrite : Dest[b] = p /\ at[b] # at'[b]]_bVars

(* Holding the writer guarantees completion: a backup in the process that    *)
(* owns the store comes to its end although commits never stop, and although *)
(* others are made beside it.  A backup of another process need not: its     *)
(* copy starts again after every commit of the owner.                        *)
BackupCompletes == \A b \in InOwner : at[b] \in Running ~> at[b] \in Ended

=============================================================================
