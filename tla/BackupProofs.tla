----------------------------- MODULE BackupProofs -----------------------------
(***************************************************************************)
(* Proofs about Backup, for any number of backups, paths, groups of pages  *)
(* and versions.                                                           *)
(***************************************************************************)
EXTENDS Backup, FiniteSetTheorems, TLAPS

----------------------------------------------------------------------------
(* What callers must see to.  Nothing in the code keeps two processes from  *)
(* writing to one path: backups of different processes that share a         *)
(* destination can remove or overwrite each other's file.                   *)

(* Whoever may replace files shares its destination with its own process only *)
OverwritersApart ==
  \A b \in Overwrite : \A c \in Backups \ {b} : Dest[b] = Dest[c] => b \in InOwner /\ c \in InOwner

(* Whoever may not does too *)
CreatorsApart ==
  \A b \in Backups \ Overwrite : \A c \in Backups \ {b} :
    Dest[b] = Dest[c] => b \in InOwner /\ c \in InOwner

----------------------------------------------------------------------------
(* The inductive invariant                                                 *)

(* The file of the store is whole, no other path names it and no backup     *)
(* writes to it, not even one whose destination is the store's path.        *)
SourceApart ==
  /\ Source \in Databases
  /\ \A p \in Paths : path[p] = owned => p = Db
  /\ \A b \in Backups : /\ target[b] # owned
                        /\ at[b] = "Open" => path[Dest[b]] # owned

(* The process that owns the store makes one backup at a time *)
OneInOwner == \A b \in InOwner : at[b] \in Running => writer = b

(* A file has one name; a destination that is open has no other name than   *)
(* the one it was opened by.                                                *)
FilesNamed ==
  /\ \A p, q \in Paths : path[p] = path[q] /\ path[p] # NULL => p = q
  /\ \A b \in Backups : /\ target[b] # NULL <=> at[b] \in {"Copy", "Verify"}
                        /\ \A p \in Paths : path[p] = target[b] /\ target[b] # NULL => p = Dest[b]
                        /\ at[b] = "Remove" => b \in Overwrite

(* A destination is locked by a backup that has it open *)
LocksHeld == \A f \in Files, b \in Backups : locked[f] = b => target[b] = f

(* An unfinished copy is a beginning of the store as it is now, unless      *)
(* another connection has committed since.                                  *)
CopyCurrent ==
  /\ DOMAIN copied = Backups
  /\ \A b \in Backups :
    /\ \E n \in 0..(Groups - 1) : DOMAIN copied[b] = 1..n
    /\ b \notin stale => \A g \in DOMAIN copied[b] : copied[b][g] = Source[g]
    /\ at[b] # "Copy" => copied[b] = <<>>

(* The state of the store now is one committed since each running call *)
NowIsDuring == \A b \in Backups : at[b] \in Running => Source \in during[b]

BInv ==
  /\ BTypeOK /\ SourceApart /\ OneInOwner /\ FilesNamed /\ LocksHeld /\ CopyCurrent /\ NowIsDuring

(* With overwriters apart: what a backup wrote stays at its destination     *)
CopyInPlace ==
  \A b \in Backups :
    /\ at[b] \in {"Copy", "Verify"} => path[Dest[b]] = target[b]
    /\ at[b] = "Verify" => content[target[b]] \in during[b]

(* With creators apart: a backup that may not overwrite writes to a file    *)
(* that it created.                                                         *)
CreatorsCreate ==
  \A b \in Backups \ Overwrite :
    /\ at[b] = "Open" => path[Dest[b]] = NULL
    /\ at[b] = "Copy" => path[Dest[b]] = target[b] /\ content[target[b]] = Empty

----------------------------------------------------------------------------
(* Lemmas about files and copies                                           *)

(* The values of a function on a finite set are no more than its arguments. *)
LEMMA ImageSize ==
  ASSUME NEW S, IsFiniteSet(S), NEW f
  PROVE  LET T == {f[x] : x \in S}
         IN  IsFiniteSet(T) /\ Cardinality(T) \in Nat /\ Cardinality(T) <= Cardinality(S)
<1> DEFINE T == {f[x] : x \in S}
           h == [x \in S |-> f[x]]
<1>1. h \in Surjection(S, T)
  BY DEF Surjection
<1> QED
  BY <1>1, FS_Surjection, FS_CardinalityType

(* Two finite sets have together no more elements than the sum of theirs. *)
LEMMA UnionSize ==
  ASSUME NEW S, IsFiniteSet(S), NEW T, IsFiniteSet(T)
  PROVE  /\ IsFiniteSet(S \cup T) /\ Cardinality(S \cup T) \in Nat
         /\ Cardinality(S \cup T) <= Cardinality(S) + Cardinality(T)
<1>1. IsFiniteSet(S \cap T)
  BY FS_Subset
<1>2. /\ IsFiniteSet(S \cup T)
      /\ Cardinality(S \cup T) = Cardinality(S) + Cardinality(T) - Cardinality(S \cap T)
  BY FS_Union
<1>3. /\ Cardinality(S) \in Nat /\ Cardinality(T) \in Nat
      /\ Cardinality(S \cap T) \in Nat /\ Cardinality(S \cup T) \in Nat
  BY <1>1, <1>2, FS_CardinalityType
<1> QED
  BY <1>2, <1>3

(* While the destination of a backup does not exist, there is a file that    *)
(* no path names and nobody has open: opening it creates such a file.        *)
LEMMA NewFileExists ==
  ASSUME BTypeOK, NEW b \in Backups, target[b] = NULL, path[Dest[b]] = NULL
  PROVE  /\ NewFile \in Files /\ NewFile # owned /\ NewFile # NULL
         /\ \A p \in Paths : path[p] # NewFile
         /\ \A c \in Backups : target[c] # NewFile
<1> DEFINE P == {path[p] : p \in Paths \ {Dest[b]}}
           T == {target[c] : c \in Backups \ {b}}
           U == {owned} \cup (P \cup T)
<1>1. /\ IsFiniteSet(Paths \ {Dest[b]}) /\ Cardinality(Paths \ {Dest[b]}) = Cardinality(Paths) - 1
      /\ IsFiniteSet(Backups \ {b}) /\ Cardinality(Backups \ {b}) = Cardinality(Backups) - 1
      /\ Cardinality(Paths) \in Nat /\ Cardinality(Backups) \in Nat
  BY BackupAssumption, FS_RemoveElement, FS_CardinalityType
<1>2. /\ IsFiniteSet(P) /\ Cardinality(P) \in Nat /\ Cardinality(P) <= Cardinality(Paths) - 1
      /\ IsFiniteSet(T) /\ Cardinality(T) \in Nat /\ Cardinality(T) <= Cardinality(Backups) - 1
  BY <1>1, ImageSize
<1> HIDE DEF P, T
<1>3. /\ IsFiniteSet(P \cup T) /\ Cardinality(P \cup T) \in Nat
      /\ Cardinality(P \cup T) <= Cardinality(Paths) + Cardinality(Backups) - 2
  BY <1>1, <1>2, UnionSize
<1>4. /\ IsFiniteSet(U) /\ Cardinality(U) \in Nat
      /\ Cardinality(U) <= Cardinality(Paths) + Cardinality(Backups) - 1
  <2>1. IsFiniteSet({owned}) /\ Cardinality({owned}) = 1
    BY FS_Singleton
  <2> DEFINE V == P \cup T
  <2>2. IsFiniteSet(V) /\ Cardinality(V) \in Nat
        /\ Cardinality(V) <= Cardinality(Paths) + Cardinality(Backups) - 2
    BY <1>3
  <2> HIDE DEF V
  <2>3. /\ IsFiniteSet({owned} \cup V) /\ Cardinality({owned} \cup V) \in Nat
        /\ Cardinality({owned} \cup V) <= 1 + Cardinality(V)
    BY <2>1, <2>2, UnionSize
  <2>4. /\ IsFiniteSet({owned} \cup V) /\ Cardinality({owned} \cup V) \in Nat
        /\ Cardinality({owned} \cup V) <= Cardinality(Paths) + Cardinality(Backups) - 1
    BY <1>1, <2>2, <2>3
  <2> QED
    BY <2>4 DEF V
<1>5. Cardinality(Files) = 1 + Cardinality(Paths) + Cardinality(Backups)
  BY <1>1, FS_Interval DEF Files
<1>6. ~(Files \subseteq U)
  BY <1>1, <1>4, <1>5, FS_Subset
<1>7. PICK f \in Files : f \notin U
  BY <1>6
<1>8. f # NULL /\ f # owned
  BY <1>7, BackupAssumption DEF Files
<1>9. (\A p \in Paths : path[p] # f) /\ (\A c \in Backups : target[c] # f)
  BY <1>7, <1>8 DEF P, T
<1>10. NewFile \in Files /\ NewFile # owned
       /\ (\A p \in Paths : path[p] # NewFile) /\ (\A c \in Backups : target[c] # NewFile)
  <2> DEFINE Unused(g) == /\ g # owned
                          /\ \A p \in Paths : path[p] # g
                          /\ \A c \in Backups : target[c] # g
  <2>1. Unused(f)
    BY <1>8, <1>9
  <2>2. NewFile = CHOOSE g \in Files : Unused(g)
    BY DEF NewFile
  <2>3. Unused(NewFile) /\ NewFile \in Files
    <3> HIDE DEF Unused
    <3> QED
      BY <1>7, <2>1, <2>2
  <2> QED
    BY <2>3
<1> QED
  BY <1>10, BackupAssumption DEF Files

(* A copy of n groups has n groups. *)
LEMMA CopySize ==
  ASSUME NEW f, NEW n \in Nat, DOMAIN f = 1..n
  PROVE  Cardinality(DOMAIN f) = n
BY FS_Interval

(* Nothing has been copied yet. *)
LEMMA EmptyCopy ==
  DOMAIN <<>> = {} /\ DOMAIN <<>> = 1..0 /\ 0 \in 0..(Groups - 1)
  /\ Cardinality(DOMAIN <<>>) = 0 /\ <<>> \in [1..0 -> 0..(Versions - 1)]
<1>1. DOMAIN <<>> = {} /\ 1..0 = {}
  OBVIOUS
<1>2. 0 \in 0..(Groups - 1)
  BY BackupAssumption
<1> QED
  BY <1>1, <1>2, FS_EmptySet

----------------------------------------------------------------------------
(* Every step preserves the invariant                                      *)

(* The store and any other files, before the first backup. *)
LEMMA BInitInv == BInit => BInv /\ CopyInPlace /\ CreatorsCreate
<1> SUFFICES ASSUME BInit PROVE BInv /\ CopyInPlace /\ CreatorsCreate
  OBVIOUS
<1>1. PICK T \in SUBSET Taken : \E f \in [{Db} \cup T -> Files] :
       /\ \A p, q \in DOMAIN f : f[p] = f[q] => p = q
       /\ f[Db] = 1 /\ \A p \in DOMAIN f : f[p] <= Cardinality(DOMAIN f)
       /\ path = [p \in Paths |-> IF p \in DOMAIN f THEN f[p] ELSE NULL]
       /\ content = [i \in Files |->
            IF i = 1 THEN [g \in 1..Groups |-> 0]
            ELSE IF \E p \in T : f[p] = i THEN Other ELSE Empty]
  BY DEF BInit
<1>2. PICK f \in [{Db} \cup T -> Files] :
       /\ \A p, q \in DOMAIN f : f[p] = f[q] => p = q
       /\ f[Db] = 1
       /\ path = [p \in Paths |-> IF p \in DOMAIN f THEN f[p] ELSE NULL]
       /\ content = [i \in Files |->
            IF i = 1 THEN [g \in 1..Groups |-> 0]
            ELSE IF \E p \in T : f[p] = i THEN Other ELSE Empty]
  BY <1>1
<1>3. /\ owned = 1 /\ writer = NULL /\ stale = {}
      /\ at = [b \in Backups |-> "Idle"] /\ target = [b \in Backups |-> NULL]
      /\ locked = [i \in Files |-> NULL] /\ copied = [b \in Backups |-> <<>>]
      /\ during = [b \in Backups |-> {}]
  BY DEF BInit
<1>4. 1 \in Files /\ NULL \notin Files /\ Db \in Paths /\ NULL \notin Backups
  BY BackupAssumption, FS_CardinalityType DEF Files
<1>5. [g \in 1..Groups |-> 0] \in Databases
  BY BackupAssumption DEF Databases
<1>6. content \in [Files -> Databases \cup {Empty, Other}] /\ content[1] \in Databases
  BY <1>2, <1>4, <1>5
<1>7. BTypeOK
  <2>1. \A b \in Backups : copied[b] \in [1..Cardinality(DOMAIN copied[b]) -> 0..(Versions - 1)]
    BY <1>3, EmptyCopy
  <2>2. path \in [Paths -> Files \cup {NULL}]
    BY <1>2
  <2> QED
    BY <1>3, <1>4, <1>6, <2>1, <2>2 DEF BTypeOK
<1>8. SourceApart
  BY <1>2, <1>3, <1>4, <1>6, BackupAssumption DEF SourceApart, Source
<1>9. FilesNamed
  BY <1>2, <1>3, <1>4 DEF FilesNamed
<1>10. CopyCurrent
  BY <1>3, EmptyCopy DEF CopyCurrent
<1>11. LocksHeld /\ CopyInPlace /\ CreatorsCreate
  BY <1>3, <1>4 DEF LocksHeld, CopyInPlace, CreatorsCreate
<1>12. OneInOwner /\ NowIsDuring
  BY <1>3, BackupAssumption DEF OneInOwner, NowIsDuring, Running
<1> QED
  BY <1>7, <1>8, <1>9, <1>10, <1>11, <1>12 DEF BInv

(* A commit changes the store and nothing else; every backup on another     *)
(* connection is told to start again.                                       *)
LEMMA CommitInv == BInv /\ Commit => BInv'
<1> SUFFICES ASSUME BInv, Commit PROVE BInv'
  OBVIOUS
<1> USE DEF BInv
<1>1. PICK G \in SUBSET (1..Groups) :
        content' = [content EXCEPT ![owned] =
          [g \in 1..Groups |-> IF g \in G THEN (@[g] + 1) % Versions ELSE @[g]]]
  BY DEF Commit
<1>2. /\ writer = NULL /\ stale' = stale \cup {b \in Backups : at[b] = "Copy"}
      /\ during' = [b \in Backups |->
           IF at[b] \in Running THEN during[b] \cup {content'[owned]} ELSE during[b]]
      /\ UNCHANGED <<path, owned, writer, at, target, locked, copied>>
  BY DEF Commit
<1> DEFINE New == [g \in 1..Groups |-> IF g \in G THEN (Source[g] + 1) % Versions ELSE Source[g]]
<1>3. content' = [content EXCEPT ![owned] = New] /\ owned \in Files
  BY <1>1 DEF BTypeOK, Source
<1>4. New \in Databases
  <2>1. \A v \in 0..(Versions - 1) : (v + 1) % Versions \in 0..(Versions - 1)
    BY BackupAssumption
  <2>2. \A g \in 1..Groups : Source[g] \in 0..(Versions - 1)
    BY DEF SourceApart, Databases
  <2> QED
    BY <2>1, <2>2 DEF Databases
<1> HIDE DEF New
<1>5. Source' = New /\ \A f \in Files : f # owned => content'[f] = content[f]
  BY <1>2, <1>3 DEF Source, BTypeOK
<1>6. BTypeOK'
  BY <1>2, <1>3, <1>4, <1>5 DEF BTypeOK, Source
<1>7. SourceApart' /\ OneInOwner' /\ FilesNamed' /\ LocksHeld'
  BY <1>2, <1>4, <1>5 DEF SourceApart, OneInOwner, FilesNamed, LocksHeld
<1>8. CopyCurrent'
  <2> SUFFICES ASSUME NEW b \in Backups, b \notin stale'
               PROVE  \A g \in DOMAIN copied[b] : copied[b][g] = Source'[g]
    BY <1>2 DEF CopyCurrent
  <2>1. copied[b] = <<>>
    BY <1>2 DEF CopyCurrent
  <2> QED
    BY <2>1, EmptyCopy
<1>9. NowIsDuring'
  BY <1>2, <1>5 DEF NowIsDuring, Source, BTypeOK
<1> QED
  BY <1>6, <1>7, <1>8, <1>9

(* A call begins with the state of the store in front of it. *)
LEMMA StartInv == BInv /\ (\E b \in Backups : Start(b)) => BInv'
<1> SUFFICES ASSUME BInv, NEW b \in Backups, Start(b) PROVE BInv'
  OBVIOUS
<1> USE DEF BInv
<1>1. /\ at[b] = "Idle" /\ (b \in InOwner => writer = NULL)
      /\ writer' = IF b \in InOwner THEN b ELSE writer
      /\ at' = [at EXCEPT ![b] = "Exists"]
      /\ during' = [during EXCEPT ![b] = {Source}]
      /\ UNCHANGED <<path, content, owned, target, locked, copied, stale>>
  BY DEF Start
<1>2. \A c \in Backups : at'[c] = IF c = b THEN "Exists" ELSE at[c]
  BY <1>1 DEF BTypeOK
<1>3. Source' = Source /\ Source \in Databases
  BY <1>1 DEF Source, SourceApart
<1>4. BTypeOK'
  <2>1. writer' \in {c \in InOwner : at'[c] \in Running} \cup {NULL}
    BY <1>1, <1>2, BackupAssumption DEF BTypeOK, Running
  <2>2. at' \in [Backups -> {"Idle"} \cup Running \cup Ended]
    BY <1>1 DEF BTypeOK, Running
  <2>3. locked' \in [Files -> {c \in Backups : at'[c] = "Copy"} \cup {NULL}]
    BY <1>1, <1>2 DEF BTypeOK
  <2>4. during' \in [Backups -> SUBSET Databases]
    BY <1>1, <1>3 DEF BTypeOK
  <2> QED
    BY <1>1, <1>2, <2>1, <2>2, <2>3, <2>4 DEF BTypeOK
<1>5. SourceApart'
  BY <1>1, <1>2, <1>3 DEF SourceApart
<1>6. OneInOwner'
  BY <1>1, <1>2, BackupAssumption DEF OneInOwner, BTypeOK
<1>7. FilesNamed' /\ LocksHeld'
  BY <1>1, <1>2 DEF FilesNamed, LocksHeld
<1>8. CopyCurrent'
  BY <1>1, <1>2, <1>3 DEF CopyCurrent
<1>9. NowIsDuring'
  BY <1>1, <1>2, <1>3 DEF NowIsDuring, BTypeOK
<1> QED
  BY <1>4, <1>5, <1>6, <1>7, <1>8, <1>9

(* A call that goes on keeps the writer, one that returns gives it back. *)
LEMMA CallMoves ==
  ASSUME BTypeOK, OneInOwner, NEW b \in Backups, at[b] \in Running,
         NEW s \in Running \cup Ended, at' = [at EXCEPT ![b] = s],
         writer' = IF s \in Ended /\ writer = b THEN NULL ELSE writer
  PROVE  /\ at' \in [Backups -> {"Idle"} \cup Running \cup Ended]
         /\ writer' \in {c \in InOwner : at'[c] \in Running} \cup {NULL}
         /\ OneInOwner'
         /\ at'[b] = s /\ \A c \in Backups : c # b => at'[c] = at[c]
<1>1. /\ at' \in [Backups -> {"Idle"} \cup Running \cup Ended]
      /\ at'[b] = s /\ \A c \in Backups : c # b => at'[c] = at[c]
  BY DEF BTypeOK
<1>2. InOwner \subseteq Backups /\ NULL \notin Backups
  BY BackupAssumption
<1>3. Running \cap Ended = {}
  BY DEF Running, Ended
<1>4. writer' \in {c \in InOwner : at'[c] \in Running} \cup {NULL}
  BY <1>1, <1>2, <1>3 DEF BTypeOK
<1>5. OneInOwner'
  BY <1>1, <1>2, <1>3 DEF OneInOwner
<1> QED
  BY <1>1, <1>4, <1>5

(* Looking for the destination touches no file. *)
LEMMA DestExistsInv == BInv /\ (\E b \in Backups : DestExists(b)) => BInv'
<1> SUFFICES ASSUME BInv, NEW b \in Backups, DestExists(b) PROVE BInv'
  OBVIOUS
<1> USE DEF BInv
<1>1. UNCHANGED <<path, content, owned, target, locked, copied, stale, during>>
  BY DEF DestExists
<1>2. PICK s \in {"Open", "Remove", "Refused"} :
        /\ at' = [at EXCEPT ![b] = s] /\ at[b] = "Exists"
        /\ writer' = IF s = "Refused" /\ writer = b THEN NULL ELSE writer
        /\ s = "Open" => path[Dest[b]] = NULL
        /\ s = "Remove" => b \in Overwrite
  BY DEF DestExists, Return
<1>3. /\ at[b] \in Running /\ s \in Running \cup Ended
      /\ writer' = IF s \in Ended /\ writer = b THEN NULL ELSE writer
  BY <1>2 DEF Running, Ended
<1>4. /\ at' \in [Backups -> {"Idle"} \cup Running \cup Ended]
      /\ writer' \in {c \in InOwner : at'[c] \in Running} \cup {NULL}
      /\ OneInOwner'
      /\ at'[b] = s /\ \A c \in Backups : c # b => at'[c] = at[c]
  BY <1>2, <1>3, CallMoves
<1>5. \A c \in Backups : at'[c] = "Copy" <=> at[c] = "Copy"
  BY <1>2, <1>4
<1>6. \A c \in Backups : at'[c] = "Verify" <=> at[c] = "Verify"
  BY <1>2, <1>4
<1>7. BTypeOK'
  BY <1>1, <1>4, <1>5 DEF BTypeOK
<1>8. owned # NULL /\ Source' = Source
  BY <1>1, BackupAssumption DEF BTypeOK, Files, Source
<1>9. SourceApart'
  BY <1>1, <1>2, <1>4, <1>8 DEF SourceApart
<1>10. FilesNamed'
  BY <1>1, <1>2, <1>4, <1>5, <1>6 DEF FilesNamed
<1>11. LocksHeld' /\ CopyCurrent'
  BY <1>1, <1>5, <1>8 DEF LocksHeld, CopyCurrent
<1>12. NowIsDuring'
  BY <1>1, <1>3, <1>4, <1>8 DEF NowIsDuring
<1> QED
  BY <1>4, <1>7, <1>9, <1>10, <1>11, <1>12

(* Removing the destination takes a name away. *)
LEMMA RemoveDestInv == BInv /\ (\E b \in Backups : RemoveDest(b)) => BInv'
<1> SUFFICES ASSUME BInv, NEW b \in Backups, RemoveDest(b) PROVE BInv'
  OBVIOUS
<1> USE DEF BInv
<1>1. UNCHANGED <<content, owned, target, locked, copied, stale, during>>
  BY DEF RemoveDest
<1>2. PICK s \in {"Open", "Failed"} :
        /\ at' = [at EXCEPT ![b] = s] /\ at[b] = "Remove"
        /\ writer' = IF s = "Failed" /\ writer = b THEN NULL ELSE writer
        /\ path' = IF s = "Open" THEN [path EXCEPT ![Dest[b]] = NULL] ELSE path
  BY DEF RemoveDest, Return
<1>3. /\ at[b] \in Running /\ s \in Running \cup Ended
      /\ writer' = IF s \in Ended /\ writer = b THEN NULL ELSE writer
  BY <1>2 DEF Running, Ended
<1>4. /\ at' \in [Backups -> {"Idle"} \cup Running \cup Ended]
      /\ writer' \in {c \in InOwner : at'[c] \in Running} \cup {NULL}
      /\ OneInOwner'
      /\ at'[b] = s /\ \A c \in Backups : c # b => at'[c] = at[c]
  BY <1>2, <1>3, CallMoves
<1>5. \A c \in Backups : (at'[c] = "Copy" <=> at[c] = "Copy") /\ (at'[c] = "Verify" <=> at[c] = "Verify")
  BY <1>2, <1>4
<1>6. /\ path' \in [Paths -> Files \cup {NULL}] /\ Dest \in [Backups -> Paths]
      /\ \A p \in Paths : path'[p] = path[p] \/ path'[p] = NULL
      /\ s = "Open" => path'[Dest[b]] = NULL
  BY <1>2, BackupAssumption DEF BTypeOK
<1>7. BTypeOK'
  BY <1>1, <1>4, <1>5, <1>6 DEF BTypeOK
<1>8. owned # NULL /\ Source' = Source
  BY <1>1, BackupAssumption DEF BTypeOK, Files, Source
<1>9. SourceApart'
  BY <1>1, <1>2, <1>4, <1>6, <1>8 DEF SourceApart
<1>10. FilesNamed'
  BY <1>1, <1>2, <1>4, <1>5, <1>6 DEF FilesNamed
<1>11. LocksHeld' /\ CopyCurrent'
  BY <1>1, <1>5, <1>8 DEF LocksHeld, CopyCurrent
<1>12. NowIsDuring'
  BY <1>1, <1>3, <1>4, <1>8 DEF NowIsDuring
<1> QED
  BY <1>4, <1>7, <1>9, <1>10, <1>11, <1>12

(* What opening the destination does: it opens the file that is there, or a *)
(* new and empty one.                                                       *)
LEMMA OpensFile ==
  ASSUME BInv, NEW b \in Backups, OpenDest(b)
  PROVE  \E f \in Files :
           /\ f # owned /\ f # NULL
           /\ \A c \in Backups : target[c] = f => path[Dest[b]] = f
           /\ \A p \in Paths : path[p] = f => p = Dest[b]
           /\ target' = [target EXCEPT ![b] = f]
           /\ path' = [path EXCEPT ![Dest[b]] = f]
           /\ path[Dest[b]] = NULL => /\ content' = [content EXCEPT ![f] = Empty]
                                      /\ \A p \in Paths : path[p] # f
           /\ path[Dest[b]] # NULL => content' = content /\ path[Dest[b]] = f
<1> USE DEF BInv
<1>1. /\ target[b] = NULL /\ at[b] = "Open" /\ Dest[b] \in Paths /\ NULL \notin Files
  BY BackupAssumption DEF OpenDest, FilesNamed, Files
<1>2. CASE path[Dest[b]] = NULL
  <2>1. /\ NewFile \in Files /\ NewFile # owned /\ NewFile # NULL
        /\ \A p \in Paths : path[p] # NewFile
        /\ \A c \in Backups : target[c] # NewFile
    BY <1>1, <1>2, NewFileExists
  <2>2. /\ target' = [target EXCEPT ![b] = NewFile]
        /\ path' = [path EXCEPT ![Dest[b]] = NewFile]
        /\ content' = [content EXCEPT ![NewFile] = Empty]
    BY <1>2 DEF OpenDest
  <2> QED
    BY <1>2, <2>1, <2>2
<1>3. CASE path[Dest[b]] # NULL
  <2> DEFINE f == path[Dest[b]]
  <2>1. f \in Files /\ f # NULL /\ f # owned
    BY <1>1, <1>3 DEF BTypeOK, SourceApart
  <2>2. /\ target' = [target EXCEPT ![b] = f]
        /\ path' = [path EXCEPT ![Dest[b]] = f]
        /\ content' = content
    BY <1>3 DEF OpenDest
  <2>3. \A p \in Paths : path[p] = f => p = Dest[b]
    BY <1>1, <1>3 DEF FilesNamed
  <2> QED
    BY <1>3, <2>1, <2>2, <2>3
<1> QED
  BY <1>2, <1>3

(* Opening the destination gives the backup a file that is not the store's. *)
LEMMA OpenDestInv == BInv /\ (\E b \in Backups : OpenDest(b)) => BInv'
<1> SUFFICES ASSUME BInv, NEW b \in Backups, OpenDest(b) PROVE BInv'
  OBVIOUS
<1>0. PICK f \in Files :
         /\ f # owned /\ f # NULL
         /\ \A c \in Backups : target[c] = f => path[Dest[b]] = f
         /\ \A p \in Paths : path[p] = f => p = Dest[b]
         /\ target' = [target EXCEPT ![b] = f]
         /\ path' = [path EXCEPT ![Dest[b]] = f]
         /\ path[Dest[b]] = NULL => /\ content' = [content EXCEPT ![f] = Empty]
                                    /\ \A p \in Paths : path[p] # f
         /\ path[Dest[b]] # NULL => content' = content /\ path[Dest[b]] = f
  BY OpensFile
<1> USE DEF BInv
<1>1. /\ at[b] = "Open" /\ at' = [at EXCEPT ![b] = "Copy"]
      /\ UNCHANGED <<owned, writer, locked, copied, stale, during>>
  BY DEF OpenDest
<1>2. /\ at[b] \in Running /\ "Copy" \in Running \cup Ended /\ "Copy" \notin Ended
  BY <1>1 DEF Running, Ended
<1>3. /\ at' \in [Backups -> {"Idle"} \cup Running \cup Ended]
      /\ writer' \in {c \in InOwner : at'[c] \in Running} \cup {NULL}
      /\ OneInOwner'
      /\ at'[b] = "Copy" /\ \A c \in Backups : c # b => at'[c] = at[c]
  BY <1>1, <1>2, CallMoves
<1>4. /\ Dest \in [Backups -> Paths] /\ NULL \notin Files
  BY BackupAssumption DEF Files
<1>5. /\ path' \in [Paths -> Files \cup {NULL}] /\ path'[Dest[b]] = f
      /\ \A p \in Paths : p # Dest[b] => path'[p] = path[p]
  BY <1>0, <1>4 DEF BTypeOK
<1>6. /\ target' \in [Backups -> Files \cup {NULL}] /\ target'[b] = f
      /\ \A c \in Backups : c # b => target'[c] = target[c]
  BY <1>0 DEF BTypeOK
<1>7. /\ content' \in [Files -> Databases \cup {Empty, Other}]
      /\ content'[owned] = content[owned]
  BY <1>0 DEF BTypeOK
<1>8. Source' = Source /\ owned \in Files
  BY <1>1, <1>7 DEF Source, BTypeOK
<1>9. BTypeOK'
  <2>1. locked' \in [Files -> {c \in Backups : at'[c] = "Copy"} \cup {NULL}]
    BY <1>1, <1>3 DEF BTypeOK
  <2>2. stale' \subseteq {c \in Backups : at'[c] = "Copy"}
    BY <1>1, <1>3 DEF BTypeOK
  <2> QED
    BY <1>1, <1>3, <1>5, <1>6, <1>7, <2>1, <2>2 DEF BTypeOK
<1>10. SourceApart'
  <2>1. \A p \in Paths : path'[p] = owned => p = Db
    BY <1>0, <1>5 DEF SourceApart
  <2>2. ASSUME NEW c \in Backups
        PROVE  target'[c] # owned /\ (at'[c] = "Open" => path'[Dest[c]] # owned)
    BY <1>0, <1>3, <1>4, <1>5, <1>6 DEF SourceApart
  <2> QED
    BY <1>1, <1>8, <2>1, <2>2 DEF SourceApart
<1>11. FilesNamed'
  <2>1. \A p, q \in Paths : path'[p] = path'[q] /\ path'[p] # NULL => p = q
    BY <1>0, <1>5 DEF FilesNamed
  <2>2. ASSUME NEW c \in Backups
        PROVE  /\ target'[c] # NULL <=> at'[c] \in {"Copy", "Verify"}
               /\ at'[c] = "Remove" => c \in Overwrite
    BY <1>0, <1>3, <1>6 DEF FilesNamed
  <2>3. ASSUME NEW c \in Backups, NEW p \in Paths, path'[p] = target'[c], target'[c] # NULL
        PROVE  p = Dest[c]
    <3>1. CASE c = b
      BY <1>0, <1>5, <1>6, <2>3, <3>1
    <3>2. CASE c # b /\ p # Dest[b]
      BY <1>5, <1>6, <2>3, <3>2 DEF FilesNamed
    <3>3. CASE c # b /\ p = Dest[b]
      <4>1. target[c] = f /\ target[c] # NULL
        BY <1>5, <1>6, <2>3, <3>3
      <4>2. path[p] = target[c]
        BY <1>0, <3>3, <4>1
      <4> QED
        BY <4>1, <4>2 DEF FilesNamed
    <3> QED
      BY <3>1, <3>2, <3>3
  <2> QED
    BY <2>1, <2>2, <2>3 DEF FilesNamed
<1>12. LocksHeld'
  <2> SUFFICES ASSUME NEW g \in Files, NEW c \in Backups, locked[g] = c PROVE target'[c] = g
    BY <1>1 DEF LocksHeld
  <2>1. at[c] = "Copy"
    BY BackupAssumption DEF BTypeOK
  <2> QED
    BY <1>1, <1>6, <2>1 DEF LocksHeld
<1>13. CopyCurrent'
  BY <1>1, <1>3, <1>8 DEF CopyCurrent
<1>14. NowIsDuring'
  BY <1>1, <1>2, <1>3, <1>8 DEF NowIsDuring
<1> QED
  BY <1>3, <1>9, <1>10, <1>11, <1>12, <1>13, <1>14

(* A step of the copy leaves a beginning of the store as it is now, or, as   *)
(* the last one, the whole of it in the destination.                        *)
LEMMA CopyReads ==
  ASSUME BInv, NEW b \in Backups, CopyStep(b)
  PROVE  /\ at[b] = "Copy" /\ target[b] \in Files /\ target[b] # owned
         /\ locked[target[b]] \in {NULL, b}
         /\ stale' = stale \ {b}
         /\ UNCHANGED <<path, owned, writer, target, during>>
         /\ \/ /\ \E n \in 0..(Groups - 1) : \E next :
                    /\ next \in [1..n -> 0..(Versions - 1)]
                    /\ \A g \in 1..n : next[g] = Source[g]
                    /\ copied' = [copied EXCEPT ![b] = next]
               /\ locked' = [locked EXCEPT ![target[b]] = b]
               /\ UNCHANGED <<content, at>>
            \/ /\ copied' = [copied EXCEPT ![b] = <<>>]
               /\ content' = [content EXCEPT ![target[b]] = Source]
               /\ locked' = [locked EXCEPT ![target[b]] = NULL]
               /\ at' = [at EXCEPT ![b] = "Verify"]
<1> USE DEF BInv
<1> DEFINE sofar == IF b \in stale THEN <<>> ELSE copied[b]
           n     == Cardinality(DOMAIN sofar) + 1
           next  == [g \in 1..n |-> IF g = n THEN Source[g] ELSE sofar[g]]
<1>1. /\ at[b] = "Copy" /\ target[b] \in Files /\ target[b] # owned
      /\ locked[target[b]] \in {NULL, b}
      /\ stale' = stale \ {b}
      /\ UNCHANGED <<path, owned, writer, target, during>>
  BY DEF CopyStep, BTypeOK, SourceApart, FilesNamed
<1>2. IF n < Groups
      THEN /\ copied' = [copied EXCEPT ![b] = next]
           /\ locked' = [locked EXCEPT ![target[b]] = b]
           /\ UNCHANGED <<content, at>>
      ELSE /\ copied' = [copied EXCEPT ![b] = <<>>]
           /\ content' = [content EXCEPT ![target[b]] = next]
           /\ locked' = [locked EXCEPT ![target[b]] = NULL]
           /\ at' = [at EXCEPT ![b] = "Verify"]
  BY DEF CopyStep
<1>3. PICK m \in 0..(Groups - 1) : DOMAIN sofar = 1..m
  BY EmptyCopy DEF CopyCurrent
<1>4. n = m + 1
  <2> HIDE DEF sofar
  <2>1. m \in Nat
    BY BackupAssumption
  <2>2. Cardinality(DOMAIN sofar) = m
    BY <1>3, <2>1, CopySize
  <2> QED
    BY <2>2
<1>5. \A g \in 1..m : sofar[g] = Source[g]
  <2>1. CASE b \in stale
    <3>1. DOMAIN sofar = {}
      BY <2>1, EmptyCopy
    <3> QED
      BY <1>3, <3>1
  <2>2. CASE b \notin stale
    BY <1>3, <2>2 DEF CopyCurrent
  <2> QED
    BY <2>1, <2>2
<1> HIDE DEF sofar
<1>6. m \in Nat /\ n \in 1..Groups /\ Groups \in Nat
  BY <1>4, BackupAssumption
<1>7. \A g \in 1..n : next[g] = Source[g]
  <2> SUFFICES ASSUME NEW g \in 1..n, g # n PROVE sofar[g] = Source[g]
    OBVIOUS
  <2>1. g \in 1..m
    BY <1>4, <1>6
  <2> QED
    BY <1>5, <2>1
<1>8. Source \in [1..Groups -> 0..(Versions - 1)]
  BY DEF SourceApart, Databases
<1>9. next = [g \in 1..n |-> Source[g]]
  BY <1>7
<1> HIDE DEF n, next
<1>10. next \in [1..n -> 0..(Versions - 1)]
  <2>1. \A g \in 1..n : g \in 1..Groups
    BY <1>6
  <2> QED
    BY <1>8, <1>9, <2>1
<1>11. CASE n < Groups
  <2>1. n \in 0..(Groups - 1)
    BY <1>6, <1>11
  <2> QED
    BY <1>1, <1>2, <1>7, <1>10, <1>11, <2>1
<1>12. CASE ~(n < Groups)
  <2>1. n = Groups
    BY <1>6, <1>12
  <2>2. next = Source
    BY <1>8, <1>9, <2>1
  <2> QED
    BY <1>1, <1>2, <1>12, <2>2
<1> QED
  BY <1>11, <1>12

(* A step of the copy keeps the copy current, and locks or fills the file    *)
(* that the backup has open.                                                *)
LEMMA CopyStepInv == BInv /\ (\E b \in Backups : CopyStep(b)) => BInv'
<1> SUFFICES ASSUME BInv, NEW b \in Backups, CopyStep(b) PROVE BInv'
  OBVIOUS
<1> USE DEF BInv
<1>1. /\ at[b] = "Copy" /\ target[b] \in Files /\ target[b] # owned
      /\ locked[target[b]] \in {NULL, b}
      /\ stale' = stale \ {b}
      /\ UNCHANGED <<path, owned, writer, target, during>>
  BY CopyReads
<1>2. /\ owned \in Files /\ NULL \notin Backups
      /\ \A g \in Files, c \in Backups : locked[g] = c => at[c] = "Copy" /\ target[c] = g
  BY BackupAssumption DEF BTypeOK, LocksHeld
<1>3. ASSUME NEW n \in 0..(Groups - 1), NEW next,
             next \in [1..n -> 0..(Versions - 1)],
             \A g \in 1..n : next[g] = Source[g],
             copied' = [copied EXCEPT ![b] = next],
             locked' = [locked EXCEPT ![target[b]] = b],
             UNCHANGED <<content, at>>
      PROVE  BInv'
  <2>1. DOMAIN next = 1..n /\ n \in Nat /\ Cardinality(DOMAIN next) = n
    BY <1>3, CopySize, BackupAssumption
  <2>2. Source' = Source
    BY <1>1, <1>3 DEF Source
  <2>3. DOMAIN copied = Backups
    BY DEF CopyCurrent
  <2>4. DOMAIN copied' = Backups /\ \A c \in Backups : c # b => copied'[c] = copied[c]
    BY <1>3, <2>3
  <2>5. copied'[b] = next
    BY <1>3, <2>3
  <2>6. BTypeOK'
    <3>1. ASSUME NEW c \in Backups
          PROVE  copied'[c] \in [1..Cardinality(DOMAIN copied'[c]) -> 0..(Versions - 1)]
      BY <1>3, <2>1, <2>4, <2>5 DEF BTypeOK
    <3>2. locked' \in [Files -> {c \in Backups : at'[c] = "Copy"} \cup {NULL}]
      BY <1>1, <1>3 DEF BTypeOK
    <3> QED
      BY <1>1, <1>3, <3>1, <3>2 DEF BTypeOK
  <2>7. LocksHeld'
    BY <1>1, <1>2, <1>3 DEF LocksHeld, BTypeOK
  <2>8. CopyCurrent'
    BY <1>1, <1>3, <2>1, <2>2, <2>4, <2>5 DEF CopyCurrent
  <2>9. SourceApart' /\ OneInOwner' /\ FilesNamed' /\ NowIsDuring'
    BY <1>1, <1>3, <2>2 DEF SourceApart, OneInOwner, FilesNamed, NowIsDuring
  <2> QED
    BY <2>6, <2>7, <2>8, <2>9
<1>4. ASSUME copied' = [copied EXCEPT ![b] = <<>>],
             content' = [content EXCEPT ![target[b]] = Source],
             locked' = [locked EXCEPT ![target[b]] = NULL],
             at' = [at EXCEPT ![b] = "Verify"]
      PROVE  BInv'
  <2>1. at[b] \in Running /\ "Verify" \in Running \cup Ended /\ "Verify" \notin Ended
    BY <1>1 DEF Running, Ended
  <2>2. /\ at' \in [Backups -> {"Idle"} \cup Running \cup Ended]
        /\ writer' \in {c \in InOwner : at'[c] \in Running} \cup {NULL}
        /\ OneInOwner'
        /\ at'[b] = "Verify" /\ \A c \in Backups : c # b => at'[c] = at[c]
    BY <1>1, <1>4, <2>1, CallMoves
  <2>3. Source' = Source /\ Source \in Databases
    BY <1>1, <1>2, <1>4 DEF Source, SourceApart, BTypeOK
  <2>4. content' \in [Files -> Databases \cup {Empty, Other}]
    BY <1>1, <1>4, <2>3 DEF BTypeOK
  <2>5. /\ locked'[target[b]] = NULL
        /\ \A g \in Files : g # target[b] => locked'[g] = locked[g]
    BY <1>1, <1>4 DEF BTypeOK
  <2>6. BTypeOK'
    <3>1. ASSUME NEW c \in Backups
          PROVE  copied'[c] \in [1..Cardinality(DOMAIN copied'[c]) -> 0..(Versions - 1)]
      <4>1. copied'[c] = <<>> \/ copied'[c] = copied[c]
        BY <1>4
      <4> QED
        BY <4>1, EmptyCopy DEF BTypeOK
    <3>2. locked' \in [Files -> {c \in Backups : at'[c] = "Copy"} \cup {NULL}]
      <4>1. \A g \in Files : locked'[g] \in {c \in Backups : at'[c] = "Copy"} \cup {NULL}
        BY <1>1, <1>2, <2>2, <2>5 DEF BTypeOK
      <4>2. locked' = [g \in Files |-> locked'[g]]
        BY <1>4 DEF BTypeOK
      <4> QED
        BY <4>1, <4>2
    <3>3. stale' \subseteq {c \in Backups : at'[c] = "Copy"}
      BY <1>1, <2>2 DEF BTypeOK
    <3> QED
      BY <1>1, <2>2, <2>4, <3>1, <3>2, <3>3 DEF BTypeOK
  <2>7. LocksHeld'
    BY <1>1, <1>2, <2>5 DEF LocksHeld
  <2>8. CopyCurrent'
    <3>0. DOMAIN copied' = Backups
      BY <1>4 DEF CopyCurrent
    <3> SUFFICES ASSUME NEW c \in Backups
                 PROVE  /\ \E n \in 0..(Groups - 1) : DOMAIN copied'[c] = 1..n
                        /\ c \notin stale' => \A g \in DOMAIN copied'[c] : copied'[c][g] = Source'[g]
                        /\ at'[c] # "Copy" => copied'[c] = <<>>
      BY <1>1, <3>0 DEF CopyCurrent
    <3>1. CASE c # b
      <4>1. copied'[c] = copied[c] /\ at'[c] = at[c] /\ (c \in stale' <=> c \in stale)
        BY <1>1, <1>4, <2>2, <3>1
      <4> QED
        BY <2>3, <4>1 DEF CopyCurrent
    <3>2. CASE c = b
      <4>1. copied'[b] = <<>>
        BY <1>4 DEF CopyCurrent
      <4> QED
        BY <3>2, <4>1, EmptyCopy
    <3> QED
      BY <3>1, <3>2
  <2>9. SourceApart'
    BY <1>1, <2>2, <2>3 DEF SourceApart
  <2>10. FilesNamed'
    BY <1>1, <2>2 DEF FilesNamed
  <2>11. NowIsDuring'
    BY <1>1, <2>1, <2>2, <2>3 DEF NowIsDuring
  <2> QED
    BY <2>2, <2>6, <2>7, <2>8, <2>9, <2>10, <2>11
<1> QED
  BY <1>3, <1>4, CopyReads

(* A call that ends closes its destination. *)
LEMMA VerifyInv == BInv /\ (\E b \in Backups : Verify(b)) => BInv'
<1> SUFFICES ASSUME BInv, NEW b \in Backups, Verify(b) PROVE BInv'
  OBVIOUS
<1> USE DEF BInv
<1>1. /\ at[b] = "Verify" /\ at' = [at EXCEPT ![b] = "Ok"]
      /\ writer' = IF writer = b THEN NULL ELSE writer
      /\ target' = [target EXCEPT ![b] = NULL]
      /\ UNCHANGED <<path, content, owned, locked, copied, stale, during>>
  BY DEF Verify, Return
<1>2. at[b] \in Running /\ "Ok" \in Ended /\ "Ok" \notin Running
  BY <1>1 DEF Running, Ended
<1>3. /\ at' \in [Backups -> {"Idle"} \cup Running \cup Ended]
      /\ writer' \in {c \in InOwner : at'[c] \in Running} \cup {NULL}
      /\ OneInOwner'
      /\ at'[b] = "Ok" /\ \A c \in Backups : c # b => at'[c] = at[c]
  BY <1>1, <1>2, CallMoves
<1>4. /\ target'[b] = NULL /\ target' \in [Backups -> Files \cup {NULL}]
      /\ \A c \in Backups : c # b => target'[c] = target[c]
  BY <1>1 DEF BTypeOK
<1>5. owned # NULL /\ Source' = Source
  BY <1>1, BackupAssumption DEF BTypeOK, Files, Source
<1>6. \A c \in Backups : at'[c] = "Copy" <=> at[c] = "Copy"
  BY <1>1, <1>3
<1>7. BTypeOK'
  BY <1>1, <1>3, <1>4, <1>6 DEF BTypeOK
<1>8. SourceApart'
  BY <1>1, <1>3, <1>4, <1>5 DEF SourceApart
<1>9. FilesNamed'
  BY <1>1, <1>3, <1>4 DEF FilesNamed
<1>10. LocksHeld'
  <2> SUFFICES ASSUME NEW f \in Files, NEW c \in Backups, locked[f] = c PROVE target'[c] = f
    BY <1>1 DEF LocksHeld
  <2>1. at[c] = "Copy"
    BY BackupAssumption DEF BTypeOK
  <2> QED
    BY <1>1, <1>4, <2>1 DEF LocksHeld
<1>11. CopyCurrent'
  BY <1>1, <1>5, <1>6 DEF CopyCurrent
<1>12. NowIsDuring'
  BY <1>1, <1>2, <1>3, <1>5 DEF NowIsDuring
<1> QED
  BY <1>3, <1>7, <1>8, <1>9, <1>10, <1>11, <1>12

(* A call that fails gives up its locks and what it had copied. *)
LEMMA FailInv == BInv /\ (\E b \in Backups : Fail(b)) => BInv'
<1> SUFFICES ASSUME BInv, NEW b \in Backups, Fail(b) PROVE BInv'
  OBVIOUS
<1> USE DEF BInv
<1>1. /\ at[b] \in Running /\ at' = [at EXCEPT ![b] = "Failed"]
      /\ writer' = IF writer = b THEN NULL ELSE writer
      /\ locked' = [f \in Files |-> IF locked[f] = b THEN NULL ELSE locked[f]]
      /\ target' = [target EXCEPT ![b] = NULL]
      /\ copied' = [copied EXCEPT ![b] = <<>>]
      /\ stale' = stale \ {b}
      /\ UNCHANGED <<path, content, owned, during>>
  BY DEF Fail, Return
<1>2. "Failed" \in Ended /\ "Failed" \notin Running
  BY DEF Running, Ended
<1>3. /\ at' \in [Backups -> {"Idle"} \cup Running \cup Ended]
      /\ writer' \in {c \in InOwner : at'[c] \in Running} \cup {NULL}
      /\ OneInOwner'
      /\ at'[b] = "Failed" /\ \A c \in Backups : c # b => at'[c] = at[c]
  BY <1>1, <1>2, CallMoves
<1>4. /\ target'[b] = NULL /\ target' \in [Backups -> Files \cup {NULL}]
      /\ \A c \in Backups : c # b => target'[c] = target[c]
  BY <1>1 DEF BTypeOK
<1>5. owned # NULL /\ Source' = Source /\ NULL \notin Backups
  BY <1>1, BackupAssumption DEF BTypeOK, Files, Source
<1>6. /\ DOMAIN copied' = Backups /\ copied'[b] = <<>>
      /\ \A c \in Backups : c # b => copied'[c] = copied[c]
  BY <1>1 DEF CopyCurrent
<1>7. BTypeOK'
  <2>1. ASSUME NEW c \in Backups
        PROVE  copied'[c] \in [1..Cardinality(DOMAIN copied'[c]) -> 0..(Versions - 1)]
    <3>1. CASE c = b
      BY <1>6, <3>1, EmptyCopy
    <3>2. CASE c # b
      BY <1>6, <3>2 DEF BTypeOK
    <3> QED
      BY <3>1, <3>2
  <2>2. locked' \in [Files -> {c \in Backups : at'[c] = "Copy"} \cup {NULL}]
    BY <1>1, <1>3 DEF BTypeOK
  <2>3. stale' \subseteq {c \in Backups : at'[c] = "Copy"}
    BY <1>1, <1>3 DEF BTypeOK
  <2> QED
    BY <1>1, <1>3, <1>4, <2>1, <2>2, <2>3 DEF BTypeOK
<1>8. SourceApart'
  BY <1>1, <1>3, <1>4, <1>5 DEF SourceApart
<1>9. FilesNamed'
  BY <1>1, <1>3, <1>4 DEF FilesNamed
<1>10. LocksHeld'
  BY <1>1, <1>4, <1>5 DEF LocksHeld
<1>11. CopyCurrent'
  <2> SUFFICES ASSUME NEW c \in Backups
               PROVE  /\ \E n \in 0..(Groups - 1) : DOMAIN copied'[c] = 1..n
                      /\ c \notin stale' => \A g \in DOMAIN copied'[c] : copied'[c][g] = Source'[g]
                      /\ at'[c] # "Copy" => copied'[c] = <<>>
    BY <1>6 DEF CopyCurrent
  <2>1. CASE c = b
    BY <1>6, <2>1, EmptyCopy
  <2>2. CASE c # b
    BY <1>1, <1>3, <1>5, <1>6, <2>2 DEF CopyCurrent
  <2> QED
    BY <2>1, <2>2
<1>12. NowIsDuring'
  BY <1>1, <1>2, <1>3, <1>5 DEF NowIsDuring
<1> QED
  BY <1>3, <1>7, <1>8, <1>9, <1>10, <1>11, <1>12

(* Nothing changes. *)
LEMMA BStutter == BInv /\ UNCHANGED bVars => BInv'
<1> SUFFICES ASSUME BInv, UNCHANGED bVars PROVE BInv'
  OBVIOUS
<1>1. UNCHANGED <<path, content, owned, writer, at, target, locked, copied, stale, during>>
  BY DEF bVars
<1>2. BTypeOK'
  BY <1>1 DEF BInv, BTypeOK
<1>3. SourceApart' /\ OneInOwner' /\ FilesNamed' /\ LocksHeld'
  BY <1>1 DEF BInv, SourceApart, Source, OneInOwner, FilesNamed, LocksHeld
<1>4. CopyCurrent' /\ NowIsDuring'
  BY <1>1 DEF BInv, CopyCurrent, NowIsDuring, Source
<1> QED
  BY <1>2, <1>3, <1>4 DEF BInv

(* Every step preserves the invariant. *)
LEMMA BNextInv == BInv /\ [BNext]_bVars => BInv'
BY CommitInv, StartInv, DestExistsInv, RemoveDestInv, OpenDestInv, CopyStepInv, VerifyInv,
   FailInv, BStutter DEF BNext, Step

(* However many backups run side by side, in one process or several, and     *)
(* whatever paths they write to: locks, the writer and stale copies belong   *)
(* to calls in progress, and no backup ever writes to the store's file.      *)
THEOREM BackupInvariant == BSpec => []BInv
BY BInitInv, BNextInv, PTL DEF BSpec

(* The files, locks and copies always have the types the code relies on. *)
THEOREM BackupTypes == BSpec => []BTypeOK
<1>1. BInv => BTypeOK
  BY DEF BInv
<1> QED
  BY <1>1, BackupInvariant, PTL

----------------------------------------------------------------------------
(* Backups that share a destination                                        *)

(* Two calls of the process that owns the store never run at once.          *)
LEMMA OwnersTakeTurns ==
  ASSUME BInv, NEW b \in InOwner, NEW c \in InOwner,
         at[b] \in Running, at[c] \in Running
  PROVE  b = c
BY DEF BInv, OneInOwner

(* Every step is a commit or a step of one backup. *)
LEMMA BackupCases ==
  ASSUME [BNext]_bVars
  PROVE  \/ Commit \/ UNCHANGED bVars
         \/ \E b \in Backups : \/ Start(b) \/ DestExists(b) \/ RemoveDest(b) \/ OpenDest(b)
                               \/ CopyStep(b) \/ Verify(b) \/ Fail(b)
BY DEF BNext, Step

(* The steps that touch no file and no path of another call. *)
LEMMA QuietSteps ==
  ASSUME BInv, NEW b \in Backups, Start(b) \/ DestExists(b) \/ Verify(b) \/ Fail(b)
  PROVE  /\ UNCHANGED <<path, content, owned>>
         /\ \A c \in Backups \ {b} :
              at'[c] = at[c] /\ target'[c] = target[c] /\ during'[c] = during[c]
         /\ at'[b] \notin {"Copy", "Verify"}
         /\ at'[b] = "Open" => path[Dest[b]] = NULL
         /\ at'[b] = "Ok" => at[b] = "Verify" /\ UNCHANGED during
<1>1. b \in DOMAIN at
  BY DEF BInv, BTypeOK
<1>2. CASE Start(b)
  BY <1>1, <1>2 DEF Start
<1>3. CASE DestExists(b)
  <2>1. PICK s \in {"Open", "Remove", "Refused"} :
          at' = [at EXCEPT ![b] = s] /\ (s = "Open" => path[Dest[b]] = NULL)
    BY <1>3 DEF DestExists, Return
  <2>2. UNCHANGED <<path, content, owned, target, during>>
    BY <1>3 DEF DestExists
  <2> QED
    BY <1>1, <2>1, <2>2
<1>4. CASE Verify(b)
  BY <1>1, <1>4 DEF Verify, Return
<1>5. CASE Fail(b)
  BY <1>1, <1>5 DEF Fail, Return
<1> QED
  BY <1>2, <1>3, <1>4, <1>5

(* A commit touches no destination. *)
LEMMA CommitQuiet ==
  ASSUME BInv, Commit
  PROVE  /\ UNCHANGED <<path, at, target, owned>>
         /\ \A f : f # owned => content'[f] = content[f]
         /\ \A c \in Backups : during[c] \subseteq during'[c]
<1>1. PICK New : content' = [content EXCEPT ![owned] = New]
  BY DEF Commit
<1>2. \A f : f # owned => content'[f] = content[f]
  <2>1. DOMAIN content = Files
    BY DEF BInv, BTypeOK
  <2> SUFFICES ASSUME NEW f, f # owned PROVE content'[f] = content[f]
    OBVIOUS
  <2> QED
    BY <1>1
<1>3. /\ UNCHANGED <<path, at, target, owned>>
      /\ \A c \in Backups : during[c] \subseteq during'[c]
  BY DEF Commit
<1> QED
  BY <1>2, <1>3

(* What a backup wrote stays where it wrote it until it returns. *)
LEMMA InPlaceStep ==
  ASSUME BInv, OverwritersApart, CopyInPlace, [BNext]_bVars
  PROVE  CopyInPlace'
<1> USE DEF BInv
<1>0. Dest \in [Backups -> Paths] /\ NULL \notin Files /\ InOwner \subseteq Backups
      /\ Overwrite \subseteq Backups
  BY BackupAssumption DEF Files
<1> SUFFICES ASSUME NEW c \in Backups
             PROVE  /\ at'[c] \in {"Copy", "Verify"} => path'[Dest[c]] = target'[c]
                    /\ at'[c] = "Verify" => content'[target'[c]] \in during'[c]
  BY DEF CopyInPlace
<1> DEFINE InPlace == /\ at'[c] \in {"Copy", "Verify"} => path'[Dest[c]] = target'[c]
                      /\ at'[c] = "Verify" => content'[target'[c]] \in during'[c]
<1>1. /\ at[c] \in {"Copy", "Verify"} => path[Dest[c]] = target[c] /\ target[c] \in Files
      /\ at[c] = "Verify" => content[target[c]] \in during[c]
      /\ target[c] # owned
  BY DEF CopyInPlace, FilesNamed, BTypeOK, SourceApart
<1>2. CASE Commit
  BY <1>1, <1>2, CommitQuiet
<1>3. CASE UNCHANGED bVars
  BY <1>1, <1>3 DEF bVars
<1>4. ASSUME NEW b \in Backups, Start(b) \/ DestExists(b) \/ Verify(b) \/ Fail(b)
      PROVE  InPlace
  BY <1>1, <1>4, QuietSteps
<1>5. ASSUME NEW b \in Backups, RemoveDest(b)
      PROVE  InPlace
  <2>1. /\ at[b] = "Remove" /\ at'[b] \in {"Open", "Failed"}
        /\ \A d \in Backups : d # b => at'[d] = at[d]
        /\ path' \in {path, [path EXCEPT ![Dest[b]] = NULL]}
        /\ UNCHANGED <<content, target, during>>
    BY <1>5 DEF RemoveDest, Return, BTypeOK
  <2>2. b \in Overwrite
    BY <2>1 DEF FilesNamed
  <2>3. CASE c = b
    BY <2>1, <2>3
  <2>4. CASE c # b /\ Dest[c] # Dest[b]
    BY <1>0, <1>1, <2>1, <2>4 DEF BTypeOK
  <2>5. CASE c # b /\ Dest[c] = Dest[b]
    <3>1. at[c] \in {"Copy", "Verify"} => FALSE
      BY <2>1, <2>2, <2>5, OwnersTakeTurns DEF OverwritersApart, Running
    <3> QED
      BY <2>1, <2>5, <3>1
  <2> QED
    BY <2>3, <2>4, <2>5
<1>6. ASSUME NEW b \in Backups, OpenDest(b)
      PROVE  InPlace
  <2>1. PICK f \in Files :
           /\ f # owned /\ f # NULL
           /\ \A d \in Backups : target[d] = f => path[Dest[b]] = f
           /\ target' = [target EXCEPT ![b] = f]
           /\ path' = [path EXCEPT ![Dest[b]] = f]
           /\ path[Dest[b]] = NULL => content' = [content EXCEPT ![f] = Empty]
           /\ path[Dest[b]] # NULL => content' = content /\ path[Dest[b]] = f
    BY <1>6, OpensFile
  <2>2. /\ at'[b] = "Copy" /\ (\A d \in Backups : d # b => at'[d] = at[d])
        /\ during' = during
    BY <1>6 DEF OpenDest, BTypeOK
  <2>3. path'[Dest[b]] = f /\ (\A p \in Paths : p # Dest[b] => path'[p] = path[p])
    BY <1>0, <2>1 DEF BTypeOK
  <2>4. target'[b] = f /\ (\A d \in Backups : d # b => target'[d] = target[d])
    BY <2>1 DEF BTypeOK
  <2>5. CASE c = b
    BY <2>2, <2>3, <2>4, <2>5
  <2>6. CASE c # b /\ at[c] \in {"Copy", "Verify"}
    <3>1. path'[Dest[c]] = path[Dest[c]]
      <4>1. CASE Dest[c] = Dest[b]
        BY <1>0, <1>1, <2>1, <2>3, <2>6, <4>1
      <4> QED
        BY <1>0, <2>3, <4>1
    <3>2. content'[target[c]] = content[target[c]]
      BY <1>0, <1>1, <2>1, <2>6 DEF BTypeOK
    <3> QED
      BY <1>1, <2>2, <2>4, <2>6, <3>1, <3>2
  <2> QED
    BY <2>2, <2>5, <2>6
<1>7. ASSUME NEW b \in Backups, CopyStep(b)
      PROVE  InPlace
  <2>1. UNCHANGED <<path, target, during>> /\ at[b] = "Copy" /\ target[b] \in Files
    BY <1>7, CopyReads
  <2>2. CASE UNCHANGED <<content, at>>
    BY <1>1, <2>1, <2>2
  <2>3. CASE content' = [content EXCEPT ![target[b]] = Source] /\ at' = [at EXCEPT ![b] = "Verify"]
    <3>1. at'[c] \in {"Copy", "Verify"} => at[c] \in {"Copy", "Verify"} /\ Source \in during[c]
      BY <2>1, <2>3 DEF BTypeOK, NowIsDuring, Running
    <3>2. content'[target[b]] = Source /\ \A f \in Files : f # target[b] => content'[f] = content[f]
      BY <2>1, <2>3 DEF BTypeOK
    <3>3. c # b => at'[c] = at[c]
      BY <2>3 DEF BTypeOK
    <3> QED
      BY <1>1, <2>1, <3>1, <3>2, <3>3
  <2> QED
    BY <1>7, <2>2, <2>3, CopyReads
<1> QED
  BY <1>2, <1>3, <1>4, <1>5, <1>6, <1>7, BackupCases

(* A backup that reports success has put at its destination, whole, a state  *)
(* of the store that was committed between its call and its return, however *)
(* many commits and other backups went on beside it, as long as no backup    *)
(* that may replace files writes to the destination of another process.     *)
THEOREM BackupsArePointInTime == ASSUME OverwritersApart PROVE BSpec => BackupPointInTime
<1>1. BInit => BInv /\ CopyInPlace
  BY BInitInv
<1>2. BInv /\ CopyInPlace /\ [BNext]_bVars => (BInv /\ CopyInPlace)'
  BY BNextInv, InPlaceStep
<1>3. ASSUME BInv, CopyInPlace, [BNext]_bVars, NEW b \in Backups, at[b] # "Ok", at'[b] = "Ok"
      PROVE  path'[Dest[b]] # NULL /\ content'[path'[Dest[b]]] \in during[b]
  <2>1. ASSUME NEW c \in Backups, Start(c) \/ DestExists(c) \/ Verify(c) \/ Fail(c)
        PROVE  at[b] = "Verify" /\ UNCHANGED <<path, content, during>>
    BY <1>3, <2>1, QuietSteps
  <2>2. ASSUME NEW c \in Backups, RemoveDest(c) \/ OpenDest(c)
        PROVE  FALSE
    BY <1>3, <2>2 DEF RemoveDest, OpenDest, Return, BInv, BTypeOK
  <2>3. ASSUME NEW c \in Backups, CopyStep(c)
        PROVE  FALSE
    BY <1>3, <2>3, CopyReads DEF BInv, BTypeOK
  <2>4. ~Commit /\ ~UNCHANGED bVars
    BY <1>3 DEF Commit, bVars
  <2>5. at[b] = "Verify" /\ UNCHANGED <<path, content, during>>
    BY <1>3, <2>1, <2>2, <2>3, <2>4, BackupCases
  <2>6. path[Dest[b]] = target[b] /\ target[b] # NULL /\ content[target[b]] \in during[b]
    BY <1>3, <2>5 DEF CopyInPlace, BInv, FilesNamed
  <2> QED
    BY <2>5, <2>6
<1>4. BInv /\ CopyInPlace /\ [BNext]_bVars =>
        [\A b \in Backups :
           at[b] # "Ok" /\ at'[b] = "Ok" =>
             path'[Dest[b]] # NULL /\ content'[path'[Dest[b]]] \in during[b]]_bVars
  BY <1>3
<1> QED
  BY <1>1, <1>2, <1>4, PTL DEF BSpec, BackupPointInTime

(* A call that may not overwrite has its destination to itself. *)
LEMMA CreatorsAlone ==
  ASSUME BInv, CreatorsApart, NEW b \in Backups \ Overwrite, NEW c \in Backups,
         at[b] \in Running, at[c] \in Running, Dest[b] = Dest[c]
  PROVE  b = c
BY OwnersTakeTurns DEF CreatorsApart

(* It finds nothing there, and fills the file that it created. *)
LEMMA CreatorsStep ==
  ASSUME BInv, CreatorsApart, CreatorsCreate, [BNext]_bVars
  PROVE  CreatorsCreate'
<1> USE DEF BInv
<1>0. Dest \in [Backups -> Paths] /\ NULL \notin Files
  BY BackupAssumption DEF Files
<1> SUFFICES ASSUME NEW c \in Backups \ Overwrite
             PROVE  /\ at'[c] = "Open" => path'[Dest[c]] = NULL
                    /\ at'[c] = "Copy" => path'[Dest[c]] = target'[c] /\ content'[target'[c]] = Empty
  BY DEF CreatorsCreate
<1> DEFINE Creates == /\ at'[c] = "Open" => path'[Dest[c]] = NULL
                      /\ at'[c] = "Copy" => path'[Dest[c]] = target'[c] /\ content'[target'[c]] = Empty
<1>1. /\ at[c] = "Open" => path[Dest[c]] = NULL /\ at[c] \in Running
      /\ at[c] = "Copy" => /\ path[Dest[c]] = target[c] /\ content[target[c]] = Empty
                           /\ target[c] # NULL /\ target[c] \in Files /\ at[c] \in Running
      /\ target[c] # owned /\ at[c] # "Remove"
  BY DEF CreatorsCreate, SourceApart, FilesNamed, BTypeOK, Running
<1>2. CASE Commit
  BY <1>1, <1>2, CommitQuiet
<1>3. CASE UNCHANGED bVars
  BY <1>1, <1>3 DEF bVars
<1>4. ASSUME NEW b \in Backups, Start(b) \/ DestExists(b) \/ Verify(b) \/ Fail(b)
      PROVE  Creates
  BY <1>1, <1>4, QuietSteps
<1>5. ASSUME NEW b \in Backups, RemoveDest(b)
      PROVE  Creates
  <2>1. /\ at[b] = "Remove"
        /\ \A d \in Backups : d # b => at'[d] = at[d]
        /\ path' \in {path, [path EXCEPT ![Dest[b]] = NULL]}
        /\ UNCHANGED <<content, target>>
    BY <1>5 DEF RemoveDest, Return, BTypeOK
  <2>2. c # b
    BY <1>1, <2>1
  <2>3. CASE Dest[c] # Dest[b]
    BY <1>0, <1>1, <2>1, <2>2, <2>3 DEF BTypeOK
  <2>4. CASE Dest[c] = Dest[b]
    <3>1. at[c] \notin {"Open", "Copy"}
      BY <1>1, <2>1, <2>2, <2>4, CreatorsAlone DEF Running
    <3> QED
      BY <2>1, <2>2, <3>1
  <2> QED
    BY <2>3, <2>4
<1>6. ASSUME NEW b \in Backups, OpenDest(b)
      PROVE  Creates
  <2>1. PICK f \in Files :
           /\ f # owned /\ f # NULL
           /\ \A d \in Backups : target[d] = f => path[Dest[b]] = f
           /\ target' = [target EXCEPT ![b] = f]
           /\ path' = [path EXCEPT ![Dest[b]] = f]
           /\ path[Dest[b]] = NULL => content' = [content EXCEPT ![f] = Empty]
           /\ path[Dest[b]] # NULL => content' = content /\ path[Dest[b]] = f
    BY <1>6, OpensFile
  <2>2. at[b] = "Open" /\ at'[b] = "Copy" /\ (\A d \in Backups : d # b => at'[d] = at[d])
    BY <1>6 DEF OpenDest, BTypeOK
  <2>3. path'[Dest[b]] = f /\ (\A p \in Paths : p # Dest[b] => path'[p] = path[p])
    BY <1>0, <2>1 DEF BTypeOK
  <2>4. target'[b] = f /\ (\A d \in Backups : d # b => target'[d] = target[d])
    BY <2>1 DEF BTypeOK
  <2>5. CASE c = b
    <3>1. content'[f] = Empty
      BY <1>1, <2>1, <2>2, <2>5 DEF BTypeOK
    <3> QED
      BY <2>2, <2>3, <2>4, <2>5, <3>1
  <2>6. CASE c # b /\ at[c] \in {"Open", "Copy"}
    <3>1. Dest[c] # Dest[b]
      BY <1>1, <2>2, <2>6, CreatorsAlone DEF Running
    <3>2. path'[Dest[c]] = path[Dest[c]]
      BY <1>0, <2>3, <3>1
    <3>3. at[c] = "Copy" => content'[target[c]] = content[target[c]]
      BY <1>0, <1>1, <2>1, <2>6 DEF BTypeOK
    <3> QED
      BY <1>1, <2>2, <2>4, <2>6, <3>2, <3>3
  <2> QED
    BY <2>2, <2>5, <2>6
<1>7. ASSUME NEW b \in Backups, CopyStep(b)
      PROVE  Creates
  <2>1. UNCHANGED <<path, target>> /\ at[b] = "Copy" /\ target[b] \in Files
    BY <1>7, CopyReads
  <2>2. CASE UNCHANGED <<content, at>>
    BY <1>1, <2>1, <2>2
  <2>3. CASE content' = [content EXCEPT ![target[b]] = Source] /\ at' = [at EXCEPT ![b] = "Verify"]
    <3>1. at'[b] = "Verify" /\ (c # b => at'[c] = at[c])
      BY <2>3 DEF BTypeOK
    <3>2. \A f \in Files : f # target[b] => content'[f] = content[f]
      BY <2>1, <2>3 DEF BTypeOK
    <3>3. ASSUME c # b, at[c] = "Copy" PROVE target[c] # target[b]
      <4>1. Dest[c] # Dest[b]
        BY <1>1, <2>1, <3>3, CreatorsAlone DEF Running
      <4> QED
        BY <1>0, <1>1, <3>3, <4>1 DEF FilesNamed
    <3> QED
      BY <1>1, <2>1, <3>1, <3>2, <3>3
  <2> QED
    BY <1>7, <2>2, <2>3, CopyReads
<1> QED
  BY <1>2, <1>3, <1>4, <1>5, <1>6, <1>7, BackupCases

(* A file that holds something is replaced only by a backup that was told to *)
(* overwrite it, as long as no backup that was not shares its destination    *)
(* with another process.                                                    *)
THEOREM ExistingFilesAreKept == ASSUME CreatorsApart PROVE BSpec => ExistingKept
<1>1. BInit => BInv /\ CreatorsCreate
  BY BInitInv
<1>2. BInv /\ CreatorsCreate /\ [BNext]_bVars => (BInv /\ CreatorsCreate)'
  BY BNextInv, CreatorsStep
<1>3. ASSUME BInv, CreatorsCreate, [BNext]_bVars, NEW p \in Paths \ {Db},
             path[p] # NULL, content[path[p]] # Empty
      PROVE  \/ path'[p] = path[p] /\ content'[path[p]] = content[path[p]]
             \/ \E b \in Overwrite : Dest[b] = p /\ at[b] # at'[b]
  <2>0. /\ Dest \in [Backups -> Paths] /\ Overwrite \subseteq Backups
        /\ path \in [Paths -> Files \cup {NULL}] /\ DOMAIN content = Files
        /\ path[p] \in Files /\ path[p] # owned
    BY <1>3, BackupAssumption DEF BInv, BTypeOK, SourceApart
  <2>1. ASSUME Commit \/ UNCHANGED bVars \/ \E b \in Backups : Start(b) \/ DestExists(b) \/ Verify(b) \/ Fail(b)
        PROVE  path'[p] = path[p] /\ content'[path[p]] = content[path[p]]
    <3>1. CASE Commit
      BY <1>3, <2>0, <3>1, CommitQuiet
    <3>2. CASE UNCHANGED bVars
      BY <3>2 DEF bVars
    <3>3. CASE \E b \in Backups : Start(b) \/ DestExists(b) \/ Verify(b) \/ Fail(b)
      BY <1>3, <3>3, QuietSteps
    <3> QED
      BY <2>1, <3>1, <3>2, <3>3
  <2>2. ASSUME NEW b \in Backups, RemoveDest(b), ~(path'[p] = path[p] /\ content'[path[p]] = content[path[p]])
        PROVE  b \in Overwrite /\ Dest[b] = p /\ at[b] # at'[b]
    <3>1. /\ at[b] = "Remove" /\ at'[b] \in {"Open", "Failed"} /\ content' = content
          /\ path' \in {path, [path EXCEPT ![Dest[b]] = NULL]}
      BY <1>3, <2>2 DEF RemoveDest, Return, BInv, BTypeOK
    <3>2. b \in Overwrite
      BY <1>3, <3>1 DEF BInv, FilesNamed
    <3> QED
      BY <2>0, <2>2, <3>1, <3>2
  <2>3. ASSUME NEW b \in Backups, OpenDest(b)
        PROVE  path'[p] = path[p] /\ content'[path[p]] = content[path[p]]
    <3>1. PICK f \in Files :
             /\ \A q \in Paths : path[q] = f => q = Dest[b]
             /\ path' = [path EXCEPT ![Dest[b]] = f]
             /\ path[Dest[b]] = NULL => /\ content' = [content EXCEPT ![f] = Empty]
                                        /\ \A q \in Paths : path[q] # f
             /\ path[Dest[b]] # NULL => content' = content /\ path[Dest[b]] = f
      BY <1>3, <2>3, OpensFile
    <3> QED
      BY <1>3, <2>0, <3>1
  <2>4. ASSUME NEW b \in Backups, CopyStep(b), ~(path'[p] = path[p] /\ content'[path[p]] = content[path[p]])
        PROVE  b \in Overwrite /\ Dest[b] = p /\ at[b] # at'[b]
    <3>1. /\ at[b] = "Copy" /\ path' = path
          /\ content' = [content EXCEPT ![target[b]] = Source] /\ at' = [at EXCEPT ![b] = "Verify"]
      BY <1>3, <2>4, CopyReads
    <3>2. path[p] = target[b] /\ at'[b] = "Verify"
      BY <1>3, <2>0, <2>4, <3>1 DEF BInv, BTypeOK
    <3>3. p = Dest[b]
      BY <1>3, <3>2 DEF BInv, FilesNamed
    <3>4. b \in Overwrite
      BY <1>3, <3>1, <3>2 DEF CreatorsCreate
    <3> QED
      BY <3>1, <3>2, <3>3, <3>4
  <2> QED
    BY <1>3, <2>1, <2>2, <2>3, <2>4, BackupCases
<1>4. BInv /\ CreatorsCreate /\ [BNext]_bVars =>
        [\A p \in Paths \ {Db} :
           path[p] # NULL /\ content[path[p]] # Empty =>
             \/ path'[p] = path[p] /\ content'[path[p]] = content[path[p]]
             \/ \E b \in Overwrite : Dest[b] = p /\ at[b] # at'[b]]_bVars
  BY <1>3
<1> QED
  BY <1>1, <1>2, <1>4, PTL DEF BSpec, ExistingKept

=============================================================================
