----------------------------- MODULE LeaseQueue -----------------------------
(***************************************************************************)
(* What the job store promises, without rows, clocks, limits or tables:    *)
(* jobs wait in lines, only the head of a line is leased, under a token    *)
(* that no grant has used before, and a job leaves its line once.          *)
(* JobQueue shows that JobStore implements this specification.             *)
(***************************************************************************)
CONSTANTS
  Jobs,    \* jobs
  Lines,   \* lines that jobs wait in
  Tokens   \* lease tokens

VARIABLES
  line,       \* the line of each job that has arrived
  ahead,      \* for each waiting job, the jobs before it in its line
  lease,      \* the token of each leased job
  doubt,      \* the jobs that were leased and whose outcome is not known
  done,       \* the jobs that were leased and left their line
  withdrawn,  \* the jobs that were cancelled
  granted     \* every <<job, token>> that was ever granted

lqVars == <<line, ahead, lease, doubt, done, withdrawn, granted>>

Nothing == [j \in {} |-> {}]

LQInit ==
  /\ line = Nothing
  /\ ahead = Nothing
  /\ lease = Nothing
  /\ doubt = {}
  /\ done = {}
  /\ withdrawn = {}
  /\ granted = {}

Waiting == DOMAIN ahead
Leased  == DOMAIN lease

(* The lines without the jobs in S, and the leases without theirs *)
AheadWithout(S) == [j \in Waiting \ S |-> ahead[j] \ S]
LeaseWithout(S) == [j \in Leased \ S |-> lease[j]]

----------------------------------------------------------------------------
Arrive(j, l) ==
  /\ j \notin DOMAIN line
  /\ line' = [k \in DOMAIN line \cup {j} |-> IF k = j THEN l ELSE line[k]]
  /\ ahead' = [k \in Waiting \cup {j} |->
                 IF k = j THEN {i \in Waiting : line[i] = l} ELSE ahead[k]]
  /\ UNCHANGED <<lease, doubt, done, withdrawn, granted>>

(* Only what was executed, or may have been, is done *)
Settle(j) ==
  /\ j \in Leased \cup doubt
  /\ ahead' = AheadWithout({j})
  /\ lease' = LeaseWithout({j})
  /\ doubt' = doubt \ {j}
  /\ done' = done \cup {j}
  /\ UNCHANGED <<line, withdrawn, granted>>

Withdraw(j) ==
  /\ j \in Waiting \ doubt
  /\ ahead' = AheadWithout({j})
  /\ lease' = LeaseWithout({j})
  /\ withdrawn' = withdrawn \cup {j}
  /\ UNCHANGED <<line, doubt, done, granted>>

(* Back to its place: to be leased again *)
Return(j) ==
  /\ j \in Leased \cup doubt
  /\ lease' = LeaseWithout({j})
  /\ doubt' = doubt \ {j}
  /\ UNCHANGED <<line, ahead, done, withdrawn, granted>>

(* The leases of R end: those of D are done, those of U in doubt, the rest   *)
(* return.  In the same step the jobs of G, at the head of their line before *)
(* it, are leased.                                                           *)
Claim(R, D, U, G) ==
  /\ \A j \in G : ahead[j] = {}
  /\ ahead' = AheadWithout(D)
  /\ done' = done \cup D
  /\ doubt' = doubt \cup U
  /\ lease' \in [(Leased \ R) \cup G -> Tokens]
  /\ \A j \in Leased \ R : lease'[j] = lease[j]
  /\ \A j \in G : \A g \in granted : g[2] # lease'[j]
  /\ \A j, k \in G : lease'[j] = lease'[k] => j = k
  /\ granted' = granted \cup {<<j, lease'[j]>> : j \in G}
  /\ UNCHANGED <<line, withdrawn>>

LQNext ==
  \/ \E j \in Jobs, l \in Lines : Arrive(j, l)
  \/ \E j \in Jobs : Settle(j) \/ Withdraw(j) \/ Return(j)
  \/ \E R \in SUBSET Leased, G \in SUBSET (Waiting \ (Leased \cup doubt)) :
       \E D \in SUBSET R : \E U \in SUBSET (R \ D) : Claim(R, D, U, G)

LQSpec == LQInit /\ [][LQNext]_lqVars

=============================================================================
