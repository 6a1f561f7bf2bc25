------------------------------ MODULE JobQueue ------------------------------
(***************************************************************************)
(* The job store seen as the abstract queue of LeaseQueue: the lines are   *)
(* the partitions, the order in a line that of the enqueue sequences of    *)
(* the jobs that are not terminal.  Extensions, lost claims, cursors,      *)
(* clocks and retry delays are not seen.                                   *)
(***************************************************************************)
EXTENDS JobStore

WithState(S) == {j \in DOMAIN jobs : jobs[j].state \in S}

Before(j) == {k \in ActiveIn(jobs, PartitionOf(jobs[j])) : jobs[k].seq < jobs[j].seq}

lineOf    == [j \in DOMAIN jobs |-> PartitionOf(jobs[j])]
aheadOf   == [j \in WithState(ActiveStates) |-> Before(j)]
leaseOf   == [j \in WithState({"Leased"}) |-> jobs[j].token]
doubtOf   == WithState({"Uncertain"})
doneOf    == WithState({"Succeeded", "Dead"})
withdrawn == WithState({"Cancelled"})

Queue == INSTANCE LeaseQueue WITH
  Jobs <- JobIds, Lines <- Queues \X Partitions, Tokens <- Tokens,
  line <- lineOf, ahead <- aheadOf, lease <- leaseOf, doubt <- doubtOf,
  done <- doneOf, withdrawn <- withdrawn, granted <- Issued

(* Every operation of the job store, whatever its caller's clock, token or   *)
(* resolution, is one step of the abstract queue or none: leases go to heads *)
(* of lines only, under new tokens, never to a job whose lease ends in the   *)
(* same call, and a job that was done or withdrawn does not come back.       *)
ImplementsQueue == Queue!LQSpec

=============================================================================
