---------------------------- MODULE FacilityUpdates ----------------------------
(***************************************************************************)
(* The updates of the Facility, the EVM contract that pays the rewards.    *)
(* Somebody who wants to claim makes the Facility emit RequestingUpdate;   *)
(* the EventsService answers with a flow in the facilitator-updates-queue: *)
(*                                                                         *)
(*   get-current-rewards -> update-allocation -> recover-update-allocation *)
(*                                               -> recover ...            *)
(*                                                                         *)
(* get-current-rewards reads the claimable amount from the distribution    *)
(* contract, update-allocation sends it to the Facility, and recoveries    *)
(* send it again while the transaction fails and retries are left.  The    *)
(* queue has one worker.  Only the process that hears an event answers it. *)
(***************************************************************************)
EXTENDS Integers, Sequences, FiniteSets

CONSTANTS
  Requests,      \* the events, numbered in their order
  Address,
  MaxRetries,    \* EventsService.maxUpdateAllocationRetries, 6 in the code
  MaxAmount,     \* bound on the claimable amounts
  MaxCrashes,    \* bound on the crashes of a behaviour
  Nobody,        \* the address of an event not emitted yet
  Missing,       \* the rewards that could not be read
  NoJob

Amounts == 0..MaxAmount
Jobs == [kind: {"get", "update", "recover"}, request: Requests,
         amount: Amounts \cup {Missing}, retries: 0..MaxRetries]
Outcomes == {"no", "passed", "failed", "missing"}

ASSUME FacilityAssumption ==
  /\ Requests \subseteq Nat
  /\ MaxRetries \in Nat \ {0} /\ MaxAmount \in Nat /\ MaxCrashes \in Nat
  /\ Nobody \notin Address /\ Missing \notin Nat /\ NoJob \notin Jobs

VARIABLES
  up,          \* the process runs and is subscribed
  account,     \* request -> the address of its event
  claimable,   \* address -> amount, in the distribution contract
  dreState,    \* the amounts as the process last read them, or Missing
  waiting,     \* the jobs that may run, first in first out
  work,        \* the job that runs, or NoJob
  returned,    \* its handler has returned
  adding,      \* jobs given to Redis without await
  allocated,   \* address -> amount, in the Facility
  sent,        \* request -> transactions sent for it
  ended,       \* request -> what its last job came to
  stalled,     \* jobs whose lock expired once
  trouble,     \* a transaction failed or a job ran again
  crashes

chain == <<claimable, allocated, sent>>
vars == <<up, account, claimable, dreState, waiting, work, returned, adding,
          allocated, sent, ended, stalled, trouble, crashes>>

Init ==
  /\ up = TRUE
  /\ account = [q \in Requests |-> Nobody]
  /\ claimable = [a \in Address |-> 0] /\ allocated = claimable
  /\ dreState = Missing
  /\ waiting = <<>> /\ work = NoJob /\ returned = FALSE /\ adding = {}
  /\ sent = [q \in Requests |-> 0]
  /\ ended = [q \in Requests |-> "no"]
  /\ stalled = {} /\ trouble = FALSE /\ crashes = 0

----------------------------------------------------------------------------
\* The distribution contract: what an address may claim only grows.
Earn(a) ==
  /\ claimable[a] < MaxAmount
  /\ claimable' = [claimable EXCEPT ![a] = @ + 1]
  /\ UNCHANGED <<up, account, dreState, waiting, work, returned, adding, allocated,
                 sent, ended, stalled, trouble, crashes>>

GetJob(q) == [kind |-> "get", request |-> q, amount |-> Missing, retries |-> 0]

\* An event.  The subscriber adds the flow; without one nobody does.
RequestingUpdate(q, a) ==
  /\ account[q] = Nobody /\ \A p \in Requests : p < q => account[p] # Nobody
  /\ account' = [account EXCEPT ![q] = a]
  /\ adding' = adding \cup {GetJob(p) : p \in {q} \cap {r \in Requests : up}}
  /\ UNCHANGED <<up, chain, dreState, waiting, work, returned, ended, stalled,
                 trouble, crashes>>

\* Redis takes a job.
JobAdded ==
  /\ \E j \in adding : adding' = adding \ {j} /\ waiting' = Append(waiting, j)
  /\ UNCHANGED <<up, account, chain, dreState, work, returned, ended, stalled,
                 trouble, crashes>>

Dequeue ==
  /\ up /\ work = NoJob /\ waiting # <<>>
  /\ work' = Head(waiting) /\ waiting' = Tail(waiting)
  /\ UNCHANGED <<up, account, chain, dreState, returned, adding, ended, stalled,
                 trouble, crashes>>

Runs(kind) == work # NoJob /\ ~returned /\ work.kind = kind

\* A definition marked (slip) is a mistake the code could have made and does not; no
\* action uses it.
\* (slip: "0" for rewards that could not be read, as for an address that has none)
Rewards_Zero == IF dreState' = Missing THEN 0 ELSE dreState'[account[work.request]]

Rewards == IF dreState' = Missing THEN Missing ELSE dreState'[account[work.request]]

\* get-current-rewards: getAllocation takes the amount from the DRE state, refreshed
\* or, when it was a moment ago or its node does not answer, as it was; without one
\* there is no amount.
GetCurrentRewards ==
  /\ Runs("get")
  /\ dreState' \in {dreState, claimable}
  /\ work' = [work EXCEPT !.amount = Rewards]
  /\ returned' = TRUE
  /\ UNCHANGED <<up, account, chain, waiting, adding, ended, stalled, trouble, crashes>>

\* updateAllocation for the amount of the job: the transaction is sent and lands; it is
\* rejected for a reason that passes; or there is an error, perhaps after it landed.
\* Call it for the result passed.
Lands == allocated' = [allocated EXCEPT ![account[work.request]] = work.amount]
UpdateAllocation(passed) ==
  /\ sent' = [sent EXCEPT ![work.request] = @ + 1]
  /\ \/ passed /\ Lands
     \/ ~passed /\ Lands
     \/ UNCHANGED allocated
  /\ trouble' = (trouble \/ ~passed)

Outcome(passed) == IF passed THEN "passed" ELSE "failed"
Ends(outcome) == ended' = [ended EXCEPT ![work.request] = outcome]

Recovery(retries) == [work EXCEPT !.kind = "recover", !.retries = retries]

\* update-allocation.  Without rewards the request is dropped; a failed transaction
\* gets its recovery.
HandleUpdateAllocation ==
  /\ Runs("update") /\ returned' = TRUE
  /\ \/ /\ work.amount = Missing
        /\ Ends("missing")
        /\ UNCHANGED <<allocated, sent, adding, trouble>>
     \/ /\ work.amount # Missing
        /\ \E passed \in BOOLEAN :
             /\ UpdateAllocation(passed)
             /\ Ends(Outcome(passed))
             /\ adding' = adding \cup {Recovery(MaxRetries) : p \in {passed} \ {TRUE}}
  /\ UNCHANGED <<up, account, claimable, dreState, waiting, work, stalled, crashes>>

\* (slip: retries never taken down)
RetriesLeft_Always == {work.retries}
\* (slip: the last retry skipped)
RetriesLeft_Early == {work.retries - 1} \cap 2..MaxRetries
\* (slip: recovered and retried)
RetriesLeft_Both == {work.retries - 1, MaxRetries} \cap 1..MaxRetries

\* retryUpdateAllocation: the retries of the next recovery, if there is one.
RetriesLeft == {work.retries - 1} \cap 1..MaxRetries

\* recover-update-allocation.
HandleRecoverUpdateAllocation ==
  /\ Runs("recover") /\ returned' = TRUE
  /\ \E passed \in BOOLEAN :
       /\ UpdateAllocation(passed)
       /\ Ends(Outcome(passed))
       /\ adding' = adding \cup {Recovery(n) : n \in {m \in RetriesLeft : ~passed}}
  /\ UNCHANGED <<up, account, claimable, dreState, waiting, work, stalled, crashes>>

\* The job is completed; the parent of get-current-rewards may run.
Return ==
  /\ work # NoJob /\ returned
  /\ work' = NoJob /\ returned' = FALSE
  /\ waiting' = IF work.kind = "get"
                THEN Append(waiting, [work EXCEPT !.kind = "update"])
                ELSE waiting
  /\ UNCHANGED <<up, account, chain, dreState, adding, ended, stalled, trouble, crashes>>

\* The process dies.  A transaction under way may have been sent; the job runs again,
\* once.
Crash ==
  /\ up /\ crashes < MaxCrashes
  /\ up' = FALSE /\ crashes' = crashes + 1
  /\ adding' = {} /\ dreState' = Missing
  /\ work' = NoJob /\ returned' = FALSE
  /\ IF work = NoJob THEN UNCHANGED <<waiting, stalled, trouble, allocated, sent>>
     ELSE /\ trouble' = TRUE
          /\ LET job == IF work.kind = "get" THEN GetJob(work.request) ELSE work IN
               /\ waiting' = IF job \in stalled THEN waiting ELSE <<job>> \o waiting
               /\ stalled' = stalled \cup {job}
          /\ \/ UNCHANGED <<allocated, sent>>
             \/ /\ ~returned /\ work.kind # "get" /\ work.amount # Missing
                /\ sent' = [sent EXCEPT ![work.request] = @ + 1]
                /\ Lands
  /\ UNCHANGED <<account, claimable, ended>>

\* onApplicationBootstrap subscribes.
Boot ==
  /\ ~up /\ up' = TRUE
  /\ UNCHANGED <<account, chain, dreState, waiting, work, returned, adding, ended,
                 stalled, trouble, crashes>>

Worker == \/ Dequeue \/ GetCurrentRewards \/ HandleUpdateAllocation
          \/ HandleRecoverUpdateAllocation \/ Return

Next ==
  \/ \E a \in Address : Earn(a)
  \/ \E q \in Requests, a \in Address : RequestingUpdate(q, a)
  \/ JobAdded
  \/ Worker
  \/ Crash
  \/ Boot

Spec == Init /\ [][Next]_vars

\* The worker takes the jobs, Redis what it is given.
FairSpec == Spec /\ WF_vars(Worker) /\ WF_vars(JobAdded) /\ WF_vars(Boot)

----------------------------------------------------------------------------
\* Type correctness of the jobs and the amounts.
TypeOK ==
  /\ account \in [Requests -> Address \cup {Nobody}]
  /\ claimable \in [Address -> Amounts] /\ allocated \in [Address -> Amounts]
  /\ dreState \in [Address -> Amounts] \cup {Missing}
  /\ waiting \in Seq(Jobs) /\ work \in Jobs \cup {NoJob}
  /\ adding \subseteq Jobs /\ stalled \subseteq Jobs
  /\ ended \in [Requests -> Outcomes] /\ crashes \in 0..MaxCrashes
  /\ \A j \in adding : j.kind = "recover" => j.retries > 0

\* However its transactions fail, a request sends one and one for each retry, and as
\* many again for each crash, which may double its chain of recoveries.
TransactionsBounded ==
  \A q \in Requests : sent[q] <= (1 + MaxRetries) * (1 + crashes)

\* The jobs of a request form one chain: a crash adds at most one job to those that
\* wait, run or are given to Redis.
Of(q) == Cardinality({i \in DOMAIN waiting : waiting[i].request = q})
         + Cardinality({j \in adding : j.request = q})
         + (IF work # NoJob /\ work.request = q /\ ~(returned /\ work.kind # "get")
            THEN 1 ELSE 0)
OneChain == \A q \in Requests : Of(q) <= 1 + crashes

\* While nothing fails, the allocation of an address only grows, though requests for
\* it overlap and the amounts come from a state of any age: a later request never
\* brings an earlier amount.
AllocationsGrow ==
  [][~trouble' => \A a \in Address : allocated'[a] >= allocated[a]]_vars

\* Without crashes every request comes to an end and the end is not lost: the address
\* is updated, the transaction rejected, all retries are used, or the rewards were
\* missing.
UsedUp(q) == ended[q] = "failed" => sent[q] = 1 + MaxRetries
RequestsEnd ==
  \A q \in Requests :
    account[q] # Nobody ~>
      crashes > 0 \/ (ended[q] # "no" /\ Of(q) = 0 /\ UsedUp(q))

----------------------------------------------------------------------------
\* events.service.spec.ts, line 49: "should maintain events continuity between
\* reboots".  A request that has not ended has a job.
ContinuityBetweenReboots ==
  \A q \in Requests : account[q] # Nobody /\ ended[q] = "no" => Of(q) > 0

\* events.service.spec.ts, line 45: "should flag for retry failed updateAllocation
\* transactions".  The last transaction of a request failed: another job follows or
\* all retries were used.
FailedIsRetried ==
  \A q \in Requests : ended[q] = "failed" => Of(q) > 0 \/ sent[q] > MaxRetries
===============================================================================
