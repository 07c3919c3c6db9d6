---------------------------- MODULE Distribution ----------------------------
(***************************************************************************)
(* The distribution-queue of the Validator: the jobs that write the scores *)
(* of one verification round into the distribution contract, finalise the  *)
(* round there and store its summary.                                      *)
(*                                                                         *)
(* A round (a stamp) starts with one start-distribution job.  Its handler  *)
(* builds a BullMQ flow, a tree of jobs                                    *)
(*                                                                         *)
(*     persist-distribution <- complete-distribution <- add-scores *       *)
(*                                                                         *)
(* in which a job is dequeued only after its children have returned.       *)
(* complete-distribution either asks the contract to distribute or, when   *)
(* batches failed, sends a recovery flow for the failed scores; a failed   *)
(* distribute sends a flow with a retry-complete-distribution job instead. *)
(*                                                                         *)
(* The handlers do not await the flow producer, so a flow is first only in *)
(* the memory of the process (inflight) and reaches Redis in a later step. *)
(*                                                                         *)
(* Jobs are identified by records [name, of, batch]: of is the stamp of a  *)
(* start-distribution job and the flow of every other job, and batch is    *)
(* the set of scores of an add-scores job, {} for the rest.                *)
(***************************************************************************)
EXTENDS Integers, FiniteSets

CONSTANTS
  Stamps,       \* the verified_at stamps of the rounds
  Relays,       \* the relays of a round; a relay stands for its score
  Processes,    \* processes of the cluster, each with one distribution worker
  Flows,        \* flow ids; their number bounds the flows that are ever sent
  MaxRetries,   \* DistributionService.maxDistributionRetries, 6 in the code
  BatchSize,    \* DistributionService.scoresPerBatch, 7 in the code
  MaxCrashes,   \* bound on the crashes of a behaviour
  NoJob, NoFlow

Names == {"start-distribution", "add-scores", "complete-distribution",
          "retry-complete-distribution", "persist-distribution"}

\* The identities a job can have and the data a flow can carry.
JobIds == [name: Names, of: Stamps \cup Flows, batch: SUBSET Relays]

FlowData == [kind: {"scores", "retry"}, stamp: Stamps, retries: 0..MaxRetries,
             total: Nat, processed: SUBSET Relays,
             batches: SUBSET SUBSET Relays]

ASSUME DistributionAssumption ==
  /\ MaxRetries \in Nat
  /\ BatchSize \in Nat \ {0}
  /\ MaxCrashes \in Nat
  /\ Flows \subseteq Nat
  /\ IsFiniteSet(Relays)
  /\ NoFlow \notin FlowData
  /\ NoJob \notin JobIds

VARIABLES
  positive,     \* stamp -> the relays whose score in the round is above zero
  flow,         \* flow id -> the data of the flow, or NoFlow
  inflight,     \* process -> flows it has sent that Redis does not hold yet
  jobs,         \* job -> its state in Redis; the domain is the set of jobs
  stalled,      \* jobs whose lock expired once (BullMQ allows it once)
  current,      \* process -> the job its worker holds, or NoJob
  pc,           \* process -> where the handler of that job is
  ret,          \* process -> the outcome the handler has in its hands
  added,        \* stamp -> scores recorded in the distribution contract
  distributed,  \* stamp -> the contract has computed the distribution
  uploads,      \* stamp -> uploads of distribution/summary sent to Arweave
  crashes

redis    == <<flow, jobs, stalled>>
worker   == <<current, pc, ret>>
external == <<added, distributed, uploads>>
vars == <<positive, flow, inflight, jobs, stalled, current, pc, ret,
          added, distributed, uploads, crashes>>

----------------------------------------------------------------------------
(* Jobs and flows.  A definition marked (slip) is a mistake the code could *)
(* have made and does not; no action uses it.                              *)

StartJob(s)    == [name |-> "start-distribution",    of |-> s, batch |-> {}]
AddJob(f, b)   == [name |-> "add-scores",            of |-> f, batch |-> b]
CompleteJob(f) == [name |-> "complete-distribution", of |-> f, batch |-> {}]
RetryJob(f) == [name |-> "retry-complete-distribution", of |-> f, batch |-> {}]
PersistJob(f)  == [name |-> "persist-distribution",  of |-> f, batch |-> {}]

\* What a handler returns.  A job that has returned keeps this as its state.
\* "unread" is undefined too, of a handler that could not read its children.
Returns == {"true", "ok", "error", "undefined", "unread", "complete",
            "incomplete", "empty", "summary_tx"}
JobStates == {"waiting", "active", "failed"} \cup Returns

AddJobs(f) == {AddJob(f, b) : b \in flow[f].batches}
ClosingJob(f) == IF flow[f].kind = "scores" THEN CompleteJob(f) ELSE RetryJob(f)
JobsOf(f) == AddJobs(f) \cup {ClosingJob(f), PersistJob(f)}

\* The state of a job, "absent" while Redis does not hold it.
JobState(j) == IF j \in DOMAIN jobs THEN jobs[j] ELSE "absent"
Returned(j) == JobState(j) \in Returns

\* (slip: the batches queued beside the completion instead of under it)
Ready_Siblings(j) ==
  j.name = "persist-distribution" => Returned(ClosingJob(j.of))

\* BullMQ keeps a parent in waiting-children until each child has returned;
\* a child that failed never returns, and the flow hangs.
Ready(j) ==
  CASE j.name = "complete-distribution" -> \A c \in AddJobs(j.of) : Returned(c)
    [] j.name = "persist-distribution"  -> Returned(ClosingJob(j.of))
    [] OTHER -> TRUE

\* groupScoreJobs: the scores in batches of at most BatchSize, all full but
\* the last.  Which scores share a batch follows the order of the list, which
\* is left open here (ScoreBatches models the fold over the list).
Groups(S) ==
  {bs \in SUBSET {b \in SUBSET S : Cardinality(b) \in 1..BatchSize} :
     /\ UNION bs = S
     /\ \A b, c \in bs : b # c => b \cap c = {}
     /\ \E last \in bs \cup {{}} :
          \A b \in bs \ {last} : Cardinality(b) = BatchSize}

\* (slip: the child value tested for being there, not its result)
Processed_Any(f) ==
  UNION {b \in flow[f].batches : JobState(AddJob(f, b)) \in {"ok", "error"}}

\* The scores of the batches of a flow that returned result true / false.
Processed(f) ==
  UNION {b \in flow[f].batches : JobState(AddJob(f, b)) = "ok"}
Failed(f) ==
  UNION {b \in flow[f].batches : JobState(AddJob(f, b)) = "error"}

----------------------------------------------------------------------------
Init ==
  /\ positive = [s \in Stamps |-> {}]
  /\ flow = [f \in Flows |-> NoFlow]
  /\ inflight = [w \in Processes |-> {}]
  /\ jobs = [j \in {} |-> "waiting"]
  /\ stalled = {}
  /\ current = [w \in Processes |-> NoJob]
  /\ pc = [w \in Processes |-> "idle"]
  /\ ret = [w \in Processes |-> "undefined"]
  /\ added = [s \in Stamps |-> {}]
  /\ distributed = [s \in Stamps |-> FALSE]
  /\ uploads = [s \in Stamps |-> 0]
  /\ crashes = 0

\* jobs extended with the jobs of J, all waiting
WithWaiting(J) ==
  [j \in DOMAIN jobs \cup J |-> IF j \in DOMAIN jobs THEN jobs[j] ELSE "waiting"]

\* tasks-queue adds the start job of a round, with the most recent verification.
Enqueue(s, S) ==
  /\ StartJob(s) \notin DOMAIN jobs
  /\ positive' = [positive EXCEPT ![s] = S]
  /\ jobs' = WithWaiting({StartJob(s)})
  /\ UNCHANGED <<flow, inflight, stalled, worker, external, crashes>>

\* BullMQ hands a waiting job to an idle worker and locks it.
Dequeue(w, j) ==
  /\ current[w] = NoJob
  /\ j \in DOMAIN jobs
  /\ jobs[j] = "waiting"
  /\ Ready(j)
  /\ current' = [current EXCEPT ![w] = j]
  /\ pc' = [pc EXCEPT ![w] = "handling"]
  /\ jobs' = [jobs EXCEPT ![j] = "active"]
  /\ UNCHANGED <<positive, flow, inflight, stalled, ret, external, crashes>>

\* The worker of w is inside the handler of a job called name.
Handling(w, name) == current[w] # NoJob /\ pc[w] = "handling"
                       /\ current[w].name = name

\* The handler leaves with value v, which Return will report to BullMQ.
Leave(w, v) ==
  /\ pc' = [pc EXCEPT ![w] = "returning"]
  /\ ret' = [ret EXCEPT ![w] = v]
  /\ UNCHANGED current

\* distributionFlow.add, not awaited: the flow with the lowest free id.
SendFlow(w, data) ==
  \E f \in Flows :
    /\ flow[f] = NoFlow
    /\ \A g \in Flows : g < f => flow[g] # NoFlow
    /\ flow' = [flow EXCEPT ![f] = data]
    /\ inflight' = [inflight EXCEPT ![w] = @ \cup {f}]

\* The flow of a round: DISTRIBUTION_FLOW with nothing processed yet.
FirstFlow(s, bs) ==
  [kind |-> "scores", stamp |-> s, retries |-> MaxRetries,
   total |-> Cardinality(positive[s]), processed |-> {}, batches |-> bs]

\* (slip: no flow when no relay of the round scored)
StartDistributionHandler_SkipsEmpty(w) ==
  /\ Handling(w, "start-distribution")
  /\ LET s == current[w].of IN
       IF positive[s] = {}
       THEN UNCHANGED <<flow, inflight>>
       ELSE \E bs \in Groups(positive[s]) : SendFlow(w, FirstFlow(s, bs))
  /\ Leave(w, "true")
  /\ UNCHANGED <<positive, jobs, stalled, external, crashes>>

StartDistributionHandler(w) ==
  /\ Handling(w, "start-distribution")
  /\ LET s == current[w].of IN
       \E bs \in Groups(positive[s]) : SendFlow(w, FirstFlow(s, bs))
  /\ Leave(w, "true")
  /\ UNCHANGED <<positive, jobs, stalled, external, crashes>>

\* An interaction is accepted (ok), or it is refused or its answer is lost, and
\* in that case it may have landed all the same.
Outcomes == {o \in [landed: BOOLEAN, ok: BOOLEAN] : o.ok => o.landed}

AddScoresHandler(w) ==
  /\ Handling(w, "add-scores")
  /\ LET s == flow[current[w].of].stamp IN
       \E o \in Outcomes :
         /\ added' = IF o.landed
                     THEN [added EXCEPT ![s] = @ \cup current[w].batch]
                     ELSE added
         /\ Leave(w, IF o.ok THEN "ok" ELSE "error")
  /\ UNCHANGED <<positive, redis, inflight, distributed, uploads, crashes>>

\* (slips: >= for >, and counting the scores of earlier rounds as well)
MustRecover_OffByOne(f) ==
  Cardinality(Processed(f)) < flow[f].total /\ flow[f].retries >= 0
MustRecover_CountsEarlier(f) ==
  /\ Cardinality(Processed(f) \cup flow[f].processed) < flow[f].total
  /\ flow[f].retries > 0

\* completeDistributionHandler, part one: scores are missing and may be retried.
MustRecover(f) ==
  Cardinality(Processed(f)) < flow[f].total /\ flow[f].retries > 0

\* (slip: the processed scores of the earlier rounds left out)
RecoveryFlow_ForgetsEarlier(f, bs) ==
  [kind |-> "scores", stamp |-> flow[f].stamp, retries |-> flow[f].retries - 1,
   total |-> Cardinality(Failed(f)), processed |-> Processed(f), batches |-> bs]

RecoveryFlow(f, bs) ==
  [kind |-> "scores", stamp |-> flow[f].stamp, retries |-> flow[f].retries - 1,
   total |-> Cardinality(Failed(f)),
   processed |-> Processed(f) \cup flow[f].processed, batches |-> bs]

\* Reading what the children returned throws: the handler logs it and returns
\* undefined.  No flow is sent and nothing is persisted.
ChildrenUnread(w) ==
  /\ Handling(w, "complete-distribution") \/ Handling(w, "persist-distribution")
  /\ Leave(w, "unread")
  /\ UNCHANGED <<positive, redis, inflight, external, crashes>>

StartRecoveryDistribution(w) ==
  /\ Handling(w, "complete-distribution")
  /\ LET f == current[w].of IN
       /\ MustRecover(f)
       /\ \E bs \in Groups(Failed(f)) : SendFlow(w, RecoveryFlow(f, bs))
  /\ Leave(w, "undefined")
  /\ UNCHANGED <<positive, jobs, stalled, external, crashes>>

\* distribute: the call of both closing handlers, answered or lost.
Distribute(w) ==
  /\ \/ Handling(w, "complete-distribution") /\ ~MustRecover(current[w].of)
     \/ Handling(w, "retry-complete-distribution")
  /\ \E o \in Outcomes :
       /\ distributed' = [distributed EXCEPT
                            ![flow[current[w].of].stamp] = @ \/ o.landed]
       /\ ret' = [ret EXCEPT ![w] = IF o.ok THEN "ok" ELSE "error"]
  /\ pc' = [pc EXCEPT ![w] = "distributing"]
  /\ UNCHANGED <<positive, redis, inflight, current, added, uploads, crashes>>

\* The scores the closing handler of f reports as processed.
AllProcessed(f) ==
  IF flow[f].kind = "scores" THEN Processed(f) \cup flow[f].processed
                             ELSE flow[f].processed

\* (slip: the retries handed on unchanged)
RetryFlow_SameRetries(f) ==
  [kind |-> "retry", stamp |-> flow[f].stamp, retries |-> flow[f].retries,
   total |-> Cardinality(AllProcessed(f)), processed |-> AllProcessed(f),
   batches |-> {}]

RetryFlow(f) ==
  [kind |-> "retry", stamp |-> flow[f].stamp, retries |-> flow[f].retries - 1,
   total |-> Cardinality(AllProcessed(f)), processed |-> AllProcessed(f),
   batches |-> {}]

\* (slip: the completion returns its results although it retries)
RetryComplete_Returns(w) ==
  /\ pc[w] = "distributing"
  /\ ret[w] = "error"
  /\ LET f == current[w].of IN flow[f].retries > 0 /\ SendFlow(w, RetryFlow(f))
  /\ Leave(w, "incomplete")
  /\ UNCHANGED <<positive, jobs, stalled, external, crashes>>

\* distribute failed with retries left: send the flow that tries again.
RetryComplete(w) ==
  /\ pc[w] = "distributing"
  /\ ret[w] = "error"
  /\ LET f == current[w].of IN flow[f].retries > 0 /\ SendFlow(w, RetryFlow(f))
  /\ Leave(w, "undefined")
  /\ UNCHANGED <<positive, jobs, stalled, external, crashes>>

\* distribute succeeded, or failed for the last time: {complete, stamp, scores}.
DistributionCompleted(w) ==
  /\ pc[w] = "distributing"
  /\ ret[w] = "ok" \/ flow[current[w].of].retries = 0
  /\ Leave(w, IF ret[w] = "ok" THEN "complete" ELSE "incomplete")
  /\ UNCHANGED <<positive, redis, inflight, external, crashes>>

\* persistDistribution answers an object whatever happens: {} when there is no
\* summary or the upload failed, one with summary_tx when it was stored.
PersistDistribution(w, s, result) ==
  \/ result = "empty" /\ UNCHANGED uploads
  \/ /\ distributed[s]
     /\ result \in {"empty", "summary_tx"}
     /\ uploads' = [uploads EXCEPT ![s] = @ + 1]

\* The test of line 149 on that object: an object is never falsy, so the job
\* never goes for retry-persist-distribution, whatever its retries.
Falsy(result) == result = "undefined"

PersistDistributionHandler(w) ==
  /\ Handling(w, "persist-distribution")
  /\ LET f == current[w].of IN
       \/ /\ jobs[ClosingJob(f)] \in {"undefined", "unread"}
          /\ Leave(w, "undefined")
          /\ UNCHANGED uploads
       \/ /\ jobs[ClosingJob(f)] \notin {"undefined", "unread"}
          /\ \E result \in {"empty", "summary_tx"} :
               /\ PersistDistribution(w, flow[f].stamp, result)
               /\ ~Falsy(result)
               /\ Leave(w, result)
  /\ UNCHANGED <<positive, redis, inflight, added, distributed, crashes>>

\* The worker reports the value the handler returned; BullMQ closes the job.
Return(w) ==
  /\ pc[w] = "returning"
  /\ jobs' = [jobs EXCEPT ![current[w]] = ret[w]]
  /\ current' = [current EXCEPT ![w] = NoJob]
  /\ pc' = [pc EXCEPT ![w] = "idle"]
  /\ UNCHANGED <<positive, flow, inflight, stalled, ret, external, crashes>>

\* Redis takes a flow that a handler sent: all of its jobs in one transaction.
FlowAdded(w, f) ==
  /\ f \in inflight[w]
  /\ inflight' = [inflight EXCEPT ![w] = @ \ {f}]
  /\ jobs' = WithWaiting(JobsOf(f))
  /\ UNCHANGED <<positive, flow, stalled, worker, external, crashes>>

\* The process dies and comes back.  What it had in memory is gone, the flows
\* it had sent and Redis had not taken with it; the lock of its job expires and
\* BullMQ queues the job again, or fails it when that happened before.
Crash(w) ==
  /\ crashes < MaxCrashes
  /\ current[w] # NoJob \/ inflight[w] # {}
  /\ crashes' = crashes + 1
  /\ inflight' = [inflight EXCEPT ![w] = {}]
  /\ current' = [current EXCEPT ![w] = NoJob]
  /\ pc' = [pc EXCEPT ![w] = "idle"]
  /\ IF current[w] = NoJob
     THEN UNCHANGED <<jobs, stalled>>
     ELSE /\ jobs' = [jobs EXCEPT ![current[w]] =
                        IF current[w] \in stalled THEN "failed" ELSE "waiting"]
          /\ stalled' = stalled \cup {current[w]}
  /\ UNCHANGED <<positive, flow, ret, external>>

----------------------------------------------------------------------------
Handler(w) ==
  \/ StartDistributionHandler(w)
  \/ AddScoresHandler(w)
  \/ ChildrenUnread(w)
  \/ StartRecoveryDistribution(w)
  \/ Distribute(w)
  \/ RetryComplete(w)
  \/ DistributionCompleted(w)
  \/ PersistDistributionHandler(w)
  \/ Return(w)

Next ==
  \/ \E s \in Stamps, S \in SUBSET Relays : Enqueue(s, S)
  \/ \E w \in Processes, j \in DOMAIN jobs : Dequeue(w, j)
  \/ \E w \in Processes : Handler(w)
  \/ \E w \in Processes : \E f \in inflight[w] : FlowAdded(w, f)
  \/ \E w \in Processes : Crash(w)

Spec == Init /\ [][Next]_vars

\* A process that is up dequeues, runs its handlers to the end (every call they
\* make returns or throws) and delivers what it sent to Redis.
Fairness ==
  /\ \A w \in Processes : WF_vars(\E j \in DOMAIN jobs : Dequeue(w, j))
  /\ \A w \in Processes : WF_vars(Handler(w))
  /\ \A w \in Processes : WF_vars(\E f \in inflight[w] : FlowAdded(w, f))

FairSpec == Spec /\ Fairness

----------------------------------------------------------------------------
\* Type correctness of the job store, the workers and the contract.
TypeOK ==
  /\ positive \in [Stamps -> SUBSET Relays]
  /\ flow \in [Flows -> FlowData \cup {NoFlow}]
  /\ inflight \in [Processes -> SUBSET Flows]
  /\ DOMAIN jobs \subseteq JobIds
  /\ jobs \in [DOMAIN jobs -> JobStates]
  /\ stalled \subseteq DOMAIN jobs
  /\ current \in [Processes -> JobIds \cup {NoJob}]
  /\ \A w \in Processes : current[w] # NoJob => current[w] \in DOMAIN jobs
  /\ pc \in [Processes -> {"idle", "handling", "distributing", "returning"}]
  /\ ret \in [Processes -> Returns]
  /\ added \in [Stamps -> SUBSET Relays]
  /\ distributed \in [Stamps -> BOOLEAN]
  /\ uploads \in [Stamps -> Nat]
  /\ crashes \in 0..MaxCrashes

Sent == {f \in Flows : flow[f] # NoFlow}
Rounds == {f \in Sent : flow[f].kind = "scores"}

\* startRecoveryDistribution splits the scores of a round into those reported
\* as processed and those of the new batches: however many recoveries follow
\* each other, no score of the stamp gets lost between flows and none is both
\* processed and queued again.  The flow that tries a completion again, when
\* distribute failed, has the scores of all flows before it.
ScoresConserved ==
  /\ \A f \in Rounds :
       LET queued == UNION flow[f].batches IN
         /\ queued \cup flow[f].processed = positive[flow[f].stamp]
         /\ queued \cap flow[f].processed = {}
  /\ \A f \in Sent \ Rounds : flow[f].processed = positive[flow[f].stamp]

\* What a completion counts as processed is in the contract: a batch is only
\* reported processed after its interaction landed, through every recovery,
\* retry of the completion and crash.
ProcessedScoresLanded ==
  \A f \in Sent :
    /\ flow[f].processed \subseteq added[flow[f].stamp]
    /\ \A b \in flow[f].batches :
         JobState(AddJob(f, b)) = "ok" => b \subseteq added[flow[f].stamp]

\* The round of a stamp that ran out of retries with a batch still failing.
Exhausted(s) ==
  \E f \in Rounds : /\ flow[f].stamp = s
                    /\ flow[f].retries = 0
                    /\ \E b \in flow[f].batches : JobState(AddJob(f, b)) = "error"

\* The contract distributes a stamp only when every positive score of the round
\* is recorded or the recoveries of the round are used up (the fallback that
\* completeDistributionHandler logs).
FinalisedWhenCompleteOrExhausted ==
  \A s \in Stamps :
    distributed[s] => positive[s] \subseteq added[s] \/ Exhausted(s)

\* The summary of a stamp is uploaded at most once while no process crashes: of
\* all the flows of a stamp one persist job gets completion results.
SummaryUploadedOnce == crashes = 0 => \A s \in Stamps : uploads[s] <= 1

\* Once a stamp is distributed no batch of it reaches the contract any more,
\* whatever the interleaving of recoveries and retried completions (a crash can
\* break this: a completion that runs again may have sent its recovery before).
NoScoresAfterDistribute ==
  [][\A s \in Stamps :
       distributed[s] /\ crashes = 0 => added'[s] = added[s]]_vars

\* The recoveries of the scores and the retries of the completion draw on one
\* budget: without a crash a stamp never gets more than MaxRetries flows besides
\* its first, so the operator is not charged without end for a failing round.
RetryBudget ==
  crashes = 0 =>
    \A s \in Stamps :
      Cardinality({f \in Sent : flow[f].stamp = s}) <= MaxRetries + 1

\* One persist job of the stamp ran with completion results.
Ended(s) ==
  \E f \in Sent : /\ flow[f].stamp = s
                  /\ JobState(PersistJob(f)) \in {"empty", "summary_tx"}

\* The three ways a round can end without results: a crash came between a flow of
\* it and Redis, a job of it stalled twice and its parents wait for ever, or a
\* handler could not read what its children returned.
Dropped(f) == /\ \A w \in Processes : f \notin inflight[w]
              /\ PersistJob(f) \notin DOMAIN jobs
Lost(s) ==
  \/ JobState(StartJob(s)) = "failed"
  \/ \E f \in Sent : /\ flow[f].stamp = s
                     /\ \/ Dropped(f)
                        \/ \E j \in JobsOf(f) :
                             JobState(j) \in {"failed", "unread"}

\* Every round that is enqueued ends, whatever transactions fail: the recoveries
\* and the retries come to an end, and one persist job gets the completion
\* results, unless one of the three losses happened to the round.
EveryRoundEndsOrIsLost ==
  \A s \in Stamps : StartJob(s) \in DOMAIN jobs ~> Ended(s) \/ Lost(s)

----------------------------------------------------------------------------
(* What distribution.service.spec.ts says of distributions and the code    *)
(* does otherwise; the runs named finding_* show the counterexamples.      *)

\* Line 31: a distribution is not finalised until all transactions succeed.
NotFinalisedUntilAllSucceed ==
  \A s \in Stamps : distributed[s] => positive[s] \subseteq added[s]

\* Line 30: a failed transaction of a distribution is retried.  The upload of the
\* summary is one, and its job comes with five retries: when a persist job gave up
\* on a stamp, it is not because the one upload it sent failed.
FailedUploadIsRetried ==
  \A f \in Sent :
    JobState(PersistJob(f)) = "empty" => uploads[flow[f].stamp] # 1
=============================================================================
