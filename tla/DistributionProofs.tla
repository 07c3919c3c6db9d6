------------------------- MODULE DistributionProofs -------------------------
(***************************************************************************)
(* Proofs about Distribution, for any number of rounds, relays, processes, *)
(* flows, retries and crashes, and about the batches that ScoreBatches     *)
(* makes of the scores of a round, for lists of any length and any limit.  *)
(***************************************************************************)
EXTENDS DistributionRefinement, ScoreBatches, FiniteSetTheorems, FunctionTheorems, TLAPS

(* The inductive invariant, in parts.                                      *)

\* A flow is allocated from the moment it is sent.
InflightSent == \A w \in Processes : inflight[w] \subseteq Sent

\* Redis holds start jobs and jobs of flows, nothing else.
JobsWellFormed ==
  \A j \in DOMAIN jobs :
    \/ j.of \in Stamps /\ j = StartJob(j.of)
    \/ j.of \in Sent /\ j \in JobsOf(j.of)

\* A worker that is not idle holds an active job, and no two hold the same.
WorkersHoldJobs ==
  /\ \A w \in Processes : pc[w] = "idle" <=> current[w] = NoJob
  /\ \A w \in Processes : current[w] # NoJob =>
       current[w] \in DOMAIN jobs /\ jobs[current[w]] = "active"
  /\ \A v, w \in Processes :
       v # w /\ current[v] # NoJob => current[v] # current[w]

\* Only the closing handlers call distribute.
DistributingCloses ==
  \A w \in Processes : pc[w] = "distributing" =>
    /\ current[w].name \in {"complete-distribution",
                            "retry-complete-distribution"}
    /\ ret[w] \in {"ok", "error"}

Structure == /\ TypeOK /\ InflightSent /\ JobsWellFormed
             /\ WorkersHoldJobs /\ DistributingCloses

----------------------------------------------------------------------------
(* Facts about jobs and flows.                                             *)

\* The identities of jobs tell their flows and batches apart.
LEMMA JobIdentity ==
  /\ \A f, b : AddJob(f, b).name = "add-scores"
                 /\ AddJob(f, b).of = f /\ AddJob(f, b).batch = b
  /\ \A f : CompleteJob(f).name = "complete-distribution"
                 /\ CompleteJob(f).of = f
  /\ \A f : RetryJob(f).name = "retry-complete-distribution"
                 /\ RetryJob(f).of = f
  /\ \A f : PersistJob(f).name = "persist-distribution"
                 /\ PersistJob(f).of = f
  /\ \A s : StartJob(s).name = "start-distribution" /\ StartJob(s).of = s
BY DEF AddJob, CompleteJob, RetryJob, PersistJob, StartJob

\* The jobs of a flow are jobs.
LEMMA JobsOfType ==
  ASSUME NEW f \in Flows, flow[f] \in FlowData
  PROVE  JobsOf(f) \subseteq JobIds
BY DEF JobsOf, AddJobs, AddJob, ClosingJob, CompleteJob, RetryJob, PersistJob,
       JobIds, Names, FlowData

\* A job of a flow that a worker holds, by its name.
LEMMA HeldJob ==
  ASSUME Structure, NEW w \in Processes, current[w] # NoJob
  PROVE  /\ current[w] \in JobIds /\ current[w] \in DOMAIN jobs
         /\ current[w].name = "start-distribution"
              => current[w].of \in Stamps /\ current[w] = StartJob(current[w].of)
         /\ current[w].name # "start-distribution"
              => /\ current[w].of \in Sent
                 /\ current[w].of \in Flows
                 /\ flow[current[w].of] \in FlowData
                 /\ current[w] \in JobsOf(current[w].of)
         /\ current[w].name = "add-scores"
              => /\ current[w] = AddJob(current[w].of, current[w].batch)
                 /\ current[w].batch \in flow[current[w].of].batches
         /\ current[w].name = "complete-distribution"
              => flow[current[w].of].kind = "scores"
         /\ current[w].name = "retry-complete-distribution"
              => flow[current[w].of].kind = "retry"
<1> DEFINE j == current[w]
<1>1. j \in JobIds /\ j \in DOMAIN jobs
  BY DEF Structure, TypeOK
<1>2. CASE j.of \in Stamps /\ j = StartJob(j.of)
  <2>1. j.name = "start-distribution"
    BY <1>2, JobIdentity
  <2> QED BY <1>1, <1>2, <2>1
<1>3. CASE j.of \in Sent /\ j \in JobsOf(j.of)
  <2>1. j.of \in Flows /\ flow[j.of] \in FlowData
    BY <1>3 DEF Sent, Structure, TypeOK
  <2>2. PICK f \in Flows : f = j.of
    BY <2>1
  <2>3. j \in AddJobs(f) \/ j = ClosingJob(f) \/ j = PersistJob(f)
    BY <1>3, <2>2 DEF JobsOf
  <2>4. CASE j \in AddJobs(f)
    BY <2>1, <2>2, <2>4, <1>1, <1>3, JobIdentity DEF AddJobs
  <2>5. CASE j = ClosingJob(f)
    BY <2>1, <2>2, <2>5, <1>1, <1>3, JobIdentity DEF ClosingJob, FlowData
  <2>6. CASE j = PersistJob(f)
    BY <2>1, <2>2, <2>6, <1>1, <1>3, JobIdentity
  <2> QED BY <2>3, <2>4, <2>5, <2>6
<1> QED BY <1>1, <1>2, <1>3 DEF Structure, JobsWellFormed

\* The flows that exist keep their data.
FlowsKept == \A f \in Sent : f \in Sent' /\ flow'[f] = flow[f]

LEMMA JobsOfKept ==
  ASSUME NEW f, flow'[f] = flow[f]
  PROVE  JobsOf(f)' = JobsOf(f)
BY DEF JobsOf, AddJobs, AddJob, ClosingJob, CompleteJob, RetryJob, PersistJob

LEMMA JobsOfNotStart ==
  ASSUME NEW f, NEW j \in JobsOf(f)
  PROVE  j.of = f /\ j.name # "start-distribution"
BY JobIdentity DEF JobsOf, AddJobs, ClosingJob

\* What sending a flow does to the table of flows.
LEMMA SendFlowKeeps ==
  ASSUME TypeOK, InflightSent, NEW w \in Processes, NEW data \in FlowData,
         SendFlow(w, data)
  PROVE  /\ flow' \in [Flows -> FlowData \cup {NoFlow}]
         /\ inflight' \in [Processes -> SUBSET Flows]
         /\ FlowsKept /\ InflightSent'
         /\ \A f \in Sent' \ Sent : flow'[f] = data
<1>1. PICK f \in Flows : /\ flow[f] = NoFlow
                         /\ flow' = [flow EXCEPT ![f] = data]
                         /\ inflight' = [inflight EXCEPT ![w] = @ \cup {f}]
  BY DEF SendFlow
<1>2. flow' \in [Flows -> FlowData \cup {NoFlow}]
      /\ inflight' \in [Processes -> SUBSET Flows]
  BY <1>1 DEF TypeOK
<1>3. Sent' = Sent \cup {f}
  BY <1>1, DistributionAssumption DEF Sent, TypeOK
<1>4. FlowsKept
  BY <1>1, <1>3 DEF FlowsKept, Sent, TypeOK
<1>5. InflightSent'
  BY <1>1, <1>3 DEF InflightSent, TypeOK
<1>6. \A g \in Sent' \ Sent : flow'[g] = data
  BY <1>1, <1>3 DEF TypeOK
<1> QED BY <1>2, <1>4, <1>5, <1>6

\* A step inside a handler disturbs the flows and its own program counter only.
LEMMA HandlerKeepsStructure ==
  ASSUME Structure, TypeOK', FlowsKept, InflightSent', DistributingCloses',
         NEW w \in Processes, pc[w] # "idle",
         NEW p \in {"distributing", "returning"}, pc' = [pc EXCEPT ![w] = p],
         UNCHANGED <<jobs, current>>
  PROVE  Structure'
<1>1. JobsWellFormed'
  BY JobsOfKept DEF Structure, JobsWellFormed, FlowsKept, StartJob
<1>2. WorkersHoldJobs'
  BY DEF Structure, WorkersHoldJobs, TypeOK
<1> QED BY <1>1, <1>2 DEF Structure

LEMMA RecoveryFlowType ==
  ASSUME TypeOK, NEW f \in Flows, flow[f] \in FlowData, flow[f].retries > 0,
         NEW bs \in Groups(Failed(f))
  PROVE  RecoveryFlow(f, bs) \in FlowData
<1>1. Processed(f) \subseteq Relays /\ Failed(f) \subseteq Relays
  BY DEF Processed, Failed, FlowData
<1>2. Cardinality(Failed(f)) \in Nat
  BY <1>1, FS_Subset, FS_CardinalityType, DistributionAssumption
<1>3. bs \subseteq SUBSET Relays
  BY <1>1 DEF Groups
<1> QED BY <1>1, <1>2, <1>3, DistributionAssumption DEF RecoveryFlow, FlowData

LEMMA RetryFlowType ==
  ASSUME TypeOK, NEW f \in Flows, flow[f] \in FlowData, flow[f].retries > 0
  PROVE  RetryFlow(f) \in FlowData
<1>1. AllProcessed(f) \subseteq Relays
  BY DEF AllProcessed, Processed, FlowData
<1>2. Cardinality(AllProcessed(f)) \in Nat
  BY <1>1, FS_Subset, FS_CardinalityType, DistributionAssumption
<1> QED BY <1>1, <1>2, DistributionAssumption DEF RetryFlow, FlowData

----------------------------------------------------------------------------
(* Structure is inductive.                                                 *)

LEMMA InitStructure == Init => Structure
<1> SUFFICES ASSUME Init PROVE Structure
  OBVIOUS
<1>1. TypeOK
  BY DistributionAssumption DEF Init, TypeOK, JobStates, Returns
<1>2. InflightSent /\ JobsWellFormed /\ WorkersHoldJobs /\ DistributingCloses
  BY DEF Init, InflightSent, JobsWellFormed, WorkersHoldJobs, DistributingCloses
<1> QED BY <1>1, <1>2 DEF Structure

LEMMA EnqueueStructure ==
  ASSUME Structure, NEW s \in Stamps, NEW S \in SUBSET Relays, Enqueue(s, S)
  PROVE  Structure' /\ FlowsKept
<1> USE DEF external, worker
<1>1. StartJob(s) \in JobIds
  BY DEF StartJob, JobIds, Names
<1>2. /\ DOMAIN jobs' = DOMAIN jobs \cup {StartJob(s)}
      /\ \A j \in DOMAIN jobs : jobs'[j] = jobs[j]
      /\ jobs'[StartJob(s)] = "waiting"
  BY DEF Enqueue, WithWaiting
<1>3. jobs' \in [DOMAIN jobs' -> JobStates]
  BY <1>2 DEF Enqueue, WithWaiting, Structure, TypeOK, JobStates
<1>4. TypeOK'
  BY <1>1, <1>2, <1>3 DEF Enqueue, Structure, TypeOK
<1>5. FlowsKept /\ InflightSent'
  BY DEF Enqueue, Structure, InflightSent, FlowsKept, Sent
<1>6. JobsWellFormed'
  <2> SUFFICES ASSUME NEW j \in DOMAIN jobs'
               PROVE  (\/ j.of \in Stamps /\ j = StartJob(j.of)
                       \/ j.of \in Sent /\ j \in JobsOf(j.of))'
    BY DEF JobsWellFormed
  <2>1. CASE j \in DOMAIN jobs
    BY <2>1, <1>5, JobsOfKept DEF Structure, JobsWellFormed, FlowsKept, StartJob
  <2>2. CASE j = StartJob(s)
    BY <2>2, JobIdentity DEF StartJob
  <2> QED BY <1>2, <2>1, <2>2
<1>7. WorkersHoldJobs' /\ DistributingCloses'
  BY <1>2 DEF Enqueue, Structure, WorkersHoldJobs, DistributingCloses
<1> QED BY <1>4, <1>5, <1>6, <1>7 DEF Structure

LEMMA DequeueStructure ==
  ASSUME Structure, NEW w \in Processes, NEW j \in DOMAIN jobs, Dequeue(w, j)
  PROVE  Structure' /\ FlowsKept
<1> USE DEF external
<1>1. /\ DOMAIN jobs' = DOMAIN jobs
      /\ \A k \in DOMAIN jobs : k # j => jobs'[k] = jobs[k]
      /\ jobs'[j] = "active"
      /\ jobs' \in [DOMAIN jobs' -> JobStates]
  BY DEF Dequeue, Structure, TypeOK, JobStates
<1>2. TypeOK'
  <2>1. /\ current' \in [Processes -> JobIds \cup {NoJob}]
        /\ \A v \in Processes : current'[v] # NoJob => current'[v] \in DOMAIN jobs'
        /\ pc' \in [Processes -> {"idle", "handling", "distributing",
                                  "returning"}]
    BY <1>1 DEF Dequeue, Structure, TypeOK
  <2>2. UNCHANGED <<positive, flow, inflight, stalled, ret, added,
                   distributed, uploads, crashes>>
    BY DEF Dequeue
  <2> QED BY <1>1, <2>1, <2>2 DEF Structure, TypeOK
<1>3. FlowsKept /\ InflightSent'
  BY DEF Dequeue, Structure, InflightSent, FlowsKept, Sent
<1>4. JobsWellFormed'
  BY <1>1, <1>3, JobsOfKept DEF Structure, JobsWellFormed, FlowsKept, StartJob
<1>5. WorkersHoldJobs'
  <2>1. current' = [current EXCEPT ![w] = j] /\ pc' = [pc EXCEPT ![w] = "handling"]
        /\ current[w] = NoJob /\ jobs[j] = "waiting" /\ j # NoJob
    BY DistributionAssumption DEF Dequeue, Structure, TypeOK
  <2>2. \A v \in Processes : v # w => current'[v] = current[v] /\ pc'[v] = pc[v]
    BY <2>1 DEF Structure, TypeOK
  <2>3. current'[w] = j /\ pc'[w] = "handling"
    BY <2>1 DEF Structure, TypeOK
  <2>4. \A v \in Processes : current[v] # NoJob => current[v] # j
    BY <2>1 DEF Structure, WorkersHoldJobs
  <2>5. \A v \in Processes : pc'[v] = "idle" <=> current'[v] = NoJob
    BY <2>1, <2>2, <2>3 DEF Structure, WorkersHoldJobs
  <2>6. \A v \in Processes : current'[v] # NoJob =>
          current'[v] \in DOMAIN jobs' /\ jobs'[current'[v]] = "active"
    BY <1>1, <2>2, <2>3, <2>4 DEF Structure, WorkersHoldJobs
  <2>7. \A u, v \in Processes :
          u # v /\ current'[u] # NoJob => current'[u] # current'[v]
    BY <2>1, <2>2, <2>3, <2>4 DEF Structure, WorkersHoldJobs
  <2> QED BY <2>5, <2>6, <2>7 DEF WorkersHoldJobs
<1>6. DistributingCloses'
  BY DEF Dequeue, Structure, DistributingCloses, TypeOK
<1> QED BY <1>2, <1>3, <1>4, <1>5, <1>6 DEF Structure

LEMMA ReturnStructure ==
  ASSUME Structure, NEW w \in Processes, Return(w)
  PROVE  Structure' /\ FlowsKept
<1> USE DEF external
<1>1. current[w] # NoJob /\ current[w] \in DOMAIN jobs
  BY DEF Return, Structure, WorkersHoldJobs
<1>2. /\ DOMAIN jobs' = DOMAIN jobs
      /\ \A k \in DOMAIN jobs : k # current[w] => jobs'[k] = jobs[k]
      /\ jobs' \in [DOMAIN jobs' -> JobStates]
  BY <1>1 DEF Return, Structure, TypeOK, JobStates
<1>3. TypeOK'
  <2>1. /\ current' \in [Processes -> JobIds \cup {NoJob}]
        /\ \A v \in Processes : current'[v] # NoJob => current'[v] \in DOMAIN jobs'
        /\ pc' \in [Processes -> {"idle", "handling", "distributing",
                                  "returning"}]
    BY <1>2 DEF Return, Structure, TypeOK
  <2>2. UNCHANGED <<positive, flow, inflight, stalled, ret, added,
                   distributed, uploads, crashes>>
    BY DEF Return
  <2> QED BY <1>2, <2>1, <2>2 DEF Structure, TypeOK
<1>4. FlowsKept /\ InflightSent'
  BY DEF Return, Structure, InflightSent, FlowsKept, Sent
<1>5. JobsWellFormed'
  BY <1>2, <1>4, JobsOfKept DEF Structure, JobsWellFormed, FlowsKept, StartJob
<1>6. WorkersHoldJobs'
  BY <1>1, <1>2 DEF Return, Structure, WorkersHoldJobs, TypeOK
<1>7. DistributingCloses'
  BY DEF Return, Structure, DistributingCloses, TypeOK
<1> QED BY <1>3, <1>4, <1>5, <1>6, <1>7 DEF Structure

LEMMA FlowAddedStructure ==
  ASSUME Structure, NEW w \in Processes, NEW f \in inflight[w], FlowAdded(w, f)
  PROVE  Structure' /\ FlowsKept
<1> USE DEF external, worker
<1>1. f \in Sent /\ f \in Flows /\ flow[f] \in FlowData
  BY DEF Structure, InflightSent, TypeOK, Sent
<1>2. /\ DOMAIN jobs' = DOMAIN jobs \cup JobsOf(f)
      /\ \A j \in DOMAIN jobs : jobs'[j] = jobs[j]
  BY DEF FlowAdded, WithWaiting
<1>3. jobs' \in [DOMAIN jobs' -> JobStates] /\ DOMAIN jobs' \subseteq JobIds
  <2>1. JobsOf(f) \subseteq JobIds
    BY <1>1, JobsOfType
  <2> QED BY <1>2, <2>1 DEF FlowAdded, WithWaiting, Structure, TypeOK, JobStates
<1>4. TypeOK'
  BY <1>2, <1>3 DEF FlowAdded, Structure, TypeOK
<1>5. FlowsKept /\ InflightSent'
  BY DEF FlowAdded, Structure, InflightSent, FlowsKept, Sent, TypeOK
<1>6. JobsWellFormed'
  <2> SUFFICES ASSUME NEW j \in DOMAIN jobs'
               PROVE  (\/ j.of \in Stamps /\ j = StartJob(j.of)
                       \/ j.of \in Sent /\ j \in JobsOf(j.of))'
    BY DEF JobsWellFormed
  <2>1. CASE j \in DOMAIN jobs
    BY <2>1, <1>5, JobsOfKept DEF Structure, JobsWellFormed, FlowsKept, StartJob
  <2>2. CASE j \in JobsOf(f)
    BY <2>2, <1>1, <1>5, JobsOfKept, JobsOfNotStart DEF FlowsKept
  <2> QED BY <1>2, <2>1, <2>2
<1>7. WorkersHoldJobs' /\ DistributingCloses'
  BY <1>2 DEF FlowAdded, Structure, WorkersHoldJobs, DistributingCloses
<1> QED BY <1>4, <1>5, <1>6, <1>7 DEF Structure

LEMMA CrashStructure ==
  ASSUME Structure, NEW w \in Processes, Crash(w)
  PROVE  Structure' /\ FlowsKept
<1> USE DEF external
<1>1. /\ DOMAIN jobs' = DOMAIN jobs
      /\ \A k \in DOMAIN jobs : k # current[w] => jobs'[k] = jobs[k]
      /\ jobs' \in [DOMAIN jobs' -> JobStates]
  BY DEF Crash, Structure, TypeOK, JobStates, WorkersHoldJobs
<1>2. crashes' \in 0..MaxCrashes
  BY DistributionAssumption DEF Crash, Structure, TypeOK
<1>3. TypeOK'
  <2>1. stalled' \subseteq DOMAIN jobs'
    BY <1>1 DEF Crash, Structure, TypeOK
  <2>2. inflight' \in [Processes -> SUBSET Flows]
    BY DEF Crash, Structure, TypeOK
  <2>3. /\ current' \in [Processes -> JobIds \cup {NoJob}]
        /\ \A v \in Processes : current'[v] # NoJob => current'[v] \in DOMAIN jobs'
        /\ pc' \in [Processes -> {"idle", "handling", "distributing",
                                  "returning"}]
    BY <1>1 DEF Crash, Structure, TypeOK
  <2>4. UNCHANGED <<positive, flow, ret, added, distributed, uploads>>
    BY DEF Crash
  <2> QED BY <1>1, <1>2, <2>1, <2>2, <2>3, <2>4 DEF Structure, TypeOK
<1>4. FlowsKept /\ InflightSent'
  BY DEF Crash, Structure, InflightSent, FlowsKept, Sent, TypeOK
<1>5. JobsWellFormed'
  BY <1>1, <1>4, JobsOfKept DEF Structure, JobsWellFormed, FlowsKept, StartJob
<1>6. WorkersHoldJobs'
  BY <1>1 DEF Crash, Structure, WorkersHoldJobs, TypeOK
<1>7. DistributingCloses'
  BY DEF Crash, Structure, DistributingCloses, TypeOK
<1> QED BY <1>3, <1>4, <1>5, <1>6, <1>7 DEF Structure

\* Leaving a handler keeps the types of the workers.
LEMMA LeaveTypes ==
  ASSUME Structure, NEW w \in Processes, NEW v \in Returns, Leave(w, v)
  PROVE  /\ pc' \in [Processes -> {"idle", "handling", "distributing",
                                   "returning"}]
         /\ ret' \in [Processes -> Returns]
         /\ current' = current
         /\ DistributingCloses'
BY DEF Leave, Structure, TypeOK, DistributingCloses

\* A handler that sends a flow and leaves.
LEMMA SendAndLeave ==
  ASSUME Structure, NEW w \in Processes, pc[w] # "idle",
         NEW v \in Returns, Leave(w, v),
         NEW data \in FlowData, SendFlow(w, data),
         UNCHANGED <<positive, jobs, stalled, external, crashes>>
  PROVE  Structure' /\ FlowsKept
<1>1. /\ flow' \in [Flows -> FlowData \cup {NoFlow}]
      /\ inflight' \in [Processes -> SUBSET Flows]
      /\ FlowsKept /\ InflightSent'
  BY SendFlowKeeps DEF Structure
<1>2. /\ pc' \in [Processes -> {"idle", "handling", "distributing", "returning"}]
      /\ ret' \in [Processes -> Returns]
      /\ current' = current
      /\ DistributingCloses'
  BY LeaveTypes
<1>3. UNCHANGED <<positive, jobs, stalled, added, distributed, uploads, crashes>>
  BY DEF external
<1>4. TypeOK'
  BY <1>1, <1>2, <1>3 DEF Structure, TypeOK
<1> QED BY <1>1, <1>2, <1>3, <1>4, HandlerKeepsStructure DEF Leave

\* A handler that changes nothing but the contract or the archive.
LEMMA ActAndMove ==
  ASSUME Structure, NEW w \in Processes, pc[w] # "idle",
         NEW p \in {"distributing", "returning"}, pc' = [pc EXCEPT ![w] = p],
         ret' \in [Processes -> Returns], DistributingCloses',
         added' \in [Stamps -> SUBSET Relays],
         distributed' \in [Stamps -> BOOLEAN],
         uploads' \in [Stamps -> Nat],
         UNCHANGED <<positive, flow, inflight, jobs, stalled, current, crashes>>
  PROVE  Structure' /\ FlowsKept
<1>1. pc' \in [Processes -> {"idle", "handling", "distributing", "returning"}]
  BY DEF Structure, TypeOK
<1>2. TypeOK'
  BY <1>1 DEF Structure, TypeOK
<1>3. FlowsKept /\ InflightSent'
  BY DEF Structure, InflightSent, FlowsKept, Sent
<1> QED BY <1>2, <1>3, HandlerKeepsStructure

LEMMA StartDistributionStructure ==
  ASSUME Structure, NEW w \in Processes, StartDistributionHandler(w)
  PROVE  Structure' /\ FlowsKept
<1>1. current[w].of \in Stamps
  BY HeldJob DEF StartDistributionHandler, Handling
<1>2. PICK bs \in Groups(positive[current[w].of]) :
        SendFlow(w, FirstFlow(current[w].of, bs))
  BY DEF StartDistributionHandler
<1>3. positive[current[w].of] \subseteq Relays
  BY <1>1 DEF Structure, TypeOK
<1>4. Cardinality(positive[current[w].of]) \in Nat /\ bs \subseteq SUBSET Relays
  BY <1>3, FS_Subset, FS_CardinalityType, DistributionAssumption DEF Groups
<1>5. FirstFlow(current[w].of, bs) \in FlowData
  BY <1>1, <1>4, DistributionAssumption DEF FirstFlow, FlowData
<1> QED BY <1>2, <1>5, SendAndLeave DEF StartDistributionHandler, Handling, Returns

LEMMA AddScoresStructure ==
  ASSUME Structure, NEW w \in Processes, AddScoresHandler(w)
  PROVE  Structure' /\ FlowsKept
<1>1. current[w] \in JobIds /\ flow[current[w].of].stamp \in Stamps
  BY HeldJob DEF AddScoresHandler, Handling, FlowData
<1>2. current[w].batch \subseteq Relays
  BY <1>1 DEF JobIds
<1>3. PICK o \in Outcomes :
        /\ added' = IF o.landed
                    THEN [added EXCEPT ![flow[current[w].of].stamp] =
                                         @ \cup current[w].batch]
                    ELSE added
        /\ Leave(w, IF o.ok THEN "ok" ELSE "error")
  BY DEF AddScoresHandler
<1>4. added' \in [Stamps -> SUBSET Relays]
  BY <1>1, <1>2, <1>3 DEF Structure, TypeOK
<1>5. /\ ret' \in [Processes -> Returns] /\ DistributingCloses'
      /\ pc' = [pc EXCEPT ![w] = "returning"] /\ current' = current
  BY <1>3, LeaveTypes DEF Leave, Returns
<1>6. /\ pc[w] # "idle"
      /\ UNCHANGED <<positive, flow, inflight, jobs, stalled, crashes,
                     distributed, uploads>>
  BY DEF AddScoresHandler, Handling, redis
<1>7. distributed' \in [Stamps -> BOOLEAN] /\ uploads' \in [Stamps -> Nat]
  BY <1>6 DEF Structure, TypeOK
<1> QED BY <1>4, <1>5, <1>6, <1>7, ActAndMove

LEMMA StartRecoveryStructure ==
  ASSUME Structure, NEW w \in Processes, StartRecoveryDistribution(w)
  PROVE  Structure' /\ FlowsKept
<1> DEFINE f == current[w].of
<1>1. f \in Flows /\ flow[f] \in FlowData
  BY HeldJob DEF StartRecoveryDistribution, Handling
<1>2. PICK bs \in Groups(Failed(f)) : SendFlow(w, RecoveryFlow(f, bs))
  BY DEF StartRecoveryDistribution
<1>3. flow[f].retries > 0
  BY DEF StartRecoveryDistribution, MustRecover
<1>4. RecoveryFlow(f, bs) \in FlowData
  BY <1>1, <1>3, RecoveryFlowType DEF Structure
<1> QED BY <1>2, <1>4, SendAndLeave
        DEF StartRecoveryDistribution, Handling, Returns

LEMMA DistributeStructure ==
  ASSUME Structure, NEW w \in Processes, Distribute(w)
  PROVE  Structure' /\ FlowsKept
<1> DEFINE s == flow[current[w].of].stamp
<1>1. /\ current[w] # NoJob /\ pc[w] # "idle"
      /\ current[w].name \in {"complete-distribution",
                              "retry-complete-distribution"}
  BY DEF Distribute, Handling
<1>2. s \in Stamps
  BY <1>1, HeldJob DEF FlowData
<1>3. PICK o \in Outcomes :
        /\ distributed' = [distributed EXCEPT ![s] = @ \/ o.landed]
        /\ ret' = [ret EXCEPT ![w] = IF o.ok THEN "ok" ELSE "error"]
  BY DEF Distribute
<1>4. distributed' \in [Stamps -> BOOLEAN]
  BY <1>2, <1>3 DEF Structure, TypeOK, Outcomes
<1>5. ret' \in [Processes -> Returns]
  BY <1>3 DEF Structure, TypeOK, Returns
<1>6. /\ pc' = [pc EXCEPT ![w] = "distributing"]
      /\ UNCHANGED <<positive, flow, inflight, jobs, stalled, current, crashes,
                     added, uploads>>
  BY DEF Distribute, redis
<1>7. DistributingCloses'
  BY <1>1, <1>3, <1>6 DEF Structure, DistributingCloses, TypeOK
<1>8. added' \in [Stamps -> SUBSET Relays] /\ uploads' \in [Stamps -> Nat]
  BY <1>6 DEF Structure, TypeOK
<1> QED BY <1>1, <1>4, <1>5, <1>6, <1>7, <1>8, ActAndMove

LEMMA RetryCompleteStructure ==
  ASSUME Structure, NEW w \in Processes, RetryComplete(w)
  PROVE  Structure' /\ FlowsKept
<1> DEFINE f == current[w].of
<1>1. current[w] # NoJob
  BY DEF RetryComplete, Structure, WorkersHoldJobs
<1>2. f \in Flows /\ flow[f] \in FlowData
  BY <1>1, HeldJob DEF RetryComplete, Structure, DistributingCloses
<1>3. RetryFlow(f) \in FlowData
  BY <1>2, RetryFlowType DEF RetryComplete, Structure
<1> QED BY <1>3, SendAndLeave DEF RetryComplete, Returns

LEMMA DistributionCompletedStructure ==
  ASSUME Structure, NEW w \in Processes, DistributionCompleted(w)
  PROVE  Structure' /\ FlowsKept
<1>1. /\ ret' \in [Processes -> Returns] /\ DistributingCloses'
      /\ pc' = [pc EXCEPT ![w] = "returning"] /\ current' = current
  BY LeaveTypes DEF DistributionCompleted, Leave, Returns
<1>2. /\ pc[w] # "idle"
      /\ UNCHANGED <<positive, flow, inflight, jobs, stalled, crashes,
                     added, distributed, uploads>>
  BY DEF DistributionCompleted, redis, external
<1>3. /\ added' \in [Stamps -> SUBSET Relays]
      /\ distributed' \in [Stamps -> BOOLEAN] /\ uploads' \in [Stamps -> Nat]
  BY <1>2 DEF Structure, TypeOK
<1> QED BY <1>1, <1>2, <1>3, ActAndMove

LEMMA UnreadStructure ==
  ASSUME Structure, NEW w \in Processes, ChildrenUnread(w)
  PROVE  Structure' /\ FlowsKept
<1>1. /\ ret' \in [Processes -> Returns] /\ DistributingCloses'
      /\ pc' = [pc EXCEPT ![w] = "returning"] /\ current' = current
  BY LeaveTypes DEF ChildrenUnread, Leave, Returns
<1>2. /\ pc[w] # "idle"
      /\ UNCHANGED <<positive, flow, inflight, jobs, stalled, crashes,
                     added, distributed, uploads>>
  BY DEF ChildrenUnread, Handling, redis, external
<1>3. /\ added' \in [Stamps -> SUBSET Relays]
      /\ distributed' \in [Stamps -> BOOLEAN] /\ uploads' \in [Stamps -> Nat]
  BY <1>2 DEF Structure, TypeOK
<1> QED BY <1>1, <1>2, <1>3, ActAndMove

LEMMA PersistStructure ==
  ASSUME Structure, NEW w \in Processes, PersistDistributionHandler(w)
  PROVE  Structure' /\ FlowsKept
<1> DEFINE f == current[w].of
<1>1. flow[f].stamp \in Stamps
  BY HeldJob DEF PersistDistributionHandler, Handling, FlowData
<1>2. PICK v \in {"undefined", "empty", "summary_tx"} : Leave(w, v)
  BY DEF PersistDistributionHandler
<1>3. /\ ret' \in [Processes -> Returns] /\ DistributingCloses'
      /\ pc' = [pc EXCEPT ![w] = "returning"] /\ current' = current
  BY <1>2, LeaveTypes DEF Leave, Returns
<1>4. \/ UNCHANGED uploads
      \/ uploads' = [uploads EXCEPT ![flow[f].stamp] = @ + 1]
  BY DEF PersistDistributionHandler, PersistDistribution
<1>5. uploads' \in [Stamps -> Nat]
  BY <1>1, <1>4 DEF Structure, TypeOK
<1>6. /\ pc[w] # "idle"
      /\ UNCHANGED <<positive, flow, inflight, jobs, stalled, crashes,
                     added, distributed>>
  BY DEF PersistDistributionHandler, Handling, redis
<1>7. /\ added' \in [Stamps -> SUBSET Relays]
      /\ distributed' \in [Stamps -> BOOLEAN]
  BY <1>6 DEF Structure, TypeOK
<1> QED BY <1>3, <1>5, <1>6, <1>7, ActAndMove

LEMMA NextStructure ==
  ASSUME Structure, [Next]_vars
  PROVE  Structure' /\ FlowsKept
<1>1. CASE \E s \in Stamps, S \in SUBSET Relays : Enqueue(s, S)
  BY <1>1, EnqueueStructure
<1>2. CASE \E w \in Processes, j \in DOMAIN jobs : Dequeue(w, j)
  BY <1>2, DequeueStructure
<1>3. CASE \E w \in Processes : Handler(w)
  BY <1>3, StartDistributionStructure, AddScoresStructure,
     StartRecoveryStructure, DistributeStructure, RetryCompleteStructure,
     DistributionCompletedStructure, UnreadStructure, PersistStructure,
     ReturnStructure
     DEF Handler
<1>4. CASE \E w \in Processes : \E f \in inflight[w] : FlowAdded(w, f)
  BY <1>4, FlowAddedStructure
<1>5. CASE \E w \in Processes : Crash(w)
  BY <1>5, CrashStructure
<1>6. CASE UNCHANGED vars
  <2>1. FlowsKept /\ InflightSent'
    BY <1>6 DEF vars, Structure, InflightSent, FlowsKept, Sent
  <2>2. JobsWellFormed'
    BY <1>6, <2>1, JobsOfKept
       DEF vars, Structure, JobsWellFormed, FlowsKept, StartJob
  <2>3. TypeOK' /\ WorkersHoldJobs' /\ DistributingCloses'
    BY <1>6 DEF vars, Structure, TypeOK, WorkersHoldJobs, DistributingCloses
  <2> QED BY <2>1, <2>2, <2>3 DEF Structure
<1> QED BY <1>1, <1>2, <1>3, <1>4, <1>5, <1>6 DEF Next

\* Type correctness: the job store, the workers and the contract keep their
\* shape in every behaviour of the queue, crashes and re-run jobs included.
THEOREM TypeCorrect == Spec => []TypeOK
<1>1. Structure => TypeOK
  BY DEF Structure
<1> QED BY <1>1, InitStructure, NextStructure, PTL DEF Spec

----------------------------------------------------------------------------
(* What one step of the queue can do to the jobs, the flows and the        *)
(* scores, action by action; the invariants below follow from these facts. *)

\* Jobs stay, and a job that has returned keeps the value it returned.
JobsKept ==
  \A j \in DOMAIN jobs :
    j \in DOMAIN jobs' /\ (jobs[j] \in Returns => jobs'[j] = jobs[j])

\* A job that has returned after a step had returned before it, or it is the job
\* of a worker that reported its value.
NewReturns ==
  \A j : JobState(j)' \in Returns =>
    \/ JobState(j)' = JobState(j)
    \/ \E w \in Processes : /\ pc[w] = "returning" /\ current[w] = j
                            /\ JobState(j)' = ret[w]

\* The three ways a flow comes to be.
Starts(w, f) ==
  /\ Handling(w, "start-distribution")
  /\ \E bs \in Groups(positive[current[w].of]) :
       flow'[f] = FirstFlow(current[w].of, bs)
Recovers(w, f) ==
  /\ Handling(w, "complete-distribution")
  /\ MustRecover(current[w].of)
  /\ \E bs \in Groups(Failed(current[w].of)) :
       flow'[f] = RecoveryFlow(current[w].of, bs)
Retries(w, f) ==
  /\ pc[w] = "distributing"
  /\ flow[current[w].of].retries > 0
  /\ flow'[f] = RetryFlow(current[w].of)
NewFlows ==
  \A f \in Sent' \ Sent :
    /\ UNCHANGED <<positive, jobs, added, distributed>>
    /\ \E w \in Processes : Starts(w, f) \/ Recovers(w, f) \/ Retries(w, f)

LEMMA NewFlowFrom ==
  ASSUME NEW data, NEW w \in Processes, SendFlow(w, data), TypeOK
  PROVE  \A f \in Sent' \ Sent : flow'[f] = data
BY DEF SendFlow, Sent, TypeOK

\* A step without a new flow has nothing to say about new flows.
LEMMA NoNewFlows == ASSUME flow' = flow PROVE NewFlows
BY DEF NewFlows, Sent

LEMMA StepFlows ==
  ASSUME Structure, [Next]_vars
  PROVE  NewFlows
<1> USE DEF external, redis, worker
<1>1. CASE \E s \in Stamps, S \in SUBSET Relays : Enqueue(s, S)
  BY <1>1, NoNewFlows DEF Enqueue
<1>2. CASE \E w \in Processes, j \in DOMAIN jobs : Dequeue(w, j)
  BY <1>2, NoNewFlows DEF Dequeue
<1>3. CASE \E w \in Processes : Handler(w)
  <2> PICK w \in Processes : Handler(w)
    BY <1>3
  <2>1. CASE StartDistributionHandler(w)
    <3>1. PICK bs \in Groups(positive[current[w].of]) :
            SendFlow(w, FirstFlow(current[w].of, bs))
      BY <2>1 DEF StartDistributionHandler
    <3>2. \A f \in Sent' \ Sent : flow'[f] = FirstFlow(current[w].of, bs)
      BY <3>1, NewFlowFrom DEF Structure
    <3> QED BY <2>1, <3>2 DEF StartDistributionHandler, NewFlows, Starts
  <2>2. CASE StartRecoveryDistribution(w)
    BY <2>2, NewFlowFrom
       DEF StartRecoveryDistribution, NewFlows, Recovers, Structure
  <2>3. CASE RetryComplete(w)
    <3>1. /\ pc[w] = "distributing" /\ flow[current[w].of].retries > 0
          /\ SendFlow(w, RetryFlow(current[w].of))
          /\ UNCHANGED <<positive, jobs, added, distributed>>
      BY <2>3 DEF RetryComplete
    <3>2. \A f \in Sent' \ Sent : flow'[f] = RetryFlow(current[w].of)
      BY <3>1, NewFlowFrom DEF Structure
    <3> QED BY <3>1, <3>2 DEF NewFlows, Retries
  <2>4. CASE AddScoresHandler(w)
    BY <2>4, NoNewFlows DEF AddScoresHandler
  <2>5. CASE Distribute(w)
    BY <2>5, NoNewFlows DEF Distribute
  <2>6. CASE DistributionCompleted(w)
    BY <2>6, NoNewFlows DEF DistributionCompleted
  <2>7. CASE PersistDistributionHandler(w)
    BY <2>7, NoNewFlows DEF PersistDistributionHandler
  <2>8. CASE Return(w)
    BY <2>8, NoNewFlows DEF Return
  <2>9. CASE ChildrenUnread(w)
    BY <2>9, NoNewFlows DEF ChildrenUnread
  <2> QED BY <2>1, <2>2, <2>3, <2>4, <2>5, <2>6, <2>7, <2>8, <2>9 DEF Handler
<1>4. CASE \E w \in Processes : \E f \in inflight[w] : FlowAdded(w, f)
  BY <1>4, NoNewFlows DEF FlowAdded
<1>5. CASE \E w \in Processes : Crash(w)
  BY <1>5, NoNewFlows DEF Crash
<1>6. CASE UNCHANGED vars
  BY <1>6, NoNewFlows DEF vars
<1> QED BY <1>1, <1>2, <1>3, <1>4, <1>5, <1>6 DEF Next

\* Handlers do not touch the job store; only Return, of the handlers' steps, does.
LEMMA HandlersLeaveJobs ==
  ASSUME NEW w \in Processes, Handler(w), ~Return(w)
  PROVE  jobs' = jobs /\ positive' = positive
BY DEF Handler, StartDistributionHandler, AddScoresHandler,
       StartRecoveryDistribution, Distribute, RetryComplete,
       DistributionCompleted, PersistDistributionHandler, ChildrenUnread, redis

LEMMA StepJobs ==
  ASSUME Structure, [Next]_vars
  PROVE  JobsKept /\ NewReturns
<1> USE DEF external, redis, worker
<1>0. ASSUME jobs' = jobs PROVE JobsKept /\ NewReturns
  BY <1>0 DEF JobsKept, NewReturns, JobState
<1>1. CASE \E s \in Stamps, S \in SUBSET Relays : Enqueue(s, S)
  BY <1>1 DEF Enqueue, WithWaiting, JobsKept, NewReturns, JobState, Returns
<1>2. CASE \E w \in Processes, j \in DOMAIN jobs : Dequeue(w, j)
  <2> PICK w \in Processes, j \in DOMAIN jobs : Dequeue(w, j)
    BY <1>2
  <2>1. /\ jobs[j] = "waiting"
        /\ jobs' = [jobs EXCEPT ![j] = "active"]
    BY DEF Dequeue
  <2> QED BY <2>1 DEF JobsKept, NewReturns, JobState, Returns, Structure, TypeOK
<1>3. CASE \E w \in Processes : Handler(w)
  <2> PICK w \in Processes : Handler(w)
    BY <1>3
  <2>1. CASE Return(w)
    <3>1. /\ pc[w] = "returning" /\ current[w] \in DOMAIN jobs
          /\ jobs[current[w]] = "active"
          /\ jobs' = [jobs EXCEPT ![current[w]] = ret[w]]
      BY <2>1 DEF Return, Structure, WorkersHoldJobs
    <3> QED
      BY <3>1 DEF JobsKept, NewReturns, JobState, Returns, Structure, TypeOK
  <2> QED BY <1>0, <2>1, HandlersLeaveJobs
<1>4. CASE \E w \in Processes : \E f \in inflight[w] : FlowAdded(w, f)
  BY <1>4 DEF FlowAdded, WithWaiting, JobsKept, NewReturns, JobState, Returns
<1>5. CASE \E w \in Processes : Crash(w)
  <2> PICK w \in Processes : Crash(w)
    BY <1>5
  <2>1. CASE current[w] = NoJob
    BY <1>0, <2>1 DEF Crash
  <2>2. CASE current[w] # NoJob
    <3>1. /\ current[w] \in DOMAIN jobs /\ jobs[current[w]] = "active"
          /\ \E v \in {"failed", "waiting"} :
               jobs' = [jobs EXCEPT ![current[w]] = v]
      BY <2>2 DEF Crash, Structure, WorkersHoldJobs
    <3> QED
      BY <3>1 DEF JobsKept, NewReturns, JobState, Returns, Structure, TypeOK
  <2> QED BY <2>1, <2>2
<1>6. CASE UNCHANGED vars
  BY <1>0, <1>6 DEF vars
<1> QED BY <1>1, <1>2, <1>3, <1>4, <1>5, <1>6 DEF Next

\* What is recorded stays recorded, and the scores of an open round are fixed.
ScoresKept ==
  /\ \A s \in Stamps : added[s] \subseteq added'[s]
  /\ \A s \in Stamps : StartJob(s) \in DOMAIN jobs => positive'[s] = positive[s]
  /\ \A s \in Stamps : distributed[s] => distributed'[s]

\* A distribution lands by a call of distribute only.
NewDistributions ==
  \A s \in Stamps : distributed'[s] => 
    \/ distributed[s]
    \/ /\ UNCHANGED <<positive, flow, jobs, added>>
       /\ \E w \in Processes : Distribute(w) /\ flow[current[w].of].stamp = s

LEMMA StepScores ==
  ASSUME Structure, [Next]_vars
  PROVE  ScoresKept /\ NewDistributions
<1> USE DEF external, redis, worker
<1>0. ASSUME UNCHANGED <<positive, added, distributed>>
      PROVE  ScoresKept /\ NewDistributions
  BY <1>0 DEF ScoresKept, NewDistributions
<1>1. CASE \E s \in Stamps, S \in SUBSET Relays : Enqueue(s, S)
  BY <1>1 DEF Enqueue, ScoresKept, NewDistributions, StartJob, Structure, TypeOK
<1>2. CASE \E w \in Processes, j \in DOMAIN jobs : Dequeue(w, j)
  BY <1>0, <1>2 DEF Dequeue
<1>3. CASE \E w \in Processes : Handler(w)
  <2> PICK w \in Processes : Handler(w)
    BY <1>3
  <2>1. CASE AddScoresHandler(w)
    <3>1. /\ UNCHANGED <<positive, distributed>>
          /\ \/ UNCHANGED added
             \/ added' = [added EXCEPT ![flow[current[w].of].stamp] =
                                          @ \cup current[w].batch]
      BY <2>1 DEF AddScoresHandler
    <3> QED BY <3>1 DEF ScoresKept, NewDistributions, Structure, TypeOK
  <2>2. CASE Distribute(w)
    <3>1. /\ UNCHANGED <<positive, flow, jobs, added>>
          /\ \E b \in BOOLEAN :
               distributed' = [distributed EXCEPT
                                 ![flow[current[w].of].stamp] = @ \/ b]
      BY <2>2 DEF Distribute, Outcomes
    <3>2. ScoresKept
      BY <3>1 DEF ScoresKept, Structure, TypeOK
    <3>3. NewDistributions
      BY <2>2, <3>1 DEF NewDistributions, Structure, TypeOK
    <3> QED BY <3>2, <3>3
  <2>3. CASE ~AddScoresHandler(w) /\ ~Distribute(w)
    <3>1. UNCHANGED <<positive, added, distributed>>
      BY <2>3 DEF Handler, StartDistributionHandler, StartRecoveryDistribution,
         RetryComplete, DistributionCompleted,
         PersistDistributionHandler, ChildrenUnread, Return
    <3> QED BY <1>0, <3>1
  <2> QED BY <2>1, <2>2, <2>3
<1>4. CASE \E w \in Processes : \E f \in inflight[w] : FlowAdded(w, f)
  BY <1>0, <1>4 DEF FlowAdded
<1>5. CASE \E w \in Processes : Crash(w)
  BY <1>0, <1>5 DEF Crash
<1>6. CASE UNCHANGED vars
  BY <1>0, <1>6 DEF vars
<1> QED BY <1>1, <1>2, <1>3, <1>4, <1>5, <1>6 DEF Next

\* How a worker comes to hold a job, to be distributing or to be returning.
WorkerSteps ==
  \A w \in Processes :
    /\ current'[w] # NoJob =>
         \/ current'[w] = current[w]
         \/ /\ UNCHANGED <<flow, inflight, positive>>
            /\ pc'[w] = "handling"
            /\ \E j \in DOMAIN jobs : current'[w] = j /\ Ready(j)
    /\ pc'[w] = "distributing" =>
         /\ current'[w] = current[w]
         /\ \/ pc[w] = "distributing"
            \/ Distribute(w) /\ UNCHANGED <<positive, flow, jobs, added>>
    /\ pc'[w] = "returning" =>
         /\ current'[w] = current[w]
         /\ \/ pc[w] = "returning" /\ ret'[w] = ret[w]
            \/ AddScoresHandler(w)
            \/ current[w].name # "add-scores"

LEMMA StepWorkers ==
  ASSUME Structure, [Next]_vars
  PROVE  WorkerSteps
<1> USE DEF external, redis, worker
<1> DEFINE Step(v) ==
      /\ current'[v] # NoJob =>
           \/ current'[v] = current[v]
           \/ /\ UNCHANGED <<flow, inflight, positive>>
              /\ pc'[v] = "handling"
              /\ \E j \in DOMAIN jobs : current'[v] = j /\ Ready(j)
      /\ pc'[v] = "distributing" =>
           /\ current'[v] = current[v]
           /\ \/ pc[v] = "distributing"
              \/ Distribute(v) /\ UNCHANGED <<positive, flow, jobs, added>>
      /\ pc'[v] = "returning" =>
           /\ current'[v] = current[v]
           /\ \/ pc[v] = "returning" /\ ret'[v] = ret[v]
              \/ AddScoresHandler(v)
              \/ current[v].name # "add-scores"
<1>0. SUFFICES ASSUME NEW v \in Processes PROVE Step(v)
  BY DEF WorkerSteps
<1>1. CASE \E s \in Stamps, S \in SUBSET Relays : Enqueue(s, S)
  BY <1>1 DEF Enqueue
<1>2. CASE \E w \in Processes, j \in DOMAIN jobs : Dequeue(w, j)
  BY <1>2 DEF Dequeue, Structure, TypeOK
<1>3. CASE \E w \in Processes : Handler(w)
  <2> PICK w \in Processes : Handler(w)
    BY <1>3
  <2>1. CASE AddScoresHandler(w)
    BY <2>1 DEF AddScoresHandler, Leave, Structure, TypeOK
  <2>2. CASE Distribute(w)
    BY <2>2 DEF Distribute, Structure, TypeOK
  <2>3. CASE Return(w)
    BY <2>3 DEF Return, Structure, TypeOK
  <2>4. CASE ~AddScoresHandler(w) /\ ~Distribute(w) /\ ~Return(w)
    <3>1. \E x \in Returns : Leave(w, x)
      BY <2>4 DEF Handler, StartDistributionHandler, StartRecoveryDistribution,
         RetryComplete, DistributionCompleted,
         PersistDistributionHandler, ChildrenUnread, Returns
    <3>2. current[w].name # "add-scores"
      BY <2>4 DEF Handler, StartDistributionHandler, StartRecoveryDistribution,
         RetryComplete, DistributionCompleted, PersistDistributionHandler, ChildrenUnread,
         Handling, Structure, DistributingCloses
    <3> QED BY <3>1, <3>2 DEF Leave, Structure, TypeOK
  <2> QED BY <2>1, <2>2, <2>3, <2>4
<1>4. CASE \E w \in Processes : \E f \in inflight[w] : FlowAdded(w, f)
  BY <1>4 DEF FlowAdded
<1>5. CASE \E w \in Processes : Crash(w)
  BY <1>5 DEF Crash, Structure, TypeOK
<1>6. CASE UNCHANGED vars
  BY <1>6 DEF vars
<1> QED BY <1>1, <1>2, <1>3, <1>4, <1>5, <1>6 DEF Next

----------------------------------------------------------------------------
(* Scores that are reported processed have landed.                         *)

ReturningLands ==
  \A w \in Processes : pc[w] = "returning" /\ current[w].name = "add-scores" =>
    /\ ret[w] \in {"ok", "error"}
    /\ ret[w] = "ok" => current[w].batch \subseteq added[flow[current[w].of].stamp]

AddResultsLand ==
  \A f \in Sent : \A b \in flow[f].batches :
    JobState(AddJob(f, b)) \in Returns =>
      /\ JobState(AddJob(f, b)) \in {"ok", "error"}
      /\ JobState(AddJob(f, b)) = "ok" => b \subseteq added[flow[f].stamp]

ProcessedLand == \A f \in Sent : flow[f].processed \subseteq added[flow[f].stamp]

Landed == ReturningLands /\ AddResultsLand /\ ProcessedLand

LEMMA InitLanded == Init => Landed
BY DEF Init, Landed, ReturningLands, AddResultsLand, ProcessedLand, Sent

\* The jobs of a flow that is not sent yet are not in Redis.
LEMMA NoJobsBeforeSent ==
  ASSUME Structure, NEW f, f \notin Sent, NEW b
  PROVE  JobState(AddJob(f, b)) = "absent"
<1> SUFFICES ASSUME AddJob(f, b) \in DOMAIN jobs PROVE FALSE
  BY DEF JobState
<1>1. AddJob(f, b).name # "start-distribution" /\ AddJob(f, b).of = f
  BY JobIdentity
<1>2. ~(AddJob(f, b) = StartJob(f))
  BY <1>1, JobIdentity
<1> QED BY <1>1, <1>2 DEF Structure, JobsWellFormed

LEMMA ProcessedWithin ==
  ASSUME Structure, Landed, NEW f \in Sent
  PROVE  /\ Processed(f) \subseteq added[flow[f].stamp]
         /\ AllProcessed(f) \subseteq added[flow[f].stamp]
<1>1. \A b \in flow[f].batches :
        JobState(AddJob(f, b)) = "ok" => b \subseteq added[flow[f].stamp]
  BY DEF Landed, AddResultsLand, Returns
<1>2. Processed(f) \subseteq added[flow[f].stamp]
  BY <1>1 DEF Processed
<1> QED BY <1>2 DEF AllProcessed, Landed, ProcessedLand

LEMMA NextLanded ==
  ASSUME Structure, Landed, [Next]_vars
  PROVE  Landed'
<1>1. Structure' /\ FlowsKept
  BY NextStructure
<1>2. JobsKept /\ NewReturns /\ NewFlows /\ ScoresKept /\ WorkerSteps
  BY StepJobs, StepFlows, StepScores, StepWorkers
<1>3. \A f \in Sent : flow[f].stamp \in Stamps /\ flow[f] \in FlowData
  BY DEF Structure, TypeOK, Sent, FlowData
<1>4. ReturningLands'
  <2> SUFFICES ASSUME NEW w \in Processes, pc'[w] = "returning",
                      current'[w].name = "add-scores"
               PROVE  /\ ret'[w] \in {"ok", "error"}
                      /\ ret'[w] = "ok" =>
                           current'[w].batch
                             \subseteq added'[flow'[current'[w].of].stamp]
    BY DEF ReturningLands
  <2>1. current'[w] = current[w]
    BY <1>2 DEF WorkerSteps
  <2>2. current[w] # NoJob
    BY <1>1, <2>1 DEF Structure, WorkersHoldJobs
  <2>3. /\ current[w].of \in Sent
        /\ flow'[current[w].of] = flow[current[w].of]
        /\ flow[current[w].of].stamp \in Stamps
    BY <1>1, <1>3, <2>1, <2>2, HeldJob DEF FlowsKept
  <2>4. CASE pc[w] = "returning" /\ ret'[w] = ret[w]
    BY <1>2, <2>1, <2>3, <2>4 DEF Landed, ReturningLands, ScoresKept
  <2>5. CASE AddScoresHandler(w)
    <3>1. PICK o \in Outcomes :
            /\ added' = IF o.landed
                        THEN [added EXCEPT ![flow[current[w].of].stamp] =
                                             @ \cup current[w].batch]
                        ELSE added
            /\ ret' = [ret EXCEPT ![w] = IF o.ok THEN "ok" ELSE "error"]
      BY <2>5 DEF AddScoresHandler, Leave
    <3>2. ret'[w] = IF o.ok THEN "ok" ELSE "error"
      BY <3>1 DEF Structure, TypeOK
    <3>3. o.ok => current[w].batch \subseteq added'[flow[current[w].of].stamp]
      BY <3>1, <2>3 DEF Outcomes, Structure, TypeOK
    <3> QED BY <2>1, <2>3, <3>2, <3>3
  <2> QED BY <1>2, <2>1, <2>4, <2>5 DEF WorkerSteps
<1>5. AddResultsLand'
  <2> SUFFICES ASSUME NEW f \in Sent', NEW b \in flow'[f].batches,
                      JobState(AddJob(f, b))' \in Returns
               PROVE  /\ JobState(AddJob(f, b))' \in {"ok", "error"}
                      /\ JobState(AddJob(f, b))' = "ok" =>
                           b \subseteq added'[flow'[f].stamp]
    BY DEF AddResultsLand, AddJob
  <2>1. CASE f \in Sent
    <3>1. flow'[f] = flow[f] /\ flow[f].stamp \in Stamps
      BY <1>1, <1>3, <2>1 DEF FlowsKept
    <3>2. added[flow[f].stamp] \subseteq added'[flow'[f].stamp]
      BY <1>2, <3>1 DEF ScoresKept
    <3>3. CASE JobState(AddJob(f, b))' = JobState(AddJob(f, b))
      BY <2>1, <3>1, <3>2, <3>3 DEF Landed, AddResultsLand
    <3>4. CASE \E w \in Processes :
                 /\ pc[w] = "returning" /\ current[w] = AddJob(f, b)
                 /\ JobState(AddJob(f, b))' = ret[w]
      BY <3>1, <3>2, <3>4, JobIdentity DEF Landed, ReturningLands
    <3> QED BY <1>2, <3>3, <3>4 DEF NewReturns
  <2>2. CASE f \notin Sent
    <3>1. jobs' = jobs
      BY <1>2, <2>2 DEF NewFlows
    <3>2. JobState(AddJob(f, b))' = "absent"
      BY <2>2, <3>1, NoJobsBeforeSent DEF JobState, AddJob
    <3> QED BY <3>2 DEF Returns
  <2> QED BY <2>1, <2>2
<1>6. ProcessedLand'
  <2> SUFFICES ASSUME NEW f \in Sent'
               PROVE  flow'[f].processed \subseteq added'[flow'[f].stamp]
    BY DEF ProcessedLand
  <2>1. CASE f \in Sent
    BY <1>1, <1>2, <1>3, <2>1
       DEF FlowsKept, ScoresKept, Landed, ProcessedLand
  <2>2. CASE f \notin Sent
    <3>1. PICK w \in Processes : Starts(w, f) \/ Recovers(w, f) \/ Retries(w, f)
      BY <1>2, <2>2 DEF NewFlows
    <3>2. added' = added
      BY <1>2, <2>2 DEF NewFlows
    <3>3. CASE Starts(w, f)
      BY <3>3 DEF Starts, FirstFlow
    <3>4. CASE Recovers(w, f)
      <4>1. current[w].of \in Sent
        BY <3>4, HeldJob DEF Recovers, Handling
      <4>2. /\ flow'[f].stamp = flow[current[w].of].stamp
            /\ flow'[f].processed =
                 Processed(current[w].of) \cup flow[current[w].of].processed
        BY <3>4 DEF Recovers, RecoveryFlow
      <4> QED BY <3>2, <4>1, <4>2, ProcessedWithin DEF Landed, ProcessedLand
    <3>5. CASE Retries(w, f)
      <4>1. current[w].of \in Sent
        BY <3>5, HeldJob
           DEF Retries, Structure, DistributingCloses, WorkersHoldJobs
      <4>2. /\ flow'[f].stamp = flow[current[w].of].stamp
            /\ flow'[f].processed = AllProcessed(current[w].of)
        BY <3>5 DEF Retries, RetryFlow
      <4> QED BY <3>2, <4>1, <4>2, ProcessedWithin
    <3> QED BY <3>1, <3>3, <3>4, <3>5
  <2> QED BY <2>1, <2>2
<1> QED BY <1>4, <1>5, <1>6 DEF Landed

\* Whatever a completion hands on as processed is in the contract, through every
\* recovery, retry of the completion and crash.
THEOREM ScoresLanded == Spec => []ProcessedScoresLanded
<1>1. Init => Structure /\ Landed
  BY InitStructure, InitLanded
<1>2. Structure /\ Landed /\ [Next]_vars => Structure' /\ Landed'
  BY NextStructure, NextLanded
<1>3. Structure /\ Landed => ProcessedScoresLanded
  BY DEF Landed, AddResultsLand, ProcessedLand, ProcessedScoresLanded, Returns
<1> QED BY <1>1, <1>2, <1>3, PTL DEF Spec

----------------------------------------------------------------------------
(* No score is lost between the flows of a round.                          *)

\* A completion runs when all of its batches have returned.
ClosingReady ==
  \A w \in Processes :
    current[w] # NoJob /\ current[w].name = "complete-distribution" =>
      \A b \in flow[current[w].of].batches :
        JobState(AddJob(current[w].of, b)) \in Returns

\* The data of a flow or a distribution of a stamp follow its start job.
RoundsOpened ==
  /\ \A f \in Sent : StartJob(flow[f].stamp) \in DOMAIN jobs
  /\ \A s \in Stamps : distributed[s] => StartJob(s) \in DOMAIN jobs

\* The batches of a round are disjoint, its total counts their scores, and with
\* the processed scores they make up the scores of the stamp.
RoundsSplit ==
  \A f \in Rounds :
    LET queued == UNION flow[f].batches IN
      /\ \A b, c \in flow[f].batches : b # c => b \cap c = {}
      /\ flow[f].total = Cardinality(queued)
      /\ queued \cup flow[f].processed = positive[flow[f].stamp]
      /\ queued \cap flow[f].processed = {}

Conserved == ClosingReady /\ RoundsOpened /\ RoundsSplit

LEMMA InitConserved == Init => Conserved
BY DEF Init, Conserved, ClosingReady, RoundsOpened, RoundsSplit, Sent, Rounds

LEMMA GroupsPartition ==
  ASSUME NEW S, NEW bs \in Groups(S)
  PROVE  /\ UNION bs = S
         /\ \A b, c \in bs : b # c => b \cap c = {}
BY DEF Groups

\* When a completion runs, its batches are split into processed and failed ones.
LEMMA RoundHalves ==
  ASSUME Structure, Landed, Conserved, NEW w \in Processes,
         Handling(w, "complete-distribution")
  PROVE  LET f == current[w].of IN
           /\ f \in Rounds
           /\ Processed(f) \cup Failed(f) = UNION flow[f].batches
           /\ Processed(f) \cap Failed(f) = {}
<1> DEFINE f == current[w].of
<1>1. f \in Rounds
  BY HeldJob DEF Handling, Rounds
<1>2. \A b \in flow[f].batches : JobState(AddJob(f, b)) \in {"ok", "error"}
  BY <1>1 DEF Handling, Conserved, ClosingReady, Landed, AddResultsLand, Rounds
<1>3. \A b, c \in flow[f].batches : b # c => b \cap c = {}
  BY <1>1 DEF Conserved, RoundsSplit
<1>4. Processed(f) \cup Failed(f) = UNION flow[f].batches
  BY <1>2 DEF Processed, Failed
<1>5. Processed(f) \cap Failed(f) = {}
  <2> SUFFICES ASSUME NEW x \in Processed(f), x \in Failed(f) PROVE FALSE
    OBVIOUS
  <2>1. PICK b \in flow[f].batches : x \in b /\ JobState(AddJob(f, b)) = "ok"
    BY DEF Processed
  <2>2. PICK c \in flow[f].batches : x \in c /\ JobState(AddJob(f, c)) = "error"
    BY DEF Failed
  <2> QED BY <1>3, <2>1, <2>2
<1> QED BY <1>1, <1>4, <1>5

LEMMA NextConserved ==
  ASSUME Structure, Landed, Conserved, [Next]_vars
  PROVE  Conserved'
<1>1. Structure' /\ FlowsKept
  BY NextStructure
<1>2. /\ JobsKept /\ NewFlows /\ ScoresKept /\ WorkerSteps /\ NewDistributions
  BY StepJobs, StepFlows, StepScores, StepWorkers
<1>3. \A f \in Sent : flow[f].stamp \in Stamps /\ flow[f] \in FlowData
  BY DEF Structure, TypeOK, Sent, FlowData
<1>4. ASSUME NEW f \in Sent' \ Sent
      PROVE  \/ \E w \in Processes : Starts(w, f)
             \/ \E w \in Processes : Recovers(w, f)
             \/ \E w \in Processes : Retries(w, f) /\ current[w].of \in Sent
  BY <1>2, <1>4, HeldJob
     DEF NewFlows, Retries, Structure, DistributingCloses, WorkersHoldJobs
<1>5. ClosingReady'
  <2> SUFFICES ASSUME NEW w \in Processes, current'[w] # NoJob,
                      current'[w].name = "complete-distribution",
                      NEW f, f = current'[w].of, NEW b \in flow'[f].batches
               PROVE  JobState(AddJob(f, b))' \in Returns
    BY DEF ClosingReady, AddJob, JobState
  <2>1. ASSUME NEW j, JobState(j) \in Returns
        PROVE  JobState(j)' \in Returns
    BY <1>2, <2>1 DEF JobsKept, JobState, Returns
  <2>2. CASE current'[w] = current[w]
    <3>1. flow'[f] = flow[f]
      BY <1>1, <2>2, HeldJob DEF FlowsKept
    <3>2. JobState(AddJob(f, b)) \in Returns
      BY <2>2, <3>1 DEF Conserved, ClosingReady
    <3> QED BY <2>1, <3>2 DEF AddJob, JobState
  <2>3. CASE flow' = flow /\ \E j \in DOMAIN jobs : current'[w] = j /\ Ready(j)
    <3>1. PICK j \in DOMAIN jobs : current'[w] = j /\ Ready(j)
      BY <2>3
    <3>2. \A c \in AddJobs(f) : Returned(c)
      BY <3>1 DEF Ready
    <3>3. JobState(AddJob(f, b)) \in Returns
      BY <2>3, <3>2 DEF AddJobs, Returned
    <3> QED BY <2>1, <3>3 DEF AddJob, JobState
  <2> QED BY <1>2, <2>2, <2>3 DEF WorkerSteps
<1>6. RoundsOpened'
  <2>1. ASSUME NEW f \in Sent'
        PROVE  StartJob(flow'[f].stamp) \in DOMAIN jobs
    <3>1. CASE f \in Sent
      BY <1>1, <3>1 DEF FlowsKept, Conserved, RoundsOpened
    <3>2. CASE \E w \in Processes : Starts(w, f)
      BY <3>2, HeldJob DEF Starts, Handling, FirstFlow
    <3>3. CASE \E w \in Processes : Recovers(w, f)
      BY <3>3, HeldJob
         DEF Recovers, Handling, RecoveryFlow, Conserved, RoundsOpened
    <3>4. CASE \E w \in Processes : Retries(w, f) /\ current[w].of \in Sent
      BY <3>4 DEF Retries, RetryFlow, Conserved, RoundsOpened
    <3> QED BY <1>4, <2>1, <3>1, <3>2, <3>3, <3>4
  <2>2. ASSUME NEW s \in Stamps, distributed'[s]
        PROVE  StartJob(s) \in DOMAIN jobs
    <3>1. CASE distributed[s]
      BY <3>1 DEF Conserved, RoundsOpened
    <3>2. CASE \E w \in Processes :
                 Distribute(w) /\ flow[current[w].of].stamp = s
      BY <3>2, HeldJob DEF Distribute, Handling, Conserved, RoundsOpened
    <3> QED BY <1>2, <2>2, <3>1, <3>2 DEF NewDistributions
  <2> QED BY <1>2, <2>1, <2>2 DEF RoundsOpened, JobsKept, StartJob
<1>7. RoundsSplit'
  <2> SUFFICES ASSUME NEW f \in Rounds'
               PROVE  /\ \A b, c \in flow'[f].batches : b # c => b \cap c = {}
                      /\ flow'[f].total = Cardinality(UNION flow'[f].batches)
                      /\ (UNION flow'[f].batches) \cup flow'[f].processed
                           = positive'[flow'[f].stamp]
                      /\ (UNION flow'[f].batches) \cap flow'[f].processed = {}
    BY DEF RoundsSplit
  <2>0. f \in Sent' /\ flow'[f].kind = "scores"
    BY DEF Rounds
  <2>1. CASE f \in Sent
    <3>1. flow'[f] = flow[f] /\ f \in Rounds
      BY <1>1, <2>0, <2>1 DEF FlowsKept, Rounds
    <3>2. positive'[flow[f].stamp] = positive[flow[f].stamp]
      BY <1>2, <1>3, <2>1 DEF ScoresKept, Conserved, RoundsOpened
    <3> QED BY <3>1, <3>2 DEF Conserved, RoundsSplit
  <2>2. CASE f \notin Sent
    <3>1. positive' = positive
      BY <1>2, <2>0, <2>2 DEF NewFlows
    <3>2. CASE \E w \in Processes : Starts(w, f)
      <4> PICK w \in Processes : Starts(w, f)
        BY <3>2
      <4>1. PICK bs \in Groups(positive[current[w].of]) :
              flow'[f] = FirstFlow(current[w].of, bs)
        BY DEF Starts
      <4>2. /\ UNION bs = positive[current[w].of]
            /\ \A b, c \in bs : b # c => b \cap c = {}
        BY GroupsPartition
      <4>3. /\ flow'[f].batches = bs /\ flow'[f].stamp = current[w].of
            /\ flow'[f].total = Cardinality(positive[current[w].of])
            /\ flow'[f].processed = {}
        BY <4>1 DEF FirstFlow
      <4> QED BY <3>1, <4>2, <4>3
    <3>3. CASE \E w \in Processes : Recovers(w, f)
      <4>1. PICK w \in Processes :
              /\ Handling(w, "complete-distribution")
              /\ \E bs \in Groups(Failed(current[w].of)) :
                   flow'[f] = RecoveryFlow(current[w].of, bs)
        BY <3>3 DEF Recovers
      <4> DEFINE g == current[w].of
      <4>2. PICK bs \in Groups(Failed(g)) : flow'[f] = RecoveryFlow(g, bs)
        BY <4>1
      <4>3. /\ UNION bs = Failed(g)
            /\ \A b, c \in bs : b # c => b \cap c = {}
        BY GroupsPartition
      <4>4. /\ g \in Rounds
            /\ Processed(g) \cup Failed(g) = UNION flow[g].batches
            /\ Processed(g) \cap Failed(g) = {}
        BY <4>1, RoundHalves
      <4>5. /\ (UNION flow[g].batches) \cup flow[g].processed
                 = positive[flow[g].stamp]
            /\ (UNION flow[g].batches) \cap flow[g].processed = {}
        BY <4>4 DEF Conserved, RoundsSplit
      <4>6. /\ flow'[f].batches = bs /\ flow'[f].stamp = flow[g].stamp
            /\ flow'[f].total = Cardinality(Failed(g))
            /\ flow'[f].processed = Processed(g) \cup flow[g].processed
        BY <4>2 DEF RecoveryFlow
      <4>7. /\ Failed(g) \cup (Processed(g) \cup flow[g].processed)
                 = positive[flow[g].stamp]
            /\ Failed(g) \cap (Processed(g) \cup flow[g].processed) = {}
        BY <4>4, <4>5
      <4> HIDE DEF g
      <4> QED BY <3>1, <4>3, <4>6, <4>7
    <3>4. CASE \E w \in Processes : Retries(w, f)
      BY <2>0, <3>4 DEF Retries, RetryFlow
    <3> QED BY <1>4, <2>0, <2>2, <3>2, <3>3, <3>4
  <2> QED BY <2>1, <2>2
<1> QED BY <1>5, <1>6, <1>7 DEF Conserved

\* Every batch of a round is processed.
Whole(f) == flow[f].kind = "scores" => Processed(f) = UNION flow[f].batches

\* A completion that may be retried has all scores of the stamp processed, and so has
\* the flow that retries it.
Reported ==
  /\ \A w \in Processes :
       pc[w] = "distributing" /\ flow[current[w].of].retries > 0 => Whole(current[w].of)
  /\ \A f \in Sent :
       flow[f].kind = "retry" => flow[f].processed = positive[flow[f].stamp]

LEMMA InitReported == Init => Reported
BY DEF Init, Reported, Sent

LEMMA WholeStays ==
  ASSUME Structure, [Next]_vars, NEW f \in Sent, Whole(f)
  PROVE  Whole(f)'
<1>1. JobsKept /\ flow'[f] = flow[f]
  BY StepJobs, NextStructure DEF FlowsKept
<1>2. \A b \in flow[f].batches :
        JobState(AddJob(f, b)) = "ok" => JobState(AddJob(f, b))' = "ok"
  BY <1>1 DEF JobsKept, JobState, Returns, AddJob
<1>3. Processed(f) \subseteq Processed(f)' /\ Processed(f)' \subseteq UNION flow[f].batches
  BY <1>1, <1>2 DEF Processed
<1> QED BY <1>1, <1>3 DEF Whole

\* A completion that goes on to distribute with retries left misses no score.
LEMMA CompletionWhole ==
  ASSUME Structure, Landed, Conserved, NEW w \in Processes, Distribute(w),
         flow[current[w].of].retries > 0
  PROVE  Whole(current[w].of)
<1> DEFINE f == current[w].of
           queued == UNION flow[f].batches
<1>1. CASE Handling(w, "complete-distribution") /\ ~MustRecover(f)
  <2>1. f \in Rounds /\ Processed(f) \subseteq queued
    BY <1>1, RoundHalves
  <2>2. flow[f].total = Cardinality(queued) /\ flow[f] \in FlowData
    BY <1>1, <2>1, HeldJob DEF Conserved, RoundsSplit, Handling
  <2>3. queued \subseteq Relays
    BY <2>2 DEF FlowData
  <2>4. IsFiniteSet(queued)
    BY <2>3, FS_Subset, DistributionAssumption
  <2>5. /\ Cardinality(Processed(f)) \in Nat /\ Cardinality(queued) \in Nat
        /\ Cardinality(Processed(f)) <= Cardinality(queued)
        /\ Cardinality(Processed(f)) = Cardinality(queued) => Processed(f) = queued
    BY <2>1, <2>4, FS_Subset, FS_CardinalityType
  <2>6. ~(Cardinality(Processed(f)) < Cardinality(queued))
    BY <1>1, <2>2 DEF MustRecover
  <2> QED BY <2>5, <2>6 DEF Whole
<1>2. CASE Handling(w, "retry-complete-distribution")
  BY <1>2, HeldJob DEF Handling, Whole
<1> QED BY <1>1, <1>2 DEF Distribute

LEMMA NextReported ==
  ASSUME Structure, Landed, Conserved, Reported, [Next]_vars
  PROVE  Reported'
<1>1. Structure' /\ FlowsKept /\ ScoresKept /\ NewFlows /\ WorkerSteps
  BY NextStructure, StepFlows, StepScores, StepWorkers
<1>2. ASSUME NEW w \in Processes, pc'[w] = "distributing",
             flow'[current'[w].of].retries > 0
      PROVE  Whole(current[w].of)' /\ current'[w] = current[w]
  <2>1. current'[w] = current[w] /\ current'[w] # NoJob
    BY <1>1, <1>2 DEF WorkerSteps, Structure, WorkersHoldJobs
  <2>2. current[w].name # "start-distribution"
    BY <1>1, <1>2, <2>1 DEF Structure, DistributingCloses
  <2>3. current[w].of \in Sent
    BY <2>1, <2>2, HeldJob
  <2>4. flow[current[w].of].retries > 0
    BY <1>1, <1>2, <2>1, <2>3 DEF FlowsKept
  <2>5. Whole(current[w].of)
    BY <1>1, <1>2, <2>4, CompletionWhole DEF WorkerSteps, Reported
  <2> QED BY <2>1, <2>3, <2>5, WholeStays
<1>3. ASSUME NEW f \in Sent', flow'[f].kind = "retry"
      PROVE  flow'[f].processed = positive'[flow'[f].stamp]
  <2>1. CASE f \in Sent
    <3>1. flow'[f] = flow[f] /\ flow[f].stamp \in Stamps
      BY <1>1, <2>1 DEF FlowsKept, Structure, TypeOK, Sent, FlowData
    <3>2. positive'[flow[f].stamp] = positive[flow[f].stamp]
      BY <1>1, <2>1, <3>1 DEF ScoresKept, Conserved, RoundsOpened
    <3> QED BY <1>3, <2>1, <3>1, <3>2 DEF Reported
  <2>2. CASE f \notin Sent
    <3>1. /\ positive' = positive
          /\ \E w \in Processes : Starts(w, f) \/ Recovers(w, f) \/ Retries(w, f)
      BY <1>1, <2>2 DEF NewFlows
    <3>2. \A w \in Processes : ~Starts(w, f) /\ ~Recovers(w, f)
      <4>1. \A t, bs : FirstFlow(t, bs).kind = "scores"
        BY DEF FirstFlow
      <4>2. \A g, bs : RecoveryFlow(g, bs).kind = "scores"
        BY DEF RecoveryFlow
      <4> QED BY <1>3, <4>1, <4>2 DEF Starts, Recovers
    <3>3. PICK w \in Processes : Retries(w, f)
      BY <3>1, <3>2
    <3>4. PICK g : g = current[w].of
      OBVIOUS
    <3>5. Whole(g) /\ flow'[f] = RetryFlow(g)
      BY <3>3, <3>4 DEF Retries, Reported
    <3>6. g \in Sent /\ flow[g].kind \in {"scores", "retry"}
      BY <3>3, <3>4, HeldJob
         DEF Retries, Structure, DistributingCloses, WorkersHoldJobs, FlowData
    <3>7. AllProcessed(g) = positive[flow[g].stamp]
      <4>1. CASE flow[g].kind = "scores"
        <5>1. (UNION flow[g].batches) \cup flow[g].processed = positive[flow[g].stamp]
          BY <3>6, <4>1 DEF Conserved, RoundsSplit, Rounds
        <5> QED BY <3>5, <4>1, <5>1 DEF Whole, AllProcessed
      <4>2. CASE flow[g].kind = "retry"
        BY <3>6, <4>2 DEF Reported, AllProcessed
      <4> QED BY <3>6, <4>1, <4>2
    <3> QED BY <3>1, <3>5, <3>7 DEF RetryFlow
  <2> QED BY <2>1, <2>2
<1>4. \A w \in Processes :
        pc'[w] = "distributing" /\ flow'[current'[w].of].retries > 0
          => Whole(current[w].of)' /\ current'[w] = current[w]
  BY <1>2
<1> QED BY <1>3, <1>4 DEF Reported

\* However many recoveries follow each other, each flow of a round has every score
\* of the round either queued or processed, and none in both; a flow that retries the
\* completion reports them all.
THEOREM NoScoreLost == Spec => []ScoresConserved
<1> DEFINE IInv == Structure /\ Landed /\ Conserved /\ Reported
<1>1. Init => IInv
  BY InitStructure, InitLanded, InitConserved, InitReported
<1>2. IInv /\ [Next]_vars => IInv'
  BY NextStructure, NextLanded, NextConserved, NextReported
<1>3. IInv => ScoresConserved
  <2> SUFFICES ASSUME IInv PROVE ScoresConserved
    OBVIOUS
  <2>1. \A f \in Sent \ Rounds : flow[f].kind = "retry"
    BY DEF Structure, TypeOK, Sent, Rounds, FlowData
  <2> QED BY <2>1 DEF Conserved, RoundsSplit, Reported, ScoresConserved
<1> HIDE DEF IInv
<1> QED BY <1>1, <1>2, <1>3, PTL DEF Spec

----------------------------------------------------------------------------
(* A stamp is finalised when it is complete or its retries are spent.      *)

Settled(s) == positive[s] \subseteq added[s] \/ Exhausted(s)

SettledBeforeDistribute ==
  /\ \A s \in Stamps : distributed[s] => Settled(s)
  /\ \A f \in Sent : flow[f].kind = "retry" => Settled(flow[f].stamp)
  /\ \A w \in Processes :
       pc[w] = "distributing" => Settled(flow[current[w].of].stamp)

LEMMA InitSettled == Init => SettledBeforeDistribute
BY DEF Init, SettledBeforeDistribute, Sent

LEMMA SettledStays ==
  ASSUME Structure, [Next]_vars, NEW s \in Stamps,
         StartJob(s) \in DOMAIN jobs, Settled(s)
  PROVE  Settled(s)'
<1>1. FlowsKept /\ JobsKept /\ ScoresKept
  BY NextStructure, StepJobs, StepScores
<1>2. CASE positive[s] \subseteq added[s]
  BY <1>1, <1>2 DEF ScoresKept, Settled
<1>3. CASE Exhausted(s)
  <2>1. PICK f \in Rounds :
          /\ flow[f].stamp = s /\ flow[f].retries = 0
          /\ \E b \in flow[f].batches : JobState(AddJob(f, b)) = "error"
    BY <1>3 DEF Exhausted
  <2>2. PICK b \in flow[f].batches : JobState(AddJob(f, b)) = "error"
    BY <2>1
  <2>3. JobState(AddJob(f, b))' = "error"
    BY <1>1, <2>2 DEF JobsKept, JobState, Returns, AddJob
  <2>4. f \in Rounds' /\ flow'[f] = flow[f]
    BY <1>1 DEF FlowsKept, Rounds
  <2> QED BY <2>1, <2>2, <2>3, <2>4 DEF Exhausted, Settled
<1> QED BY <1>2, <1>3 DEF Settled

\* A completion that goes on to distribute: all of its round is processed, or
\* it has no retries left.
LEMMA CompletionSettles ==
  ASSUME Structure, Landed, Conserved, NEW w \in Processes,
         Handling(w, "complete-distribution"), ~MustRecover(current[w].of)
  PROVE  Settled(flow[current[w].of].stamp)
<1> DEFINE f == current[w].of
           queued == UNION flow[f].batches
<1>1. f \in Rounds /\ f \in Sent /\ flow[f] \in FlowData
  BY RoundHalves, HeldJob DEF Handling
<1>2. Processed(f) \cup Failed(f) = queued
  BY RoundHalves
<1>3. /\ queued \cup flow[f].processed = positive[flow[f].stamp]
      /\ flow[f].total = Cardinality(queued)
  BY <1>1 DEF Conserved, RoundsSplit
<1>4. CASE Processed(f) = queued
  <2>1. /\ Processed(f) \subseteq added[flow[f].stamp]
        /\ flow[f].processed \subseteq added[flow[f].stamp]
    BY <1>1, ProcessedWithin DEF Landed, ProcessedLand
  <2> QED BY <1>3, <1>4, <2>1 DEF Settled
<1>5. CASE Processed(f) # queued
  <2>1. IsFiniteSet(queued)
    <3>1. queued \subseteq Relays
      BY <1>1 DEF FlowData
    <3> QED BY <3>1, FS_Subset, DistributionAssumption
  <2>2. Processed(f) \subseteq queued
    BY <1>2
  <2>3. /\ Cardinality(Processed(f)) <= Cardinality(queued)
        /\ Cardinality(Processed(f)) # Cardinality(queued)
    BY <1>5, <2>1, <2>2, FS_Subset
  <2>4. Cardinality(Processed(f)) \in Nat /\ Cardinality(queued) \in Nat
    BY <2>1, <2>2, FS_Subset, FS_CardinalityType
  <2>5. Cardinality(Processed(f)) < flow[f].total
    BY <1>3, <2>3, <2>4
  <2>6. flow[f].retries = 0
    BY <1>1, <2>5, DistributionAssumption DEF MustRecover, FlowData
  <2>7. PICK b \in flow[f].batches : JobState(AddJob(f, b)) = "error"
    BY <1>2, <1>5 DEF Failed
  <2>8. Exhausted(flow[f].stamp)
    BY <1>1, <2>6, <2>7 DEF Exhausted
  <2> QED BY <2>8 DEF Settled
<1> QED BY <1>4, <1>5

\* distribute is called on settled stamps only.
LEMMA DistributeSettles ==
  ASSUME Structure, Landed, Conserved, SettledBeforeDistribute,
         NEW w \in Processes, Distribute(w)
  PROVE  Settled(flow[current[w].of].stamp)
<1>1. CASE Handling(w, "complete-distribution") /\ ~MustRecover(current[w].of)
  BY <1>1, CompletionSettles
<1>2. CASE Handling(w, "retry-complete-distribution")
  BY <1>2, HeldJob DEF Handling, SettledBeforeDistribute
<1> QED BY <1>1, <1>2 DEF Distribute

LEMMA NextSettled ==
  ASSUME Structure, Landed, Conserved, SettledBeforeDistribute, [Next]_vars
  PROVE  SettledBeforeDistribute'
<1>1. Structure' /\ FlowsKept
  BY NextStructure
<1>2. NewFlows /\ NewDistributions /\ WorkerSteps
  BY StepFlows, StepScores, StepWorkers
<1>3. ASSUME NEW f \in Sent
      PROVE  flow[f].stamp \in Stamps /\ StartJob(flow[f].stamp) \in DOMAIN jobs
  BY DEF Structure, TypeOK, Sent, FlowData, Conserved, RoundsOpened
<1>4. ASSUME NEW s \in Stamps, distributed'[s] PROVE Settled(s)'
  <2>1. CASE distributed[s]
    BY <2>1, SettledStays DEF SettledBeforeDistribute, Conserved, RoundsOpened
  <2>2. CASE \E w \in Processes : Distribute(w) /\ flow[current[w].of].stamp = s
    <3>1. PICK w \in Processes : Distribute(w) /\ flow[current[w].of].stamp = s
      BY <2>2
    <3>2. Settled(s)
      BY <3>1, DistributeSettles
    <3>3. current[w].of \in Sent
      BY <3>1, HeldJob DEF Distribute, Handling
    <3> QED BY <1>3, <3>1, <3>2, <3>3, SettledStays
  <2> QED BY <1>2, <1>4, <2>1, <2>2 DEF NewDistributions
<1>5. ASSUME NEW f \in Sent', flow'[f].kind = "retry",
             NEW s \in Stamps, s = flow'[f].stamp
      PROVE  Settled(s)'
  <2>1. CASE f \in Sent
    <3>1. flow'[f] = flow[f]
      BY <1>1, <2>1 DEF FlowsKept
    <3> QED
      BY <1>3, <1>5, <2>1, <3>1, SettledStays DEF SettledBeforeDistribute
  <2>2. CASE f \notin Sent
    <3>1. PICK w \in Processes : Starts(w, f) \/ Recovers(w, f) \/ Retries(w, f)
      BY <1>2, <2>2 DEF NewFlows
    <3>2. ~Starts(w, f)
      <4>1. \A t, bs : FirstFlow(t, bs).kind = "scores"
        BY DEF FirstFlow
      <4> QED BY <1>5, <4>1 DEF Starts
    <3>3. ~Recovers(w, f)
      <4>1. \A g, bs : RecoveryFlow(g, bs).kind = "scores"
        BY DEF RecoveryFlow
      <4> QED BY <1>5, <4>1 DEF Recovers
    <3>4. Retries(w, f)
      BY <3>1, <3>2, <3>3
    <3>5. s = flow[current[w].of].stamp /\ Settled(s)
      BY <1>5, <3>4 DEF Retries, RetryFlow, SettledBeforeDistribute
    <3>6. current[w].of \in Sent
      BY <3>4, HeldJob
         DEF Retries, Structure, DistributingCloses, WorkersHoldJobs
    <3> QED BY <1>3, <3>5, <3>6, SettledStays
  <2> QED BY <2>1, <2>2
<1>6. ASSUME NEW w \in Processes, pc'[w] = "distributing",
             NEW s \in Stamps, s = flow'[current'[w].of].stamp
      PROVE  Settled(s)'
  <2>1. current'[w] = current[w]
    BY <1>2, <1>6 DEF WorkerSteps
  <2>2. /\ current'[w] # NoJob
        /\ current'[w].name \in {"complete-distribution",
                                 "retry-complete-distribution"}
    BY <1>1, <1>6 DEF Structure, DistributingCloses, WorkersHoldJobs
  <2>3. current[w].of \in Sent
    BY <2>1, <2>2, HeldJob
  <2>4. s = flow[current[w].of].stamp
    BY <1>1, <1>6, <2>1, <2>3 DEF FlowsKept
  <2>5. Settled(s)
    BY <1>2, <1>6, <2>4, DistributeSettles DEF WorkerSteps, SettledBeforeDistribute
  <2> QED BY <1>3, <2>3, <2>4, <2>5, SettledStays
<1>7. \A f \in Sent' : flow'[f].stamp \in Stamps
  BY <1>1 DEF Structure, TypeOK, Sent, FlowData
<1>8. \A w \in Processes :
        pc'[w] = "distributing" => flow'[current'[w].of].stamp \in Stamps
  <2> SUFFICES ASSUME NEW w \in Processes, pc'[w] = "distributing"
               PROVE  flow'[current'[w].of].stamp \in Stamps
    OBVIOUS
  <2>1. current'[w] = current[w] /\ current'[w] # NoJob
    BY <1>1, <1>2 DEF WorkerSteps, Structure, WorkersHoldJobs
  <2>2. current'[w].name # "start-distribution"
    BY <1>1 DEF Structure, DistributingCloses
  <2>3. current[w].of \in Sent
    BY <2>1, <2>2, HeldJob
  <2> QED BY <1>1, <1>7, <2>1, <2>3 DEF FlowsKept
<1> QED BY <1>4, <1>5, <1>6, <1>7, <1>8
        DEF SettledBeforeDistribute, Settled, Exhausted

\* The contract distributes a stamp only when every positive score of the round is
\* recorded in it, or a completion of the round found no retries left.
THEOREM FinalisedSettled == Spec => []FinalisedWhenCompleteOrExhausted
<1> DEFINE IInv == Structure /\ Landed /\ Conserved /\ SettledBeforeDistribute
<1>1. Init => IInv
  BY InitStructure, InitLanded, InitConserved, InitSettled
<1>2. IInv /\ [Next]_vars => IInv'
  BY NextStructure, NextLanded, NextConserved, NextSettled
<1>3. IInv => FinalisedWhenCompleteOrExhausted
  BY DEF SettledBeforeDistribute, Settled, FinalisedWhenCompleteOrExhausted
<1> HIDE DEF IInv
<1> QED BY <1>1, <1>2, <1>3, PTL DEF Spec

----------------------------------------------------------------------------
(* Without crashes the flows of a stamp form a chain: one flow at a time   *)
(* is live, and every other has handed the round on.                       *)

\* The handler of a job left with a value of V, whether or not BullMQ knows yet.
LeftWith(j, V) ==
  \/ JobState(j) \in V
  \/ \E w \in Processes : current[w] = j /\ pc[w] = "returning" /\ ret[w] \in V

\* The closing job of a flow sent another flow, or it ended the round (with a result, or
\* with its children unread); it is past its test when it called distribute.
HandedOn(f) == LeftWith(ClosingJob(f), {"undefined"})
Concluded(f) == LeftWith(ClosingJob(f), Returns \ {"undefined"})
Decided(f) ==
  \/ LeftWith(ClosingJob(f), Returns)
  \/ \E w \in Processes : current[w] = ClosingJob(f) /\ pc[w] = "distributing"

\* The flow of a stamp that is live.  The retries count the flows before it.
StampFlows(s) == {f \in Sent : flow[f].stamp = s}
Latest(s, f) ==
  /\ f \in StampFlows(s)
  /\ IsFiniteSet(StampFlows(s))
  /\ FlowsOf(s) = MaxRetries - flow[f].retries + 1
  /\ \A g \in StampFlows(s) \ {f} : flow[g].retries > flow[f].retries /\ HandedOn(g)

ChainOf(s) ==
  IF StampFlows(s) = {} THEN ~LeftWith(StartJob(s), Returns)
  ELSE LeftWith(StartJob(s), Returns) /\ \E f \in StampFlows(s) : Latest(s, f)
Chain == \A s \in Stamps : ChainOf(s)

LEMMA FlowsOfIs ==
  \A s : /\ FlowsOf(s) = Cardinality(StampFlows(s))
         /\ FlowsOf(s)' = Cardinality(StampFlows(s)')
BY DEF FlowsOf, StampFlows

\* A step without a crash.
LEMMA NoCrash ==
  ASSUME Structure, [Next]_vars, crashes' = 0
  PROVE  crashes = 0 /\ \A w \in Processes : ~Crash(w)
<1>1. crashes \in Nat
  BY DistributionAssumption DEF Structure, TypeOK
<1>2. ASSUME NEW w \in Processes, Crash(w) PROVE FALSE
  BY <1>1, <1>2 DEF Crash
<1>3. crashes' = crashes
  BY <1>2 DEF Next, vars, Enqueue, Dequeue, Handler, FlowAdded,
     StartDistributionHandler, AddScoresHandler, StartRecoveryDistribution, Distribute,
     RetryComplete, DistributionCompleted, PersistDistributionHandler, ChildrenUnread, Return
<1> QED BY <1>2, <1>3

\* A handler that has left does not run again.
LEMMA LeftIsOver ==
  ASSUME Structure, NEW j, LeftWith(j, Returns),
         NEW w \in Processes, current[w] = j, pc[w] # "idle"
  PROVE  pc[w] = "returning"
<1>1. current[w] # NoJob /\ JobState(j) = "active"
  BY DEF Structure, WorkersHoldJobs, JobState
<1>2. PICK v \in Processes : current[v] = j /\ pc[v] = "returning"
  BY <1>1 DEF LeftWith, Returns
<1> QED BY <1>1, <1>2 DEF Structure, WorkersHoldJobs

\* A value that a handler left with is what BullMQ gets.
LEMMA LeftStays ==
  ASSUME Structure, [Next]_vars, crashes' = 0,
         NEW j, NEW V \in SUBSET Returns, LeftWith(j, V)
  PROVE  LeftWith(j, V)'
<1> USE DEF external, redis, worker
<1>1. JobsKept /\ \A w \in Processes : ~Crash(w)
  BY StepJobs, NoCrash
<1>2. CASE JobState(j) \in V
  BY <1>1, <1>2 DEF JobsKept, JobState, LeftWith, Returns
<1>3. ASSUME NEW v \in Processes, current[v] = j, pc[v] = "returning", ret[v] \in V
      PROVE  LeftWith(j, V)'
  <2>0. j # NoJob /\ j \in DOMAIN jobs
    BY <1>3 DEF Structure, WorkersHoldJobs
  <2>1. CASE UNCHANGED <<current, pc, ret>>
    BY <1>3, <2>1 DEF LeftWith
  <2>2. CASE \E w \in Processes, k \in DOMAIN jobs : Dequeue(w, k)
    <3>1. current'[v] = j /\ pc'[v] = "returning" /\ ret' = ret
      BY <1>3, <2>0, <2>2 DEF Dequeue, Structure, TypeOK
    <3> QED BY <1>3, <3>1 DEF LeftWith
  <2>3. CASE \E w \in Processes : Handler(w) /\ w # v
    <3>1. PICK w \in Processes : Handler(w) /\ w # v
      BY <2>3
    <3>2. current'[v] = j /\ pc'[v] = "returning" /\ ret'[v] = ret[v]
      BY <1>3, <3>1 DEF Handler, StartDistributionHandler, AddScoresHandler,
         StartRecoveryDistribution, Distribute, RetryComplete,
         DistributionCompleted, PersistDistributionHandler, ChildrenUnread, Return, Leave,
         Structure, TypeOK
    <3> QED BY <1>3, <3>2 DEF LeftWith
  <2>4. CASE Handler(v)
    <3>1. Return(v)
      BY <1>3, <2>4 DEF Handler, StartDistributionHandler, AddScoresHandler,
         StartRecoveryDistribution, Distribute, RetryComplete, Handling,
         DistributionCompleted, PersistDistributionHandler, ChildrenUnread
    <3>2. j \in DOMAIN jobs' /\ jobs'[j] = ret[v]
      BY <1>3, <2>0, <3>1 DEF Return
    <3> QED BY <1>3, <3>2 DEF LeftWith, JobState
  <2> QED BY <1>1, <2>1, <2>2, <2>3, <2>4 DEF Next, vars, Enqueue, FlowAdded
<1> QED BY <1>2, <1>3 DEF LeftWith

\* A handler leaves in one of its own steps.
LEMMA NewLeft ==
  ASSUME Structure, [Next]_vars, NEW j, NEW V \in SUBSET Returns, LeftWith(j, V)'
  PROVE  \/ LeftWith(j, V)
         \/ \E w \in Processes, x \in V : Handler(w) /\ current[w] = j /\ Leave(w, x)
<1> USE DEF external, redis, worker
<1>1. NewReturns
  BY StepJobs
<1>2. CASE JobState(j)' \in V
  BY <1>1, <1>2 DEF NewReturns, LeftWith
<1>3. ASSUME NEW v \in Processes, current'[v] = j, pc'[v] = "returning", ret'[v] \in V
      PROVE  \/ LeftWith(j, V)
             \/ \E w \in Processes, x \in V : Handler(w) /\ current[w] = j /\ Leave(w, x)
  <2>1. CASE current[v] = j /\ pc[v] = "returning" /\ ret'[v] = ret[v]
    BY <1>3, <2>1 DEF LeftWith
  <2>2. CASE \E w \in Processes, k \in DOMAIN jobs : Dequeue(w, k)
    <3>1. current'[v] = current[v] /\ pc[v] = "returning" /\ ret' = ret
      BY <1>3, <2>2 DEF Dequeue, Structure, TypeOK
    <3> QED BY <1>3, <2>1, <3>1
  <2>3. CASE \E w \in Processes : Crash(w)
    <3>1. current'[v] = current[v] /\ pc[v] = "returning" /\ ret' = ret
      BY <1>3, <2>3 DEF Crash, Structure, TypeOK
    <3> QED BY <1>3, <2>1, <3>1
  <2>4. CASE \E w \in Processes : Handler(w)
    <3>1. PICK w \in Processes : Handler(w)
      BY <2>4
    <3>2. CASE Distribute(w) \/ Return(w)
      <4>1. v # w /\ current'[v] = current[v] /\ pc'[v] = pc[v] /\ ret'[v] = ret[v]
        BY <1>3, <3>2 DEF Distribute, Return, Structure, TypeOK
      <4> QED BY <1>3, <2>1, <4>1
    <3>3. ASSUME NEW x \in Returns, Leave(w, x)
          PROVE  \/ LeftWith(j, V)
                 \/ \E u \in Processes, y \in V :
                      Handler(u) /\ current[u] = j /\ Leave(u, y)
      <4>1. CASE v = w
        <5>1. x = ret'[v] /\ current[w] = j
          BY <1>3, <3>3, <4>1 DEF Leave, Structure, TypeOK
        <5> QED BY <1>3, <3>1, <3>3, <5>1
      <4>2. CASE v # w
        <5>1. current'[v] = current[v] /\ pc'[v] = pc[v] /\ ret'[v] = ret[v]
          BY <3>3, <4>2 DEF Leave, Structure, TypeOK
        <5> QED BY <1>3, <2>1, <5>1
      <4> QED BY <4>1, <4>2
    <3>4. Distribute(w) \/ Return(w) \/ \E x \in Returns : Leave(w, x)
      BY <3>1 DEF Handler, StartDistributionHandler, AddScoresHandler,
         StartRecoveryDistribution, RetryComplete, DistributionCompleted,
         PersistDistributionHandler, ChildrenUnread, Returns
    <3> QED BY <3>2, <3>3, <3>4
  <2> QED BY <1>3, <2>1, <2>2, <2>3, <2>4 DEF Next, vars, Enqueue, FlowAdded
<1> QED BY <1>2, <1>3 DEF LeftWith

LEMMA InitChain == Init => Chain
BY DEF Init, Chain, ChainOf, StampFlows, Sent, LeftWith, JobState, Returns

\* A flow that is sent is one more of its stamp.
LEMMA SendFlowAdds ==
  ASSUME Structure, NEW w \in Processes, NEW data \in FlowData, SendFlow(w, data)
  PROVE  \E f \in Flows \ Sent :
           /\ flow'[f] = data /\ \A g \in Sent : flow'[g] = flow[g]
           /\ Sent' = Sent \cup {f}
           /\ \A s \in Stamps : StampFlows(s)' = IF s = data.stamp
                                                 THEN StampFlows(s) \cup {f}
                                                 ELSE StampFlows(s)
<1>1. PICK f \in Flows : flow[f] = NoFlow /\ flow' = [flow EXCEPT ![f] = data]
  BY DEF SendFlow
<1>2. f \notin Sent /\ Sent' = Sent \cup {f}
  BY <1>1, DistributionAssumption DEF Sent, Structure, TypeOK
<1>3. flow'[f] = data /\ \A g \in Sent : flow'[g] = flow[g]
  BY <1>1, <1>2 DEF Sent, Structure, TypeOK
<1> QED BY <1>2, <1>3 DEF StampFlows

\* Nothing about the flows of a stamp changes while none is sent for it.
LEMMA ChainStays ==
  ASSUME Structure, [Next]_vars, crashes' = 0, NEW s \in Stamps, ChainOf(s), FlowsKept,
         StampFlows(s)' = StampFlows(s),
         StampFlows(s) = {} => ~LeftWith(StartJob(s), Returns)'
  PROVE  ChainOf(s)'
<1>1. CASE StampFlows(s) = {}
  BY <1>1 DEF ChainOf, StartJob
<1>2. CASE StampFlows(s) # {}
  <2>1. LeftWith(StartJob(s), Returns)'
    BY <1>2, LeftStays DEF ChainOf
  <2>2. PICK f \in StampFlows(s) : Latest(s, f)
    BY <1>2 DEF ChainOf
  <2>3. \A g \in StampFlows(s) : flow'[g] = flow[g] /\ ClosingJob(g)' = ClosingJob(g)
    BY DEF FlowsKept, StampFlows, ClosingJob, CompleteJob, RetryJob
  <2>4. \A g \in StampFlows(s) : HandedOn(g) => HandedOn(g)'
    <3> SUFFICES ASSUME NEW g \in StampFlows(s), HandedOn(g) PROVE HandedOn(g)'
      OBVIOUS
    <3>1. {"undefined"} \in SUBSET Returns
      BY DEF Returns
    <3>2. \A j : LeftWith(j, {"undefined"}) => LeftWith(j, {"undefined"})'
      BY <3>1, LeftStays
    <3> QED BY <2>3, <3>2 DEF HandedOn, LeftWith, JobState
  <2>5. FlowsOf(s)' = FlowsOf(s)
    BY FlowsOfIs
  <2>6. Latest(s, f)'
    BY <2>2, <2>3, <2>4, <2>5 DEF Latest
  <2> QED BY <1>2, <2>1, <2>6 DEF ChainOf, StartJob
<1> QED BY <1>1, <1>2

\* The flow at whose closing job a worker is, is the latest of its stamp.
LEMMA LiveIsLatest ==
  ASSUME Structure, Chain, NEW w \in Processes, current[w] # NoJob,
         current[w] = ClosingJob(current[w].of), pc[w] \in {"handling", "distributing"},
         current[w].of \in Sent
  PROVE  LET f == current[w].of IN
           /\ flow[f].stamp \in Stamps /\ f \in StampFlows(flow[f].stamp)
           /\ Latest(flow[f].stamp, f) /\ ~HandedOn(f)
           /\ LeftWith(StartJob(flow[f].stamp), Returns)
<1> DEFINE f == current[w].of
           s == flow[f].stamp
<1>1. s \in Stamps /\ f \in StampFlows(s)
  BY DEF Structure, TypeOK, Sent, FlowData, StampFlows
<1>2. LeftWith(StartJob(s), Returns) /\ \E g \in StampFlows(s) : Latest(s, g)
  BY <1>1 DEF Chain, ChainOf
<1>3. PICK g \in StampFlows(s) : Latest(s, g)
  BY <1>2
<1>4. ~HandedOn(f)
  <2> SUFFICES ASSUME HandedOn(f) PROVE FALSE
    OBVIOUS
  <2>1. LeftWith(current[w], Returns)
    BY DEF HandedOn, LeftWith, Returns
  <2> QED BY <2>1, LeftIsOver
<1>5. f = g
  BY <1>1, <1>3, <1>4 DEF Latest
<1> QED BY <1>1, <1>2, <1>3, <1>4, <1>5

\* The worker at a closing job knows its flow.
LEMMA ClosingWorker ==
  ASSUME Structure, NEW w \in Processes,
         \/ Handling(w, "complete-distribution")
         \/ Handling(w, "retry-complete-distribution")
         \/ pc[w] = "distributing"
  PROVE  /\ current[w] # NoJob /\ pc[w] \in {"handling", "distributing"}
         /\ current[w].of \in Sent /\ current[w] = ClosingJob(current[w].of)
         /\ flow[current[w].of].stamp \in Stamps
<1>1. /\ current[w] # NoJob /\ pc[w] \in {"handling", "distributing"}
      /\ current[w].name \in {"complete-distribution", "retry-complete-distribution"}
  BY DEF Handling, Structure, DistributingCloses, WorkersHoldJobs
<1>2. current[w].of \in Sent /\ current[w] \in JobsOf(current[w].of)
  BY <1>1, HeldJob
<1>3. current[w] = ClosingJob(current[w].of)
  BY <1>1, <1>2, JobIdentity DEF JobsOf, AddJobs
<1> QED BY <1>1, <1>2, <1>3 DEF Structure, TypeOK, Sent, FlowData

\* The flow that a start job sends.
LEMMA StartFlow ==
  ASSUME Structure, NEW w \in Processes, StartDistributionHandler(w)
  PROVE  /\ current[w].of \in Stamps /\ current[w] = StartJob(current[w].of)
         /\ pc[w] = "handling" /\ current[w] # NoJob
         /\ \E data \in FlowData :
              /\ SendFlow(w, data) /\ Leave(w, "true")
              /\ data.kind = "scores" /\ data.stamp = current[w].of
              /\ data.retries = MaxRetries
<1>0. PICK s : s = current[w].of
  OBVIOUS
<1>1. s \in Stamps /\ current[w] = StartJob(s) /\ pc[w] = "handling"
      /\ current[w] # NoJob
  BY <1>0, HeldJob DEF StartDistributionHandler, Handling
<1>2. PICK bs \in Groups(positive[s]) : SendFlow(w, FirstFlow(s, bs))
  BY <1>0 DEF StartDistributionHandler
<1>3. FirstFlow(s, bs) \in FlowData
  <2>1. positive[s] \subseteq Relays /\ bs \subseteq SUBSET Relays
    BY <1>1 DEF Structure, TypeOK, Groups
  <2>2. Cardinality(positive[s]) \in Nat
    BY <2>1, FS_Subset, FS_CardinalityType, DistributionAssumption
  <2> QED BY <1>1, <2>1, <2>2, DistributionAssumption DEF FirstFlow, FlowData
<1>4. /\ FirstFlow(s, bs).stamp = s /\ FirstFlow(s, bs).kind = "scores"
      /\ FirstFlow(s, bs).retries = MaxRetries
  BY DEF FirstFlow
<1> QED BY <1>0, <1>1, <1>2, <1>3, <1>4 DEF StartDistributionHandler

\* The flow that a closing job sends when it hands the round on.
LEMMA HandOnFlow ==
  ASSUME Structure, NEW w \in Processes,
         StartRecoveryDistribution(w) \/ RetryComplete(w)
  PROVE  /\ current[w] # NoJob /\ current[w].of \in Sent
         /\ current[w] = ClosingJob(current[w].of)
         /\ pc[w] \in {"handling", "distributing"}
         /\ flow[current[w].of].retries > 0
         /\ \E data \in FlowData :
              /\ SendFlow(w, data) /\ Leave(w, "undefined")
              /\ data.stamp = flow[current[w].of].stamp
              /\ data.retries = flow[current[w].of].retries - 1
<1>1. PICK f : f = current[w].of
  OBVIOUS
<1>2. /\ current[w] # NoJob /\ pc[w] \in {"handling", "distributing"}
      /\ f \in Sent /\ current[w] = ClosingJob(f)
  BY <1>1, ClosingWorker DEF StartRecoveryDistribution, RetryComplete
<1>3. f \in Flows /\ flow[f] \in FlowData
  BY <1>2 DEF Sent, Structure, TypeOK
<1>4. CASE StartRecoveryDistribution(w)
  <2>1. flow[f].retries > 0 /\ Leave(w, "undefined")
    BY <1>1, <1>4 DEF StartRecoveryDistribution, MustRecover
  <2>2. PICK bs \in Groups(Failed(f)) : SendFlow(w, RecoveryFlow(f, bs))
    BY <1>1, <1>4 DEF StartRecoveryDistribution
  <2>3. /\ RecoveryFlow(f, bs) \in FlowData
        /\ RecoveryFlow(f, bs).stamp = flow[f].stamp
        /\ RecoveryFlow(f, bs).retries = flow[f].retries - 1
    BY <1>3, <2>1, RecoveryFlowType DEF RecoveryFlow, Structure
  <2> QED BY <1>1, <1>2, <2>1, <2>2, <2>3
<1>5. CASE RetryComplete(w)
  <2>1. flow[f].retries > 0 /\ SendFlow(w, RetryFlow(f)) /\ Leave(w, "undefined")
    BY <1>1, <1>5 DEF RetryComplete
  <2>2. /\ RetryFlow(f) \in FlowData
        /\ RetryFlow(f).stamp = flow[f].stamp
        /\ RetryFlow(f).retries = flow[f].retries - 1
    BY <1>3, <2>1, RetryFlowType DEF RetryFlow, Structure
  <2> QED BY <1>1, <1>2, <2>1, <2>2
<1> QED BY <1>4, <1>5

\* One worker at a time leaves its handler.
LEMMA LeaveOnce ==
  ASSUME Structure, NEW v \in Processes, NEW w \in Processes, pc[w] # "returning",
         pc' = [pc EXCEPT ![v] = "returning"], pc' = [pc EXCEPT ![w] = "returning"]
  PROVE  v = w
BY DEF Structure, TypeOK

\* A start job sends the first flow of its stamp.
LEMMA StartChain ==
  ASSUME Structure, Chain, [Next]_vars, crashes' = 0,
         NEW w \in Processes, StartDistributionHandler(w)
  PROVE  Chain'
<1>0. PICK s : s = current[w].of
  OBVIOUS
<1>1. s \in Stamps /\ current[w] = StartJob(s) /\ pc[w] = "handling"
      /\ current[w] # NoJob
  BY <1>0, StartFlow
<1>2. PICK data \in FlowData :
        /\ SendFlow(w, data) /\ Leave(w, "true")
        /\ data.stamp = s /\ data.retries = MaxRetries
  BY <1>0, StartFlow
<1>3. PICK f \in Flows \ Sent :
        /\ flow'[f] = data
        /\ \A t \in Stamps : StampFlows(t)' = IF t = s THEN StampFlows(t) \cup {f}
                                              ELSE StampFlows(t)
  BY <1>2, SendFlowAdds
<1>4. StampFlows(s) = {}
  <2> SUFFICES ASSUME StampFlows(s) # {} PROVE FALSE
    OBVIOUS
  <2>1. LeftWith(current[w], Returns)
    BY <1>1 DEF Chain, ChainOf
  <2> QED BY <1>1, <2>1, LeftIsOver
<1>5. ChainOf(s)'
  <2>1. current'[w] = StartJob(s) /\ pc'[w] = "returning" /\ ret'[w] = "true"
    BY <1>1, <1>2 DEF Leave, Structure, TypeOK
  <2>2. LeftWith(StartJob(s), Returns)'
    BY <2>1 DEF LeftWith, Returns, StartJob
  <2>3. StampFlows(s)' = {f}
    BY <1>1, <1>3, <1>4
  <2>4. IsFiniteSet({f}) /\ Cardinality({f}) = 1
    BY FS_Singleton
  <2>5. FlowsOf(s)' = 1
    BY <2>3, <2>4, FlowsOfIs
  <2>6. MaxRetries - flow'[f].retries + 1 = 1
    BY <1>2, <1>3, DistributionAssumption
  <2>7. Latest(s, f)'
    BY <2>3, <2>4, <2>5, <2>6 DEF Latest
  <2> QED BY <2>2, <2>3, <2>7 DEF ChainOf, StartJob
<1>6. ASSUME NEW t \in Stamps, t # s PROVE ChainOf(t)'
  <2>1. FlowsKept
    BY NextStructure
  <2>2. StampFlows(t)' = StampFlows(t)
    BY <1>3, <1>6
  <2>3. ASSUME StampFlows(t) = {}, LeftWith(StartJob(t), Returns)' PROVE FALSE
    <3>1. ~LeftWith(StartJob(t), Returns)
      BY <2>3 DEF Chain, ChainOf
    <3>2. LeftWith(StartJob(t), Returns)' => \E v \in Processes, x \in Returns :
            Handler(v) /\ current[v] = StartJob(t) /\ Leave(v, x)
      BY <3>1, NewLeft
    <3>3. PICK v \in Processes, x \in Returns : current[v] = StartJob(t) /\ Leave(v, x)
      BY <2>3, <3>2 DEF StartJob
    <3>4. pc' = [pc EXCEPT ![v] = "returning"] /\ pc' = [pc EXCEPT ![w] = "returning"]
      BY <1>2, <3>3 DEF Leave
    <3>5. v = w
      BY <1>1, <3>4, LeaveOnce
    <3> QED BY <1>1, <1>6, <3>3, <3>5, JobIdentity
  <2> QED BY <2>1, <2>2, <2>3, ChainStays DEF Chain, StartJob
<1> QED BY <1>5, <1>6 DEF Chain

\* A closing job that hands a round on sends the next flow of its stamp.
LEMMA HandOnChain ==
  ASSUME Structure, Chain, [Next]_vars, crashes' = 0,
         NEW w \in Processes, current[w] # NoJob, current[w].of \in Sent,
         current[w] = ClosingJob(current[w].of), pc[w] \in {"handling", "distributing"},
         flow[current[w].of].retries > 0,
         NEW data \in FlowData, data.stamp = flow[current[w].of].stamp,
         data.retries = flow[current[w].of].retries - 1,
         SendFlow(w, data), Leave(w, "undefined")
  PROVE  Chain'
<1>0. PICK f, s : f = current[w].of /\ s = flow[f].stamp
  OBVIOUS
<1>1. /\ s \in Stamps /\ f \in StampFlows(s)
      /\ Latest(s, f) /\ LeftWith(StartJob(s), Returns)
  BY <1>0, LiveIsLatest
<1>2. PICK g \in Flows \ Sent :
        /\ flow'[g] = data /\ \A h \in Sent : flow'[h] = flow[h]
        /\ \A t \in Stamps : StampFlows(t)' = IF t = s THEN StampFlows(t) \cup {g}
                                              ELSE StampFlows(t)
  BY <1>0, SendFlowAdds
<1>3. flow[f].retries \in Nat /\ MaxRetries \in Nat /\ flow[f].retries <= MaxRetries
  BY <1>1, DistributionAssumption DEF StampFlows, Sent, Structure, TypeOK, FlowData
<1>4. flow[f].retries > 0 /\ data.retries = flow[f].retries - 1
  BY <1>0
<1>5. ChainOf(s)'
  <2>1. LeftWith(StartJob(s), Returns)'
    BY <1>1, LeftStays
  <2>2. g \notin StampFlows(s) /\ StampFlows(s)' = StampFlows(s) \cup {g}
    BY <1>1, <1>2 DEF StampFlows
  <2>3. IsFiniteSet(StampFlows(s)') /\ FlowsOf(s)' = FlowsOf(s) + 1
    BY <1>1, <2>2, FlowsOfIs, FS_AddElement DEF Latest
  <2>4. FlowsOf(s)' = MaxRetries - flow'[g].retries + 1
    BY <1>1, <1>2, <1>3, <1>4, <2>3 DEF Latest
  <2>5. ASSUME NEW h \in StampFlows(s)
        PROVE  flow'[h].retries > flow'[g].retries /\ HandedOn(h)'
    <3>1. flow'[h] = flow[h] /\ ClosingJob(h)' = ClosingJob(h)
      BY <1>2 DEF StampFlows, ClosingJob, CompleteJob, RetryJob
    <3>2. CASE h = f
      <4>1. current'[w] = current[w] /\ pc'[w] = "returning" /\ ret'[w] = "undefined"
        BY DEF Leave, Structure, TypeOK
      <4> QED BY <1>0, <1>2, <1>3, <1>4, <3>1, <3>2, <4>1 DEF HandedOn, LeftWith
    <3>3. CASE h # f
      <4>1. flow[h].retries > flow[f].retries /\ HandedOn(h)
        BY <1>1, <2>5, <3>3 DEF Latest
      <4>2. LeftWith(ClosingJob(h), {"undefined"})'
        <5>1. {"undefined"} \in SUBSET Returns
          BY DEF Returns
        <5>2. \A j : LeftWith(j, {"undefined"}) => LeftWith(j, {"undefined"})'
          BY <5>1, LeftStays
        <5> QED BY <3>1, <4>1, <5>2 DEF HandedOn, LeftWith, JobState
      <4>3. flow[h].retries \in Nat
        BY DEF StampFlows, Sent, Structure, TypeOK, FlowData
      <4> QED BY <1>2, <1>3, <1>4, <3>1, <4>1, <4>2, <4>3 DEF HandedOn
    <3> QED BY <3>2, <3>3
  <2>6. Latest(s, g)'
    BY <2>2, <2>3, <2>4, <2>5 DEF Latest
  <2> QED BY <2>1, <2>2, <2>6 DEF ChainOf, StartJob
<1>6. ASSUME NEW t \in Stamps, t # s PROVE ChainOf(t)'
  <2>1. FlowsKept /\ StampFlows(t)' = StampFlows(t)
    BY <1>2, <1>6, NextStructure
  <2>2. ASSUME StampFlows(t) = {}, LeftWith(StartJob(t), Returns)' PROVE FALSE
    <3>1. ~LeftWith(StartJob(t), Returns)
      BY <2>2 DEF Chain, ChainOf
    <3>2. LeftWith(StartJob(t), Returns)' => \E v \in Processes, x \in Returns :
            Handler(v) /\ current[v] = StartJob(t) /\ Leave(v, x)
      BY <3>1, NewLeft
    <3>3. PICK v \in Processes, x \in Returns : current[v] = StartJob(t) /\ Leave(v, x)
      BY <2>2, <3>2 DEF StartJob
    <3>4. pc' = [pc EXCEPT ![v] = "returning"] /\ pc' = [pc EXCEPT ![w] = "returning"]
      BY <3>3 DEF Leave
    <3>5. v = w
      BY <3>4, LeaveOnce
    <3> QED BY <3>3, <3>5, JobIdentity DEF ClosingJob
  <2> QED BY <2>1, <2>2, ChainStays DEF Chain, StartJob
<1> QED BY <1>5, <1>6 DEF Chain

LEMMA NextChain ==
  ASSUME Structure, crashes = 0 => Chain, [Next]_vars, crashes' = 0
  PROVE  Chain'
<1> USE DEF external, redis, worker
<1>1. Chain /\ (\A w \in Processes : ~Crash(w)) /\ FlowsKept
  BY NoCrash, NextStructure
<1>2. ASSUME flow' = flow PROVE Chain'
  <2> SUFFICES ASSUME NEW s \in Stamps PROVE ChainOf(s)'
    BY DEF Chain
  <2>1. StampFlows(s)' = StampFlows(s)
    BY <1>2 DEF StampFlows, Sent
  <2>2. ASSUME StampFlows(s) = {}, LeftWith(StartJob(s), Returns)' PROVE FALSE
    <3>1. ~LeftWith(StartJob(s), Returns)
      BY <1>1, <2>2 DEF Chain, ChainOf
    <3>2. LeftWith(StartJob(s), Returns)' => \E v \in Processes, x \in Returns :
            Handler(v) /\ current[v] = StartJob(s) /\ Leave(v, x)
      BY <3>1, NewLeft
    <3>3. PICK v \in Processes, x \in Returns :
            Handler(v) /\ current[v] = StartJob(s) /\ Leave(v, x)
      BY <2>2, <3>2 DEF StartJob
    <3>4. current[v].name = "start-distribution"
      BY <3>3, JobIdentity
    <3>5. pc[v] # "returning"
      <4>1. ASSUME pc[v] = "returning" PROVE Return(v)
        BY <3>3, <4>1 DEF Handler, StartDistributionHandler, AddScoresHandler,
           StartRecoveryDistribution, Distribute, RetryComplete, Handling,
           DistributionCompleted, PersistDistributionHandler, ChildrenUnread
      <4>2. ~(Return(v) /\ Leave(v, x))
        BY DEF Return, Leave, Structure, TypeOK
      <4> QED BY <3>3, <4>1, <4>2
    <3>6. pc[v] # "distributing"
      BY <3>4 DEF Structure, DistributingCloses
    <3>7. StartDistributionHandler(v)
      BY <3>3, <3>4, <3>5, <3>6 DEF Handler, AddScoresHandler, Return,
         StartRecoveryDistribution, Distribute, RetryComplete, Handling,
         DistributionCompleted, PersistDistributionHandler, ChildrenUnread
    <3>8. PICK data \in FlowData : SendFlow(v, data)
      BY <3>7, StartFlow
    <3>9. PICK f \in Flows : flow[f] = NoFlow /\ flow' = [flow EXCEPT ![f] = data]
      BY <3>8 DEF SendFlow
    <3>10. flow'[f] = data
      BY <3>9 DEF Structure, TypeOK
    <3> QED BY <1>2, <3>9, <3>10, DistributionAssumption
  <2> QED BY <1>1, <2>1, <2>2, ChainStays DEF Chain, StartJob
<1>3. CASE \E w \in Processes : StartDistributionHandler(w)
  BY <1>1, <1>3, StartChain
<1>4. ASSUME NEW w \in Processes, StartRecoveryDistribution(w) \/ RetryComplete(w)
      PROVE  Chain'
  BY <1>1, <1>4, HandOnFlow, HandOnChain
<1> QED BY <1>1, <1>2, <1>3, <1>4 DEF Next, vars, Enqueue, Dequeue, FlowAdded,
        Handler, AddScoresHandler, Distribute, DistributionCompleted,
        PersistDistributionHandler, ChildrenUnread, Return

\* The recoveries of the scores and the retries of the completion draw on one budget: without
\* a crash a stamp has at most MaxRetries flows besides its first.
THEOREM RetriesBounded == Spec => []RetryBudget
<1> DEFINE IInv == Structure /\ (crashes = 0 => Chain)
<1>1. Init => IInv
  BY InitStructure, InitChain
<1>2. IInv /\ [Next]_vars => IInv'
  BY NextStructure, NextChain
<1>3. IInv => RetryBudget
  <2> SUFFICES ASSUME Structure, Chain, NEW s \in Stamps
               PROVE  Cardinality(StampFlows(s)) <= MaxRetries + 1
    BY DEF RetryBudget, StampFlows
  <2>1. CASE StampFlows(s) = {}
    BY <2>1, FS_EmptySet, DistributionAssumption
  <2>2. CASE StampFlows(s) # {}
    <3>1. PICK f \in StampFlows(s) : Latest(s, f)
      BY <2>2 DEF Chain, ChainOf
    <3>2. flow[f].retries \in Nat
      BY DEF StampFlows, Sent, Structure, TypeOK, FlowData
    <3> QED BY <3>1, <3>2, FlowsOfIs, DistributionAssumption DEF Latest
  <2> QED BY <2>1, <2>2
<1> HIDE DEF IInv
<1> QED BY <1>1, <1>2, <1>3, PTL DEF Spec

----------------------------------------------------------------------------
(* The order in which the jobs of a flow run.                              *)

\* A parent is active or has returned only after its children returned.
Begun == Returns \cup {"active"}
BatchesDone(f) == \A b \in flow[f].batches : JobState(AddJob(f, b)) \in Returns
Ordered ==
  \A f \in Sent :
    /\ JobState(ClosingJob(f)) \in Begun => BatchesDone(f)
    /\ JobState(PersistJob(f)) \in Begun => JobState(ClosingJob(f)) \in Returns
    /\ flow[f].kind = "retry" => flow[f].batches = {}

LEMMA InitOrdered == Init => Ordered
BY DEF Init, Ordered, Sent

\* The jobs of a flow that is not sent yet are not in Redis.
LEMMA AbsentBeforeSent ==
  ASSUME Structure, NEW j, j.of \notin Sent, j.name # "start-distribution"
  PROVE  JobState(j) = "absent"
BY JobIdentity DEF Structure, JobsWellFormed, JobState

\* A job begins when it is ready.
LEMMA NewBegun ==
  ASSUME Structure, [Next]_vars, NEW j, JobState(j)' \in Begun
  PROVE  JobState(j) \in Begun \/ (Ready(j) /\ UNCHANGED flow)
<1> USE DEF external, redis, worker
<1>1. CASE \E s \in Stamps, S \in SUBSET Relays : Enqueue(s, S)
  BY <1>1 DEF Enqueue, WithWaiting, JobState, Begun, Returns
<1>2. CASE \E w \in Processes, k \in DOMAIN jobs : Dequeue(w, k)
  BY <1>2 DEF Dequeue, JobState, Structure, TypeOK
<1>3. CASE \E w \in Processes : Handler(w)
  <2> PICK w \in Processes : Handler(w)
    BY <1>3
  <2>1. CASE Return(w)
    BY <2>1 DEF Return, Structure, WorkersHoldJobs, TypeOK, JobState, Begun
  <2> QED BY <2>1, HandlersLeaveJobs DEF JobState
<1>4. CASE \E w \in Processes : \E f \in inflight[w] : FlowAdded(w, f)
  BY <1>4 DEF FlowAdded, WithWaiting, JobState, Begun, Returns
<1>5. CASE \E w \in Processes : Crash(w)
  BY <1>5 DEF Crash, Structure, WorkersHoldJobs, TypeOK, JobState, Begun, Returns
<1>6. CASE UNCHANGED vars
  BY <1>6 DEF vars, JobState
<1> QED BY <1>1, <1>2, <1>3, <1>4, <1>5, <1>6 DEF Next

LEMMA NextOrdered ==
  ASSUME Structure, Ordered, [Next]_vars
  PROVE  Ordered'
<1>1. FlowsKept /\ JobsKept /\ NewFlows
  BY NextStructure, StepJobs, StepFlows
<1>2. SUFFICES ASSUME NEW f \in Sent'
               PROVE  /\ JobState(ClosingJob(f))' \in Begun => BatchesDone(f)'
                      /\ JobState(PersistJob(f))' \in Begun
                           => JobState(ClosingJob(f))' \in Returns
                      /\ flow'[f].kind = "retry" => flow'[f].batches = {}
  BY DEF Ordered
<1>3. ASSUME NEW j, JobState(j) \in Returns PROVE JobState(j)' \in Returns
  BY <1>1, <1>3 DEF JobsKept, JobState, Returns
<1>4. CASE f \in Sent
  <2>1. flow'[f] = flow[f] /\ ClosingJob(f)' = ClosingJob(f)
    BY <1>1, <1>4 DEF FlowsKept, ClosingJob, CompleteJob, RetryJob
  <2>2. ASSUME JobState(ClosingJob(f))' \in Begun PROVE BatchesDone(f)'
    <3>1. JobState(ClosingJob(f)) \in Begun \/ Ready(ClosingJob(f))
      <4>1. PICK j : j = ClosingJob(f)
        OBVIOUS
      <4>2. JobState(j)' \in Begun
        BY <2>1, <2>2, <4>1 DEF JobState
      <4> QED BY <4>1, <4>2, NewBegun
    <3>2. CASE JobState(ClosingJob(f)) \in Begun
      <4>1. BatchesDone(f)
        BY <1>4, <3>2 DEF Ordered
      <4>2. \A b \in flow[f].batches : JobState(AddJob(f, b))' \in Returns
        BY <1>3, <4>1 DEF BatchesDone, JobState, AddJob
      <4> QED BY <2>1, <4>2 DEF BatchesDone, JobState, AddJob
    <3>3. CASE Ready(ClosingJob(f))
      <4>1. flow[f].kind \in {"scores", "retry"}
        BY <1>4 DEF Structure, TypeOK, Sent, FlowData
      <4>2. CASE flow[f].kind = "scores"
        <5>1. \A c \in AddJobs(f) : Returned(c)
          BY <3>3, <4>2, JobIdentity DEF Ready, ClosingJob
        <5>2. \A b \in flow[f].batches : JobState(AddJob(f, b)) \in Returns
          BY <5>1 DEF AddJobs, Returned
        <5>3. \A b \in flow[f].batches : JobState(AddJob(f, b))' \in Returns
          BY <1>3, <5>2 DEF JobState, AddJob
        <5> QED BY <2>1, <5>3 DEF BatchesDone, JobState, AddJob
      <4>3. CASE flow[f].kind = "retry"
        BY <1>4, <2>1, <4>3 DEF Ordered, BatchesDone
      <4> QED BY <4>1, <4>2, <4>3
    <3> QED BY <3>1, <3>2, <3>3
  <2>3. ASSUME JobState(PersistJob(f))' \in Begun
        PROVE  JobState(ClosingJob(f))' \in Returns
    <3>1. JobState(PersistJob(f)) \in Begun \/ Ready(PersistJob(f))
      <4>1. PICK j : j = PersistJob(f)
        OBVIOUS
      <4>2. JobState(j)' \in Begun
        BY <2>3, <4>1 DEF JobState, PersistJob
      <4> QED BY <4>1, <4>2, NewBegun
    <3>2. JobState(ClosingJob(f)) \in Returns
      <4>1. PersistJob(f).name = "persist-distribution" /\ PersistJob(f).of = f
        BY JobIdentity
      <4> QED BY <1>4, <3>1, <4>1 DEF Ordered, Ready, Returned
    <3>3. PICK j : j = ClosingJob(f)
      OBVIOUS
    <3>4. JobState(j)' \in Returns
      BY <1>3, <3>2, <3>3
    <3> QED BY <2>1, <3>3, <3>4 DEF JobState
  <2> QED BY <1>4, <2>1, <2>2, <2>3 DEF Ordered
<1>5. CASE f \notin Sent
  <2>1. jobs' = jobs
    BY <1>1, <1>5 DEF NewFlows
  <2>2. \A j : j.of = f /\ j.name # "start-distribution" => JobState(j)' = "absent"
    BY <1>5, <2>1, AbsentBeforeSent DEF JobState
  <2>3. /\ ClosingJob(f)'.of = f /\ ClosingJob(f)'.name # "start-distribution"
        /\ PersistJob(f).of = f /\ PersistJob(f).name # "start-distribution"
    BY JobIdentity DEF ClosingJob, CompleteJob, RetryJob
  <2>4. JobState(ClosingJob(f))' = "absent" /\ JobState(PersistJob(f))' = "absent"
    BY <2>2, <2>3 DEF JobState, PersistJob
  <2>5. flow'[f].kind = "retry" => flow'[f].batches = {}
    <3>1. PICK w \in Processes : Starts(w, f) \/ Recovers(w, f) \/ Retries(w, f)
      BY <1>1, <1>5 DEF NewFlows
    <3>2. CASE Starts(w, f)
      BY <3>2 DEF Starts, FirstFlow
    <3>3. CASE Recovers(w, f)
      BY <3>3 DEF Recovers, RecoveryFlow
    <3>4. CASE Retries(w, f)
      BY <3>4 DEF Retries, RetryFlow
    <3> QED BY <3>1, <3>2, <3>3, <3>4
  <2> QED BY <2>4, <2>5 DEF Begun, Returns
<1> QED BY <1>4, <1>5

----------------------------------------------------------------------------
(* No flow of a distributed stamp has batches to run.                      *)

Silent ==
  \A s \in Stamps : distributed[s] =>
    /\ StampFlows(s) # {}
    /\ \A f \in StampFlows(s) : flow[f].kind = "retry" \/ Decided(f)

LEMMA InitSilent == Init => Silent
BY DEF Init, Silent

\* The closing job of a flow is past its test for good when no process crashes.
LEMMA DecidedStays ==
  ASSUME Structure, [Next]_vars, crashes' = 0, NEW f \in Sent, Decided(f)
  PROVE  Decided(f)'
<1> USE DEF external, redis, worker
<1>1. ClosingJob(f)' = ClosingJob(f)
  BY NextStructure DEF FlowsKept, ClosingJob, CompleteJob, RetryJob
<1>2. PICK j : j = ClosingJob(f)
  OBVIOUS
<1>3. ASSUME LeftWith(j, Returns)' PROVE Decided(f)'
  BY <1>1, <1>2, <1>3 DEF Decided, LeftWith, JobState
<1>4. CASE LeftWith(j, Returns)
  BY <1>3, <1>4, LeftStays
<1>5. ASSUME NEW v \in Processes, current[v] = j, pc[v] = "distributing"
      PROVE  Decided(f)'
  <2>1. CASE current'[v] = j /\ pc'[v] = "distributing"
    BY <1>1, <1>2, <2>1 DEF Decided
  <2>2. ASSUME NEW x \in Returns, Leave(v, x) PROVE Decided(f)'
    <3>1. current'[v] = j /\ pc'[v] = "returning" /\ ret'[v] = x
      BY <1>5, <2>2 DEF Leave, Structure, TypeOK
    <3> QED BY <1>3, <3>1 DEF LeftWith
  <2>3. CASE RetryComplete(v) \/ DistributionCompleted(v)
    <3>1. \E x \in Returns : Leave(v, x)
      BY <2>3 DEF RetryComplete, DistributionCompleted, Returns
    <3> QED BY <2>2, <3>1
  <2>4. CASE ~RetryComplete(v) /\ ~DistributionCompleted(v)
    <3>1. CASE \E w \in Processes : Handler(w)
      <4>1. PICK w \in Processes : Handler(w)
        BY <3>1
      <4>2. w # v
        BY <1>5, <2>4, <4>1 DEF Handler, StartDistributionHandler, AddScoresHandler,
           StartRecoveryDistribution, Distribute, Handling,
           PersistDistributionHandler, ChildrenUnread, Return
      <4>3. current'[v] = current[v] /\ pc'[v] = pc[v]
        BY <4>1, <4>2 DEF Handler, StartDistributionHandler, AddScoresHandler,
           StartRecoveryDistribution, Distribute, RetryComplete, Leave,
           DistributionCompleted,
           PersistDistributionHandler, ChildrenUnread, Return, Structure, TypeOK
      <4> QED BY <1>5, <2>1, <4>3
    <3>2. CASE \E w \in Processes, k \in DOMAIN jobs : Dequeue(w, k)
      <4>1. current[v] # NoJob
        BY <1>5 DEF Structure, WorkersHoldJobs
      <4>2. current'[v] = current[v] /\ pc'[v] = pc[v]
        BY <3>2, <4>1 DEF Dequeue, Structure, TypeOK
      <4> QED BY <1>5, <2>1, <4>2
    <3>3. CASE UNCHANGED <<current, pc>>
      BY <1>5, <2>1, <3>3
    <3>4. \A w \in Processes : ~Crash(w)
      BY NoCrash
    <3> QED BY <3>1, <3>2, <3>3, <3>4 DEF Next, vars, Enqueue, FlowAdded
  <2> QED BY <2>3, <2>4
<1> QED BY <1>2, <1>4, <1>5 DEF Decided

LEMMA NextSilent ==
  ASSUME Structure, Chain, Silent, [Next]_vars, crashes' = 0
  PROVE  Silent'
<1>1. FlowsKept /\ NewFlows /\ NewDistributions
  BY NextStructure, StepFlows, StepScores
<1>2. SUFFICES ASSUME NEW s \in Stamps, distributed'[s]
               PROVE  /\ StampFlows(s)' # {}
                      /\ \A f \in StampFlows(s)' : flow'[f].kind = "retry" \/ Decided(f)'
  BY DEF Silent
<1>3. \A f \in StampFlows(s) : f \in StampFlows(s)' /\ flow'[f] = flow[f]
  BY <1>1 DEF FlowsKept, StampFlows
<1>4. CASE distributed[s]
  <2>1. StampFlows(s)' # {}
    BY <1>3, <1>4 DEF Silent
  <2>2. ASSUME NEW f \in StampFlows(s)' PROVE flow'[f].kind = "retry" \/ Decided(f)'
    <3>1. CASE f \in Sent
      <4>1. f \in StampFlows(s) /\ flow'[f] = flow[f]
        BY <1>1, <2>2, <3>1 DEF FlowsKept, StampFlows
      <4> QED BY <1>4, <3>1, <4>1, DecidedStays DEF Silent
    <3>2. CASE f \notin Sent
      <4>1. PICK w \in Processes : Starts(w, f) \/ Recovers(w, f) \/ Retries(w, f)
        BY <1>1, <2>2, <3>2 DEF NewFlows, StampFlows
      <4>2. flow'[f].stamp = s
        BY <2>2 DEF StampFlows
      <4>3. CASE Starts(w, f)
        <5>1. current[w] = StartJob(s) /\ pc[w] = "handling"
          BY <4>2, <4>3, HeldJob DEF Starts, Handling, FirstFlow
        <5>2. LeftWith(StartJob(s), Returns)
          BY <1>4 DEF Silent, Chain, ChainOf
        <5> QED BY <5>1, <5>2, LeftIsOver
      <4>4. CASE Recovers(w, f)
        <5>1. Handling(w, "complete-distribution") /\ pc[w] = "handling"
          BY <4>4 DEF Recovers, Handling
        <5>2. PICK g : g = current[w].of
          OBVIOUS
        <5>3. g \in Sent /\ current[w] = ClosingJob(g) /\ flow[g].kind = "scores"
          BY <5>1, <5>2, ClosingWorker, HeldJob DEF Handling
        <5>4. flow[g].stamp = s
          BY <4>2, <4>4, <5>2 DEF Recovers, RecoveryFlow
        <5>5. Decided(g)
          BY <1>4, <5>3, <5>4 DEF Silent, StampFlows
        <5>6. \A v \in Processes : current[v] = ClosingJob(g) => v = w
          BY <5>1, <5>3 DEF Structure, WorkersHoldJobs, Handling
        <5>7. LeftWith(ClosingJob(g), Returns)
          BY <5>1, <5>5, <5>6 DEF Decided
        <5> QED BY <5>1, <5>3, <5>7, LeftIsOver
      <4>5. CASE Retries(w, f)
        BY <4>5 DEF Retries, RetryFlow
      <4> QED BY <4>1, <4>3, <4>4, <4>5
    <3> QED BY <3>1, <3>2
  <2> QED BY <2>1, <2>2
<1>5. CASE UNCHANGED flow /\
           \E w \in Processes : Distribute(w) /\ flow[current[w].of].stamp = s
  <2>1. PICK w \in Processes : Distribute(w) /\ flow[current[w].of].stamp = s
    BY <1>5
  <2>2. PICK l : l = current[w].of
    OBVIOUS
  <2>3. /\ l \in Sent /\ current[w] = ClosingJob(l) /\ current[w] # NoJob
        /\ pc[w] \in {"handling", "distributing"}
    BY <2>1, <2>2, ClosingWorker DEF Distribute
  <2>4. l \in StampFlows(s) /\ Latest(s, l)
    BY <2>1, <2>2, <2>3, LiveIsLatest
  <2>5. StampFlows(s)' = StampFlows(s)
    BY <1>5 DEF StampFlows, Sent
  <2>6. Decided(l)'
    <3>1. current'[w] = current[w] /\ pc'[w] = "distributing"
      BY <2>1 DEF Distribute, Structure, TypeOK
    <3>2. ClosingJob(l)' = ClosingJob(l)
      BY <1>5 DEF ClosingJob, CompleteJob, RetryJob
    <3> QED BY <2>3, <3>1, <3>2 DEF Decided
  <2>7. ASSUME NEW g \in StampFlows(s), g # l PROVE Decided(g)'
    <3>1. HandedOn(g) /\ g \in Sent
      BY <2>4, <2>7 DEF Latest, StampFlows
    <3>2. Decided(g)
      BY <3>1 DEF HandedOn, Decided, LeftWith, Returns
    <3> QED BY <3>1, <3>2, DecidedStays
  <2> QED BY <2>4, <2>5, <2>6, <2>7
<1> QED BY <1>1, <1>2, <1>4, <1>5 DEF NewDistributions

\* A batch that a worker runs belongs to a stamp that is not distributed.
LEMMA RunningBatch ==
  ASSUME Structure, Ordered, Silent, NEW w \in Processes, AddScoresHandler(w)
  PROVE  ~distributed[flow[current[w].of].stamp]
<1>1. PICK f, s : f = current[w].of /\ s = flow[f].stamp
  OBVIOUS
<1>2. /\ f \in Sent /\ s \in Stamps /\ current[w] = AddJob(f, current[w].batch)
      /\ current[w].batch \in flow[f].batches /\ current[w] # NoJob
  BY <1>1, HeldJob DEF AddScoresHandler, Handling, FlowData
<1>3. JobState(AddJob(f, current[w].batch)) = "active"
  BY <1>2 DEF Structure, WorkersHoldJobs, JobState
<1>4. SUFFICES ASSUME distributed[s] PROVE FALSE
  BY <1>1
<1>5. Decided(f)
  BY <1>2, <1>1, <1>4 DEF Silent, StampFlows, Ordered
<1>6. JobState(ClosingJob(f)) \in Begun
  BY <1>5 DEF Decided, LeftWith, Begun, Structure, WorkersHoldJobs, JobState
<1>7. BatchesDone(f)
  BY <1>2, <1>6 DEF Ordered
<1> QED BY <1>2, <1>3, <1>7 DEF BatchesDone, Returns

\* What holds of the flows of a stamp until a process crashes.
Orderly == Ordered /\ (crashes = 0 => Chain /\ Silent)

LEMMA NextOrderly ==
  ASSUME Structure, Orderly, [Next]_vars
  PROVE  Orderly'
<1>1. Ordered'
  BY NextOrdered DEF Orderly
<1>2. ASSUME crashes' = 0 PROVE Chain' /\ Silent'
  BY <1>2, NoCrash, NextChain, NextSilent DEF Orderly
<1> QED BY <1>1, <1>2 DEF Orderly

\* Once a stamp is distributed no batch of it reaches the contract while no process
\* crashes, whatever the recoveries and the retried completions do meanwhile.
THEOREM ScoresEndAtDistribute == Spec => NoScoresAfterDistribute
<1> DEFINE Kept == \A s \in Stamps : distributed[s] /\ crashes = 0 => added'[s] = added[s]
<1>1. Init => Structure /\ Orderly
  BY InitStructure, InitChain, InitOrdered, InitSilent DEF Orderly
<1>2. Structure /\ Orderly /\ [Next]_vars => Structure' /\ Orderly'
  BY NextStructure, NextOrderly
<1>3. Structure /\ Orderly /\ [Next]_vars => [Kept]_vars
  <2> SUFFICES ASSUME Structure, Orderly, [Next]_vars, crashes = 0,
                      NEW s \in Stamps, distributed[s]
               PROVE  added'[s] = added[s]
    BY DEF Kept
  <2>1. CASE UNCHANGED added
    BY <2>1
  <2>2. CASE \E w \in Processes : AddScoresHandler(w)
    <3>1. PICK w \in Processes : AddScoresHandler(w)
      BY <2>2
    <3>2. s # flow[current[w].of].stamp
      BY <3>1, RunningBatch DEF Orderly
    <3> QED BY <3>1, <3>2 DEF AddScoresHandler, Structure, TypeOK
  <2> USE DEF external, redis, worker
  <2> QED BY <2>1, <2>2 DEF Next, vars, Enqueue, Dequeue, Handler, FlowAdded, Crash,
        StartDistributionHandler, StartRecoveryDistribution, Distribute,
        RetryComplete, DistributionCompleted, PersistDistributionHandler, ChildrenUnread, Return
<1> QED BY <1>1, <1>2, <1>3, PTL DEF Spec, NoScoresAfterDistribute

----------------------------------------------------------------------------
(* One persist job of a stamp gets completion results.                     *)

ArchivedOnce ==
  \A s \in Stamps :
    /\ uploads[s] <= 1
    /\ uploads[s] = 1 => \E f \in StampFlows(s) :
         Concluded(f) /\ LeftWith(PersistJob(f), Returns)

\* A handler leaves with one value.
LEMMA LeftWithOne ==
  ASSUME Structure, NEW f, HandedOn(f)
  PROVE  ~Concluded(f)
<1> SUFFICES ASSUME Concluded(f) PROVE FALSE
  OBVIOUS
<1>1. PICK j : j = ClosingJob(f)
  OBVIOUS
<1>2. LeftWith(j, {"undefined"}) /\ LeftWith(j, Returns \ {"undefined"})
  BY <1>1 DEF HandedOn, Concluded
<1>3. ASSUME NEW w \in Processes, current[w] = j, pc[w] = "returning"
      PROVE  JobState(j) = "active"
  BY <1>3 DEF Structure, WorkersHoldJobs, JobState
<1>4. CASE JobState(j) = "active"
  <2>1. PICK v \in Processes : current[v] = j /\ pc[v] = "returning" /\ ret[v] = "undefined"
    BY <1>2, <1>4 DEF LeftWith
  <2>2. PICK w \in Processes :
          current[w] = j /\ pc[w] = "returning" /\ ret[w] # "undefined"
    BY <1>2, <1>4 DEF LeftWith, Returns
  <2> QED BY <2>1, <2>2 DEF Structure, WorkersHoldJobs
<1>5. CASE JobState(j) # "active"
  BY <1>2, <1>3, <1>5 DEF LeftWith
<1> QED BY <1>4, <1>5

\* The worker that uploads the summary of a stamp runs the persist job of a flow
\* whose closing job came to a result; it finds the stamp distributed.
Uploads(w, s) ==
  /\ Handling(w, "persist-distribution")
  /\ flow[current[w].of].stamp = s
  /\ jobs[ClosingJob(current[w].of)] # "undefined"
  /\ distributed[s]
  /\ \E x \in {"empty", "summary_tx"} : Leave(w, x)
  /\ uploads' = [uploads EXCEPT ![s] = @ + 1]
  /\ UNCHANGED <<positive, redis, inflight, added, distributed, crashes>>

LEMMA StepUploads ==
  ASSUME Structure, [Next]_vars
  PROVE  UNCHANGED uploads \/ \E w \in Processes, s \in Stamps : Uploads(w, s)
<1> USE DEF external, redis, worker
<1>1. ASSUME NEW w \in Processes, PersistDistributionHandler(w)
      PROVE  UNCHANGED uploads \/ \E s \in Stamps : Uploads(w, s)
  <2>1. flow[current[w].of].stamp \in Stamps
    BY <1>1, HeldJob DEF PersistDistributionHandler, Handling, FlowData
  <2> QED BY <1>1, <2>1 DEF PersistDistributionHandler, PersistDistribution, Uploads
<1> QED BY <1>1 DEF Next, vars, Enqueue, Dequeue, Handler, FlowAdded, Crash,
        StartDistributionHandler, StartRecoveryDistribution, Distribute,
        RetryComplete, DistributionCompleted, AddScoresHandler, ChildrenUnread, Return

\* The summary of a stamp is uploaded by the latest of its flows.
LEMMA FirstUpload ==
  ASSUME Structure, Ordered, Chain, ArchivedOnce,
         NEW w \in Processes, NEW s \in Stamps, Uploads(w, s)
  PROVE  /\ uploads[s] = 0
         /\ current[w].of \in StampFlows(s)
         /\ current[w] = PersistJob(current[w].of)
         /\ Concluded(current[w].of)
<1>1. PICK f : f = current[w].of
  OBVIOUS
<1>2. /\ f \in Sent /\ f \in StampFlows(s) /\ current[w] \in JobsOf(f)
      /\ current[w] # NoJob /\ pc[w] = "handling"
      /\ current[w].name = "persist-distribution"
  BY <1>1, HeldJob DEF Uploads, Handling, StampFlows
<1>3. current[w] = PersistJob(f)
  BY <1>2, JobIdentity DEF JobsOf, AddJobs, ClosingJob
<1>4. JobState(PersistJob(f)) \in Begun
  BY <1>2, <1>3 DEF Structure, WorkersHoldJobs, JobState, Begun
<1>5. JobState(ClosingJob(f)) \in Returns
  BY <1>2, <1>4 DEF Ordered
<1>6. Concluded(f)
  <2>1. JobState(ClosingJob(f)) # "undefined"
    BY <1>1, <1>5 DEF Uploads, JobState, Returns
  <2> QED BY <1>5, <2>1 DEF Concluded, LeftWith
<1>7. ASSUME uploads[s] # 0 PROVE FALSE
  <2>1. uploads[s] = 1
    BY <1>7 DEF ArchivedOnce, Structure, TypeOK
  <2>2. PICK g \in StampFlows(s) : Concluded(g) /\ LeftWith(PersistJob(g), Returns)
    BY <2>1 DEF ArchivedOnce
  <2>3. PICK l \in StampFlows(s) : Latest(s, l)
    BY <1>2 DEF Chain, ChainOf
  <2>4. f = l /\ g = l
    BY <1>2, <1>6, <2>2, <2>3, LeftWithOne DEF Latest
  <2> QED BY <1>2, <1>3, <2>2, <2>4, LeftIsOver
<1> QED BY <1>1, <1>2, <1>3, <1>6, <1>7

LEMMA InitArchived == Init => ArchivedOnce
BY DEF Init, ArchivedOnce

LEMMA NextArchived ==
  ASSUME Structure, Ordered, Chain, ArchivedOnce, [Next]_vars, crashes' = 0
  PROVE  ArchivedOnce'
<1>1. FlowsKept
  BY NextStructure
<1>2. \A f \in Sent : ClosingJob(f)' = ClosingJob(f)
  BY <1>1 DEF FlowsKept, ClosingJob, CompleteJob, RetryJob
<1>3. ASSUME NEW f \in Sent, Concluded(f) PROVE Concluded(f)'
  <2>1. PICK j : j = ClosingJob(f)
    OBVIOUS
  <2>2. PICK V : V = Returns \ {"undefined"}
    OBVIOUS
  <2>3. LeftWith(j, V)'
    BY <1>3, <2>1, <2>2, LeftStays DEF Concluded
  <2> QED BY <1>2, <2>1, <2>2, <2>3 DEF Concluded, LeftWith, JobState, Returns
<1>4. ASSUME NEW f, LeftWith(PersistJob(f), Returns)
      PROVE  LeftWith(PersistJob(f), Returns)'
  <2>1. PICK j : j = PersistJob(f)
    OBVIOUS
  <2>2. LeftWith(j, Returns)'
    BY <1>4, <2>1, LeftStays
  <2> QED BY <2>1, <2>2 DEF PersistJob
<1>5. \A s \in Stamps : \A f \in StampFlows(s) : f \in Sent /\ f \in StampFlows(s)'
  BY <1>1 DEF StampFlows, FlowsKept
<1>6. ASSUME NEW s \in Stamps, uploads'[s] = uploads[s]
      PROVE  /\ uploads'[s] <= 1
             /\ uploads'[s] = 1 => \E f \in StampFlows(s)' :
                  Concluded(f)' /\ LeftWith(PersistJob(f), Returns)'
  BY <1>3, <1>4, <1>5, <1>6 DEF ArchivedOnce
<1>7. CASE UNCHANGED uploads
  BY <1>6, <1>7 DEF ArchivedOnce, PersistJob
<1>8. CASE \E w \in Processes, s \in Stamps : Uploads(w, s)
  <2>1. PICK w \in Processes, s \in Stamps : Uploads(w, s)
    BY <1>8
  <2>2. PICK f : f = current[w].of
    OBVIOUS
  <2>3. /\ uploads[s] = 0 /\ f \in StampFlows(s)
        /\ current[w] = PersistJob(f) /\ Concluded(f)
    BY <2>1, <2>2, FirstUpload
  <2>4. uploads'[s] = 1 /\ \A t \in Stamps : t # s => uploads'[t] = uploads[t]
    BY <2>1, <2>3 DEF Uploads, Structure, TypeOK
  <2>5. LeftWith(PersistJob(f), Returns)'
    <3>1. current'[w] = current[w] /\ pc'[w] = "returning" /\ ret'[w] \in Returns
      BY <2>1 DEF Uploads, Leave, Structure, TypeOK, Returns
    <3> QED BY <2>3, <3>1 DEF LeftWith, PersistJob
  <2>6. f \in StampFlows(s)' /\ Concluded(f)'
    BY <1>3, <1>5, <2>3
  <2>7. /\ uploads'[s] <= 1
        /\ uploads'[s] = 1 => \E g \in StampFlows(s)' :
             Concluded(g)' /\ LeftWith(PersistJob(g), Returns)'
    BY <2>4, <2>5, <2>6
  <2>8. ASSUME NEW t \in Stamps
        PROVE  /\ uploads'[t] <= 1
               /\ uploads'[t] = 1 => \E g \in StampFlows(t)' :
                    Concluded(g)' /\ LeftWith(PersistJob(g), Returns)'
    BY <1>6, <2>4, <2>7
  <2> QED BY <2>8 DEF ArchivedOnce, PersistJob
<1> QED BY <1>7, <1>8, StepUploads

\* The summary of a stamp is uploaded once at most: of all the flows of a stamp one
\* persist job gets completion results, as long as no process crashes.
THEOREM SummaryOnce == Spec => []SummaryUploadedOnce
<1> DEFINE IInv == Structure /\ Orderly /\ (crashes = 0 => ArchivedOnce)
<1>1. Init => IInv
  BY InitStructure, InitChain, InitOrdered, InitSilent, InitArchived DEF Orderly
<1>2. IInv /\ [Next]_vars => IInv'
  BY NextStructure, NextOrderly, NextArchived, NoCrash DEF Orderly
<1>3. IInv => SummaryUploadedOnce
  BY DEF ArchivedOnce, SummaryUploadedOnce
<1> HIDE DEF IInv
<1> QED BY <1>1, <1>2, <1>3, PTL DEF Spec

----------------------------------------------------------------------------
(* The queue keeps the promise of the ledger.                              *)

\* The contract holds scores of the round only, and none before its start job.
Within ==
  \A s \in Stamps :
    /\ added[s] \subseteq positive[s]
    /\ StartJob(s) \notin DOMAIN jobs => added[s] = {}

LEMMA InitWithin == Init => Within
BY DEF Init, Within

\* A batch that reaches the contract is part of the round of its stamp.
LEMMA BatchWithin ==
  ASSUME Structure, Conserved, Ordered, NEW w \in Processes, AddScoresHandler(w)
  PROVE  /\ flow[current[w].of].stamp \in Stamps
         /\ StartJob(flow[current[w].of].stamp) \in DOMAIN jobs
         /\ current[w].batch \subseteq positive[flow[current[w].of].stamp]
<1>1. PICK f : f = current[w].of
  OBVIOUS
<1>2. f \in Sent /\ flow[f] \in FlowData /\ current[w].batch \in flow[f].batches
  BY <1>1, HeldJob DEF AddScoresHandler, Handling
<1>3. flow[f].kind = "scores"
  BY <1>2 DEF Ordered, FlowData
<1>4. f \in Rounds
  BY <1>2, <1>3 DEF Rounds
<1>5. (UNION flow[f].batches) \cup flow[f].processed = positive[flow[f].stamp]
  BY <1>4 DEF Conserved, RoundsSplit
<1>6. current[w].batch \subseteq positive[flow[f].stamp]
  BY <1>2, <1>5
<1>7. flow[f].stamp \in Stamps /\ StartJob(flow[f].stamp) \in DOMAIN jobs
  BY <1>2 DEF Conserved, RoundsOpened, FlowData
<1> QED BY <1>1, <1>6, <1>7

LEMMA NextWithin ==
  ASSUME Structure, Conserved, Ordered, Within, [Next]_vars
  PROVE  Within'
<1> USE DEF external, redis, worker
<1>1. DOMAIN jobs \subseteq DOMAIN jobs'
  BY StepJobs DEF JobsKept
<1>2. CASE UNCHANGED <<positive, added>>
  BY <1>1, <1>2 DEF Within, StartJob
<1>3. CASE \E s \in Stamps, S \in SUBSET Relays : Enqueue(s, S)
  <2>1. PICK s \in Stamps, S \in SUBSET Relays : Enqueue(s, S)
    BY <1>3
  <2>2. added' = added /\ added[s] = {}
        /\ \A t \in Stamps : t # s => positive'[t] = positive[t]
    BY <2>1 DEF Enqueue, Within, Structure, TypeOK
  <2> QED BY <1>1, <2>2 DEF Within, StartJob
<1>4. CASE \E w \in Processes : AddScoresHandler(w)
  <2>1. PICK w \in Processes : AddScoresHandler(w)
    BY <1>4
  <2>2. PICK s : s = flow[current[w].of].stamp
    OBVIOUS
  <2>3. /\ s \in Stamps /\ StartJob(s) \in DOMAIN jobs
        /\ current[w].batch \subseteq positive[s]
    BY <2>1, <2>2, BatchWithin
  <2>4. /\ positive' = positive
        /\ \/ added' = added
           \/ added' = [added EXCEPT ![s] = @ \cup current[w].batch]
    BY <2>1, <2>2 DEF AddScoresHandler
  <2>5. \A t \in Stamps : added'[t] \subseteq positive[t]
    BY <2>3, <2>4 DEF Within, Structure, TypeOK
  <2>6. \A t \in Stamps : t # s => added'[t] = added[t]
    BY <2>4 DEF Structure, TypeOK
  <2> QED BY <1>1, <2>3, <2>4, <2>5, <2>6 DEF Within, StartJob
<1> QED BY <1>2, <1>3, <1>4 DEF Next, vars, Dequeue, Handler, FlowAdded, Crash,
        StartDistributionHandler, StartRecoveryDistribution, Distribute,
        RetryComplete, DistributionCompleted, PersistDistributionHandler, ChildrenUnread, Return

\* What the ledger sees of the rounds and of the budget.
Target == [s \in Stamps |-> Opened(s)]
SpentOf(s) == IF FlowsOf(s) = 0 THEN 0 ELSE FlowsOf(s) - 1
Spent == [s \in Stamps |-> SpentOf(s)]

LEMMA LedgerView ==
  /\ Ledger!ledger = <<Target, added, Spent, distributed, uploads>>
  /\ Ledger!ledger' = <<Target', added', Spent', distributed', uploads'>>
BY DEF Ledger!ledger, Target, Spent, SpentOf

LEMMA TargetKept ==
  ASSUME positive' = positive,
         \A s \in Stamps : StartJob(s) \in DOMAIN jobs' <=> StartJob(s) \in DOMAIN jobs
  PROVE  Target' = Target
<1>1. \A s \in Stamps : Opened(s)' = Opened(s)
  BY DEF Opened, StartJob
<1> QED BY <1>1 DEF Target

LEMMA SpentKept == ASSUME flow' = flow PROVE Spent' = Spent
BY DEF Spent, SpentOf, FlowsOf, Sent

\* What a new flow does to the budget.
LEMMA SpentAdds ==
  ASSUME Structure, Chain, NEW w \in Processes, NEW data \in FlowData,
         SendFlow(w, data), NEW s \in Stamps, data.stamp = s
  PROVE  /\ FlowsOf(s) \in Nat /\ FlowsOf(s)' = FlowsOf(s) + 1
         /\ \A t \in Stamps : t # s => FlowsOf(t)' = FlowsOf(t)
<1>1. PICK f \in Flows \ Sent :
        \A t \in Stamps : StampFlows(t)' = IF t = s THEN StampFlows(t) \cup {f}
                                           ELSE StampFlows(t)
  BY SendFlowAdds
<1>2. IsFiniteSet(StampFlows(s))
  <2>1. CASE StampFlows(s) = {}
    BY <2>1, FS_EmptySet
  <2>2. CASE StampFlows(s) # {}
    BY <2>2 DEF Chain, ChainOf, Latest
  <2> QED BY <2>1, <2>2
<1>3. f \notin StampFlows(s)
  BY DEF StampFlows
<1>4. Cardinality(StampFlows(s)) \in Nat
  BY <1>2, FS_CardinalityType
<1>5. Cardinality(StampFlows(s) \cup {f}) = Cardinality(StampFlows(s)) + 1
  BY <1>2, <1>3, FS_AddElement
<1> QED BY <1>1, <1>4, <1>5, FlowsOfIs

LEMMA LedgerStarts == Init => Ledger!LedgerInit
<1> SUFFICES ASSUME Init PROVE Ledger!LedgerInit
  OBVIOUS
<1>1. Target = [s \in Stamps |-> NoFlow]
  BY DEF Init, Target, Opened
<1>2. \A s : FlowsOf(s) = 0
  <2>1. \A s : StampFlows(s) = {}
    BY DEF Init, StampFlows, Sent
  <2> QED BY <2>1, FlowsOfIs, FS_EmptySet
<1>3. Spent = [s \in Stamps |-> 0]
  BY <1>2 DEF Spent, SpentOf
<1> QED BY <1>1, <1>3 DEF Init, Ledger!LedgerInit, Target, Spent, SpentOf

\* A round is opened by its start job.
LEMMA OpenStep ==
  ASSUME Structure, NEW s \in Stamps, NEW S \in SUBSET Relays, Enqueue(s, S)
  PROVE  Ledger!Open(s, S)
<1> USE DEF external, redis, worker
<1>1. Spent' = Spent
  BY SpentKept DEF Enqueue
<1>2. Target[s] = NoFlow
  BY DEF Enqueue, Target, Opened
<1>3. Opened(s)' = S
  BY DEF Enqueue, Opened, WithWaiting, StartJob, Structure, TypeOK
<1>4. ASSUME NEW t \in Stamps, t # s PROVE Opened(t)' = Opened(t)
  BY <1>4 DEF Enqueue, Opened, WithWaiting, StartJob, Structure, TypeOK
<1>5. Target' = [Target EXCEPT ![s] = S]
  BY <1>3, <1>4 DEF Target
<1> QED BY <1>1, <1>2, <1>5 DEF Enqueue, Ledger!Open, Target, Spent, SpentOf

\* A batch that lands is recorded in an open round that is not finalised.
LEMMA RecordStep ==
  ASSUME Structure, Conserved, Ordered, Silent,
         NEW w \in Processes, AddScoresHandler(w)
  PROVE  \/ UNCHANGED Ledger!ledger
         \/ \E s \in Stamps, S \in SUBSET Relays : Ledger!Record(s, S)
<1> USE DEF external, redis, worker
<1>1. PICK s, S : s = flow[current[w].of].stamp /\ S = current[w].batch
  OBVIOUS
<1>2. /\ s \in Stamps /\ StartJob(s) \in DOMAIN jobs /\ S \subseteq positive[s]
      /\ ~distributed[s]
  BY <1>1, BatchWithin, RunningBatch
<1>3. S \in SUBSET Relays /\ Target[s] = positive[s] /\ Target[s] # NoFlow
  BY <1>2, RefinementAssumption DEF Target, Opened, Structure, TypeOK
<1>4. Spent' = Spent /\ Target' = Target
  BY SpentKept, TargetKept DEF AddScoresHandler
<1>5. \/ added' = added
      \/ added' = [added EXCEPT ![s] = @ \cup S]
  BY <1>1 DEF AddScoresHandler
<1>6. UNCHANGED <<distributed, uploads>>
  BY DEF AddScoresHandler
<1>7. CASE added' = added
  BY <1>4, <1>6, <1>7, LedgerView
<1>8. CASE added' = [added EXCEPT ![s] = @ \cup S]
  <2>1. Ledger!Record(s, S)
    BY <1>2, <1>3, <1>4, <1>6, <1>8 DEF Ledger!Record, Target, Spent, SpentOf
  <2> QED BY <1>2, <1>3, <2>1
<1> QED BY <1>5, <1>7, <1>8

\* The first flow of a stamp is free.
LEMMA StartStep ==
  ASSUME Structure, Chain, NEW w \in Processes, StartDistributionHandler(w)
  PROVE  UNCHANGED Ledger!ledger
<1> USE DEF external, redis, worker
<1>1. PICK s : s = current[w].of
  OBVIOUS
<1>2. /\ s \in Stamps /\ current[w] = StartJob(s)
      /\ pc[w] = "handling" /\ current[w] # NoJob
  BY <1>1, StartFlow
<1>3. PICK data \in FlowData : SendFlow(w, data) /\ data.stamp = s
  BY <1>1, StartFlow
<1>4. StampFlows(s) = {}
  <2> SUFFICES ASSUME StampFlows(s) # {} PROVE FALSE
    OBVIOUS
  <2>1. LeftWith(current[w], Returns)
    BY <1>2 DEF Chain, ChainOf
  <2> QED BY <1>2, <2>1, LeftIsOver
<1>5. FlowsOf(s) = 0
  BY <1>4, FlowsOfIs, FS_EmptySet
<1>6. FlowsOf(s)' = 1 /\ \A t \in Stamps : t # s => FlowsOf(t)' = FlowsOf(t)
  BY <1>2, <1>3, <1>5, SpentAdds
<1>7. \A t \in Stamps : SpentOf(t)' = SpentOf(t)
  BY <1>2, <1>5, <1>6 DEF SpentOf
<1>8. Spent' = Spent
  BY <1>7 DEF Spent
<1>9. Target' = Target
  BY TargetKept DEF StartDistributionHandler
<1> QED BY <1>8, <1>9, LedgerView DEF StartDistributionHandler

\* Every further flow is paid from the budget, which is not used up.
LEMMA SpendStep ==
  ASSUME Structure, Chain, NEW w \in Processes,
         StartRecoveryDistribution(w) \/ RetryComplete(w), Conserved
  PROVE  \E s \in Stamps : Ledger!Spend(s)
<1> USE DEF external, redis, worker
<1>1. PICK f, s : f = current[w].of /\ s = flow[f].stamp
  OBVIOUS
<1>2. /\ current[w] # NoJob /\ f \in Sent /\ current[w] = ClosingJob(f)
      /\ pc[w] \in {"handling", "distributing"} /\ flow[f].retries > 0
  BY <1>1, HandOnFlow
<1>3. PICK data \in FlowData : SendFlow(w, data) /\ data.stamp = s
  BY <1>1, HandOnFlow
<1>4. s \in Stamps /\ Latest(s, f)
  BY <1>1, <1>2, LiveIsLatest
<1>5. FlowsOf(s) = MaxRetries - flow[f].retries + 1
  BY <1>4 DEF Latest
<1>6. /\ FlowsOf(s)' = FlowsOf(s) + 1
      /\ \A t \in Stamps : t # s => FlowsOf(t)' = FlowsOf(t)
  BY <1>3, <1>4, SpentAdds
<1>7. flow[f].retries \in 0..MaxRetries /\ MaxRetries \in Nat
  BY <1>2, DistributionAssumption DEF Sent, Structure, TypeOK, FlowData
<1>8. SpentOf(s) < MaxRetries /\ SpentOf(s)' = SpentOf(s) + 1
  BY <1>2, <1>5, <1>6, <1>7 DEF SpentOf
<1>9. \A t \in Stamps : t # s => SpentOf(t)' = SpentOf(t)
  BY <1>6 DEF SpentOf
<1>10. Spent' = [Spent EXCEPT ![s] = @ + 1] /\ Spent[s] < MaxRetries
  BY <1>4, <1>8, <1>9 DEF Spent
<1>11. Target' = Target
  BY TargetKept DEF StartRecoveryDistribution, RetryComplete
<1>12. Target[s] # NoFlow
  <2>1. StartJob(s) \in DOMAIN jobs
    BY <1>1, <1>2 DEF Conserved, RoundsOpened
  <2> QED BY <1>4, <2>1, RefinementAssumption DEF Target, Opened, Structure, TypeOK
<1>13. UNCHANGED <<added, distributed, uploads>>
  BY DEF StartRecoveryDistribution, RetryComplete
<1>14. Ledger!Spend(s)
  BY <1>10, <1>11, <1>12, <1>13 DEF Ledger!Spend, Target, Spent, SpentOf
<1> QED BY <1>4, <1>14

\* A stamp is finalised when its round is recorded or its budget is spent.
LEMMA FinaliseStep ==
  ASSUME Structure, Landed, Conserved, SettledBeforeDistribute, Chain, Within,
         NEW w \in Processes, Distribute(w)
  PROVE  UNCHANGED Ledger!ledger \/ \E s \in Stamps : Ledger!Finalise(s)
<1> USE DEF external, redis, worker
<1>1. PICK f, s : f = current[w].of /\ s = flow[f].stamp
  OBVIOUS
<1>2. /\ current[w] # NoJob /\ f \in Sent /\ current[w] = ClosingJob(f)
      /\ pc[w] \in {"handling", "distributing"} /\ s \in Stamps
  BY <1>1, ClosingWorker DEF Distribute
<1>3. Latest(s, f)
  BY <1>1, <1>2, LiveIsLatest
<1>4. StartJob(s) \in DOMAIN jobs
  BY <1>1, <1>2 DEF Conserved, RoundsOpened
<1>5. Target[s] = positive[s] /\ Target[s] # NoFlow
  BY <1>2, <1>4, RefinementAssumption DEF Target, Opened, Structure, TypeOK
<1>6. added[s] = Target[s] \/ Spent[s] = MaxRetries
  <2>1. Settled(s)
    BY <1>1, DistributeSettles
  <2>2. CASE positive[s] \subseteq added[s]
    BY <1>2, <1>5, <2>2 DEF Within
  <2>3. CASE Exhausted(s)
    <3>1. PICK g \in Rounds : flow[g].stamp = s /\ flow[g].retries = 0
      BY <2>3 DEF Exhausted
    <3>2. g \in StampFlows(s)
      BY <3>1 DEF Rounds, StampFlows
    <3>3. flow[f].retries \in 0..MaxRetries /\ MaxRetries \in Nat
      BY <1>2, DistributionAssumption DEF Sent, Structure, TypeOK, FlowData
    <3>4. g = f
      BY <1>3, <3>1, <3>2, <3>3 DEF Latest
    <3>5. FlowsOf(s) = MaxRetries + 1
      BY <1>3, <3>1, <3>3, <3>4 DEF Latest
    <3> QED BY <1>2, <3>3, <3>5 DEF Spent, SpentOf
  <2> QED BY <2>1, <2>2, <2>3 DEF Settled
<1>7. Spent' = Spent /\ Target' = Target
  BY SpentKept, TargetKept DEF Distribute
<1>8. UNCHANGED <<added, uploads>>
  BY DEF Distribute
<1>9. distributed' = distributed \/ distributed' = [distributed EXCEPT ![s] = TRUE]
  <2>1. PICK o \in Outcomes :
          distributed' = [distributed EXCEPT ![s] = @ \/ o.landed]
    BY <1>1 DEF Distribute
  <2>2. o.landed \in BOOLEAN
    BY DEF Outcomes
  <2> QED BY <1>2, <2>1, <2>2 DEF Structure, TypeOK
<1>10. CASE distributed' = distributed
  BY <1>7, <1>8, <1>10, LedgerView
<1>11. CASE distributed' = [distributed EXCEPT ![s] = TRUE]
  <2>1. Ledger!Finalise(s)
    BY <1>5, <1>6, <1>7, <1>8, <1>11 DEF Ledger!Finalise, Target, Spent, SpentOf
  <2> QED BY <1>2, <2>1
<1> QED BY <1>9, <1>10, <1>11

\* The summary of a finalised stamp is uploaded, for the first time.
LEMMA ArchiveStep ==
  ASSUME Structure, Ordered, Chain, ArchivedOnce,
         NEW w \in Processes, NEW s \in Stamps, Uploads(w, s)
  PROVE  Ledger!Archive(s)
<1> USE DEF external, redis, worker
<1>1. uploads[s] = 0 /\ distributed[s]
  BY FirstUpload DEF Uploads
<1>2. uploads' = [uploads EXCEPT ![s] = 1]
  BY <1>1 DEF Uploads
<1>3. Spent' = Spent /\ Target' = Target
  BY SpentKept, TargetKept DEF Uploads
<1> QED BY <1>1, <1>2, <1>3 DEF Uploads, Ledger!Archive, Target, Spent, SpentOf

LEMMA LedgerSteps ==
  ASSUME Structure, Landed, Conserved, SettledBeforeDistribute, Within,
         Ordered, Chain, Silent, ArchivedOnce, [Next]_vars, crashes' = 0
  PROVE  [Ledger!LedgerNext]_(Ledger!ledger)
<1> USE DEF external, redis, worker
<1>1. \A w \in Processes : ~Crash(w)
  BY NoCrash
<1>2. ASSUME UNCHANGED <<positive, flow, added, distributed, uploads>>,
             \A s \in Stamps : StartJob(s) \in DOMAIN jobs' <=> StartJob(s) \in DOMAIN jobs
      PROVE  UNCHANGED Ledger!ledger
  BY <1>2, TargetKept, SpentKept, LedgerView
<1>3. ASSUME NEW s \in Stamps, NEW S \in SUBSET Relays, Enqueue(s, S)
      PROVE  Ledger!LedgerNext
  BY <1>3, OpenStep DEF Ledger!LedgerNext
<1>4. ASSUME NEW w \in Processes, Handler(w)
      PROVE  [Ledger!LedgerNext]_(Ledger!ledger)
  <2>1. CASE StartDistributionHandler(w)
    BY <2>1, StartStep
  <2>2. CASE AddScoresHandler(w)
    BY <2>2, RecordStep DEF Ledger!LedgerNext
  <2>3. CASE StartRecoveryDistribution(w) \/ RetryComplete(w)
    BY <2>3, SpendStep DEF Ledger!LedgerNext
  <2>4. CASE Distribute(w)
    BY <2>4, FinaliseStep DEF Ledger!LedgerNext
  <2>5. CASE DistributionCompleted(w)
    BY <1>2, <2>5 DEF DistributionCompleted
  <2>6. CASE PersistDistributionHandler(w)
    <3>1. CASE UNCHANGED uploads
      BY <1>2, <2>6, <3>1 DEF PersistDistributionHandler
    <3>2. CASE \E v \in Processes, s \in Stamps : Uploads(v, s)
      BY <3>2, ArchiveStep DEF Ledger!LedgerNext
    <3> QED BY <3>1, <3>2, StepUploads
  <2>7. CASE Return(w)
    <3>1. DOMAIN jobs' = DOMAIN jobs
      BY <2>7 DEF Return
    <3> QED BY <1>2, <2>7, <3>1 DEF Return
  <2>8. CASE ChildrenUnread(w)
    BY <1>2, <2>8 DEF ChildrenUnread
  <2> QED BY <1>4, <2>1, <2>2, <2>3, <2>4, <2>5, <2>6, <2>7, <2>8 DEF Handler
<1>5. ASSUME NEW w \in Processes, NEW j \in DOMAIN jobs, Dequeue(w, j)
      PROVE  UNCHANGED Ledger!ledger
  BY <1>2, <1>5 DEF Dequeue
<1>6. ASSUME NEW w \in Processes, NEW f \in inflight[w], FlowAdded(w, f)
      PROVE  UNCHANGED Ledger!ledger
  <2>1. DOMAIN jobs' = DOMAIN jobs \cup JobsOf(f)
    BY <1>6 DEF FlowAdded, WithWaiting
  <2>2. \A s \in Stamps : StartJob(s) \notin JobsOf(f)
    BY JobsOfNotStart, JobIdentity
  <2> QED BY <1>2, <1>6, <2>1, <2>2 DEF FlowAdded
<1>7. ASSUME UNCHANGED vars PROVE UNCHANGED Ledger!ledger
  BY <1>2, <1>7 DEF vars
<1> QED BY <1>1, <1>3, <1>4, <1>5, <1>6, <1>7 DEF Next

\* The distribution-queue keeps what DistributionLedger promises of the contract and
\* the archive, in every behaviour in which no process crashes.
THEOREM QueueImplementsLedger == Spec /\ [](crashes = 0) => ImplementsLedger
<1> DEFINE IInv == /\ Structure /\ Landed /\ Conserved /\ SettledBeforeDistribute
                   /\ Orderly /\ Within /\ (crashes = 0 => ArchivedOnce)
<1>1. Init => IInv
  BY InitStructure, InitLanded, InitConserved, InitSettled, InitChain, InitOrdered,
     InitSilent, InitWithin, InitArchived DEF Orderly
<1>2. IInv /\ [Next]_vars => IInv'
  BY NextStructure, NextLanded, NextConserved, NextSettled, NextOrderly, NextWithin,
     NextArchived, NoCrash DEF Orderly
<1>3. IInv /\ (crashes = 0) /\ (crashes = 0)' /\ [Next]_vars
        => [Ledger!LedgerNext]_(Ledger!ledger)
  BY LedgerSteps DEF Orderly
<1> HIDE DEF IInv
<1> QED BY <1>1, <1>2, <1>3, LedgerStarts, PTL DEF Spec, ImplementsLedger, Ledger!LedgerSpec

----------------------------------------------------------------------------
(* The batches of a round: the reduce of groupScoreJobs.                   *)

Folded == GroupTypeOK /\ BatchesFilled /\ ScoresInOrder

LEMMA InitFolded == GroupInit => Folded
BY GroupAssumption DEF GroupInit, Folded, GroupTypeOK, BatchesFilled, ScoresInOrder

\* The arithmetic of Position.
LEMMA PositionSteps ==
  ASSUME NEW k \in Int, NEW i \in Int
  PROVE  /\ Position(k, i) \in Int
         /\ Position(k, i + 1) = Position(k, i) + 1
         /\ Position(k + 1, 1) = Position(k, ScoresPerBatch) + 1
<1>1. ScoresPerBatch \in Int
  BY GroupAssumption
<1> DEFINE p == (k - 1) * ScoresPerBatch
<1>2. p \in Int /\ ((k + 1) - 1) * ScoresPerBatch = p + ScoresPerBatch
  BY <1>1
<1> HIDE DEF p
<1>3. Position(k, i) = p + i /\ Position(k, i + 1) = p + (i + 1)
      /\ Position(k, ScoresPerBatch) = p + ScoresPerBatch
      /\ Position(k + 1, 1) = (p + ScoresPerBatch) + 1
  BY <1>2 DEF Position, p
<1> QED BY <1>1, <1>2, <1>3

\* Starting a batch: the last one is full, so the new score is at the first
\* position of the next.
LEMMA NewBatch ==
  ASSUME Folded, index < Len(scores),
         Len(curr) = 0 \/ Len(curr[Len(curr)]) >= ScoresPerBatch,
         curr' = Append(curr, <<scores[index + 1]>>), index' = index + 1,
         scores' = scores
  PROVE  Folded'
<1> DEFINE n == Len(curr)
<1>1. /\ n \in Nat /\ index \in Nat /\ ScoresPerBatch \in Nat \ {0}
      /\ curr \in Seq(Seq(Scores)) /\ scores \in Seq(Scores)
  BY GroupAssumption DEF Folded, GroupTypeOK
<1>2. scores[index + 1] \in Scores
  BY <1>1 DEF Folded, GroupTypeOK
<1>3. GroupTypeOK'
  BY <1>1, <1>2 DEF Folded, GroupTypeOK
<1>4. /\ Len(curr') = n + 1
      /\ \A k \in 1..n : curr'[k] = curr[k]
      /\ curr'[n + 1] = <<scores[index + 1]>>
  BY <1>1, <1>2
<1>5. Len(curr'[n + 1]) = 1 /\ curr'[n + 1][1] = scores[index + 1]
  BY <1>4
<1>6. ASSUME n > 0 PROVE Len(curr[n]) = ScoresPerBatch
  <2>1. n \in 1..Len(curr)
    BY <1>1, <1>6
  <2>2. Len(curr[n]) \in 1..ScoresPerBatch
    BY <2>1 DEF Folded, BatchesFilled
  <2> QED BY <1>1, <1>6, <2>2
<1>7. BatchesFilled'
  BY <1>1, <1>4, <1>5, <1>6 DEF Folded, BatchesFilled
<1>8. Position(n + 1, 1) = index + 1
  <2>1. CASE n = 0
    <3>1. Position(1, 1) = 1
      BY <1>1 DEF Position
    <3> QED BY <1>1, <2>1, <3>1 DEF Folded, ScoresInOrder
  <2>2. CASE n > 0
    <3>1. index = Position(n, ScoresPerBatch)
      BY <1>6, <2>2 DEF Folded, ScoresInOrder
    <3> QED BY <1>1, <3>1, PositionSteps
  <2> QED BY <1>1, <2>1, <2>2
<1>9. ScoresInOrder'
  <2>1. ASSUME NEW k \in 1..Len(curr'), NEW i \in 1..Len(curr'[k])
        PROVE  Position(k, i) \in 1..index' /\ curr'[k][i] = scores'[Position(k, i)]
    <3>1. CASE k \in 1..n
      <4>1. curr'[k] = curr[k] /\ i \in 1..Len(curr[k])
        BY <1>4, <2>1, <3>1
      <4>2. Position(k, i) \in 1..index /\ curr[k][i] = scores[Position(k, i)]
        BY <3>1, <4>1 DEF Folded, ScoresInOrder
      <4> QED BY <1>1, <4>1, <4>2
    <3>2. CASE k = n + 1
      <4>1. i = 1
        BY <1>5, <2>1, <3>2
      <4> QED BY <1>1, <1>5, <1>8, <3>2, <4>1
    <3> QED BY <1>1, <1>4, <2>1, <3>1, <3>2
  <2>2. /\ Len(curr') # 0
        /\ index' = Position(Len(curr'), Len(curr'[Len(curr')]))
    BY <1>1, <1>4, <1>5, <1>8
  <2> QED BY <2>1, <2>2 DEF ScoresInOrder, Position
<1> QED BY <1>3, <1>7, <1>9 DEF Folded

\* Extending the last batch: it has room, and its next position is the next score.
LEMMA ExtendLast ==
  ASSUME Folded, index < Len(scores),
         Len(curr) # 0, Len(curr[Len(curr)]) < ScoresPerBatch,
         curr' = [curr EXCEPT ![Len(curr)] = Append(@, scores[index + 1])],
         index' = index + 1, scores' = scores
  PROVE  Folded'
<1>1. PICK n \in Nat \ {0} : n = Len(curr)
  BY DEF Folded, GroupTypeOK
<1>2. /\ index \in Nat /\ ScoresPerBatch \in Nat \ {0} /\ n \in 1..Len(curr)
      /\ curr \in Seq(Seq(Scores)) /\ scores \in Seq(Scores)
  BY <1>1, GroupAssumption DEF Folded, GroupTypeOK
<1>3. scores[index + 1] \in Scores /\ curr[n] \in Seq(Scores)
  BY <1>2 DEF Folded, GroupTypeOK
<1>4. PICK m \in Nat : m = Len(curr[n])
  BY <1>3
<1>5. PICK last \in Seq(Scores) : last = Append(curr[n], scores[index + 1])
  <2>1. Append(curr[n], scores[index + 1]) \in Seq(Scores)
    BY <1>3
  <2> QED BY <2>1, Zenon
<1>6. Len(last) = m + 1 /\ last[m + 1] = scores[index + 1]
      /\ \A i \in 1..m : last[i] = curr[n][i]
  BY <1>3, <1>4, <1>5
<1>7. /\ curr' \in Seq(Seq(Scores)) /\ Len(curr') = n /\ curr'[n] = last
      /\ \A k \in 1..n : k # n => curr'[k] = curr[k]
  <2>1. curr' = [curr EXCEPT ![n] = last]
    BY <1>1, <1>5
  <2>2. [curr EXCEPT ![n] = last] \in Seq(Seq(Scores))
        /\ Len([curr EXCEPT ![n] = last]) = Len(curr)
    BY <1>2, <1>5
  <2>3. DOMAIN curr = 1..n
    BY <1>1, <1>2
  <2>4. curr'[n] = last /\ \A k \in 1..n : k # n => curr'[k] = curr[k]
    BY <1>1, <1>2, <2>1, <2>3, Zenon
  <2> QED BY <1>1, <2>1, <2>2, <2>4
<1>8. GroupTypeOK'
  <2>1. index + 1 \in 0..Len(scores)
    BY <1>2
  <2> QED BY <1>2, <1>7, <2>1 DEF GroupTypeOK
<1>9. BatchesFilled'
  <2>1. m \in 1..ScoresPerBatch /\ m < ScoresPerBatch
    BY <1>1, <1>2, <1>4 DEF Folded, BatchesFilled
  <2>2. Len(last) \in 1..ScoresPerBatch
    BY <1>2, <1>6, <2>1
  <2>3. ASSUME NEW k \in 1..n
        PROVE  /\ Len(curr'[k]) \in 1..ScoresPerBatch
               /\ k < n => Len(curr'[k]) = ScoresPerBatch
    <3>1. CASE k = n
      BY <1>1, <1>7, <2>2, <3>1
    <3>2. CASE k # n
      BY <1>1, <1>7, <2>3, <3>2 DEF Folded, BatchesFilled
    <3> QED BY <3>1, <3>2
  <2> QED BY <1>7, <2>3 DEF BatchesFilled
<1>10. Position(n, m) = index /\ Position(n, m + 1) = index + 1
  <2>1. Len(curr) > 0
    BY <1>1
  <2>2. index = Position(Len(curr), Len(curr[Len(curr)]))
    BY <2>1 DEF Folded, ScoresInOrder
  <2>3. Position(n, m) = index
    BY <1>1, <1>4, <2>2
  <2>4. n \in Int /\ m \in Int
    OBVIOUS
  <2>5. Position(n, m + 1) = Position(n, m) + 1
    BY <2>4, PositionSteps, Zenon
  <2> QED BY <2>3, <2>5
<1>11. ScoresInOrder'
  <2>1. ASSUME NEW k \in 1..n, NEW i \in 1..Len(curr'[k])
        PROVE  Position(k, i) \in 1..(index + 1)
               /\ curr'[k][i] = scores[Position(k, i)]
    <3>1. ASSUME NEW j \in 1..Len(curr[k])
          PROVE  Position(k, j) \in 1..(index + 1)
                 /\ curr[k][j] = scores[Position(k, j)]
      <4>1. k \in 1..Len(curr)
        BY <1>1
      <4>2. Position(k, j) \in 1..index /\ curr[k][j] = scores[Position(k, j)]
        BY <3>1, <4>1 DEF Folded, ScoresInOrder
      <4>3. Position(k, j) \in 1..(index + 1)
        BY <1>2, <4>2
      <4> QED BY <4>2, <4>3
    <3>2. CASE k # n
      <4>1. curr'[k] = curr[k]
        BY <1>7, <3>2
      <4> QED BY <2>1, <3>1, <4>1
    <3>3. CASE k = n /\ i \in 1..m
      <4>1. curr'[k][i] = curr[k][i] /\ i \in 1..Len(curr[k])
        BY <1>4, <1>6, <1>7, <3>3
      <4> QED BY <3>1, <4>1
    <3>4. CASE k = n /\ i = m + 1
      <4>1. curr'[k][i] = scores[index + 1]
        BY <1>6, <1>7, <3>4
      <4>2. Position(k, i) = index + 1
        BY <1>10, <3>4
      <4> QED BY <1>2, <4>1, <4>2
    <3>5. k = n => i \in 1..m \/ i = m + 1
      BY <1>6, <1>7, <2>1
    <3> QED BY <3>2, <3>3, <3>4, <3>5
  <2>2. Len(curr') # 0 /\ index' = Position(Len(curr'), Len(curr'[Len(curr')]))
    BY <1>6, <1>7, <1>10
  <2> QED BY <1>7, <2>1, <2>2 DEF ScoresInOrder, Position
<1> QED BY <1>8, <1>9, <1>11 DEF Folded

LEMMA NextFolded ==
  ASSUME Folded, [GroupNext]_groupVars
  PROVE  Folded'
<1>1. CASE GroupNext
  <2>1. Len(curr) \in Nat /\ ScoresPerBatch \in Nat
        /\ (Len(curr) # 0 => Len(curr[Len(curr)]) \in Nat)
    BY GroupAssumption DEF Folded, GroupTypeOK
  <2>2. CASE Len(curr) = 0 \/ Len(curr[Len(curr)]) >= ScoresPerBatch
    BY <1>1, <2>2, NewBatch DEF GroupNext, Grouped
  <2>3. CASE Len(curr) # 0 /\ Len(curr[Len(curr)]) < ScoresPerBatch
    <3>1. ~(Len(curr) = 0 \/ Len(curr[Len(curr)]) >= ScoresPerBatch)
      BY <2>1, <2>3
    <3> QED BY <1>1, <2>3, <3>1, ExtendLast DEF GroupNext, Grouped
  <2> QED BY <2>1, <2>2, <2>3
<1>2. CASE UNCHANGED groupVars
  BY <1>2 DEF groupVars, Folded, GroupTypeOK, BatchesFilled, ScoresInOrder, Position
<1> QED BY <1>1, <1>2

\* The batches of groupScoreJobs are never over the limit and are all full but the
\* last, whatever the list.
THEOREM GroupsBounded == GroupSpec => []BatchesFilled
<1>1. Folded => BatchesFilled
  BY DEF Folded
<1> QED BY <1>1, InitFolded, NextFolded, PTL DEF GroupSpec

\* groupScoreJobs neither loses, repeats nor reorders a score.
THEOREM GroupsComplete == GroupSpec => []ScoresInOrder
<1>1. Folded => ScoresInOrder
  BY DEF Folded
<1> QED BY <1>1, InitFolded, NextFolded, PTL DEF GroupSpec

----------------------------------------------------------------------------
\* What Distribution takes the batches of a round to be.

\* The scores of batch k, and of the list.
InBatch(k) == {curr[k][i] : i \in 1..Len(curr[k])}
InList == {scores[p] : p \in 1..Len(scores)}
NoneTwice == \A p, q \in 1..Len(scores) : scores[p] = scores[q] => p = q

\* A score that the reduce has been through is in a batch.
Covered == \A p \in 1..index : \E k \in 1..Len(curr) : scores[p] \in InBatch(k)

LEMMA CoveredNext == ASSUME Folded, Covered, [GroupNext]_groupVars PROVE Covered'
<1>1. CASE UNCHANGED groupVars
  BY <1>1 DEF groupVars, Covered, InBatch
<1>2. CASE GroupNext
  <2>1. PICK n \in Nat : n = Len(curr)
    BY DEF Folded, GroupTypeOK
  <2>2. /\ index \in 0..Len(scores) /\ scores \in Seq(Scores) /\ curr \in Seq(Seq(Scores))
        /\ index' = index + 1 /\ scores' = scores /\ scores[index + 1] \in Scores
    BY <1>2 DEF Folded, GroupTypeOK, GroupNext
  <2> DEFINE score == scores[index + 1]
  <2>3. /\ \A k \in 1..n : k \in 1..Len(curr') /\ InBatch(k) \subseteq InBatch(k)'
        /\ \E k \in 1..Len(curr') : score \in InBatch(k)'
    <3>1. CASE n = 0 \/ Len(curr[n]) >= ScoresPerBatch
      <4>1. curr' = Append(curr, <<score>>)
        BY <1>2, <2>1, <3>1 DEF GroupNext, Grouped
      <4>2. Len(curr') = n + 1 /\ \A k \in 1..n : curr'[k] = curr[k]
        BY <2>1, <2>2, <4>1
      <4>3. curr'[n + 1] = <<score>>
        BY <2>1, <2>2, <4>1
      <4>4. score \in InBatch(n + 1)'
        <5>1. Len(curr'[n + 1]) = 1 /\ curr'[n + 1][1] = score
          BY <4>3
        <5> QED BY <5>1 DEF InBatch
      <4>5. \A k \in 1..n : k \in 1..Len(curr') /\ InBatch(k)' = InBatch(k)
        BY <4>2 DEF InBatch
      <4>6. n + 1 \in 1..Len(curr')
        BY <4>2
      <4> QED BY <4>4, <4>5, <4>6
    <3>2. CASE ~(n = 0 \/ Len(curr[n]) >= ScoresPerBatch)
      <4>1. curr' = [curr EXCEPT ![n] = Append(@, score)]
        BY <1>2, <2>1, <3>2 DEF GroupNext, Grouped
      <4>2. n \in 1..Len(curr) /\ curr[n] \in Seq(Scores)
        BY <2>1, <2>2, <3>2
      <4>3. PICK m \in Nat : m = Len(curr[n])
        BY <4>2
      <4>4. PICK last \in Seq(Scores) : last = Append(curr[n], score)
        <5>1. Append(curr[n], score) \in Seq(Scores)
          BY <2>2, <4>2
        <5> QED BY <5>1, Zenon
      <4>5. Len(last) = m + 1 /\ last[m + 1] = score /\ \A i \in 1..m : last[i] = curr[n][i]
        BY <4>2, <4>3, <4>4
      <4>6. Len(curr') = n /\ curr'[n] = last /\ \A k \in 1..n : k # n => curr'[k] = curr[k]
        <5>1. curr' = [curr EXCEPT ![n] = last]
          BY <4>1, <4>4
        <5>2. Len([curr EXCEPT ![n] = last]) = Len(curr) /\ DOMAIN curr = 1..n
          BY <2>1, <2>2
        <5>3. curr'[n] = last /\ \A k \in 1..n : k # n => curr'[k] = curr[k]
          BY <2>1, <4>2, <5>1, <5>2, Zenon
        <5> QED BY <2>1, <5>1, <5>2, <5>3
      <4>7. score \in InBatch(n)' /\ InBatch(n) \subseteq InBatch(n)'
        BY <4>3, <4>5, <4>6 DEF InBatch
      <4>8. \A k \in 1..n : k # n => InBatch(k)' = InBatch(k)
        BY <4>6 DEF InBatch
      <4> QED BY <2>1, <4>2, <4>6, <4>7, <4>8
    <3> QED BY <3>1, <3>2
  <2>4. ASSUME NEW p \in 1..index' PROVE \E k \in 1..Len(curr)' : scores'[p] \in InBatch(k)'
    <3>1. CASE p = index + 1
      BY <2>2, <2>3, <3>1
    <3>2. CASE p # index + 1
      <4>1. p \in 1..index
        BY <2>2, <3>2
      <4>2. PICK k \in 1..Len(curr) : scores[p] \in InBatch(k)
        BY <4>1 DEF Covered
      <4> QED BY <2>1, <2>2, <2>3, <4>2
    <3> QED BY <3>1, <3>2
  <2> QED BY <2>4 DEF Covered
<1> QED BY <1>1, <1>2

\* Different places in the batches are different positions in the list.
LEMMA PositionsDiffer ==
  ASSUME NEW k \in Nat, NEW l \in Nat, k < l,
         NEW i \in 1..ScoresPerBatch, NEW j \in 1..ScoresPerBatch
  PROVE  Position(k, i) < Position(l, j)
<1>1. PICK B \in Nat \ {0} : B = ScoresPerBatch
  BY GroupAssumption
<1>2. PICK d \in Nat : l - 1 = k + d
  BY SMT
<1>3. k * B \in Nat /\ d * B \in Nat /\ (k + d) * B = k * B + d * B /\ (k - 1) * B = k * B - B
  BY <1>1, SMT
<1>4. Position(k, i) = (k * B - B) + i /\ Position(l, j) = (k * B + d * B) + j
  BY <1>1, <1>2, <1>3 DEF Position
<1>5. \A x, y \in Nat : (x - B) + i < (x + y) + j
  BY <1>1
<1> QED BY <1>3, <1>4, <1>5

\* A list without duplicates has as many members as it is long.
LEMMA Counting ==
  \A S : \A m \in Nat : \A f \in [1..m -> S] :
    /\ \A i, j \in 1..m : f[i] = f[j] => i = j
    /\ \A x \in S : \E i \in 1..m : f[i] = x
    => Cardinality(S) = m
<1> SUFFICES ASSUME NEW S, NEW m \in Nat, NEW f \in [1..m -> S],
                    \A i, j \in 1..m : f[i] = f[j] => i = j,
                    \A x \in S : \E i \in 1..m : f[i] = x
             PROVE  Cardinality(S) = m
  OBVIOUS
<1>1. f \in Bijection(1..m, S)
  BY Fun_IsBij
<1> QED BY <1>1, FS_CountingElements DEF ExistsBijection

LEMMA FoldedGroups ==
  ASSUME Folded, Covered, index = Len(scores), NoneTwice, ScoresPerBatch = BatchSize
  PROVE  /\ {InBatch(k) : k \in 1..Len(curr)} \in Groups(InList)
         /\ \A k, l \in 1..Len(curr) : InBatch(k) = InBatch(l) => k = l
<1>1. PICK n \in Nat : n = Len(curr)
  BY DEF Folded, GroupTypeOK
<1>2. PICK B \in Nat \ {0} : B = ScoresPerBatch /\ B = BatchSize
  BY GroupAssumption
<1>3. ASSUME NEW k \in 1..n
      PROVE  /\ Len(curr[k]) \in 1..B /\ (k < n => Len(curr[k]) = B)
             /\ \A i \in 1..Len(curr[k]) : /\ Position(k, i) \in 1..Len(scores)
                                            /\ curr[k][i] = scores[Position(k, i)]
  BY <1>1, <1>2 DEF Folded, BatchesFilled, ScoresInOrder
<1>4. ASSUME NEW k \in 1..n, NEW l \in 1..n, NEW i \in 1..Len(curr[k]), NEW j \in 1..Len(curr[l]),
             curr[k][i] = curr[l][j]
      PROVE  k = l /\ i = j
  <2>1. Position(k, i) = Position(l, j)
    BY <1>3, <1>4 DEF NoneTwice
  <2>2. i \in 1..ScoresPerBatch /\ j \in 1..ScoresPerBatch /\ k \in Nat /\ l \in Nat
    BY <1>2, <1>3
  <2>3. Position(k, i) \in Int /\ Position(l, j) \in Int
    BY <1>3
  <2>4. k = l
    BY <2>1, <2>2, <2>3, PositionsDiffer
  <2>5. i = j
    <3>1. PICK b \in Int : b = (k - 1) * ScoresPerBatch
      BY <1>2, <2>2
    <3> QED BY <2>1, <2>2, <2>4, <3>1 DEF Position
  <2> QED BY <2>4, <2>5
<1>5. ASSUME NEW k \in 1..n PROVE Cardinality(InBatch(k)) = Len(curr[k])
  <2>1. PICK m \in Nat : m = Len(curr[k]) /\ m >= 1
    BY <1>2, <1>3
  <2> DEFINE f == [i \in 1..m |-> curr[k][i]]
  <2>2. f \in [1..m -> InBatch(k)]
    BY <2>1 DEF InBatch
  <2>3. \A i, j \in 1..m : f[i] = f[j] => i = j
    BY <1>4, <2>1
  <2>4. \A x \in InBatch(k) : \E i \in 1..m : f[i] = x
    BY <2>1 DEF InBatch
  <2> HIDE DEF f
  <2>5. Cardinality(InBatch(k)) = m
    BY <2>2, <2>3, <2>4, Counting
  <2> QED BY <2>1, <2>5
<1>6. ASSUME NEW k \in 1..n, NEW l \in 1..n, k # l PROVE InBatch(k) \cap InBatch(l) = {}
  BY <1>4, <1>6 DEF InBatch
<1>7. ASSUME NEW k \in 1..n PROVE InBatch(k) # {} /\ InBatch(k) \subseteq InList
  <2>1. 1 \in 1..Len(curr[k])
    BY <1>2, <1>3
  <2>2. curr[k][1] \in InBatch(k)
    BY <2>1 DEF InBatch
  <2>3. ASSUME NEW i \in 1..Len(curr[k]) PROVE curr[k][i] \in InList
    BY <1>3 DEF InList
  <2> QED BY <2>2, <2>3 DEF InBatch
<1> DEFINE bs == {InBatch(k) : k \in 1..n}
<1>8. UNION bs = InList
  <2>1. ASSUME NEW x \in InList PROVE x \in UNION bs
    <3>1. PICK p \in 1..index : x = scores[p]
      BY DEF InList
    <3> QED BY <1>1, <3>1 DEF Covered
  <2> QED BY <1>7, <2>1
<1>9. bs \in SUBSET {b \in SUBSET InList : Cardinality(b) \in 1..BatchSize}
  BY <1>2, <1>3, <1>5, <1>7
<1>10. \E last \in bs \cup {{}} : \A b \in bs \ {last} : Cardinality(b) = BatchSize
  <2>1. CASE n = 0
    <3>1. bs = {}
      BY <2>1
    <3> QED BY <3>1
  <2>2. CASE n # 0
    <3>1. InBatch(n) \in bs
      BY <2>2
    <3>2. ASSUME NEW b \in bs \ {InBatch(n)} PROVE Cardinality(b) = BatchSize
      <4>1. PICK k \in 1..n : b = InBatch(k)
        OBVIOUS
      <4>2. k < n
        BY <4>1
      <4> QED BY <1>2, <1>3, <1>5, <4>1, <4>2
    <3> QED BY <3>1, <3>2
  <2> QED BY <2>1, <2>2
<1>11. \A b, c \in bs : b # c => b \cap c = {}
  BY <1>6
<1>12. bs \in Groups(InList)
  BY <1>8, <1>9, <1>10, <1>11 DEF Groups
<1> QED BY <1>1, <1>6, <1>7, <1>12

\* When the reduce is done on a list that names no score twice, its batches are one of
\* the Groups that Distribution chooses from, and no two of them are the same.
THEOREM GroupsOfTheQueue ==
  ASSUME ScoresPerBatch = BatchSize
  PROVE  GroupSpec => [](index = Len(scores) /\ NoneTwice =>
                           /\ {InBatch(k) : k \in 1..Len(curr)} \in Groups(InList)
                           /\ \A k, l \in 1..Len(curr) : InBatch(k) = InBatch(l) => k = l)
<1>1. GroupInit => Covered
  BY DEF GroupInit, Covered
<1>2. Folded /\ Covered =>
        (index = Len(scores) /\ NoneTwice =>
           /\ {InBatch(k) : k \in 1..Len(curr)} \in Groups(InList)
           /\ \A k, l \in 1..Len(curr) : InBatch(k) = InBatch(l) => k = l)
  BY FoldedGroups
<1> QED BY <1>1, <1>2, InitFolded, NextFolded, CoveredNext, PTL DEF GroupSpec
=============================================================================
