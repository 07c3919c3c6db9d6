---------------------------- MODULE TaskScheduler ----------------------------
(***************************************************************************)
(* The scheduler of the Validator: TasksService and the two jobs of the    *)
(* tasks-queue that keep themselves going.  A validate job starts a        *)
(* validation and queues the next validate job; a check-balances job does  *)
(* the same with balance checks.  Nothing else queues them but the         *)
(* bootstrap of the service, which reads from Mongo, in one document of    *)
(* flags, whether each chain has been queued before.                       *)
(*                                                                         *)
(* One process runs the service (CPU_COUNT is 1 where it is deployed): its *)
(* bootstrap, its tasks-queue worker, and the calls the worker did not     *)
(* wait for interleave.  It crashes and starts again; Redis and Mongo keep *)
(* what they were told.  The delay of a job is any time.                   *)
(***************************************************************************)
EXTENDS Integers, FiniteSets

CONSTANTS
  FirstBoots,  \* the values fresh may have, a subset of BOOLEAN
  Slots,       \* bound on the calls that run on without being awaited
  MaxReboots,  \* bound on the ends of the process
  MaxFailures, \* bound on the validate jobs that fail
  MaxSent,     \* bound on the flows of a chain that are on their way to Redis
  NoDoc, NoCall, NoJob

Chains == {"validate", "check-balances"}
Flags == [Chains -> BOOLEAN]
Callers == {"bootstrap", "worker"} \cup Slots

\* A call of queueValidateRelays / queueCheckBalances: the update of the document
\* it has sent, if any, and the document that update is for.
Calls == [chain: Chains, update: Flags \cup {NoDoc}, id: {"none", "first", "other"}]
Jobs == [chain: Chains, again: BOOLEAN, step: {"new", "done"}]

ASSUME SchedulerAssumption ==
  /\ FirstBoots \subseteq BOOLEAN
  /\ MaxReboots \in Nat /\ MaxFailures \in Nat
  /\ MaxSent \in Nat \ {0}
  /\ Slots \cap {"bootstrap", "worker"} = {}
  /\ NoDoc \notin Flags /\ NoCall \notin Calls /\ NoJob \notin Jobs

VARIABLES
  fresh,     \* the service had never run when the behaviour began
  doc,       \* the flags in the document that findOne returns, or NoDoc
  dataId,    \* the document this process updates
  creating,  \* the flags a create under way has been given, or NoDoc
  state,     \* TasksService.state
  boot,      \* where onApplicationBootstrap is
  call,      \* caller -> its call, or NoCall
  queued,    \* chain -> jobs in Redis by whether they stalled before
  current,   \* the job the tasks-queue worker holds, or NoJob
  flows,     \* chain -> flows sent that Redis does not hold yet
  reboots, upsets,
  failures   \* validate jobs that failed

mongo  == <<doc, dataId, creating>>
worker == <<current, flows>>
ends   == <<fresh, reboots, upsets, failures>>
vars == <<fresh, doc, dataId, creating, state, boot, call, queued, current, flows,
          reboots, upsets, failures>>

Init ==
  /\ fresh \in FirstBoots
  /\ doc = IF fresh THEN NoDoc ELSE [c \in Chains |-> TRUE]
  /\ queued = [c \in Chains |-> [first |-> IF fresh THEN 0 ELSE 1, again |-> 0]]
  /\ dataId = "none" /\ creating = NoDoc
  /\ state = [c \in Chains |-> FALSE]
  /\ boot = "exists"
  /\ call = [p \in Callers |-> NoCall]
  /\ current = NoJob
  /\ flows = [c \in Chains |-> 0]
  /\ reboots = 0 /\ upsets = 0 /\ failures = 0

----------------------------------------------------------------------------
(* queueValidateRelays and queueCheckBalances.  A definition marked        *)
(* (slip) is a mistake the code could have made and does not; no action    *)
(* uses it.                                                                *)

\* The part before the first await: a flag that is not set is set, and the
\* update of the document sent.  The document is the one of dataId at that time.
Call(p, c) ==
  /\ call[p] = NoCall
  /\ state' = [state EXCEPT ![c] = TRUE]
  /\ call' = [call EXCEPT ![p] =
       [chain |-> c, update |-> IF state[c] THEN NoDoc ELSE state',
        id |-> dataId]]

\* The document once the update of p is applied, to nothing when the id was not known.
Updated(p) == IF call[p].id = "first" THEN call[p].update ELSE doc

\* Mongo has applied the update.
UpdateServiceState(p) ==
  /\ call[p] # NoCall /\ call[p].update # NoDoc
  /\ doc' = Updated(p)
  /\ call' = [call EXCEPT ![p].update = NoDoc]
  /\ UNCHANGED <<dataId, creating, state, boot, queued, worker, ends>>

\* The step of the bootstrap after the one for chain c
After(c) == IF c = "validate" THEN "check-balances" ELSE "up"

\* Redis holds the new job and the call is over.
AddJob(p) ==
  /\ call[p] # NoCall /\ call[p].update = NoDoc
  /\ LET c == call[p].chain IN
       /\ queued' = [queued EXCEPT ![c].first = @ + 1]
       /\ boot' = IF p = "bootstrap" THEN After(c) ELSE boot
  /\ call' = [call EXCEPT ![p] = NoCall]
  /\ UNCHANGED <<mongo, state, worker, ends>>

----------------------------------------------------------------------------
(* onApplicationBootstrap                                                  *)

\* The document is found, or its read fails (an upset) or there is none, and one
\* is created without being waited for.
FindServiceData ==
  /\ boot = "exists"
  /\ boot' = "validate"
  /\ \/ /\ doc # NoDoc
        /\ dataId' = "first" /\ state' = doc
        /\ UNCHANGED <<creating, upsets>>
     \/ /\ creating' = state
        /\ upsets' = IF doc = NoDoc THEN upsets ELSE upsets + 1
        /\ UNCHANGED <<dataId, state>>
  /\ UNCHANGED <<doc, call, queued, worker, fresh, reboots, failures>>

\* createServiceState: the document exists and its id is known.  findOne goes on
\* returning the first.
CreateServiceState ==
  /\ creating # NoDoc
  /\ IF doc = NoDoc THEN doc' = creating /\ dataId' = "first"
                    ELSE dataId' = "other" /\ UNCHANGED doc
  /\ creating' = NoDoc
  /\ UNCHANGED <<state, boot, call, queued, worker, ends>>

\* (slip: the flag is not looked at)
QueueFirst_Always(c) ==
  /\ boot = c /\ call["bootstrap"] = NoCall
  /\ Call("bootstrap", c)
  /\ UNCHANGED <<mongo, boot, queued, worker, ends>>

\* The chain has no flag yet, and its first job is queued.
QueueFirst(c) ==
  /\ boot = c /\ ~state[c]
  /\ Call("bootstrap", c)
  /\ UNCHANGED <<mongo, boot, queued, worker, ends>>

\* The chain "should already be queued".
AlreadyQueued(c) == boot = c /\ state[c] /\ call["bootstrap"] = NoCall
SkipQueued(c) ==
  /\ AlreadyQueued(c)
  /\ boot' = After(c)
  /\ UNCHANGED <<mongo, state, call, queued, worker, ends>>

----------------------------------------------------------------------------
(* The tasks-queue worker                                                  *)

Dequeue(c, kind) ==
  /\ boot # "down" /\ current = NoJob
  /\ queued[c][kind] > 0
  /\ queued' = [queued EXCEPT ![c][kind] = @ - 1]
  /\ current' = [chain |-> c, again |-> kind = "again", step |-> "new"]
  /\ UNCHANGED <<mongo, state, boot, call, flows, ends>>

Handling(c) == current # NoJob /\ current.chain = c /\ current.step = "new"

\* The flow is sent, not awaited, and the handler has its hands free.
SendFlow(c) ==
  /\ flows[c] < MaxSent
  /\ flows' = [flows EXCEPT ![c] = @ + 1]
  /\ current' = [current EXCEPT !.step = "done"]

\* (slip: the next validation queued like the next balance check, not awaited)
HandleValidate_NotAwaited ==
  /\ Handling("validate")
  /\ \E p \in Slots : Call(p, "validate")
  /\ SendFlow("validate")
  /\ UNCHANGED <<mongo, boot, queued, ends>>

HandleValidate ==
  /\ Handling("validate")
  /\ Call("worker", "validate")
  /\ SendFlow("validate")
  /\ UNCHANGED <<mongo, boot, queued, ends>>

\* (slip: the next check left out)
HandleCheckBalances_Once ==
  /\ Handling("check-balances")
  /\ SendFlow("check-balances")
  /\ UNCHANGED <<mongo, state, boot, call, queued, ends>>

HandleCheckBalances ==
  /\ Handling("check-balances")
  /\ \E p \in Slots : Call(p, "check-balances")
  /\ SendFlow("check-balances")
  /\ UNCHANGED <<mongo, boot, queued, ends>>

\* The handler returns when the call it awaits is over; the job is removed.
Return ==
  /\ current # NoJob /\ current.step = "done" /\ call["worker"] = NoCall
  /\ current' = NoJob
  /\ UNCHANGED <<mongo, state, boot, call, queued, flows, ends>>

\* In the call that the worker awaits the update or the add throws, perhaps after it was
\* done: the job fails, and nothing tries it again.  A call that nothing awaits, or the
\* bootstrap, ends the process when it throws: that is a Crash.
CallFails ==
  /\ call["worker"] # NoCall /\ failures < MaxFailures
  /\ failures' = failures + 1
  /\ IF call["worker"].update # NoDoc
     THEN doc' \in {doc, Updated("worker")} /\ UNCHANGED queued
     ELSE /\ queued' \in {queued, [queued EXCEPT !["validate"].first = @ + 1]}
          /\ UNCHANGED doc
  /\ call' = [call EXCEPT !["worker"] = NoCall]
  /\ current' = NoJob
  /\ UNCHANGED <<dataId, creating, state, boot, flows, fresh, reboots, upsets>>

\* Redis takes a flow: a validation, or a balance check, is under way.
FlowAdded(c) ==
  /\ flows[c] > 0
  /\ flows' = [flows EXCEPT ![c] = @ - 1]
  /\ UNCHANGED <<mongo, state, boot, call, queued, current, ends>>

----------------------------------------------------------------------------
\* Nothing is under way in the process.
Quiet == /\ boot = "up" /\ creating = NoDoc /\ current = NoJob
         /\ \A p \in Callers : call[p] = NoCall
         /\ \A c \in Chains : flows[c] = 0

\* The process ends, in a crash that is an upset unless it was quiet.  BullMQ
\* queues the job of the worker again, and fails it the second time.
Crash ==
  /\ boot # "down" /\ reboots < MaxReboots
  /\ reboots' = reboots + 1
  /\ upsets' = IF Quiet THEN upsets ELSE upsets + 1
  /\ queued' = IF current = NoJob \/ (current # NoJob /\ current.again)
               THEN queued
               ELSE [queued EXCEPT ![current.chain].again = @ + 1]
  /\ boot' = "down"
  /\ current' = NoJob
  /\ call' = [p \in Callers |-> NoCall]
  /\ flows' = [c \in Chains |-> 0]
  /\ state' = [c \in Chains |-> FALSE]
  /\ dataId' = "none" /\ creating' = NoDoc
  /\ UNCHANGED <<fresh, doc, failures>>

Restart ==
  /\ boot = "down"
  /\ boot' = "exists"
  /\ UNCHANGED <<mongo, state, call, queued, worker, ends>>

Next ==
  \/ FindServiceData
  \/ CreateServiceState
  \/ \E p \in Callers : UpdateServiceState(p) \/ AddJob(p)
  \/ \E c \in Chains :
       \/ QueueFirst(c)
       \/ SkipQueued(c)
       \/ FlowAdded(c)
       \/ \E kind \in {"first", "again"} : Dequeue(c, kind)
  \/ HandleValidate
  \/ HandleCheckBalances
  \/ Return
  \/ CallFails
  \/ Crash
  \/ Restart

Spec == Init /\ [][Next]_vars

\* Every step the process takes by itself is taken; BullMQ serves the jobs of a
\* queue in turn, so no job waits for ever.
Fairness ==
  /\ WF_vars(FindServiceData) /\ WF_vars(CreateServiceState)
  /\ WF_vars(HandleValidate) /\ WF_vars(HandleCheckBalances)
  /\ WF_vars(Return) /\ WF_vars(Restart)
  /\ \A p \in Callers : WF_vars(UpdateServiceState(p)) /\ WF_vars(AddJob(p))
  /\ \A c \in Chains :
       /\ WF_vars(QueueFirst(c)) /\ WF_vars(SkipQueued(c)) /\ WF_vars(FlowAdded(c))
       /\ \A kind \in {"first", "again"} : SF_vars(Dequeue(c, kind))

FairSpec == Spec /\ Fairness

----------------------------------------------------------------------------
\* Type correctness of the document, the calls and the queue.
TypeOK ==
  /\ fresh \in BOOLEAN
  /\ doc \in Flags \cup {NoDoc} /\ creating \in Flags \cup {NoDoc}
  /\ dataId \in {"none", "first", "other"}
  /\ dataId = "first" => doc # NoDoc
  /\ state \in Flags
  /\ boot \in {"down", "exists", "up"} \cup Chains
  /\ call \in [Callers -> Calls \cup {NoCall}]
  /\ queued \in [Chains -> [first: Nat, again: Nat]]
  /\ current \in Jobs \cup {NoJob}
  /\ flows \in [Chains -> Nat]
  /\ reboots \in 0..MaxReboots /\ upsets \in Nat /\ failures \in 0..MaxFailures

\* How many times the chain is going on: its jobs in Redis, the one being handled
\* until its successor is asked for, and the calls that will add one.
Links(c) ==
  queued[c].first + queued[c].again
    + Cardinality({p \in Callers : call[p] # NoCall /\ call[p].chain = c})
    + (IF Handling(c) THEN 1 ELSE 0)

\* In a service that is up, that ended at most between two jobs and whose
\* document was there, each chain goes on exactly once: no interleaving of the
\* bootstrap, the worker and the calls left running loses or doubles one.  The
\* validations may end with a job that fails, and nothing doubles them then either.
OneOfEach ==
  upsets = 0 /\ (fresh => reboots = 0) /\ boot = "up" =>
    /\ \A c \in Chains : Links(c) <= 1
    /\ Links("check-balances") = 1
    /\ failures = 0 => Links("validate") = 1

\* The damage is bounded, in a service that has been running: each crash in the
\* middle of something, and each read of the document that fails, makes at most
\* one more of a chain.
DuplicatesBounded == ~fresh => \A c \in Chains : Links(c) <= 1 + upsets

\* The validations of a service that has been running survive any one crash, unless a
\* job failed: the handler keeps its job until the next one is in Redis.
ValidationSurvivesOneCrash ==
  ~fresh /\ upsets <= 1 /\ failures = 0 => Links("validate") >= 1

\* In a service that does not crash and whose jobs do not fail the next job of each
\* chain reaches Redis again and again (both only grow, so one excuses for ever).
ChainsGoOn ==
  \A c \in Chains : []<>(reboots + failures > 0) \/ []<><<FlowAdded(c)>>_vars

\* In a service that has been running the validations go on after one crash.
ValidationsGoOn ==
  []<>(fresh \/ failures > 0) \/ []<><<FlowAdded("validate")>>_vars

----------------------------------------------------------------------------
(* What the code and its tests say and the code does otherwise.            *)

\* tasks.service.ts, line 290: "The validation of relays should already be
\* queued" when the flag is found set.
QueuedWhenSkipped == AlreadyQueued("validate") => Links("validate") >= 1

\* tasks.service.ts, line 297: the same of the checking of balances, in a service
\* that had been running.
BalancesQueuedWhenSkipped ==
  AlreadyQueued("check-balances") => Links("check-balances") >= 1

\* distribution.service.spec.ts, line 35: the rhythm is kept between reboots, and a
\* chain does not run twice.
RhythmKept == \A c \in Chains : Links(c) <= 1

\* The same when the process only ends between two jobs.
RhythmKeptByQuietReboots == upsets = 0 => RhythmKept
=============================================================================
