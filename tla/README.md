# A verification project for the Validator

The Validator (`src/`) is a NestJS service that validates the relays of the ATOR
network, registers and verifies them in a relay registry contract, scores them in a
distribution contract, and answers claims on an EVM contract. Its work is done in
BullMQ queues on Redis, whose jobs are chained into flows and call contracts, archives
and Mongo, each of which may fail. The modules of this directory model its control,
TLC checks them on small instances, and TLAPS proves part of it for all instances.

1. [Inventory](#1-inventory): the parts, their state, what is hard
2. [Modules](#2-modules): which module models what, and how
3. [Runs](#3-runs): what is checked, bounds, fairness
4. [Proofs](#4-proofs): what is proved, and why it holds
5. [Disagreements](#5-disagreements): where code and docs or tests differ
6. [Not modelled](#6-not-modelled)
7. [Plan](#7-plan)

## 1. Inventory

Paths are below `src/src/` unless they say otherwise. The last column is what has to
hold for the component to be correct.

| component | state it keeps | operations | what makes it correct |
|---|---|---|---|
| task scheduler: `tasks/tasks.service.ts`, `tasks/processors/tasks-queue.ts` | one document of flags in Mongo, whether each chain was queued; delayed jobs in Redis | bootstrap, `queueValidateRelays`, `queueCheckBalances`, the jobs of the tasks-queue | each chain goes on for ever, once |
| validation: `validation/validation.service.ts`, `tasks/processors/validation-queue.ts` | `RelayData`, `ValidationData` in Mongo | fetch Onionoo, filter, validate, store | a relay is recorded once in a round, under the date of the round |
| verification: `tasks/processors/verification-queue.ts`, `verification/verification.service.ts` | the registry contract, `VerificationData` in Mongo, a cached contract state | verify, set families, set hardware bonus, confirm, persist, recover | registrations are bounded by what the registry dropped and what was read late, only relays seen verified are scored, uploads end |
| relay families: `setRelayFamilies` of `verification.service.ts` | families in the registry contract | differences, packing into batches, writing | the contract comes to what the network lists |
| hardware: `verification/hardware-verification.service.ts` | `VerifiedHardware` in Mongo; the owners of the NFTs | the NFT check, the document of the hardware | a bonus has a document behind it, once while calls succeed |
| distribution: `tasks/processors/distribution-queue.ts`, `distribution/distribution.service.ts` | jobs and flows in Redis, scores in the distribution contract, the summary in the archive | start, add-scores, complete, retry-complete, persist | no score lost, a round finalised when complete, ends |
| claim events: `events/events.service.ts`, `events/processors/facilitator-updates-queue.ts` | jobs; amounts in the EVM Facility | listener, get-current-rewards, update-allocation, recover | a claim is answered, with a current amount |
| registration locks: `events/processors/registrator-updates-queue.ts` | jobs; credits in the registry contract | listener, add-registration-credit | one credit for a lock |
| cluster: `cluster/cluster.service.ts` | term, vote, role, log, commit index; Consul lock | elections, append entries, commit | one leader in a term, logs agree |
| threads: `cluster/app-threads.service.ts`, `main.ts` | none | fork by `CPU_COUNT` | - |
| relay uptime: `validation/uptime-validation.service.ts`, `src/cli/commands/populate-relay-uptime/`, `setRelayUptimes` of `distribution/distribution.service.ts` | a job document for each date, `RelayUptime` for each relay and date | populate, push to the distribution contract, mark as pushed | streaks are exact, what is marked was pushed, dates are caught up |
| balance checks: `checks/` | `BalancesData` | read, log, store | - |
| seed command: `src/cli/commands/seed/` | lock documents, a document of each line | up, down | a finished lock of runs one after the other stands for the whole file |

**How they interact.** The scheduler's `validate` job sends the flow *validation ->
verification -> distribute*; a BullMQ flow is a tree in which a parent is dequeued only
after its children have returned, and sees their return values. The verification-queue
hands the results of a round from job to job and stores it in Mongo; the `distribute`
job of the tasks-queue takes the most recent stored round and sends its scores through
the distribution-queue. The events queues start from EVM listeners. All of them read
the contracts through a cached state (DRE), of which the age is unknown. The uptime
command runs nightly beside the service; the two meet in Mongo: it reads the `RelayData`
that validations store, and validations read the `RelayUptime` that it stores. The seed
command is a batch job of the operators.

**What is hard about it.**

* A handler mostly does not await the flow producer or `queue.add`. Between the return of
  the handler and Redis taking the job, what follows is only in the process.
* BullMQ runs a job again when its worker died (once: `maxStalledCount` is 1), so a
  call may be made twice, and a handler may run twice to a different end.
* A call that throws may have landed all the same; one that is answered may not have.
* Retries are jobs that carry what is left to do and how often; each path has to
  hand on the right scores, transaction ids and counts.
* A round reads the registry in one job and acts on it over several, while other rounds,
  owners and retries change it.
* The event listeners, the un-awaited calls of the bootstrap and the queue workers
  interleave in one process that may end anywhere.
* The commands write several documents without a transaction (the one that the seed
  command starts is given to none of its operations) and find out what was done from what
  they saved last.

`PROJECT.json` lists these at their lines, under `hazards`, with the properties that
would catch each.

**What the deployments settle.** `operations/*.hcl` sets `CPU_COUNT` to 1 and starts one
instance of the service, without Consul, so there is one process with one worker for each
queue, and `isTheOne` holds in it. Except in Distribution, which takes any number of
processes that share a queue, the modules have one process that dies and comes back.
The models are of a live service (`IS_LIVE` is `'true'`): otherwise it makes no calls.

## 2. Modules

Every module says in comments what each action does; here is how state and actions
correspond to the code. Definitions marked *(slip)* are mistakes the code could have
made; no action uses them, and each is what some property would notice.

### Distribution: the distribution-queue

`jobs` is what Redis holds: a job's identity to its state, in which the value its handler
returned stays, because the parent reads it. `flow` is the data of the flows ever sent:
stamp, retries, total, processed scores, batches. `inflight` has the flows of a process
that Redis does not hold yet. A handler is one action for each point at which another
actor may see a difference: `StartDistributionHandler`, `AddScoresHandler`,
`StartRecoveryDistribution` (the first half of `completeDistributionHandler`),
`Distribute` followed by `RetryComplete` or `DistributionCompleted` (its second half, and
`retryCompleteDistributionHandler`), `PersistDistributionHandler`. `Dequeue`, `Return`,
`FlowAdded` and `Crash` are BullMQ and the process; `ChildrenUnread` is a handler that cannot
read what its children returned and ends as if done. The contract is `added` and
`distributed`, the archive `uploads`. Each call has an outcome: landed or not, answered or
thrown.

A stamp names a round. In the code `verified_at` is overwritten with `Date.now()` when a
round is distributed, so that two rounds do not share a stamp. Delays are any time.
`retry-persist-distribution` has a handler (lines 179 to 232) that nothing reaches,
since the test of line 149 is never true; it is left out, and `Falsy` is that test.

**DistributionLedger** is what a contract and an archive are promised of a round: opened
once, scores recorded only before it is finalised, finalised when complete or when the
budget of retries is spent, archived once after that. **DistributionRefinement** has the
mapping: every flow of a stamp after its first spends one retry of the budget.

### ScoreBatches: groupScoreJobs

One step is one call of the reduce callback on the accumulator. `BatchesFilled`
and `ScoresInOrder` say what the batches are; that the finished ones are among the `Groups`
that Distribution takes them to be is a theorem (`GroupsOfTheQueue`, section 4). The names of the module
begin with `Group`, and `ScoresPerBatch` is Distribution's `BatchSize`, so that one module can
speak of both.

### TaskScheduler: the bootstrap and the chains

`doc` is the document of Mongo, `state` the flags in memory, `creating` the un-awaited
`createServiceState`, `call` what each caller of `queueValidateRelays` and
`queueCheckBalances` has under way: first the update of the document, then the job. The
validate handler awaits its call (`call["worker"]`), the check-balances handler does not
(`call[slot]`). `upsets` counts the ends of the process that were not between two jobs,
and failed reads of the document; `failures` the validate jobs of which the awaited call
threw (`CallFails`), each perhaps after its update or its job was there.

### VerificationRounds: the verification-queue

`stage[v]` is the job of round `v`'s flow that is next, `waiting` the queue, first in
first out. Jobs with several calls (`VerifyRelays`, then `CheckHardware` for each relay
with hardware, `AddClaimableBatched` for each batch, `VerifyEnds`;
`PersistVerification`, then `Store`, then `CreateVerificationData`) keep their place in
`work`, so that crashes, claims and transfers come between the calls. `recovery` is the
recover-persist-verification job. `StoreRelayHexMap` is a step of its own after the
document is stored; its uploads are counted as `hexMap`.

A state that is read is `dreState`, as it was fetched last (`RefreshDreState`): anew when it
is cold, as it is while it is `warm`, which `Cools` ends, or as it is because the fetch
failed, which sets `trouble` as every failing call does. The age of a warm state is no
trouble: the code takes it for current. The state that a fetch gets is taken to be the
contract's at that moment. `registered` counts the interactions that name a relay, which the
contract ignores for one it has. The registry goes forward with `Claim`, and back with
`Remove`, for `removeClaimable`, `renounce` and `removeVerified`, which owners and operators
may send at any time; the code of `src/` never does. What the properties compare is kept in
history variables: `recent` and `seen`, the relays that were verified in the minute before a
round read the registry, `removed`, how often the registry dropped a relay, and `cached`,
how many rounds were served the state of an earlier fetch.

Each job has the ways it ends with an exception: `verify-relays` and `set-relay-families`
without results when the contract is to be read and throws, `set-hardware-bonus-relays`
after any part of its batches, `confirm-verification` and `persist-verification` with
nothing, and `SetRelayFamiliesFails`, which is outside of every `try`, fails the job, so
that the round hangs.

`CheckHardware` is `isHardwareProofValid` as it runs: the address must own the NFT that the
relay names, then the document is created. `Transfer` gives the NFT away and back, so that
the answer of one round is not that of the next. `Info` says what a relay brings: no
hardware, hardware that is complete, hardware whose document cannot be created because a
required field is missing, or an NFT id that is no number, for which the check
throws; in the last two cases that loses the results of all relays of the round. `hardware`
counts the documents.

### FamilySync: setRelayFamilies

`Start` reads both lists, `NextRelay` and `PackChunk` are the reduce over relays and
chunks, `Packed` leaves the current batch behind as the code does, `Write` is one
interaction, `Finish` gives the results, `Crash` ends the process in a job, which runs again
with the lists it was given. `Start` reads the contract, or `dreState`: when the DRE does
not answer, and when another job read it less than a minute ago, which to this module is
the same, an older state, and counted by the same bound. Without a `dreState` the contract
itself is read, and the job ends without a change if that throws. Order within a list of fingerprints is
abstracted: a chunk is any part of the right size.

### FacilityUpdates, RegistrationCredits and EventsService: the events

One request or lock is one event. `adding` (or the job state `adding`) is what was given to
Redis without await. `updateAllocation` lands, is rejected for good (the code has
reasons that it takes for passed), or fails, perhaps after it landed. A process that is
down hears nothing.

**EventsService** composes the two as the service does: both listeners and both workers are
in one process, so an action of one leaves the other alone, and the process ends and
comes back for both (`ProcessCrash`, `ProcessBoot`). `R` is the instance of
RegistrationCredits, with names of its own for `job` and `stalled`.

### Validation and RelayUptimes: the validation flow and the uptime command

**Validation** is the flow fetch, filter, validate, verify. Each handler turns an exception
into an empty result or into none, and each of these ways is a disjunct. `ValidateRelays`
ends with what is to be written, `StoreRelayData` writes it, so that a crash comes between.
`relayData` counts the documents by date, relay and `running`; `relayUptimes` has one entry
for each `insertMany` of a date. Onionoo answers with any list.

**RelayUptimes** adds the command, with the validations going on beside it. `pc` is where
it is: `dates` is the loop over `validation_dates` (`PopulateRelayUptimes`), `save` the saving
of the job (`SaveJob`), then `ChooseLatest`, `push` one batch of `setRelayUptimes`, `mark` the
marking of the relays of an answered batch. `RunCrash` ends it anywhere, with the write
under way landed or not. `minimum` is drawn once: the number of the environment, or `NaN`
without one. The dates are 1, 2, ...; `StartRun` has the one assumption about time: when the
command starts, at one in the morning, no validation of the day before is still writing.

### SeedCommand: seed relay-sale-data

One action for each operation of `up` and `down`: `FindLock`, `CreateLock`, `ClearData`,
`CreateDocument` for one line, `Finish`, `DeleteLock`. Runs die between two operations
(`Crash`), and may overlap: a run may be started while another is at work, and `overlapped`
remembers it. `locks` is a set, because two runs may both have found none.

### RaftNode: the cluster service

`configuration` is the Raft configuration of each node. The RPC handlers are actions on any
RPC that was ever sent, so RPCs are late, repeated, reordered and lost. The code has
nothing that sends RPCs, counts votes or appends commands: `BecomeLeader`, `Command` and
`SendAppendEntries` are external and do what the handlers assume. A log starts with an
entry of term 0, because `requestVote` reads the last one.

## 3. Runs

Each run is a configuration named in `PROJECT.json`; `tlc -config X.cfg M` repeats it.

| run | what it shows | instance |
|---|---|---|
| rounds | one round without a crash: scores are conserved through recoveries, it is finalised when complete or exhausted, its summary goes up once, the retries are a budget, nothing is added after it is distributed, and all of that is a behaviour of the ledger | 3 relays, batches of 2, 2 retries, 2 processes |
| lost | with a crash, a round ends or was lost in one of three named ways | 1 relay, 1 retry, 1 crash |
| finding_upload | *violation*: the summary is not uploaded again (section 5) | 2 relays |
| batches | the batches of every list | up to 6 scores, duplicates too |
| scheduler | single chains, bounded duplicates, validations survive a crash | first and later boots, 2 ends of the process, 1 failed job |
| verif_rounds | two rounds that overlap: registrations bounded, scored relays were seen verified, bonus given and backed by a document, current results distributed | 1 relay with hardware whose NFT changes hands and which the registry drops once, 2 rounds |
| verif_crash | uploads are bounded, the round is settled | 2 relays, one with hardware that makes the check throw and one with the dummy address, 2 upload retries, 1 crash |
| families | batches bounded, writes only of what is listed, convergence | 2 relays, 2 members, threshold 2, 1 change, 1 failed call, stale read or crash |
| events | both events in one process: transactions, jobs and credits bounded, allocations grow, requests end | 2 requests of one address, 1 lock, 2 retries, 1 crash |
| uptimes | streaks are exact, what is marked is in the contract, no uptime reaches the verification, records are not repeated, dates are caught up | 2 relays, 2 days, 2 validations, 1 crash or failed call, batches of 1 |
| seed | a finished lock stands for the whole file, a part is marked, overlapping ups leave no line out | 3 runs of up or down, of which up to 2 die; 2 lines |
| raft | election safety and log matching | 3 nodes, 2 terms, logs of the first entry and 2 more |

**Why the bounds are enough to mean something.** `rounds` has a full and a part batch, so
that one fails while the other succeeds, and two retries, so that a recovery is itself
recovered and a retried completion follows a recovery. `lost` has one crash, with
which no job stalls twice; that the accounting survives two stalls is in the theorems, which
have any number. `verif_rounds` has two rounds
because overlap is between two; the relays do not interact except in a batch, and through
a throw of the hardware check, for which `verif_crash` has a second relay. `families` has a
threshold at which a relay's difference takes one chunk or fills a batch beyond its
limit. `events` has two requests of one address, the least for an amount to overtake
another, and a lock, because the crash is shared. `uptimes` has two dates, so that a streak
of the second rests on the first, two validations, so that a relay is seen on one date
and missed on the other or seen twice on one, and batches smaller than a job, so that a
run ends between two. `seed` has three runs: one to leave something, one to clear it up
or to be left as well, and one to see what is there. `raft` has the smallest cluster with
a majority of more than one that can lose a node, and a term after the first; a log of three
has an entry whose predecessor is not the first one, so that the test of the term before
it matters. Three constraints keep runs small (`CONSTRAINT`, in the MC modules): `FewRPCs` (at most
three elections and three different append RPCs), `FirstAttempts` (`verif_rounds` does not
follow a recovery, which `verif_crash` does), and `Troubles` (`scheduler`: at most one end or
failure on a first boot and two on a later one). In each of
these the slips in the modules are found by TLC, each by the property that speaks of it
(`mutants` in `PROJECT.json`).

**Deadlock** is unchecked where the system stops because its inputs are bounded: rounds
that are over, crashes used up.

**Further configurations**, kept to be run by hand: `MCTaskScheduler_survives` (validations go on after a crash),
`MCRelayUptimes_pushed` (all uptimes of the last date reach the contract in the end), and
the `_finding_` configurations of section 5.

**Fairness.** Weak fairness of the steps that a process which is up takes by itself: dequeue,
handler, return, delivery to Redis, restart. Every call in a handler returns or throws,
so a handler runs to its end; BullMQ's workers poll; the deployments restart a service
that ended. TaskScheduler has strong fairness for `Dequeue` of each chain, since BullMQ
serves jobs in turn and neither chain can starve the other. EventsService is fair to the
worker of the Facility's queue, of which `RequestsEnd` speaks, and to nothing of the locks.
RelayUptimes is fair to the jobs of the flow, to the nightly start of the command
(`operations/*.hcl` has it as a periodic job) and to the command while it runs; midnight is
not fair, so `CaughtUp` speaks of dates that are over. Nothing is assumed of the
outcome of a call, of crashes (which are bounded, never fair), or of what users do.
`Converges` (FamilySync) needs calls to succeed in the end, which the bound on failures
gives, and the list to stay the same, which the bound on changes gives.

## 4. Proofs

Everything below is checked by `tlapm` to the last leaf, for all values of the constants
that satisfy the `ASSUME` of the module (finite sets, positive batch sizes, markers
that are not data). Every invariant and every action property that a passing run checks is
a theorem, and so is the refinement of the ledger; the liveness properties are not.
Where a property speaks of behaviours without a crash or without a failed call, the
theorem does too: `crashes = 0`, `~trouble`, `failures = 0` and `~overlapped` are in the
property, not assumed of the system.

| property | theorem | module |
|---|---|---|
| `ScoresConserved` | `NoScoreLost` | DistributionProofs |
| `ProcessedScoresLanded` | `ScoresLanded` | |
| `FinalisedWhenCompleteOrExhausted` | `FinalisedSettled` | |
| `RetryBudget` | `RetriesBounded` | |
| `NoScoresAfterDistribute` | `ScoresEndAtDistribute` | |
| `SummaryUploadedOnce` | `SummaryOnce` | |
| `ImplementsLedger` | `QueueImplementsLedger` | |
| `BatchesFilled`, `ScoresInOrder` | `GroupsBounded`, `GroupsComplete`, and `GroupsOfTheQueue` | |
| `OneOfEach`, `DuplicatesBounded`, `ValidationSurvivesOneCrash` | `OneOfEachGoesOn`, `DuplicatesStayBounded`, `ValidationSurvives` | TaskSchedulerProofs |
| `ScoredWereVerified` | `OnlySeenAreScored` | VerificationRoundsProofs |
| `RegistrationsBounded` | `RegistrationsStayBounded` | |
| `UploadsBounded` | `UploadsStayBounded` | |
| `HardwareRecorded` | `HardwareIsRecorded` | |
| `BonusFollowsRegistration` | `BonusIsFollowed` | |
| `DistributesCurrent` | `CurrentIsDistributed` | |
| `WritesOnlyListed`, `BatchesBounded` | `OnlyListedIsWritten`, `BatchesStayBounded` | FamilySyncProofs |
| `CreditsBounded`, `AllocationsGrow` | `CreditsStayBounded`, `AllocationsOnlyGrow` | EventsServiceProofs |
| `TransactionsBounded`, `OneChain` | `TransactionsStayBounded`, `RequestsFormChains` | |
| `NoUptimeSeen`, `PushedReached` | `NoUptimeIsSeen`, `PushedStays` | RelayUptimesProofs |
| `StreaksExact`, `RecordsBounded` | `StreaksAreExact`, `RecordsStayBounded` | |
| `FinishedIsWhole`, `PartIsMarked`, `UpsKeepAll` | `LockTellsWhole`, `PartsAreMarked`, `UpsKeep` | SeedCommandProofs |
| `ElectionSafety`, `LogMatching` | `ElectionSafe`, `LogsMatch` | RaftNodeProofs |

**DistributionProofs**, for any number of processes, relays, retries and crashes. The
properties are not inductive by themselves. With crashes, the invariant has five parts:

* `Structure`: type correctness, a flow in flight was sent, Redis holds only start jobs
  and jobs of sent flows, an active job has one worker, and only a closing job is
  distributing. It is what lets a step on one job leave the others alone.
* `Conserved`: the scores queued in a flow and the scores it reports processed partition the
  scores of its stamp. A recovery splits the batches of its flow by their results; it runs
  when each has returned, so that none is in neither part.
* `Landed`: a batch that returned `ok`, or is about to, is in the contract, and so is what a
  flow reports processed. A crash may take a result back and the batch is added again,
  which a set of scores does not notice.
* `SettledBeforeDistribute`: a stamp is complete or exhausted not only when it is
  distributed, but already when a worker is between its decision and the answer of
  `distribute`, and when a retry flow of it exists. A completion gets there with all of its
  batches processed or no retries left; a retry flow comes from a completion that did.
* `Reported`: a completion with retries left that goes on to `distribute` found every batch
  of its flow processed (`Whole`). By `Conserved` these and those it was handed are all
  scores of the stamp, which is what its retry flow has to report, the second half of
  `ScoresConserved`.

The budget, the order and the archive hold until a process crashes, and rest on what a
crash breaks, that a round has one live flow:

* `Chain`: of the flows of a stamp one is the latest; every other has more retries left
  and its closing job has handed the round on, that is, left with `undefined`. The number
  of flows is what the latest has spent of the budget (`RetriesBounded`).
* `Ordered`: a parent is active or has returned only after its children returned. This one
  survives crashes, because a crash takes back only jobs that were active, and the parent of
  an active job has not begun.
* `Silent`: when a stamp is distributed, each of its flows is a retry flow, which has no
  batches, or is past the test of its closing job; by `Ordered` its batches are over
  (`ScoresEndAtDistribute`).
* `ArchivedOnce`: the upload was made by a persist job whose closing job had a result; in a
  chain that is one flow (`SummaryOnce`).

`QueueImplementsLedger` shows that a step of the queue is a step of the ledger or changes
nothing of it. `Within` says that only scores of the round are recorded, and none before
it starts; the retries that the mapping counts as spent are the flows of the stamp but the
first, and each further flow that is sent is one retry of the ledger.

For groupScoreJobs the lists and the limit are of any size. `ScoresInOrder` needs the
concatenation of the batches, which `Position` describes without recursion: the `i`-th score
of batch `k` is the one at `(k - 1) * ScoresPerBatch + i` of the list, all batches before
being full. `GroupsOfTheQueue` connects the two modules: finished batches of a list without
duplicates are one of the `Groups` that Distribution chooses from, since different places
in batches are different positions (`PositionsDiffer`) and each score seen is in a batch
(`Covered`).

**TaskSchedulerProofs**, for any number of reboots and crashes. The properties count the
`Links` of a chain: jobs queued, the job in the worker, calls under way. The invariant
adds `Owed`, the link that the bootstrap of this process has yet to make: `Exact` keeps
links and debts at one while the process ends only between two jobs and no validate job
fails, which takes one from the validations, `AtMost` keeps them
at `1 + upsets` in a service that has run before. Most steps are `Steady`: they lose no
link and make one only where one was owed (`SteadyCounted`). The handler makes the next
link before its own job is over, for the validations; that is why a crash in the middle
leaves at least one of them (`ValidationSurvives`), and why the balance checks, of which
the add is not awaited, are not in that theorem (section 5). `CallsOK`, `Running`,
`FirstRun` and `Stalled` are what the counting needs to know of the document and the
callers.

**VerificationRoundsProofs**, for any relays, rounds, claims, removals, failures and crashes.
`BonusIsRecorded`: the documents of hardware only grow, and `IInv` says of every copy of a
mark, at the worker, in the outputs of a round and in the contract, that there is a document. The
others rest on `Flowing`, which says where the jobs are: none is twice in the queue or both
there and at the worker, and each is the one that is due for its round.

* `Sighted` (`OnlySeenAreScored`): the registry changes under a round, so that what is scored
  cannot be compared with what is verified now. What a warm state has as verified is in
  `recent`, and what the worker, an output or a document reports for a round is in `seen` of
  that round, which does not change while anything is reported for it.
* `Counted` (`RegistrationsStayBounded`): a relay that the worker is to register although the
  registry has it (`Twice`) counts as registered once more already: the round was served the
  state of an earlier fetch, and `cached` grew by one. A round that fetched holds only relays
  that the registry does not have, and nobody but the one worker registers them.
* `Uploads` (`UploadsStayBounded`): uploads made and attempts left (`Left`) stay within the
  first attempt, its retries and the crashes; an attempt past its upload is counted as
  spent, because a crash there repeats it. This holds through failures.
* `Recorded` and `OnceRecorded` (`HardwareIsRecorded`): documents of a relay and rounds that
  may still write one stay within the rounds started and the crashes. While calls
  succeed and the hardware information of every relay is complete (`Recordable`), each
  document is followed by its registration, so that the bound is that of registrations:
  what is missing or malformed there loses the results of a round after documents of others
  were written, and the next round writes them again.
* `BonusDue` (`BonusIsFollowed`): a relay registered with its hardware has its bonus or is
  among those that some round will set it for.
* `Ordered` (`CurrentIsDistributed`): while calls succeed rounds keep their order through the
  flow. A later round is no further than an earlier one and behind it in the queue, so the
  last stored document is of no earlier round than the one that is distributed.

**EventsServiceProofs.** `Composed`: every behaviour of the service is one of
FacilityUpdates and, through `R`, one of RegistrationCredits, so that what holds of either
alone holds in the composition. `CreditsStayBounded`: a lock that still has a job is owed a
credit that its count leaves room for. `AllocationsOnlyGrow`: the property compares two
transactions, and what keeps them in order is that each amount that waits in the queue is
at most those behind it for the address, at least what was allocated, and at most what a
later job can read. The invariant `Grows` says so of the queue (`WaitingOK`) and of the job
at work (`WorkOK`), as long as nothing failed: a recovery is what may overtake.
`TransactionsStayBounded` and `RequestsFormChains` are about all jobs of a request together,
wherever they are. A weight says what a job is worth, one for its existence (`OneOf`) or the
transactions it may still send (`DueOf`), and `Pot` adds up the weights of the queue, of
what was given to Redis and of the job that runs, as the cardinality of a set of tokens.
`Bound` says that the pot, and what was sent, stay within `1 + crashes` jobs and as many
times the budget of one: a step spends what it sends, a crash repeats one job.

**FamilySyncProofs.** `OnlyListedIsWritten`: every input that is packed, waits in a batch or
is left of a relay agrees with the lists the job was given, although the lists of the
network and the contract change meanwhile. `BatchesStayBounded`: the batch being filled is
at most one over the threshold and a closed one is not empty (`Sized`). The size of a batch
is a sum along a sequence; `SumsExist` and the lemmas about `Size` show that it exists and
grows by what is appended, by induction over the length.

**RelayUptimesProofs.** `NoUptimeIsSeen`: the invariant `Early` says that no uptimes are
stored of today or of later dates, while a validation asks for today. `PushedStays`:
`Reaches` says that the dates of a run come after every date that succeeded, that a run
pushes the latest of them, and that an answered batch has landed or is recorded in
`unlanded`; so what an earlier run marked is replaced only by uptimes of a later date.
`StreaksAreExact`: what is stored of a date was computed when the date was over (`Past`,
`Stored`), and a date that a run has gone through without a throw has uptimes of every relay
that was seen on it (`Filled`), so that the streak of the next date, read from the documents
of the one before, goes on from an exact one. `RecordsStayBounded`: observations of
a relay over all dates, and the round that may still write one, stay within the rounds and
the troubles (`Observed`); the documents of a date are those of its success, or about to
be, and one more for each trouble (`Documents`). The first is a sum over the dates, by
induction over them.

**SeedCommandProofs.** `LockTellsWhole` and `PartsAreMarked` are about runs of any number that
do not overlap and die anywhere; of overlapping ups the first is false, since two that found
no lock both create the lines and finish. The second excuses the part that a down leaves that
died between its two deletions, until an up clears it: no lock marks that. While runs do not
overlap the one at work knows the lock and the data at each
of its steps (`Known`), and without a lock there is no data, unless a down is or was left
between its two deletions. `UpsKeep` is about ups that do overlap: while a line is missing,
some run that cleared the data, or is about to, has yet to come to it (`Comes`), and of each
line there are at most as many copies as runs that came by it (`Created`).

**RaftNodeProofs**, for any finite set of nodes. The invariant `Elections` says of the votes
given:

* `GrantedHolds`: a vote is of a term its voter has reached; while the voter is in that
  term it follows, and `votedFor` is the candidate;
* `OneVote`: a node votes for one node in a term;
* `CandidatesHold`: a node that asked for votes in a term gives none in it.

The second follows from the first when `votedFor` is compared; the third is needed because
`startElection` sets `votedFor` to nobody, so only the state of a candidate keeps it from
voting for another. Two majorities have a member in common (`FS_MajoritiesIntersect`).

Log matching needs more than the logs of the present: an RPC may carry a part of a log that
its sender has since lost. `Peers` says that there is a set of logs, those that nodes had
when they took entries or sent them, such that every log and every RPC is part of one, two
of them match, and their entries of a term come from the node that was elected in it and
presided over it. A leader appends to a log that is in the set, in a term nobody else
leads (`ElectionSafety`), and so the longer log matches all others.

**Induction.** The induction theorems of the library take an operator, which the provers
cannot instantiate. The modules that need induction state it of sets (`Induction`: a set
with 0 and with each successor has all of Nat) and prove it from the well-foundedness of
`<`, which the library has without an operator. So sums that are recursive functions are
within reach; RECURSIVE operators are not, and the modules have none.

**Only model-checked:** liveness under fairness, which is beyond the prover
(`EveryRoundEndsOrIsLost`, `RequestsEnd`, `Converges`, `EveryRoundIsSettled`, `CaughtUp`).

## 5. Disagreements

What a test's title, a comment or a message of the code says, and the code does not. Each
configuration has TLC find it; the first is a run of `PROJECT.json`.

| said | where | what happens | configuration |
|---|---|---|---|
| failed transactions of a distribution are retried | `distribution.service.spec.ts:30` | `persistDistribution` answers `{}` for a failed upload, which is not falsy, so `distribution-queue.ts:149` never retries | `MCDistribution_finding_upload` |
| a distribution is not finalised until all transactions succeed | `distribution.service.spec.ts:31` | it is, when the retries are used up | `MCDistribution_finding_fallback` |
| the validation "should already be queued" | `tasks.service.ts:290` | the flag is stored before the job; a crash in between ends the chain | `MCTaskScheduler_finding_queued` |
| the same of the balance checks | `tasks.service.ts:297` | the next check is not awaited; a crash ends the chain | `MCTaskScheduler_finding_balances` |
| a rhythm is kept between reboots | `distribution.service.spec.ts:35` | on a first boot the flag may be set before the document of `createServiceState` has an id to update; after a quiet reboot the chain is queued a second time | `MCTaskScheduler_finding_first` |
| already claimed or verified relays are filtered out | `verification.service.ts:833` | the filter goes by a state up to a minute old: a round shortly after another registers its relays again, with no call failing | `MCVerificationRounds_finding_cache` |
| failed uploads of metrics and statistics are retried | `verification.service.spec.ts:60` | a recovery forgets what an earlier recovery uploaded, and gives up with both uploaded | `MCVerificationRounds_finding_upload` |
| families that need updates are updated | `verification.service.ts:595` | the last batch is never sent and its relays are OK | `MCFamilySync_finding` |
| events are continuous between reboots | `events.service.spec.ts:49` | events of the time between are not looked for | `MCEventsService_finding_reboot` |
| failed updates are flagged for retry | `events.service.spec.ts:45` | the recovery is not awaited and lost in a crash | `MCEventsService_finding_retry` |
| registration locks are stored | `events.service.spec.ts:43` | a credit that failed is not retried | `MCEventsService_finding_locks` |
| a missing minimum count of running: "using default value" | `uptime-validation.service.ts:39` | the minimum is NaN, the message is not logged, and every run of the command ends when it creates a job | `MCRelayUptimes_finding_default` |
| a vote is denied to a node that voted "in this term" | `cluster.service.ts:237` | `votedFor` outlives its term | `MCRaftNode_finding_voted` |
| the commit index is one "included in a majority of responses" | `cluster.service.ts:306` | it can be -1, the index of a refusal | `MCRaftNode_finding_commit` |

Seen while modelling, without a configuration:

* `hardware-verification.service.ts:230` says that the device serial is checked against the
  sale data; that check, and those of the serials, the key and the proof, are commented
  out (lines 281 to 303 and 329 to 390), so that nothing reads what the seed command stores.
* `seed-relay-sale-data.subcommand.ts:78` starts a transaction that none of the operations
  is given: each is seen at once, as SeedCommand has it.
* The same command takes a trailing newline for a line, whose document cannot be created:
  the run throws after all others were created, and its lock is not finished. SeedCommand
  has files without one; the other case is a `Crash` before `Finish`.
* `distribution.service.spec.ts:34` says that distributions continue between reboots: a flow not
  yet taken by Redis is lost with the process. The run `lost` names this as one of its three ways;
  another is an exception while the results of the children are read
  (`distribution-queue.ts:169` and `344`), after which nothing tries again.

## 6. Not modelled

* **Formats and geometry**: the bodies of uploads, the hexagons of the hex map, addresses and
  fingerprints. No property here is about them.
* **Balance checks**: they read balances and compare them with thresholds, for the log, and
  store them; no other part reads the results. The chain of their jobs is in TaskScheduler.
* **Hardware**: `verifyRelaySerialProof`, `validateDeviceSerial` and `validateAtecSerial` are
  called by nothing but a test. The documents of failures are written for a report, which
  prints a query of them.
* **setRelayFamilies of the DistributionService** is a copy of the modelled one that nothing
  calls.
* **lastValidation and lastValidationOf** only read. `ValidationData` is stored as `RelayData` is.
* **Threads, web application, utilities**: no state.
* **The Consul lock and the bootstrap of the cluster**: without Consul, as deployed, a node
  makes itself the leader; with it, the lock is Consul's.

## 7. Plan

Done: Distribution with its ledger, ScoreBatches, TaskScheduler, VerificationRounds with
hardware, FamilySync, the events and their composition, the validations with the uptime
command, the seed command, RaftNode with election safety and log matching.

Next, to model:

1. The scheduler over rounds: a validation that is queued twice sends two flows, which is
   where `DuplicatesBounded` and the overlap in `verif_rounds` meet; with the round's stamp
   taken at distribution, two rounds of one stored document are two stamps.
2. RelayUptimes with two commands at once, should a run take longer than a day.

Every safety property of the runs is proved. Next, to prove:

1. The properties of the configurations that are run by hand (`MCTaskScheduler_survives`,
   `MCRelayUptimes_pushed`) are liveness; the safety half of a liveness property, that its
   goal stays within reach, can be proved. For RelayUptimes: a date that is over and has no
   success is one that the next run starts at.
2. RaftNode: that what a leader commits is in the logs of later leaders is not a property of
   this code (section 5), as the commit index may be that of a refusal; what could be proved
   is leader completeness for an index that a majority did confirm.
3. VerificationRounds with the distribution it starts: the two are composed through the
   stored documents, and `DistributesCurrent` could be carried to the scores.
