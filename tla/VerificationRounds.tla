-------------------------- MODULE VerificationRounds --------------------------
(***************************************************************************)
(* The verification-queue of the Validator.  Each round of validated       *)
(* relays goes through one flow, a chain of jobs each of which gets the    *)
(* results of the one before:                                              *)
(*                                                                         *)
(*   verify-relays -> set-relay-families -> set-hardware-bonus-relays      *)
(*     -> confirm-verification -> persist-verification -> distribute       *)
(*                                                                         *)
(* verify-relays registers new relays in the relay registry contract,      *)
(* where their owners claim them; set-hardware-bonus-relays tells the      *)
(* distribution contract which have proven hardware; persist-verification  *)
(* uploads the metrics and the statistics and stores the round in Mongo,   *)
(* and recover-persist-verification jobs retry the uploads that failed;    *)
(* distribute takes the most recent round from Mongo.                      *)
(*                                                                         *)
(* The queue has one worker; rounds overlap, crashes run jobs again. The   *)
(* families written in set-relay-families are in FamilySync.               *)
(***************************************************************************)
EXTENDS Integers, FiniteSets, Sequences

CONSTANTS
  Rounds,            \* the rounds; a number of them bounds the behaviour
  Relays,
  Info,              \* relay -> what its hardware_info has: see Infos
  Dummy,             \* relays with the dummy address, 0xFFfF...
  Movable,           \* relays whose NFT changes hands; a bound on the behaviour
  BatchSize,         \* claimableRelaysPerBatch, 8 in the code
  MaxUploadRetries,  \* VerificationQueue.maxUploadRetries, 3 in the code
  MaxCrashes,        \* bound on the crashes of a behaviour
  MaxRemovals,       \* bound on the times that the registry drops a relay
  NoState, NoJob

Statuses == {"unknown", "claimable", "verified"}
Registry == [Relays -> Statuses]

\* No hardware_info; all of it; no serials or keys; or an NFT id that is no number.
Infos == {"none", "complete", "incomplete", "unreadable"}
WithHardware == {r \in Relays : Info[r] # "none"}

Results == {"OK", "AlreadyVerified", "AlreadyRegistered", "HardwareProofFailed",
            "Failed"}
\* The results of a round so far and the relays validated in it: what the jobs of
\* its flow return.
Output == [of: UNION {[R -> Results] : R \in SUBSET Relays},
           validated: SUBSET Relays]
Empty == [of |-> [r \in {} |-> "OK"], validated |-> {}]

Stages == <<"verify", "families", "bonus", "confirm", "persist", "distribute",
            "done">>
After(s) == Stages[1 + CHOOSE i \in 1..6 : Stages[i] = s]

\* A recover-persist-verification job: the transaction ids it was given, "" or not,
\* and whether Redis has it.
Recoveries == [retries: 0..MaxUploadRetries, metrics: BOOLEAN, stats: BOOLEAN,
               sent: BOOLEAN]

\* What the worker holds: the state a round is verified against, the relays whose
\* hardware it has yet to check, those to add and those of them that are left; or the
\* uploads of a round and the transactions that the job was given.
VerifyWork == [round: Rounds, job: {"verify"}, state: Registry,
               check: SUBSET Relays, add: SUBSET Relays, left: SUBSET Relays]
UploadWork == [round: Rounds, job: {"persist", "recover"},
               step: {"metrics", "stats", "create", "hexMap", "end"},
               retries: 0..MaxUploadRetries,
               metrics: BOOLEAN, stats: BOOLEAN,
               given: [metrics: BOOLEAN, stats: BOOLEAN]]

ASSUME VerificationAssumption ==
  /\ Rounds \subseteq Nat \ {0}
  /\ BatchSize \in Nat \ {0} /\ MaxUploadRetries \in Nat /\ MaxCrashes \in Nat
  /\ MaxRemovals \in Nat
  /\ Info \in [Relays -> Infos] /\ Dummy \subseteq Relays /\ Movable \subseteq Relays
  /\ IsFiniteSet(Relays)
  /\ NoState \notin Registry /\ NoJob \notin Recoveries \cup VerifyWork \cup UploadWork

VARIABLES
  registry,     \* the relay registry contract
  bonus,        \* relays with the hardware bonus in the distribution contract
  owned,        \* relays whose address owns the NFT of their hardware_info
  hardware,     \* relay -> its VerifiedHardware documents
  removed,      \* relay -> the times that the registry dropped it
  dreState,     \* the registry as this process last fetched it, or NoState
  warm,         \* that was less than a minute ago
  recent,       \* relays that were verified since dreState was fetched or grew cold
  seen,         \* round -> recent when it read the registry, or all if its fetch failed
  cached,       \* rounds that read dreState as it was
  input,        \* round -> its validated relays, the data of its flow
  stage,        \* round -> the job of its flow that runs next
  waiting,      \* the jobs of the queue that may run, <<round, job>>, first in first out
  output,       \* round -> what the last job of the flow returned
  recovery,     \* round -> its recovery job, or NoJob
  docs,         \* the rounds stored in Mongo, oldest first
  work,         \* what the worker is doing, or NoJob
  stalled,      \* jobs whose lock expired once
  registered,   \* relay -> interactions that registered it
  uploaded,     \* round -> [metrics, stats, hexMap]: uploads that succeeded
  distributed,  \* round -> the round whose results were distributed in it, 0 none
  trouble,      \* calls have failed, or the process
  crashes

contracts == <<registry, bonus, registered, removed>>
reads == <<dreState, warm, recent, seen, cached>>
flow == <<input, stage, waiting, output>>
proofs == <<owned, hardware>>
vars == <<contracts, proofs, reads, flow, recovery, docs, work, stalled, uploaded,
          distributed, trouble, crashes>>

\* The relays that are verified in the state s of the registry.
VerifiedIn(s) == {r \in Relays : s[r] = "verified"}

Init ==
  /\ registry = [r \in Relays |-> "unknown"] /\ bonus = {}
  /\ owned \in SUBSET WithHardware /\ hardware = [r \in Relays |-> 0]
  /\ removed = [r \in Relays |-> 0]
  /\ dreState = NoState /\ warm = FALSE /\ recent = VerifiedIn(registry)
  /\ seen = [v \in Rounds |-> {}] /\ cached = 0
  /\ input = [v \in Rounds |-> {}]
  /\ stage = [v \in Rounds |-> "none"]
  /\ waiting = <<>>
  /\ output = [v \in Rounds |-> Empty]
  /\ recovery = [v \in Rounds |-> NoJob]
  /\ docs = <<>>
  /\ work = NoJob /\ stalled = {}
  /\ registered = [r \in Relays |-> 0]
  /\ uploaded = [v \in Rounds |-> [metrics |-> 0, stats |-> 0, hexMap |-> 0]]
  /\ distributed = [v \in Rounds |-> 0]
  /\ trouble = FALSE /\ crashes = 0

----------------------------------------------------------------------------
(* The flow and the worker.  A definition marked (slip) is a mistake the   *)
(* code could have made and does not; no action uses it.                   *)

\* The verify job of the tasks-queue adds the flow of a round.
StartRound(v, R) ==
  /\ stage[v] = "none"
  /\ \A u \in Rounds : u < v => stage[u] # "none"
  /\ stage' = [stage EXCEPT ![v] = "verify"]
  /\ waiting' = Append(waiting, <<v, "verify">>)
  /\ input' = [input EXCEPT ![v] = R]
  /\ UNCHANGED <<contracts, proofs, reads, output, recovery, docs, work, stalled,
                 uploaded, distributed, trouble, crashes>>

\* The worker is free and takes the next job of the flow of v.
Takes(v, job) == work = NoJob /\ waiting # <<>> /\ Head(waiting) = <<v, job>>

\* The job of the flow of v ends with the output o and the next may run; distribute is
\* a job of the tasks-queue.
Ends(v, o) ==
  LET next == After(stage[v])
      rest == IF work = NoJob THEN Tail(waiting) ELSE waiting
  IN
  /\ work' = NoJob
  /\ stage' = [stage EXCEPT ![v] = next]
  /\ waiting' = IF next = "distribute" THEN rest ELSE Append(rest, <<v, next>>)
  /\ output' = [output EXCEPT ![v] = o]

\* refreshDreState: a state that is warm is left alone; a fetch renews it, or fails,
\* which is logged.
Fetch ==
  /\ ~warm
  /\ dreState' = registry /\ warm' = TRUE /\ recent' = VerifiedIn(registry)
  /\ UNCHANGED trouble

\* (slip: the stamp is set when the fetch has failed, too)
FetchFails_Stamped ==
  /\ ~warm /\ dreState # NoState
  /\ warm' = TRUE /\ trouble' = TRUE /\ UNCHANGED <<dreState, recent>>

FetchFails == ~warm /\ trouble' = TRUE /\ UNCHANGED <<dreState, warm, recent>>

RefreshDreState ==
  \/ warm /\ UNCHANGED <<dreState, warm, recent, trouble>>
  \/ Fetch
  \/ FetchFails

\* getRelayRegistryStatuses: after the refresh, the state as it is then; without one,
\* that of the contract, which may throw.
StateRead == IF dreState' = NoState THEN registry ELSE dreState'

\* The minute of a state that was fetched is over.
Cools ==
  /\ warm /\ warm' = FALSE /\ recent' = VerifiedIn(registry)
  /\ UNCHANGED <<contracts, proofs, dreState, seen, cached, flow, recovery, docs, work,
                 stalled, uploaded, distributed, trouble, crashes>>

\* (slip: the filter on claimable relays forgotten)
Unregistered_Claimable(s, r) == s[r] # "verified"

\* The relays that verifyRelays goes on with, of those without the dummy address.
Unregistered(s, r) == s[r] = "unknown"

\* verify-relays up to its first look at hardware.  A throw ends it with no results.
VerifyRelays(v) ==
  /\ Takes(v, "verify")
  /\ RefreshDreState
  /\ seen' = [seen EXCEPT ![v] = IF warm' THEN recent' ELSE Relays]
  /\ cached' = cached + IF dreState # NoState /\ warm' = warm THEN 1 ELSE 0
  /\ \/ /\ LET new == {r \in input[v] \ Dummy : Unregistered(StateRead, r)} IN
               work' = [round |-> v, job |-> "verify", state |-> StateRead,
                        check |-> new \cap WithHardware,
                        add |-> new \ WithHardware, left |-> new \ WithHardware]
        /\ waiting' = Tail(waiting)
        /\ UNCHANGED <<stage, output>>
     \/ dreState' = NoState /\ Ends(v, Empty)
  /\ UNCHANGED <<contracts, proofs, input, recovery, docs, stalled, uploaded, distributed,
                 crashes>>

Verifying == work # NoJob /\ work.job = "verify"

\* (slip: every relay with hardware is marked)
Validated_All == input[work.round] \cap WithHardware

\* The relays marked as validated: those to add that have hardware.
Validated == work.add \cap WithHardware

\* The results when the interactions are over, with res for the relays to add.
Verified(res) ==
  LET s == work.state IN
  [of |-> [r \in input[work.round] |->
             CASE r \in Dummy        -> "Failed"
               [] r \in work.add     -> res
               [] s[r] = "claimable" -> "AlreadyRegistered"
               [] s[r] = "verified"  -> "AlreadyVerified"
               [] OTHER              -> "HardwareProofFailed"],
   validated |-> Validated]

\* validateNftIdForAddressAndDeviceSerial: BigInt of an NFT id that is no number throws.
NftThrows(r) == Info[r] = "unreadable"

\* isOwnerOfRelayupNft, when ownerOf answers: an error says that it is not the owner.
OwnsNft(r) == ~NftThrows(r) /\ r \in owned

\* The fields that VerifiedHardware requires; create throws without one of them.
Documented(r) == Info[r] = "complete"

\* isHardwareProofValid of one relay.  Its address must own the NFT that it names, now;
\* the serials and the proof are not looked at until the document is created.  A throw,
\* one of Mongo too, loses the results of all relays.
CheckHardware ==
  /\ Verifying
  /\ \E r \in work.check :
       \/ /\ OwnsNft(r) /\ Documented(r)
          /\ hardware' = [hardware EXCEPT ![r] = @ + 1]
          /\ work' = [work EXCEPT !.check = @ \ {r}, !.add = @ \cup {r},
                                  !.left = @ \cup {r}]
          /\ UNCHANGED <<stage, waiting, output, trouble>>
       \/ /\ ~NftThrows(r)
          /\ work' = [work EXCEPT !.check = @ \ {r}]
          /\ trouble' = (trouble \/ OwnsNft(r))
          /\ UNCHANGED <<hardware, stage, waiting, output>>
       \/ /\ Ends(work.round, Empty)
          /\ trouble' = (trouble \/ ~(NftThrows(r) \/ (OwnsNft(r) /\ ~Documented(r))))
          /\ UNCHANGED hardware
  /\ UNCHANGED <<contracts, owned, reads, input, recovery, docs, stalled, uploaded,
                 distributed, crashes>>

\* The NFT changes hands.
Transfer(r) ==
  /\ r \in Movable \cap WithHardware
  /\ owned' = IF r \in owned THEN owned \ {r} ELSE owned \cup {r}
  /\ UNCHANGED <<contracts, hardware, reads, flow, recovery, docs, work, stalled,
                 uploaded, distributed, trouble, crashes>>

\* The registry comes to be g.
RegistryBecomes(g) ==
  /\ registry' = g
  /\ recent' = recent \cup VerifiedIn(g)

\* The contract registers the relays of B it does not know.
Register(B) ==
  /\ RegistryBecomes([r \in Relays |->
       IF r \in B /\ registry[r] = "unknown" THEN "claimable" ELSE registry[r]])
  /\ registered' = [r \in Relays |-> registered[r] + IF r \in B THEN 1 ELSE 0]

\* One addClaimableBatched interaction.  It is answered, though perhaps with
\* nothing that landed, or throws, perhaps after it landed: then all of the relays
\* to add are Failed, those of earlier batches too.
AddClaimableBatched ==
  /\ Verifying /\ work.check = {} /\ work.left # {}
  /\ \E B \in SUBSET work.left :
       /\ \/ Cardinality(B) = BatchSize
          \/ B = work.left /\ Cardinality(B) < BatchSize
       /\ \E landed, thrown \in BOOLEAN :
            /\ IF landed THEN Register(B)
               ELSE UNCHANGED <<registry, recent, registered>>
            /\ IF thrown
               THEN Ends(work.round, Verified("Failed"))
               ELSE /\ work' = [work EXCEPT !.left = @ \ B]
                    /\ UNCHANGED <<stage, waiting, output>>
            /\ trouble' = (trouble \/ thrown \/ ~landed)
  /\ UNCHANGED <<bonus, removed, proofs, dreState, warm, seen, cached, input, recovery,
                 docs, stalled, uploaded, distributed, crashes>>

VerifyEnds ==
  /\ Verifying /\ work.check = {} /\ work.left = {}
  /\ Ends(work.round, Verified("OK"))
  /\ UNCHANGED <<contracts, proofs, reads, input, recovery, docs, stalled, uploaded,
                 distributed, trouble, crashes>>

\* set-relay-families refreshes the registry as verify-relays does and hands the results
\* on, or nothing when the contract is to be read and throws.
SetRelayFamilies(v) ==
  /\ Takes(v, "families")
  /\ RefreshDreState
  /\ \/ Ends(v, output[v])
     \/ dreState' = NoState /\ Ends(v, Empty)
  /\ UNCHANGED <<contracts, proofs, seen, cached, input, recovery, docs, stalled, uploaded,
                 distributed, crashes>>

\* It reads the results of the job before it outside of its try: a throw fails the job,
\* and its flow hangs.
SetRelayFamiliesFails(v) ==
  /\ Takes(v, "families")
  /\ waiting' = Tail(waiting)
  /\ stage' = [stage EXCEPT ![v] = "failed"]
  /\ trouble' = TRUE
  /\ UNCHANGED <<contracts, proofs, reads, input, output, recovery, docs, work, stalled,
                 uploaded, distributed, crashes>>

\* (slip: only the relays of this round's registrations are looked at)
SetHardwareBonusRelays_OnlyOk(v) ==
  /\ Takes(v, "bonus")
  /\ bonus' = bonus \cup
       {r \in output[v].validated : output[v].of[r] = "AlreadyRegistered"}
  /\ Ends(v, output[v])
  /\ UNCHANGED <<registry, registered, removed, proofs, reads, input, recovery, docs, stalled,
                 uploaded, distributed, trouble, crashes>>

\* set-hardware-bonus-relays: chunks of the validated relays that have no bonus are
\* sent until one throws.  The results are handed on all the same, unless the
\* state of the contract could not be read.
SetHardwareBonusRelays(v) ==
  /\ Takes(v, "bonus")
  /\ \/ \E sent \in SUBSET (output[v].validated \ bonus) :
          /\ bonus' = bonus \cup sent
          /\ trouble' = (trouble \/ sent # output[v].validated \ bonus)
          /\ Ends(v, output[v])
     \/ Ends(v, Empty) /\ trouble' = TRUE /\ UNCHANGED bonus
  /\ UNCHANGED <<registry, registered, removed, proofs, reads, input, recovery, docs, stalled,
                 uploaded, distributed, crashes>>

\* confirm-verification hands the results on, or none when it cannot read them.
ConfirmVerification(v) ==
  /\ Takes(v, "confirm")
  /\ \/ Ends(v, output[v]) /\ UNCHANGED trouble
     \/ Ends(v, Empty) /\ trouble' = TRUE
  /\ UNCHANGED <<contracts, proofs, reads, input, recovery, docs, stalled, uploaded,
                 distributed, crashes>>

----------------------------------------------------------------------------
(* persist-verification and recover-persist-verification                   *)

\* persist-verification takes a round with results; it ends for one without, and, with
\* nothing stored, when it cannot read them.
PersistVerification(v) ==
  /\ Takes(v, "persist")
  /\ \/ DOMAIN output[v].of = {} /\ Ends(v, Empty) /\ UNCHANGED trouble
     \/ Ends(v, Empty) /\ trouble' = TRUE
     \/ /\ DOMAIN output[v].of # {}
        /\ work' = [round |-> v, job |-> "persist", step |-> "metrics",
                      retries |-> MaxUploadRetries, metrics |-> FALSE,
                      stats |-> FALSE, given |-> [metrics |-> FALSE, stats |-> FALSE]]
        /\ waiting' = Tail(waiting)
        /\ UNCHANGED <<stage, output, trouble>>
  /\ UNCHANGED <<contracts, proofs, reads, input, recovery, docs, stalled, uploaded,
                 distributed, crashes>>

\* (slip: retriesLeft > 1 for > 0)
NoRetries_Early(v) == recovery[v].retries <= 1

NoRetries(v) == recovery[v].retries = 0

\* recover-persist-verification.  The transactions that its data has are not sent
\* again; without retries left it does nothing.
RecoverPersistVerification(v) ==
  /\ Takes(v, "recover")
  /\ waiting' = Tail(waiting)
  /\ IF NoRetries(v)
     THEN UNCHANGED work
     ELSE LET g == [metrics |-> recovery[v].metrics, stats |-> recovery[v].stats] IN
          work' = [round |-> v, job |-> "recover", step |-> "metrics",
                   retries |-> recovery[v].retries - 1, metrics |-> g.metrics,
                   stats |-> g.stats, given |-> g]
  /\ UNCHANGED <<contracts, proofs, reads, input, stage, output, recovery, docs, stalled, uploaded,
                 distributed, trouble, crashes>>

Persisting(step) ==
  work # NoJob /\ work.job \in {"persist", "recover"} /\ work.step = step

\* storeRelayMetrics and storeValidationStats: an upload that is still missing
\* succeeds or does not.
StoreNext(step) == IF step = "metrics" THEN "stats" ELSE "create"
Store(step) ==
  /\ Persisting(step)
  /\ IF work[step]
     THEN /\ work' = [work EXCEPT !.step = StoreNext(step)]
          /\ UNCHANGED <<uploaded, trouble>>
     ELSE \E ok \in BOOLEAN :
            /\ work' = [work EXCEPT ![step] = ok, !.step = StoreNext(step)]
            /\ uploaded' = IF ok THEN [uploaded EXCEPT ![work.round][step] = @ + 1]
                                 ELSE uploaded
            /\ trouble' = (trouble \/ ~ok)
  /\ UNCHANGED <<contracts, proofs, reads, flow, recovery, docs, stalled, distributed,
                 crashes>>

\* The relays of the document: those found verified.
Scored(v) == {r \in DOMAIN output[v].of : output[v].of[r] = "AlreadyVerified"}

Document(v) == [round |-> v, relays |-> Scored(v), metrics |-> work.metrics,
                stats |-> work.stats]

\* (slip: the retries of the data handed on)
RecoveryLeft_Same == work.retries + (IF work.job = "recover" THEN 1 ELSE 0)

\* The retries that a recovery job sent now is given.
RecoveryLeft == work.retries

\* Both transactions are there: a round that needs no recovery.
Complete == work.metrics /\ work.stats

\* persistVerification stores the round, or logs that it could not.
CreateVerificationData ==
  /\ Persisting("create")
  /\ docs' \in {Append(docs, Document(work.round)), docs}
  /\ trouble' = (trouble \/ docs' = docs)
  /\ work' = [work EXCEPT !.step =
       IF work.job = "persist" /\ Complete THEN "hexMap" ELSE "end"]
  /\ UNCHANGED <<contracts, proofs, reads, flow, recovery, stalled, uploaded, distributed,
                 crashes>>

\* storeRelayHexMap, of a first attempt that is complete, succeeds or does not.
StoreRelayHexMap ==
  /\ Persisting("hexMap")
  /\ work' = [work EXCEPT !.step = "end"]
  /\ uploaded' \in {uploaded, [uploaded EXCEPT ![work.round].hexMap = @ + 1]}
  /\ UNCHANGED <<contracts, proofs, reads, flow, recovery, docs, stalled, distributed,
                 trouble, crashes>>

\* The job ends: with both transactions, or by sending a recovery, which is not awaited.
\* It carries the transactions of the first attempt, in every recovery.
PersistEnds ==
  /\ Persisting("end")
  /\ LET v == work.round
         first == IF work.job = "persist"
                  THEN [metrics |-> work.metrics, stats |-> work.stats]
                  ELSE work.given
     IN
       /\ recovery' = [recovery EXCEPT ![v] =
            IF Complete THEN NoJob
            ELSE [retries |-> RecoveryLeft, metrics |-> first.metrics,
                  stats |-> first.stats, sent |-> FALSE]]
       /\ IF work.job = "persist"
          THEN Ends(v, output[v])
          ELSE work' = NoJob /\ UNCHANGED <<stage, waiting, output>>
  /\ UNCHANGED <<contracts, proofs, reads, input, docs, stalled, uploaded, distributed,
                 trouble, crashes>>

\* Redis takes the recovery job.
RecoveryAdded(v) ==
  /\ recovery[v] # NoJob /\ ~recovery[v].sent
  /\ recovery' = [recovery EXCEPT ![v].sent = TRUE]
  /\ waiting' = Append(waiting, <<v, "recover">>)
  /\ UNCHANGED <<contracts, proofs, reads, input, stage, output, docs, work, stalled, uploaded,
                 distributed, trouble, crashes>>

----------------------------------------------------------------------------
\* (slip: sorted by verified_at the other way)
DistributeMostRecent_Oldest(v) ==
  /\ stage[v] = "distribute"
  /\ stage' = [stage EXCEPT ![v] = "done"]
  /\ distributed' = [distributed EXCEPT ![v] = IF docs = <<>> THEN 0 ELSE docs[1].round]
  /\ UNCHANGED <<contracts, proofs, reads, input, waiting, output, recovery, docs, work,
                 stalled, uploaded, trouble, crashes>>

\* JOB_DISTRIBUTE, on the worker of the tasks-queue: the most recent document.
DistributeMostRecent(v) ==
  /\ stage[v] = "distribute"
  /\ stage' = [stage EXCEPT ![v] = "done"]
  /\ distributed' = [distributed EXCEPT ![v] =
       IF docs = <<>> THEN 0 ELSE docs[Len(docs)].round]
  /\ UNCHANGED <<contracts, proofs, reads, input, waiting, output, recovery, docs, work,
                 stalled, uploaded, trouble, crashes>>

\* The owner of a registered relay claims it.
Claim(r) ==
  /\ registry[r] = "claimable"
  /\ RegistryBecomes([registry EXCEPT ![r] = "verified"])
  /\ UNCHANGED <<bonus, registered, removed, proofs, dreState, warm, seen, cached, flow,
                 recovery, docs, work, stalled, uploaded, distributed, trouble, crashes>>

\* removeClaimable, and renounce or removeVerified, of the owner or of an operator.
Remove(r) ==
  /\ registry[r] # "unknown" /\ removed[r] < MaxRemovals
  /\ RegistryBecomes([registry EXCEPT ![r] = "unknown"])
  /\ removed' = [removed EXCEPT ![r] = @ + 1]
  /\ UNCHANGED <<bonus, registered, proofs, dreState, warm, seen, cached, flow, recovery,
                 docs, work, stalled, uploaded, distributed, trouble, crashes>>

\* What may be running when the process dies: the job of several steps under way, or
\* one of the others, or none.
Running ==
  IF work # NoJob THEN {{<<work.round, work.job>>}}
  ELSE {{}} \cup {{Head(waiting)} : i \in {1} \cap DOMAIN waiting}

\* The process dies in a job or with a recovery it had not delivered; a job that
\* sets the bonus may have sent some of it.  BullMQ runs the job again, once, when it
\* finds it stalled, perhaps after some that wait; the flow of a job that failed hangs.
Crash ==
  /\ crashes < MaxCrashes /\ crashes' = crashes + 1
  /\ trouble' = TRUE
  /\ dreState' = NoState /\ warm' = FALSE
  /\ work' = NoJob
  /\ \E job \in Running :
       LET lost == {v \in Rounds : recovery[v] # NoJob /\ ~recovery[v].sent}
           dead == job \cap stalled
           others == IF work = NoJob /\ job # {} THEN Tail(waiting) ELSE waiting
       IN
         /\ job # {} \/ lost # {}
         /\ stalled' = stalled \cup job
         /\ IF job \ dead = {} THEN waiting' = others
            ELSE \E j \in job, i \in 0..Len(others) :
                   waiting' = SubSeq(others, 1, i) \o <<j>>
                                \o SubSeq(others, i + 1, Len(others))
         /\ \E sent \in SUBSET UNION {output[j[1]].validated :
                                   j \in {i \in job : i[2] = "bonus"}} :
              bonus' = bonus \cup sent
         /\ stage' = [v \in Rounds |-> IF <<v, stage[v]>> \in dead THEN "failed"
                                       ELSE stage[v]]
         /\ recovery' = [v \in Rounds |->
              IF v \in lost \/ <<v, "recover">> \in dead THEN NoJob ELSE recovery[v]]
  /\ UNCHANGED <<registry, registered, removed, proofs, recent, seen, cached, input, output,
                 docs, uploaded, distributed>>

Worker ==
  \/ \E v \in Rounds :
       \/ VerifyRelays(v)
       \/ SetRelayFamilies(v)
       \/ SetRelayFamiliesFails(v)
       \/ SetHardwareBonusRelays(v)
       \/ ConfirmVerification(v)
       \/ PersistVerification(v)
       \/ RecoverPersistVerification(v)
  \/ CheckHardware
  \/ AddClaimableBatched
  \/ VerifyEnds
  \/ Store("metrics")
  \/ Store("stats")
  \/ CreateVerificationData
  \/ StoreRelayHexMap
  \/ PersistEnds

Next ==
  \/ \E v \in Rounds, R \in SUBSET Relays : StartRound(v, R)
  \/ Worker
  \/ \E v \in Rounds : RecoveryAdded(v) \/ DistributeMostRecent(v)
  \/ \E r \in Relays : Claim(r) \/ Remove(r) \/ Transfer(r)
  \/ Cools
  \/ Crash

Spec == Init /\ [][Next]_vars

\* The workers take their jobs and finish them, and what was sent arrives.
FairSpec == /\ Spec /\ WF_vars(Worker)
            /\ \A v \in Rounds : /\ WF_vars(RecoveryAdded(v))
                                 /\ WF_vars(DistributeMostRecent(v))

----------------------------------------------------------------------------
\* Type correctness of the contracts, the flows and the recoveries.
TypeOK ==
  /\ registry \in Registry /\ bonus \subseteq Relays
  /\ owned \subseteq WithHardware /\ hardware \in [Relays -> Nat]
  /\ registered \in [Relays -> Nat] /\ removed \in [Relays -> 0..MaxRemovals]
  /\ dreState \in Registry \cup {NoState} /\ warm \in BOOLEAN /\ cached \in Nat
  /\ recent \subseteq Relays /\ seen \in [Rounds -> SUBSET Relays]
  /\ input \in [Rounds -> SUBSET Relays]
  /\ stage \in [Rounds -> {"none", "failed"} \cup {Stages[i] : i \in 1..7}]
  /\ \A v \in Rounds : /\ DOMAIN output[v].of \subseteq input[v]
                       /\ \A r \in DOMAIN output[v].of : output[v].of[r] \in Results
                       /\ output[v].validated \subseteq DOMAIN output[v].of
  /\ recovery \in [Rounds -> Recoveries \cup {NoJob}]
  /\ work \in VerifyWork \cup UploadWork \cup {NoJob}
  /\ \A i \in 1..Len(docs) : docs[i].round \in Rounds /\ docs[i].relays \subseteq Relays
  /\ distributed \in [Rounds -> Rounds \cup {0}]
  /\ trouble \in BOOLEAN /\ crashes \in 0..MaxCrashes

\* Staleness is bounded by what the round read, not by when it is stored: a relay that
\* is scored was verified in the contract at some moment of the minute before its
\* round read the registry, or, if the fetch failed, in a state of any age.  Its owner
\* may have renounced it since, while the scores were on their way.
ScoredWereVerified ==
  \A i \in 1..Len(docs) : docs[i].relays \subseteq seen[docs[i].round]

\* However rounds overlap, calls fail and the process dies: a relay is registered once,
\* again for each time that the registry dropped it, and again for each round that
\* was served the state of an earlier fetch, which may not have it yet.
RegistrationsBounded ==
  \A r \in Relays : registered[r] <= 1 + removed[r] + cached

\* No relay registered with its hardware is left without its bonus: while calls succeed,
\* the rounds that are over leave every such relay with it, whichever of them
\* registered it and whoever owns its NFT now.
BonusFollowsRegistration ==
  ~trouble /\ (\A v \in Rounds : stage[v] \in {"none", "done"}) =>
    {r \in WithHardware : registered[r] > 0} \subseteq bonus

\* A bonus has a document of the hardware behind it, whatever fails between the two;
\* a relay has one at most while calls succeed and every hardware_info can be recorded,
\* but for what makes it be registered again, and one for each round and each crash
\* otherwise: a relay whose hardware_info throws ends each round after the documents of
\* others, who are not registered and get another in the next.
Started == {v \in Rounds : stage[v] # "none"}
Recordable == \A r \in WithHardware : Documented(r)
HardwareRecorded ==
  /\ \A r \in bonus : hardware[r] > 0
  /\ \A r \in Relays : /\ hardware[r] <= Cardinality(Started) + crashes
                        /\ ~trouble /\ Recordable =>
                             hardware[r] <= 1 + removed[r] + cached

\* While calls succeed, a round is distributed with its own results or with those of
\* a later round that overlapped with it, never with older ones.
DistributesCurrent ==
  ~trouble =>
    \A v \in Rounds :
      stage[v] = "done" /\ DOMAIN output[v].of # {} => distributed[v] >= v

\* Recoveries come to an end: the metrics and the statistics of a round are uploaded at
\* most once for its first attempt, once for each retry and once more for each crash;
\* its hex map, once and once for each crash, only when metrics and statistics are.
UploadsBounded ==
  \A v \in Rounds :
    /\ uploaded[v].metrics <= 1 + MaxUploadRetries + crashes
    /\ uploaded[v].stats <= 1 + MaxUploadRetries + crashes
    /\ uploaded[v].hexMap <= 1 + crashes
    /\ uploaded[v].hexMap > 0 => uploaded[v].metrics > 0 /\ uploaded[v].stats > 0

\* Without crashes every round runs to its end, and its results are uploaded or their
\* retries are used up, unless it has none; or it hangs, when set-relay-families could
\* not read them.
GaveUp(v) == recovery[v] # NoJob /\ recovery[v].sent /\ recovery[v].retries = 0
EveryRoundIsSettled ==
  \A v \in Rounds :
    stage[v] = "verify" ~>
      \/ crashes > 0
      \/ stage[v] = "failed"
      \/ /\ stage[v] = "done"
         /\ \/ uploaded[v].metrics > 0 /\ uploaded[v].stats > 0
            \/ GaveUp(v)
            \/ DOMAIN output[v].of = {}

----------------------------------------------------------------------------
\* verification.service.spec.ts, lines 60 and 61: failed uploads of the metrics and
\* of the statistics are retried.  When the retries are used up, one of the two
\* uploads has never succeeded.
GivesUpOnlyWhenMissing ==
  \A v \in Rounds :
    GaveUp(v) => uploaded[v].metrics = 0 \/ uploaded[v].stats = 0

\* verification.service.ts, line 833: "Filter out already claimed or verified relays".
\* While calls succeed no interaction registers a relay that the registry has.
KnownAreFilteredOut ==
  ~trouble => \A r \in Relays : registered[r] <= 1 + removed[r]
===============================================================================
