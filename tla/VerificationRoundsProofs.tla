----------------------- MODULE VerificationRoundsProofs -----------------------
(***************************************************************************)
(* Proofs about VerificationRounds, for any relays, rounds, batches and    *)
(* bounds.  The invariants, in the order of the sections:                  *)
(*                                                                         *)
(*   IInv      types, and every mark of hardware comes after its document; *)
(*   Flowing   the queue holds each job once, and only the job that its    *)
(*             round is at, or the recovery that was sent for it;          *)
(*   Sighted   what outputs and documents report as verified is what their *)
(*             rounds could see;                                           *)
(*   Counted   a relay in the hand of the worker that the registry has was *)
(*             dropped once more, or read from an older state once more;   *)
(*   Uploads   each recovery has fewer retries than the one before;        *)
(*   Recorded  one document for each round that was begun and each crash;  *)
(*   BonusDue  a registered relay has its bonus or a round will set it;    *)
(*   Ordered   rounds keep their order through the flow.                   *)
(***************************************************************************)
EXTENDS VerificationRounds, SequenceTheorems, FiniteSetTheorems, TLAPS

\* The relays with a document.
Backed == {r \in Relays : hardware[r] > 0}

\* The worker holds the uploads of a round.
PersistWork(w) ==
  /\ DOMAIN w = {"round", "job", "step", "retries", "metrics", "stats", "given"}
  /\ w.round \in Rounds /\ w.job \in {"persist", "recover"}

\* Every mark of hardware, in an output, in the hand of the worker or in the contract,
\* comes after its document.
ContractsOK == /\ registry \in Registry /\ hardware \in [Relays -> Nat]
               /\ input \in [Rounds -> SUBSET Relays]
StateOK == dreState # NoState => dreState \in Registry
WorkOK == /\ work \in VerifyWork \/ PersistWork(work) \/ work = NoJob
          /\ Verifying => work.add \cap WithHardware \subseteq Backed
GoodOutput(o) == DOMAIN o.of \subseteq Relays /\ o.validated \subseteq Backed
OutputOK == DOMAIN output = Rounds /\ \A v \in Rounds : GoodOutput(output[v])
DocsOK == \E S : docs \in Seq(S)
BonusOK == bonus \subseteq Backed
QueueOK == \E S : waiting \in Seq(Rounds \X S)

IInv == ContractsOK /\ StateOK /\ WorkOK /\ OutputOK /\ DocsOK /\ BonusOK /\ QueueOK

LEMMA GoodEmpty == GoodOutput(Empty)
BY DEF GoodOutput, Empty

LEMMA InitIInv == Init => IInv
<1> SUFFICES ASSUME Init PROVE IInv
  OBVIOUS
<1>1. ContractsOK
  BY DEF Init, ContractsOK, Registry, Statuses
<1>2. StateOK /\ DocsOK /\ BonusOK /\ QueueOK
  BY DEF Init, StateOK, DocsOK, BonusOK, QueueOK
<1>3. WorkOK
  BY DEF Init, WorkOK, Verifying
<1>4. OutputOK
  BY GoodEmpty DEF Init, OutputOK
<1> QED BY <1>1, <1>2, <1>3, <1>4 DEF IInv

-----------------------------------------------------------------------------
(* A step never takes a document back, so the marks that it leaves alone   *)
(* stay good.                                                              *)

Grows == Backed \subseteq Backed'

LEMMA GrowsKept ==
  ASSUME UNCHANGED hardware
  PROVE  Grows
BY DEF Grows, Backed

LEMMA GoodGrows ==
  ASSUME Grows, NEW o, GoodOutput(o)
  PROVE  GoodOutput(o)'
BY DEF Grows, GoodOutput

LEMMA StateKept ==
  ASSUME IInv, dreState' \in {dreState, registry}
  PROVE  StateOK'
BY DEF IInv, ContractsOK, StateOK

LEMMA WorkKept ==
  ASSUME IInv, Grows, UNCHANGED work
  PROVE  WorkOK'
BY DEF IInv, WorkOK, Grows, Verifying

LEMMA OutputKept ==
  ASSUME IInv, Grows, UNCHANGED output
  PROVE  OutputOK'
BY GoodGrows DEF IInv, OutputOK

LEMMA DocsKept ==
  ASSUME IInv, UNCHANGED docs
  PROVE  DocsOK'
BY DEF IInv, DocsOK

LEMMA BonusKept ==
  ASSUME IInv, Grows, UNCHANGED bonus
  PROVE  BonusOK'
BY DEF IInv, BonusOK, Grows

\* Jobs leave the queue at its head and join it at its end.
LEMMA QueueKept ==
  ASSUME IInv, NEW v \in Rounds, NEW j, NEW rest,
         waiting' = rest \/ waiting' = Append(rest, <<v, j>>),
         rest = waiting \/ (waiting # <<>> /\ rest = Tail(waiting))
  PROVE  QueueOK'
<1>1. PICK S : waiting \in Seq(Rounds \X S)
  BY DEF IInv, QueueOK
<1> DEFINE T == Rounds \X (S \cup {j})
<1>2. Rounds \X S \subseteq T /\ <<v, j>> \in T
  OBVIOUS
<1>3. \E Q : Q = S \cup {j} /\ T = Rounds \X Q
  OBVIOUS
<1> HIDE DEF T
<1>4. waiting \in Seq(T)
  BY <1>1, <1>2
<1>5. rest \in Seq(T)
  BY <1>4
<1>6. waiting' \in Seq(T)
  BY <1>2, <1>5
<1> QED BY <1>3, <1>6 DEF QueueOK

\* The end of a job with an output that is good.
LEMMA EndsKept ==
  ASSUME IInv, Grows, NEW v \in Rounds, NEW o, GoodOutput(o), Ends(v, o),
         waiting # <<>> \/ work # NoJob
  PROVE  WorkOK' /\ OutputOK' /\ QueueOK'
<1>1. WorkOK'
  BY DEF Ends, WorkOK, Verifying
<1>2. output' = [output EXCEPT ![v] = o]
  BY DEF Ends
<1>3. OutputOK'
  BY <1>2, GoodGrows DEF IInv, OutputOK
<1>4. QueueOK'
  <2> DEFINE j == After(stage[v])
             rest == IF work = NoJob THEN Tail(waiting) ELSE waiting
  <2>1. waiting' = rest \/ waiting' = Append(rest, <<v, j>>)
    BY DEF Ends
  <2>2. rest = waiting \/ (waiting # <<>> /\ rest = Tail(waiting))
    OBVIOUS
  <2> HIDE DEF j, rest
  <2> QED BY <2>1, <2>2, QueueKept, Zenon
<1> QED BY <1>1, <1>3, <1>4

-----------------------------------------------------------------------------
(* One lemma for each action that disturbs a part of the invariant.        *)

LEMMA StartRoundOK ==
  ASSUME IInv, NEW v \in Rounds, NEW R \in SUBSET Relays, StartRound(v, R)
  PROVE  IInv'
<1>1. Grows
  BY GrowsKept DEF StartRound, contracts, proofs
<1>2. ContractsOK'
  BY DEF StartRound, contracts, proofs, IInv, ContractsOK
<1>3. StateOK' /\ WorkOK' /\ OutputOK' /\ DocsOK' /\ BonusOK'
  BY <1>1, StateKept, WorkKept, OutputKept, DocsKept, BonusKept
     DEF StartRound, contracts, reads
<1>4. QueueOK'
  BY QueueKept, Zenon DEF StartRound
<1> QED BY <1>2, <1>3, <1>4 DEF IInv

\* The relays that a round verified against s goes on with, and the work it begins.
New(v, s) == {r \in input[v] \ Dummy : Unregistered(s, r)}
Begins(v, s) ==
  /\ work' = [round |-> v, job |-> "verify", state |-> s,
              check |-> New(v, s) \cap WithHardware,
              add |-> New(v, s) \ WithHardware, left |-> New(v, s) \ WithHardware]
  /\ waiting' = Tail(waiting)
  /\ UNCHANGED <<stage, output>>

LEMMA VerifyRelaysCases ==
  ASSUME NEW v, VerifyRelays(v)
  PROVE  Ends(v, Empty) \/ Begins(v, StateRead)
BY Zenon DEF VerifyRelays, Begins, New

LEMMA Refreshed ==
  ASSUME RefreshDreState
  PROVE  dreState' \in {dreState, registry} /\ (trouble => trouble')
BY DEF RefreshDreState, Fetch, FetchFails

\* What is read of the registry, and what a round that reads it begins with.
LEMMA ReadTyped ==
  ASSUME IInv, NEW v \in Rounds, VerifyRelays(v)
  PROVE  StateRead \in Registry /\ New(v, StateRead) \subseteq Relays
<1>1. dreState' \in {dreState, registry}
  BY Refreshed DEF VerifyRelays
<1>2. StateRead \in Registry
  BY <1>1 DEF StateRead, IInv, ContractsOK, StateOK
<1>3. input[v] \subseteq Relays
  BY DEF IInv, ContractsOK
<1> QED BY <1>2, <1>3 DEF New

LEMMA BeginsTyped ==
  ASSUME NEW v \in Rounds, NEW s \in Registry, New(v, s) \subseteq Relays, Begins(v, s)
  PROVE  work' \in VerifyWork /\ work' # NoJob
         /\ work'.round = v /\ work'.job = "verify" /\ work'.state = s
         /\ work'.check = New(v, s) \cap WithHardware
         /\ work'.add = New(v, s) \ WithHardware /\ work'.left = New(v, s) \ WithHardware
<1> DEFINE w == [round |-> v, job |-> "verify", state |-> s,
                 check |-> New(v, s) \cap WithHardware,
                 add |-> New(v, s) \ WithHardware, left |-> New(v, s) \ WithHardware]
<1>1. work' = w
  BY DEF Begins
<1>2. w \in VerifyWork
  BY DEF VerifyWork
<1> QED BY <1>1, <1>2, VerificationAssumption

LEMMA VerifyRelaysOK ==
  ASSUME IInv, NEW v \in Rounds, VerifyRelays(v)
  PROVE  IInv'
<1>1. Grows
  BY GrowsKept DEF VerifyRelays, proofs
<1>2. ContractsOK' /\ StateOK' /\ DocsOK' /\ BonusOK'
  BY <1>1, StateKept, Refreshed, DocsKept, BonusKept
     DEF VerifyRelays, contracts, proofs, IInv, ContractsOK
<1>3. CASE Ends(v, Empty)
  BY <1>1, <1>2, <1>3, EndsKept, GoodEmpty DEF IInv, VerifyRelays, Takes
<1>4. CASE Begins(v, StateRead)
  <2>1. work' \in VerifyWork /\ work'.add \cap WithHardware = {}
    BY <1>4, ReadTyped, BeginsTyped
  <2>2. WorkOK'
    BY <2>1 DEF WorkOK
  <2>3. QueueOK'
    BY <1>4, QueueKept DEF VerifyRelays, Takes, Begins
  <2> QED BY <1>1, <1>2, <1>4, <2>2, <2>3, OutputKept DEF IInv, Begins
<1> QED BY <1>3, <1>4, VerifyRelaysCases

\* What the worker is while it verifies, and while it persists.
LEMMA QueueSame ==
  ASSUME IInv, UNCHANGED waiting
  PROVE  QueueOK'
BY DEF IInv, QueueOK

LEMMA VerifyingWork ==
  ASSUME IInv, Verifying
  PROVE  /\ work \in VerifyWork
         /\ work.add \cap WithHardware \subseteq Backed
<1>1. ~PersistWork(work)
  BY DEF Verifying, PersistWork
<1> QED BY <1>1 DEF IInv, WorkOK, Verifying

LEMMA PersistingWork ==
  ASSUME IInv, NEW step, Persisting(step)
  PROVE  PersistWork(work)
<1>1. work \notin VerifyWork
  BY DEF Persisting, VerifyWork
<1> QED BY <1>1 DEF IInv, WorkOK, Persisting

LEMMA CheckHardwareOK ==
  ASSUME IInv, CheckHardware
  PROVE  IInv'
<1>1. work \in VerifyWork /\ work # NoJob /\ work.job = "verify"
  BY VerifyingWork DEF CheckHardware, Verifying
<1>2. work.round \in Rounds /\ work.add \subseteq Relays /\ work.check \subseteq Relays
      /\ work.left \subseteq Relays
  BY <1>1 DEF VerifyWork
<1>3. PICK r \in work.check :
       \/ /\ OwnsNft(r) /\ Documented(r)
          /\ hardware' = [hardware EXCEPT ![r] = @ + 1]
          /\ work' = [work EXCEPT !.check = @ \ {r}, !.add = @ \cup {r},
                                  !.left = @ \cup {r}]
          /\ UNCHANGED <<stage, waiting, output, trouble>>
       \/ /\ work' = [work EXCEPT !.check = @ \ {r}]
          /\ UNCHANGED <<hardware, stage, waiting, output>>
       \/ /\ Ends(work.round, Empty)
          /\ UNCHANGED hardware
  BY Zenon DEF CheckHardware
<1>4. /\ hardware' \in [Relays -> Nat] /\ \A q \in Relays : hardware'[q] >= hardware[q]
  BY <1>2, <1>3 DEF IInv, ContractsOK
<1>5. Grows
  BY <1>4 DEF Grows, Backed, IInv, ContractsOK
<1>6. ContractsOK' /\ StateOK' /\ DocsOK' /\ BonusOK'
  BY <1>4, <1>5, StateKept, DocsKept, BonusKept
     DEF CheckHardware, contracts, reads, IInv, ContractsOK
<1>7. work.add \cap WithHardware \subseteq Backed'
  BY <1>1, <1>5, VerifyingWork DEF Grows, CheckHardware
<1>8. CASE /\ hardware' = [hardware EXCEPT ![r] = @ + 1]
           /\ work' = [work EXCEPT !.check = @ \ {r}, !.add = @ \cup {r},
                                   !.left = @ \cup {r}]
           /\ UNCHANGED <<output, waiting>>
  <2>1. work' \in VerifyWork /\ work'.state = work.state /\ work'.add = work.add \cup {r}
    BY <1>1, <1>2, <1>8 DEF VerifyWork
  <2>2. r \in Backed'
    BY <1>2, <1>8 DEF Backed, IInv, ContractsOK
  <2>3. WorkOK'
    BY <1>7, <2>1, <2>2 DEF WorkOK
  <2> QED BY <1>5, <1>6, <1>8, <2>3, OutputKept, QueueSame DEF IInv
<1>9. CASE work' = [work EXCEPT !.check = @ \ {r}] /\ UNCHANGED <<output, waiting>>
  <2>1. work' \in VerifyWork /\ work'.state = work.state /\ work'.add = work.add
    BY <1>1, <1>2, <1>9 DEF VerifyWork
  <2>2. WorkOK'
    BY <1>7, <2>1 DEF WorkOK
  <2> QED BY <1>5, <1>6, <1>9, <2>2, OutputKept, QueueSame DEF IInv
<1>10. CASE Ends(work.round, Empty)
  BY <1>1, <1>2, <1>5, <1>6, <1>10, EndsKept, GoodEmpty DEF IInv
<1> QED BY <1>3, <1>8, <1>9, <1>10

LEMMA VerifiedGood ==
  ASSUME IInv, Grows, Verifying, NEW res \in {"OK", "Failed"}
  PROVE  GoodOutput(Verified(res))
<1>1. work \in VerifyWork /\ work.add \cap WithHardware \subseteq Backed
  BY VerifyingWork
<1>2. input[work.round] \subseteq Relays
  BY <1>1 DEF VerifyWork, IInv, ContractsOK
<1>3. /\ DOMAIN Verified(res).of = input[work.round]
      /\ Verified(res).validated = work.add \cap WithHardware
  BY DEF Verified, Validated
<1> QED BY <1>1, <1>2, <1>3 DEF GoodOutput

LEMMA RegisterTyped ==
  ASSUME IInv, NEW B, Register(B)
  PROVE  registry' \in Registry
<1>1. registry' = [r \in Relays |->
        IF r \in B /\ registry[r] = "unknown" THEN "claimable" ELSE registry[r]]
  BY DEF Register, RegistryBecomes
<1> QED BY <1>1 DEF IInv, ContractsOK, Registry, Statuses

LEMMA AddClaimableBatchedOK ==
  ASSUME IInv, AddClaimableBatched
  PROVE  IInv'
<1>1. work \in VerifyWork /\ Verifying
      /\ work.add \cap WithHardware \subseteq Backed
  BY VerifyingWork DEF AddClaimableBatched
<1>2. work.round \in Rounds /\ work.left \subseteq Relays
  BY <1>1 DEF VerifyWork
<1>3. registry' \in Registry /\ Grows
  <2>1. Grows
    BY GrowsKept DEF AddClaimableBatched, proofs
  <2>2. UNCHANGED registry => registry' \in Registry
    BY DEF IInv, ContractsOK
  <2>3. UNCHANGED registry \/ \E B : Register(B)
    BY Zenon DEF AddClaimableBatched
  <2> QED BY <2>1, <2>2, <2>3, RegisterTyped
<1>4. ContractsOK' /\ StateOK' /\ DocsOK' /\ BonusOK'
  BY <1>3, StateKept, DocsKept, BonusKept
     DEF AddClaimableBatched, proofs, IInv, ContractsOK
<1>5. CASE Ends(work.round, Verified("Failed"))
  BY <1>1, <1>2, <1>3, <1>4, <1>5, EndsKept, VerifiedGood DEF IInv, Verifying
<1>6. ASSUME NEW B, work' = [work EXCEPT !.left = @ \ B], UNCHANGED <<output, waiting>>
      PROVE  IInv'
  <2>1. work' \in VerifyWork /\ work'.state = work.state /\ work'.add = work.add
    BY <1>1, <1>2, <1>6 DEF VerifyWork
  <2>2. work.add \cap WithHardware \subseteq Backed'
    BY <1>1, <1>3 DEF Grows
  <2>3. WorkOK'
    BY <2>1, <2>2 DEF WorkOK
  <2> QED BY <1>3, <1>4, <1>6, <2>3, OutputKept, QueueSame DEF IInv
<1> QED BY <1>5, <1>6, Zenon DEF AddClaimableBatched

LEMMA VerifyEndsOK ==
  ASSUME IInv, VerifyEnds
  PROVE  IInv'
<1>1. Grows
  BY GrowsKept DEF VerifyEnds, contracts, proofs
<1>2. work.round \in Rounds /\ Verifying
  BY VerifyingWork DEF VerifyEnds, VerifyWork
<1>3. WorkOK' /\ OutputOK' /\ QueueOK'
  BY <1>1, <1>2, EndsKept, VerifiedGood DEF VerifyEnds, Verifying
<1>4. ContractsOK' /\ StateOK' /\ DocsOK' /\ BonusOK'
  BY <1>1, StateKept, DocsKept, BonusKept
     DEF VerifyEnds, contracts, proofs, reads, IInv, ContractsOK
<1> QED BY <1>3, <1>4 DEF IInv

LEMMA SetRelayFamiliesOK ==
  ASSUME IInv, NEW v \in Rounds, SetRelayFamilies(v)
  PROVE  IInv'
<1>1. Grows
  BY GrowsKept DEF SetRelayFamilies, proofs
<1>2. GoodOutput(output[v])
  BY DEF IInv, OutputOK
<1>3. WorkOK' /\ OutputOK' /\ QueueOK'
  BY <1>1, <1>2, EndsKept, GoodEmpty DEF SetRelayFamilies, Takes
<1>4. ContractsOK' /\ StateOK' /\ DocsOK' /\ BonusOK'
  BY <1>1, StateKept, Refreshed, DocsKept, BonusKept
     DEF SetRelayFamilies, contracts, proofs, IInv, ContractsOK
<1> QED BY <1>3, <1>4 DEF IInv

\* A job that fails leaves the queue.
LEMMA SetRelayFamiliesFailsOK ==
  ASSUME IInv, NEW v \in Rounds, SetRelayFamiliesFails(v)
  PROVE  IInv'
<1>1. Grows /\ UNCHANGED <<work, output>>
  BY GrowsKept DEF SetRelayFamiliesFails, proofs
<1>2. QueueOK'
  BY QueueKept DEF SetRelayFamiliesFails, Takes
<1>3. ContractsOK' /\ StateOK' /\ DocsOK' /\ BonusOK'
  BY <1>1, StateKept, DocsKept, BonusKept
     DEF SetRelayFamiliesFails, contracts, proofs, reads, IInv, ContractsOK
<1> QED BY <1>1, <1>2, <1>3, WorkKept, OutputKept DEF IInv

LEMMA SetHardwareBonusRelaysOK ==
  ASSUME IInv, NEW v \in Rounds, SetHardwareBonusRelays(v)
  PROVE  IInv'
<1>1. Grows
  BY GrowsKept DEF SetHardwareBonusRelays, proofs
<1>2. GoodOutput(output[v]) /\ output[v].validated \subseteq Backed
  BY DEF IInv, OutputOK, GoodOutput
<1>3. WorkOK' /\ OutputOK' /\ QueueOK'
  BY <1>1, <1>2, EndsKept, GoodEmpty DEF SetHardwareBonusRelays, Takes
<1>4. bonus' \subseteq bonus \cup output[v].validated
  BY DEF SetHardwareBonusRelays
<1>5. BonusOK'
  BY <1>1, <1>2, <1>4 DEF BonusOK, IInv, Grows
<1>6. ContractsOK' /\ StateOK' /\ DocsOK'
  BY <1>1, StateKept, DocsKept DEF SetHardwareBonusRelays, proofs, reads, IInv, ContractsOK
<1> QED BY <1>3, <1>5, <1>6 DEF IInv

LEMMA ConfirmVerificationOK ==
  ASSUME IInv, NEW v \in Rounds, ConfirmVerification(v)
  PROVE  IInv'
<1>1. Grows
  BY GrowsKept DEF ConfirmVerification, contracts, proofs
<1>2. GoodOutput(output[v])
  BY DEF IInv, OutputOK
<1>3. WorkOK' /\ OutputOK' /\ QueueOK'
  BY <1>1, <1>2, EndsKept, GoodEmpty DEF ConfirmVerification, Takes
<1>4. ContractsOK' /\ StateOK' /\ DocsOK' /\ BonusOK'
  BY <1>1, StateKept, DocsKept, BonusKept
     DEF ConfirmVerification, contracts, proofs, reads, IInv, ContractsOK
<1> QED BY <1>3, <1>4 DEF IInv

LEMMA PersistVerificationOK ==
  ASSUME IInv, NEW v \in Rounds, PersistVerification(v)
  PROVE  IInv'
<1>1. Grows
  BY GrowsKept DEF PersistVerification, contracts, proofs
<1>2. ASSUME Ends(v, Empty) PROVE WorkOK' /\ OutputOK' /\ QueueOK'
  BY <1>1, <1>2, EndsKept, GoodEmpty DEF PersistVerification, Takes
<1>3. ASSUME work' = [round |-> v, job |-> "persist", step |-> "metrics",
                      retries |-> MaxUploadRetries, metrics |-> FALSE,
                      stats |-> FALSE, given |-> [metrics |-> FALSE, stats |-> FALSE]],
             waiting' = Tail(waiting), UNCHANGED output
      PROVE  WorkOK' /\ OutputOK' /\ QueueOK'
  <2>1. PersistWork(work)' /\ ~Verifying'
    BY <1>3 DEF PersistWork, Verifying
  <2>2. QueueOK'
    BY <1>3, QueueKept, Zenon DEF PersistVerification, Takes
  <2> QED BY <1>1, <1>3, <2>1, <2>2, OutputKept DEF WorkOK
<1>4. WorkOK' /\ OutputOK' /\ QueueOK'
  BY <1>2, <1>3, Zenon DEF PersistVerification
<1>5. ContractsOK' /\ StateOK' /\ DocsOK' /\ BonusOK'
  BY <1>1, StateKept, DocsKept, BonusKept
     DEF PersistVerification, contracts, proofs, reads, IInv, ContractsOK
<1> QED BY <1>4, <1>5 DEF IInv

LEMMA RecoverPersistVerificationOK ==
  ASSUME IInv, NEW v \in Rounds, RecoverPersistVerification(v)
  PROVE  IInv'
<1>1. Grows /\ UNCHANGED output
  BY GrowsKept DEF RecoverPersistVerification, contracts, proofs
<1>2. ASSUME NEW g, work' = [round |-> v, job |-> "recover", step |-> "metrics",
                             retries |-> recovery[v].retries - 1, metrics |-> g.metrics,
                             stats |-> g.stats, given |-> g]
      PROVE  WorkOK'
  <2>1. PersistWork(work)' /\ ~Verifying'
    BY <1>2 DEF PersistWork, Verifying
  <2> QED BY <2>1 DEF WorkOK
<1>3. WorkOK'
  BY <1>1, <1>2, WorkKept DEF RecoverPersistVerification
<1>4. ContractsOK' /\ StateOK' /\ OutputOK' /\ DocsOK' /\ BonusOK'
  BY <1>1, StateKept, OutputKept, DocsKept, BonusKept
     DEF RecoverPersistVerification, contracts, proofs, reads, IInv, ContractsOK
<1>5. QueueOK'
  BY QueueKept DEF RecoverPersistVerification, Takes
<1> QED BY <1>3, <1>4, <1>5 DEF IInv

LEMMA StoreOK ==
  ASSUME IInv, NEW step \in {"metrics", "stats"}, Store(step)
  PROVE  IInv'
<1>1. Grows /\ UNCHANGED output
  BY GrowsKept DEF Store, contracts, proofs, flow
<1>2. PersistWork(work)
  BY PersistingWork DEF Store
<1>3. PICK ok : work' = [work EXCEPT ![step] = ok, !.step = StoreNext(step)]
                \/ work' = [work EXCEPT !.step = StoreNext(step)]
  BY DEF Store
<1>4. PersistWork(work)' /\ ~Verifying'
  BY <1>2, <1>3 DEF PersistWork, Verifying
<1>5. WorkOK'
  BY <1>4 DEF WorkOK
<1>6. ContractsOK' /\ StateOK' /\ OutputOK' /\ DocsOK' /\ BonusOK' /\ QueueOK'
  BY <1>1, StateKept, QueueSame, OutputKept, DocsKept, BonusKept
     DEF Store, contracts, proofs, reads, flow, IInv, ContractsOK
<1> QED BY <1>5, <1>6 DEF IInv

\* What the worker holds stays the uploads of the round.
LEMMA SteppedOK ==
  ASSUME PersistWork(work), NEW next, work' = [work EXCEPT !.step = next]
  PROVE  WorkOK'
<1>1. PersistWork(work)' /\ ~Verifying'
  BY DEF PersistWork, Verifying
<1> QED BY <1>1 DEF WorkOK

LEMMA CreateVerificationDataOK ==
  ASSUME IInv, CreateVerificationData
  PROVE  IInv'
<1>1. Grows /\ UNCHANGED <<output, waiting>>
  BY GrowsKept DEF CreateVerificationData, proofs, flow
<1>2. WorkOK'
  BY PersistingWork, SteppedOK DEF CreateVerificationData
<1>3. DocsOK'
  <2>1. CASE docs' = docs
    BY <2>1, DocsKept
  <2>2. CASE docs' = Append(docs, Document(work.round))
    <3>1. PICK d : d = Document(work.round)
      OBVIOUS
    <3>2. PICK S : docs \in Seq(S)
      BY DEF IInv, DocsOK
    <3>3. docs \in Seq(S \cup {d})
      BY <3>2
    <3>4. docs' \in Seq(S \cup {d})
      BY <2>2, <3>1, <3>3
    <3> QED BY <3>4 DEF DocsOK
  <2> QED BY <2>1, <2>2 DEF CreateVerificationData
<1>4. ContractsOK' /\ StateOK' /\ BonusOK' /\ OutputOK' /\ QueueOK'
  BY <1>1, StateKept, BonusKept, OutputKept, QueueSame
     DEF CreateVerificationData, contracts, proofs, reads, flow, IInv, ContractsOK
<1> QED BY <1>2, <1>3, <1>4 DEF IInv

LEMMA StoreRelayHexMapOK ==
  ASSUME IInv, StoreRelayHexMap
  PROVE  IInv'
<1>1. Grows /\ UNCHANGED <<output, waiting>>
  BY GrowsKept DEF StoreRelayHexMap, proofs, flow
<1>2. WorkOK'
  BY PersistingWork, SteppedOK DEF StoreRelayHexMap
<1>3. ContractsOK' /\ StateOK' /\ BonusOK' /\ OutputOK' /\ QueueOK' /\ DocsOK'
  BY <1>1, StateKept, BonusKept, OutputKept, QueueSame, DocsKept
     DEF StoreRelayHexMap, contracts, proofs, reads, flow, IInv, ContractsOK
<1> QED BY <1>2, <1>3 DEF IInv

LEMMA PersistEndsOK ==
  ASSUME IInv, PersistEnds
  PROVE  IInv'
<1>1. Grows
  BY GrowsKept DEF PersistEnds, proofs
<1>2. work.round \in Rounds
  BY PersistingWork DEF PersistEnds, PersistWork
<1>3. GoodOutput(output[work.round])
  BY <1>2 DEF IInv, OutputOK
<1>4. WorkOK' /\ OutputOK' /\ QueueOK'
  <2>1. CASE Ends(work.round, output[work.round])
    BY <1>1, <1>2, <1>3, <2>1, EndsKept DEF PersistEnds, Persisting
  <2>2. CASE work' = NoJob /\ UNCHANGED <<output, waiting>>
    BY <1>1, <2>2, OutputKept, QueueSame DEF WorkOK, Verifying
  <2> QED BY <2>1, <2>2 DEF PersistEnds
<1>5. ContractsOK' /\ StateOK' /\ BonusOK' /\ DocsOK'
  BY <1>1, StateKept, BonusKept, DocsKept
     DEF PersistEnds, contracts, proofs, reads, IInv, ContractsOK
<1> QED BY <1>4, <1>5 DEF IInv

LEMMA RecoveryAddedOK ==
  ASSUME IInv, NEW v \in Rounds, RecoveryAdded(v)
  PROVE  IInv'
<1>1. Grows
  BY GrowsKept DEF RecoveryAdded, proofs
<1>2. QueueOK'
  BY QueueKept DEF RecoveryAdded
<1> QED BY <1>1, <1>2, StateKept, WorkKept, OutputKept, DocsKept, BonusKept
        DEF RecoveryAdded, contracts, proofs, reads, IInv, ContractsOK

LEMMA DistributeMostRecentOK ==
  ASSUME IInv, NEW v \in Rounds, DistributeMostRecent(v)
  PROVE  IInv'
<1>1. Grows
  BY GrowsKept DEF DistributeMostRecent, proofs
<1> QED BY <1>1, StateKept, QueueSame, WorkKept, OutputKept, DocsKept, BonusKept
        DEF DistributeMostRecent, contracts, proofs, reads, IInv, ContractsOK

\* The steps of the world outside: the owner of a relay, its NFT, the time.
LEMMA ClaimOK ==
  ASSUME IInv, NEW r \in Relays, Claim(r) \/ Remove(r)
  PROVE  IInv'
<1>1. \E c \in Statuses : registry' = [registry EXCEPT ![r] = c]
  BY DEF Claim, Remove, RegistryBecomes, Statuses
<1>2. registry' \in Registry
  BY <1>1 DEF IInv, ContractsOK, Registry
<1>3. Grows
  BY GrowsKept DEF Claim, Remove, proofs
<1> QED BY <1>2, <1>3, StateKept, QueueSame, WorkKept, OutputKept, DocsKept, BonusKept
        DEF Claim, Remove, proofs, flow, IInv, ContractsOK

LEMMA TransferOK ==
  ASSUME IInv, NEW r \in Relays, Transfer(r)
  PROVE  IInv'
<1>1. Grows
  BY GrowsKept DEF Transfer
<1> QED BY <1>1, StateKept, QueueSame, WorkKept, OutputKept, DocsKept, BonusKept
        DEF Transfer, contracts, reads, flow, IInv, ContractsOK

LEMMA CoolsOK ==
  ASSUME IInv, Cools
  PROVE  IInv'
<1>1. Grows
  BY GrowsKept DEF Cools, proofs
<1> QED BY <1>1, StateKept, QueueSame, WorkKept, OutputKept, DocsKept, BonusKept
        DEF Cools, contracts, proofs, flow, IInv, ContractsOK

\* A crash may leave some of the bonus of a round sent, all of it from an output.
LEMMA CrashOK ==
  ASSUME IInv, Crash
  PROVE  IInv'
<1>1. Grows
  BY GrowsKept DEF Crash, proofs
<1>2. PICK S : waiting \in Seq(Rounds \X S)
  BY DEF IInv, QueueOK
<1>3. PICK T : /\ waiting \in Seq(Rounds \X T)
               /\ \A job \in Running : job \subseteq Rounds \X T
  <2>1. CASE work # NoJob
    <3> DEFINE j == <<work.round, work.job>>
               T == S \cup {work.job}
    <3>1. work.round \in Rounds
      BY <2>1 DEF IInv, WorkOK, VerifyWork, PersistWork
    <3>2. j \in Rounds \X T /\ Rounds \X S \subseteq Rounds \X T
      BY <3>1
    <3>3. Running = {{j}}
      BY <2>1 DEF Running
    <3> HIDE DEF j
    <3>4. \A job \in Running : job \subseteq Rounds \X T
      BY <3>2, <3>3
    <3> HIDE DEF T
    <3>5. waiting \in Seq(Rounds \X T)
      BY <1>2, <3>2
    <3> QED BY <3>4, <3>5
  <2>2. CASE work = NoJob
    <3>1. \A i \in {1} \cap DOMAIN waiting : Head(waiting) \in Rounds \X S
      BY <1>2
    <3>2. \A job \in Running : job \subseteq Rounds \X S
      BY <2>2, <3>1 DEF Running
    <3> QED BY <1>2, <3>2
  <2> QED BY <2>1, <2>2
<1>4. PICK job \in Running :
        LET dead == job \cap stalled
            others == IF work = NoJob /\ job # {} THEN Tail(waiting) ELSE waiting
        IN
          /\ IF job \ dead = {} THEN waiting' = others
             ELSE \E j \in job, i \in 0..Len(others) :
                    waiting' = SubSeq(others, 1, i) \o <<j>>
                                 \o SubSeq(others, i + 1, Len(others))
          /\ \E sent \in SUBSET UNION {output[j[1]].validated :
                                    j \in {i \in job : i[2] = "bonus"}} :
               bonus' = bonus \cup sent
  BY Zenon DEF Crash
<1>5. QueueOK'
  <2> DEFINE J == Rounds \X T
             others == IF work = NoJob /\ job # {} THEN Tail(waiting) ELSE waiting
  <2>1. job \subseteq J
    BY <1>3
  <2>2. work = NoJob /\ job # {} => waiting # <<>>
    BY <1>3 DEF Running
  <2>3. J = Rounds \X T
    OBVIOUS
  <2>4. waiting \in Seq(J)
    BY <1>3
  <2> HIDE DEF J
  <2>5. others \in Seq(J)
    BY <2>2, <2>4
  <2> HIDE DEF others
  <2>6. waiting' = others \/ \E j \in job, i \in 0..Len(others) :
                    waiting' = SubSeq(others, 1, i) \o <<j>>
                                 \o SubSeq(others, i + 1, Len(others))
    BY <1>4 DEF others
  <2>7. ASSUME NEW j \in job, NEW i \in 0..Len(others)
        PROVE  SubSeq(others, 1, i) \o <<j>> \o SubSeq(others, i + 1, Len(others))
                 \in Seq(J)
    <3>1. SubSeq(others, 1, i) \in Seq(J) /\ SubSeq(others, i + 1, Len(others)) \in Seq(J)
      BY <2>5
    <3>2. <<j>> \in Seq(J)
      BY <2>1
    <3> QED BY <3>1, <3>2
  <2>8. waiting' \in Seq(J)
    BY <2>5, <2>6, <2>7
  <2> QED BY <2>3, <2>8 DEF QueueOK
<1>6. BonusOK'
  <2>1. \A j \in job : j[1] \in Rounds
    BY <1>3
  <2>2. \A j \in job : output[j[1]].validated \subseteq Backed
    BY <2>1 DEF IInv, OutputOK, GoodOutput
  <2>3. bonus' \subseteq bonus \cup Backed
    BY <1>4, <2>2
  <2> QED BY <1>1, <2>3 DEF Grows, BonusOK, IInv
<1>7. StateOK' /\ WorkOK'
  BY DEF Crash, StateOK, WorkOK, Verifying
<1>8. ContractsOK' /\ OutputOK' /\ DocsOK'
  BY <1>1, OutputKept, DocsKept DEF Crash, flow, proofs, IInv, ContractsOK
<1> QED BY <1>5, <1>6, <1>7, <1>8 DEF IInv

-----------------------------------------------------------------------------
LEMMA NextIInv ==
  ASSUME IInv, [Next]_vars
  PROVE  IInv'
<1>1. CASE UNCHANGED vars
  <2>1. Grows
    BY <1>1, GrowsKept DEF vars, proofs
  <2> QED BY <1>1, <2>1, StateKept, WorkKept, OutputKept, DocsKept, BonusKept, QueueSame
          DEF vars, contracts, proofs, reads, flow, IInv, ContractsOK
<1>2. CASE Worker
  BY <1>2, VerifyRelaysOK, SetRelayFamiliesOK, SetRelayFamiliesFailsOK,
     SetHardwareBonusRelaysOK, ConfirmVerificationOK, PersistVerificationOK,
     RecoverPersistVerificationOK, CheckHardwareOK, AddClaimableBatchedOK, VerifyEndsOK, StoreOK,
     CreateVerificationDataOK, StoreRelayHexMapOK, PersistEndsOK
     DEF Worker
<1> QED BY <1>1, <1>2, StartRoundOK, RecoveryAddedOK, DistributeMostRecentOK, ClaimOK,
           TransferOK, CoolsOK, CrashOK
        DEF Next

\* A relay that has the bonus of the distribution contract has a document of its
\* hardware, the first of the facts that HardwareRecorded states.
THEOREM BonusIsRecorded == Spec => [](\A r \in bonus : hardware[r] > 0)
<1>1. IInv => \A r \in bonus : hardware[r] > 0
  BY DEF IInv, BonusOK, Backed
<1> QED BY <1>1, InitIInv, NextIInv, PTL DEF Spec

-----------------------------------------------------------------------------
Elems(s) == {s[i] : i \in 1..Len(s)}
Distinct(s) == \A i, k \in 1..Len(s) : s[i] = s[k] => i = k
\* Wherever x and y stand in s, x comes first.
Before(s, x, y) == \A i, k \in 1..Len(s) : s[i] = x /\ s[k] = y => i < k

LEMMA ElemsAppend ==
  ASSUME NEW S, NEW s \in Seq(S), Distinct(s), NEW x \in S, x \notin Elems(s)
  PROVE  /\ Append(s, x) \in Seq(S) /\ Distinct(Append(s, x))
         /\ Elems(Append(s, x)) = Elems(s) \cup {x}
         /\ \A y, z \in Elems(s) : Before(s, y, z) => Before(Append(s, x), y, z)
         /\ \A y \in Elems(s) : Before(Append(s, x), y, x)
<1> DEFINE t == Append(s, x)
           n == Len(s) + 1
<1>1. /\ Len(s) \in Nat /\ t \in Seq(S) /\ Len(t) = n /\ t[n] = x
      /\ \A i \in 1..Len(s) : t[i] = s[i]
  BY AppendProperties, LenProperties
<1> HIDE DEF t
<1>2. \A i \in 1..n : i \in 1..Len(s) \/ i = n
  BY <1>1
<1>3. \A i \in 1..Len(s) : s[i] # x /\ i < n /\ i \in 1..n
  BY <1>1 DEF Elems
<1>4. Elems(t) = Elems(s) \cup {x}
  <2>1. n \in 1..n
    BY <1>1
  <2> QED BY <1>1, <1>2, <1>3, <2>1 DEF Elems
<1>5. Distinct(t)
  <2> SUFFICES ASSUME NEW i \in 1..n, NEW k \in 1..n, t[i] = t[k] PROVE i = k
    BY <1>1 DEF Distinct
  <2> QED BY <1>1, <1>2, <1>3 DEF Distinct
<1>6. ASSUME NEW y \in Elems(s), NEW z \in Elems(s), Before(s, y, z) PROVE Before(t, y, z)
  <2>1. y # x /\ z # x
    BY <1>6
  <2> QED BY <1>1, <1>2, <1>6, <2>1 DEF Before
<1>7. ASSUME NEW y \in Elems(s) PROVE Before(t, y, x)
  BY <1>1, <1>2, <1>3, <1>7 DEF Before
<1> QED BY <1>1, <1>4, <1>5, <1>6, <1>7 DEF t

LEMMA ElemsTail ==
  ASSUME NEW S, NEW s \in Seq(S), Distinct(s), s # <<>>
  PROVE  /\ Tail(s) \in Seq(S) /\ Distinct(Tail(s)) /\ Head(s) \in S
         /\ Elems(Tail(s)) = Elems(s) \ {Head(s)} /\ Head(s) \in Elems(s)
         /\ \A y, z : Before(s, y, z) => Before(Tail(s), y, z)
         /\ \A y \in Elems(s) : ~Before(s, y, Head(s))
<1> DEFINE t == Tail(s)
<1>1. /\ t \in Seq(S) /\ Head(s) \in S /\ Head(s) = s[1] /\ Len(s) \in Nat \ {0}
      /\ Len(t) = Len(s) - 1 /\ \A i \in 1..Len(t) : t[i] = s[i + 1]
  BY HeadTailProperties, EmptySeq
<1> HIDE DEF t
<1>2. \A i \in 1..Len(t) : i + 1 \in 1..Len(s) /\ i + 1 # 1 /\ t[i] = s[i + 1]
  BY <1>1
<1>3. \A i \in 1..Len(s) : i = 1 \/ (i - 1 \in 1..Len(t) /\ t[i - 1] = s[i])
  BY <1>1
<1>4. 1 \in 1..Len(s)
  BY <1>1
<1>5. Distinct(t)
  <2> SUFFICES ASSUME NEW i \in 1..Len(t), NEW k \in 1..Len(t), t[i] = t[k] PROVE i = k
    BY DEF Distinct
  <2>1. i + 1 = k + 1
    BY <1>2 DEF Distinct
  <2> QED BY <2>1
<1>6. Elems(t) = Elems(s) \ {s[1]}
  <2>1. ASSUME NEW y \in Elems(t) PROVE y \in Elems(s) \ {s[1]}
    BY <1>2, <1>4, <2>1 DEF Elems, Distinct
  <2>2. ASSUME NEW y \in Elems(s) \ {s[1]} PROVE y \in Elems(t)
    BY <1>3, <2>2 DEF Elems
  <2> QED BY <2>1, <2>2
<1>7. s[1] \in Elems(s)
  BY <1>4 DEF Elems
<1>8. ASSUME NEW y, NEW z, Before(s, y, z) PROVE Before(t, y, z)
  <2> SUFFICES ASSUME NEW i \in 1..Len(t), NEW k \in 1..Len(t), t[i] = y, t[k] = z PROVE i < k
    BY DEF Before
  <2>1. i + 1 < k + 1
    BY <1>2, <1>8 DEF Before
  <2> QED BY <2>1
<1>9. ASSUME NEW y \in Elems(s) PROVE ~Before(s, y, s[1])
  <2>1. PICK i \in 1..Len(s) : s[i] = y
    BY <1>9 DEF Elems
  <2>2. ~(i < 1)
    OBVIOUS
  <2> QED BY <1>4, <2>1, <2>2 DEF Before
<1> QED BY <1>1, <1>5, <1>6, <1>7, <1>8, <1>9 DEF t

\* s with x after its first p elements.
Inserted(s, x, p) == SubSeq(s, 1, p) \o <<x>> \o SubSeq(s, p + 1, Len(s))

LEMMA ElemsInsert ==
  ASSUME NEW S, NEW s \in Seq(S), Distinct(s), NEW x \in S, x \notin Elems(s),
         NEW p \in 0..Len(s)
  PROVE  /\ Inserted(s, x, p) \in Seq(S) /\ Distinct(Inserted(s, x, p))
         /\ Elems(Inserted(s, x, p)) = Elems(s) \cup {x}
<1>0. PICK t : t = Inserted(s, x, p)
  OBVIOUS
<1>1. PICK n \in Nat : n = Len(s)
  BY LenProperties
<1>2. p \in Nat /\ p <= n /\ n + 1 \in Nat
  BY <1>1
<1>3. PICK a : a = SubSeq(s, 1, p)
  OBVIOUS
<1>4. PICK c : c = SubSeq(s, p + 1, n)
  OBVIOUS
<1>5. a \in Seq(S) /\ Len(a) = p /\ \A i \in 1..p : a[i] = s[i]
  BY <1>1, <1>2, <1>3
<1>6. c \in Seq(S) /\ Len(c) = n - p /\ \A i \in 1..(n - p) : c[i] = s[p + i]
  BY <1>1, <1>2, <1>4
<1>7. <<x>> \in Seq(S) /\ Len(<<x>>) = 1 /\ <<x>>[1] = x
  OBVIOUS
<1>8. PICK d : d = a \o <<x>>
  OBVIOUS
<1>9. /\ d \in Seq(S) /\ Len(d) = p + 1 /\ d[p + 1] = x
      /\ \A i \in 1..p : d[i] = s[i]
  BY <1>2, <1>5, <1>7, <1>8
<1>10. t = d \o c
  BY <1>0, <1>1, <1>3, <1>4, <1>8 DEF Inserted
<1>11. /\ t \in Seq(S) /\ Len(t) = n + 1
       /\ \A i \in 1..(n + 1) : t[i] = IF i <= p + 1 THEN d[i] ELSE c[i - (p + 1)]
  <2>1. Len(d) + Len(c) = n + 1
    BY <1>2, <1>6, <1>9
  <2>2. /\ d \o c \in Seq(S) /\ Len(d \o c) = Len(d) + Len(c)
        /\ \A i \in 1..(Len(d) + Len(c)) :
             (d \o c)[i] = IF i <= Len(d) THEN d[i] ELSE c[i - Len(d)]
    BY <1>6, <1>9, ConcatProperties
  <2>3. Len(d) = p + 1
    BY <1>9
  <2> QED BY <1>10, <2>1, <2>2, <2>3, Zenon
<1>12. ASSUME NEW i \in 1..p PROVE i \in 1..n /\ i \in 1..(n + 1) /\ t[i] = s[i]
  <2>1. i \in 1..n /\ i \in 1..(n + 1) /\ i <= p + 1
    BY <1>2
  <2> QED BY <1>9, <1>11, <2>1
<1>13. p + 1 \in 1..(n + 1) /\ t[p + 1] = x
  <2>1. p + 1 \in 1..(n + 1) /\ p + 1 <= p + 1
    BY <1>2
  <2> QED BY <1>9, <1>11, <2>1
<1>14. ASSUME NEW i \in (p + 1)..n PROVE i + 1 \in 1..(n + 1) /\ t[i + 1] = s[i]
  <2>1. i + 1 \in 1..(n + 1) /\ ~(i + 1 <= p + 1) /\ (i + 1) - (p + 1) = i - p
    BY <1>2
  <2>2. i - p \in 1..(n - p) /\ p + (i - p) = i
    BY <1>2
  <2> QED BY <1>6, <1>11, <2>1, <2>2
<1>15. ASSUME NEW i \in 1..(n + 1)
       PROVE  \/ i = p + 1
              \/ \E k \in 1..n : t[i] = s[k] /\ i = IF k <= p THEN k ELSE k + 1
  <2>1. CASE i > p + 1
    <3>1. i - 1 \in (p + 1)..n /\ i - 1 \in 1..n /\ i = (i - 1) + 1 /\ ~(i - 1 <= p)
      BY <1>2, <2>1
    <3>2. t[i] = s[i - 1]
      BY <1>14, <3>1
    <3> QED BY <3>1, <3>2
  <2>2. CASE i \in 1..p
    <3>1. i \in 1..n /\ t[i] = s[i]
      BY <1>12, <2>2
    <3>2. i <= p
      BY <1>2, <2>2
    <3> QED BY <3>1, <3>2
  <2>3. i > p + 1 \/ i \in 1..p \/ i = p + 1
    BY <1>2
  <2> QED BY <2>1, <2>2, <2>3, Zenon
<1>17. \A i \in 1..n : s[i] # x
  BY <1>1 DEF Elems
<1>18. \A i, k \in 1..n : s[i] = s[k] => i = k
  BY <1>1 DEF Distinct
<1>19. Distinct(t)
  <2> SUFFICES ASSUME NEW i \in 1..(n + 1), NEW k \in 1..(n + 1), t[i] = t[k] PROVE i = k
    BY <1>11 DEF Distinct
  <2>1. CASE i = p + 1
    BY <1>13, <1>15, <1>17, <2>1
  <2>2. CASE k = p + 1
    BY <1>13, <1>15, <1>17, <2>2
  <2>3. ASSUME NEW f \in 1..n, t[i] = s[f], i = (IF f <= p THEN f ELSE f + 1),
               NEW g \in 1..n, t[k] = s[g], k = (IF g <= p THEN g ELSE g + 1)
        PROVE  i = k
    BY <1>18, <2>3
  <2> QED BY <1>15, <2>1, <2>2, <2>3
<1>20. Elems(t) = Elems(s) \cup {x}
  <2>1. Elems(t) = {t[i] : i \in 1..(n + 1)} /\ Elems(s) = {s[i] : i \in 1..n}
    BY <1>1, <1>11 DEF Elems
  <2>2. ASSUME NEW i \in 1..(n + 1) PROVE t[i] \in Elems(s) \cup {x}
    BY <1>13, <1>15, <2>1
  <2>3. ASSUME NEW i \in 1..n PROVE s[i] \in Elems(t)
    <3>1. CASE i \in 1..p
      BY <1>12, <2>1, <3>1
    <3>2. CASE i \in (p + 1)..n
      BY <1>14, <2>1, <3>2
    <3> QED BY <1>2, <3>1, <3>2
  <2>4. x \in Elems(t)
    BY <1>13, <2>1
  <2> QED BY <2>1, <2>2, <2>3, <2>4
<1> QED BY <1>0, <1>11, <1>19, <1>20, Zenon

----------------------------------------------------------------------------
FlowJobs == {"verify", "families", "bonus", "confirm", "persist"}
JobNames == FlowJobs \cup {"recover"}
StageNames == FlowJobs \cup {"none", "failed", "distribute", "done"}

Active == IF work = NoJob THEN {} ELSE {<<work.round, work.job>>}
Due(x) == IF x[2] = "recover" THEN recovery[x[1]] # NoJob /\ recovery[x[1]].sent
          ELSE stage[x[1]] = x[2]

Typed == /\ work \in VerifyWork \cup UploadWork \cup {NoJob}
         /\ stage \in [Rounds -> StageNames]
         /\ recovery \in [Rounds -> Recoveries \cup {NoJob}]
Queued ==
  /\ waiting \in Seq(Rounds \X JobNames) /\ Distinct(waiting)
  /\ Active \cap Elems(waiting) = {}
  /\ \A x \in Elems(waiting) \cup Active : Due(x)
  /\ \A v \in Rounds : recovery[v] # NoJob => stage[v] \in {"distribute", "done"}
  /\ work # NoJob /\ work.job = "recover" => work.retries = recovery[work.round].retries - 1

Flowing == Typed /\ Queued

LEMMA AfterStage ==
  /\ After("verify") = "families" /\ After("families") = "bonus"
  /\ After("bonus") = "confirm" /\ After("confirm") = "persist"
  /\ After("persist") = "distribute"
<1>1. ASSUME NEW j \in 1..6 PROVE After(Stages[j]) = Stages[1 + j]
  <2>1. \A i \in 1..6 : Stages[i] = Stages[j] => i = j
    BY DEF Stages
  <2>2. (CHOOSE i \in 1..6 : Stages[i] = Stages[j]) = j
    BY <2>1
  <2> QED BY <2>2 DEF After
<1>2. /\ After(Stages[1]) = Stages[2] /\ After(Stages[2]) = Stages[3]
      /\ After(Stages[3]) = Stages[4] /\ After(Stages[4]) = Stages[5]
      /\ After(Stages[5]) = Stages[6]
  BY <1>1
<1> QED BY <1>2 DEF Stages

LEMMA AfterFlow ==
  ASSUME NEW j \in FlowJobs
  PROVE  /\ After(j) \in StageNames \ {"none", "verify", "failed", "done"}
         /\ After(j) # j /\ After(j) # "recover"
         /\ After(j) # "distribute" => After(j) \in FlowJobs /\ j # "persist"
         /\ j = "persist" => After(j) = "distribute"
BY AfterStage DEF FlowJobs, StageNames

LEMMA NotWork == \A w \in VerifyWork \cup UploadWork : w # NoJob
BY VerificationAssumption

\* What the worker holds and what waits.
LEMMA ActiveTyped ==
  ASSUME Flowing
  PROVE  /\ Active \subseteq Rounds \X JobNames
         /\ Elems(waiting) \subseteq Rounds \X JobNames
         /\ work # NoJob => /\ work \in VerifyWork \cup UploadWork
                            /\ work.round \in Rounds /\ work.job \in {"verify", "persist", "recover"}
                            /\ Active = {<<work.round, work.job>>}
         /\ work # NoJob /\ work.job # "recover" => stage[work.round] = work.job
         /\ work # NoJob /\ work.job = "recover" =>
              recovery[work.round] # NoJob /\ recovery[work.round].sent
         /\ work = NoJob => Active = {}
<1>1. work # NoJob => /\ work \in VerifyWork \cup UploadWork
                      /\ work.round \in Rounds /\ work.job \in {"verify", "persist", "recover"}
  BY DEF Flowing, Typed, VerifyWork, UploadWork
<1>2. Active \subseteq Rounds \X JobNames
  BY <1>1 DEF Active, JobNames, FlowJobs
<1>3. Elems(waiting) \subseteq Rounds \X JobNames
  BY ElementOfSeq DEF Elems, Flowing, Queued
<1>4. work # NoJob => Due(<<work.round, work.job>>)
  BY DEF Flowing, Queued, Active
<1> QED BY <1>1, <1>2, <1>3, <1>4 DEF Active, Due

LEMMA TakesHead ==
  ASSUME Flowing, NEW v, NEW job, Takes(v, job)
  PROVE  /\ v \in Rounds /\ job \in JobNames /\ work = NoJob
         /\ <<v, job>> \in Elems(waiting) /\ Due(<<v, job>>)
         /\ Tail(waiting) \in Seq(Rounds \X JobNames) /\ Distinct(Tail(waiting))
         /\ Elems(Tail(waiting)) = Elems(waiting) \ {<<v, job>>}
         /\ job # "recover" => stage[v] = job
<1>1. waiting \in Seq(Rounds \X JobNames) /\ Distinct(waiting) /\ waiting # <<>>
      /\ Head(waiting) = <<v, job>> /\ work = NoJob
  BY DEF Flowing, Queued, Takes
<1>2. /\ Tail(waiting) \in Seq(Rounds \X JobNames) /\ Distinct(Tail(waiting))
      /\ <<v, job>> \in Rounds \X JobNames
      /\ Elems(Tail(waiting)) = Elems(waiting) \ {<<v, job>>}
      /\ <<v, job>> \in Elems(waiting)
  BY <1>1, ElemsTail
<1>3. Due(<<v, job>>)
  BY <1>2 DEF Flowing, Queued
<1> QED BY <1>1, <1>2, <1>3 DEF Due

\* The worker stays at its job.
SameJob == work # NoJob /\ work' # NoJob /\ work'.round = work.round /\ work'.job = work.job

LEMMA SameFlowing ==
  ASSUME Flowing, UNCHANGED <<waiting, stage, recovery>>,
         UNCHANGED work \/ SameJob, work' \in VerifyWork \cup UploadWork \cup {NoJob},
         SameJob /\ work.job = "recover" => work'.retries = work.retries
  PROVE  Flowing'
<1>1. Active' = Active
  BY DEF Active, SameJob
<1>2. Typed'
  BY DEF Flowing, Typed
<1>3. \A x \in Elems(waiting) \cup Active : Due(x)'
  BY DEF Flowing, Queued, Due
<1>4. work' # NoJob /\ work'.job = "recover" => work'.retries = recovery'[work'.round].retries - 1
  BY DEF Flowing, Queued, SameJob
<1>5. /\ waiting' \in Seq(Rounds \X JobNames) /\ Distinct(waiting')
      /\ Active' \cap Elems(waiting') = {}
      /\ \A v \in Rounds : recovery'[v] # NoJob => stage'[v] \in {"distribute", "done"}
  BY <1>1 DEF Flowing, Queued
<1> QED BY <1>1, <1>3, <1>2, <1>4, <1>5 DEF Flowing, Queued

LEMMA TakenFlowing ==
  ASSUME Flowing, NEW v \in Rounds, NEW job \in JobNames, Takes(v, job),
         waiting' = Tail(waiting), UNCHANGED <<stage, recovery>>,
         work' \in VerifyWork \cup UploadWork, work'.round = v, work'.job = job,
         job = "recover" => work'.retries = recovery[v].retries - 1
  PROVE  Flowing'
<1>1. Active' = {<<v, job>>}
  BY NotWork DEF Active
<1>2. /\ waiting' \in Seq(Rounds \X JobNames) /\ Distinct(waiting')
      /\ Elems(waiting') = Elems(waiting) \ {<<v, job>>} /\ <<v, job>> \in Elems(waiting)
  BY TakesHead
<1>3. Typed'
  BY DEF Flowing, Typed
<1>4. \A x \in Elems(waiting) : Due(x)'
  BY DEF Flowing, Queued, Due
<1> QED BY <1>1, <1>2, <1>3, <1>4 DEF Flowing, Queued

LEMMA DroppedFlowing ==
  ASSUME Flowing, NEW v \in Rounds, NEW job \in JobNames, Takes(v, job),
         waiting' = Tail(waiting), UNCHANGED <<stage, recovery, work>>
  PROVE  Flowing'
<1>1. Active' = Active
  BY DEF Active
<1>2. /\ waiting' \in Seq(Rounds \X JobNames) /\ Distinct(waiting')
      /\ Elems(waiting') = Elems(waiting) \ {<<v, job>>} /\ work = NoJob
  BY TakesHead
<1>3. Typed'
  BY DEF Flowing, Typed
<1>4. \A x \in Elems(waiting) \cup Active : Due(x)'
  BY DEF Flowing, Queued, Due
<1> QED BY <1>1, <1>2, <1>3, <1>4 DEF Flowing, Queued

\* The end of a job of the flow of v: its job is the first that waits or the one under way.
Doing(v, job) == Takes(v, job) \/ (work # NoJob /\ work.round = v /\ work.job = job)

LEMMA EndsQueue ==
  ASSUME Flowing, NEW v \in Rounds, NEW job \in FlowJobs, Doing(v, job), NEW o, Ends(v, o)
  PROVE  /\ stage[v] = job /\ work' = NoJob
         /\ stage' = [stage EXCEPT ![v] = After(job)]
         /\ waiting' \in Seq(Rounds \X JobNames) /\ Distinct(waiting')
         /\ Elems(waiting') = (Elems(waiting) \ {<<v, job>>})
                                \cup {<<v, j>> : j \in {After(job)} \ {"distribute"}}
         /\ recovery[v] = NoJob
<1> DEFINE rest == IF work = NoJob THEN Tail(waiting) ELSE waiting
           S == Rounds \X JobNames
<1>1. job # "recover" /\ job \in JobNames /\ job \notin {"distribute", "done"}
  BY DEF FlowJobs, JobNames
<1>2. /\ stage[v] = job /\ rest \in Seq(S) /\ Distinct(rest)
      /\ Elems(rest) = Elems(waiting) \ {<<v, job>>}
  <2>1. CASE Takes(v, job)
    BY <1>1, <2>1, TakesHead
  <2>2. CASE work # NoJob /\ work.round = v /\ work.job = job
    <3>1. stage[v] = job /\ Active = {<<v, job>>}
      BY <1>1, <2>2, ActiveTyped
    <3> QED BY <2>2, <3>1 DEF Flowing, Queued
  <2> QED BY <2>1, <2>2 DEF Doing
<1>3. /\ work' = NoJob /\ stage' = [stage EXCEPT ![v] = After(job)]
      /\ waiting' = IF After(job) = "distribute" THEN rest ELSE Append(rest, <<v, After(job)>>)
  BY <1>2 DEF Ends
<1>4. recovery[v] = NoJob
  BY <1>1, <1>2 DEF Flowing, Queued
<1> HIDE DEF rest
<1>5. CASE After(job) = "distribute"
  BY <1>2, <1>3, <1>4, <1>5
<1>6. CASE After(job) # "distribute"
  <2> DEFINE x == <<v, After(job)>>
  <2>1. /\ After(job) \in FlowJobs /\ After(job) # job /\ After(job) # "recover"
        /\ After(job) \in JobNames
    <3>1. After(job) \in FlowJobs /\ After(job) # job /\ After(job) # "recover"
      BY <1>6, AfterFlow, Zenon
    <3> QED BY <3>1, Zenon DEF JobNames
  <2>2. x \notin Elems(waiting)
    <3>1. ~Due(x)
      BY <1>2, <2>1 DEF Due
    <3> QED BY <3>1 DEF Flowing, Queued
  <2>3. x \in S /\ x \notin Elems(rest)
    BY <1>2, <2>1, <2>2
  <2>4. waiting' = Append(rest, x)
    BY <1>3, <1>6
  <2> HIDE DEF x, S
  <2>5. /\ waiting' \in Seq(S) /\ Distinct(waiting') /\ Elems(waiting') = Elems(rest) \cup {x}
    BY <1>2, <2>3, <2>4, ElemsAppend
  <2>6. {<<v, j>> : j \in {After(job)} \ {"distribute"}} = {x}
    BY <1>6 DEF x
  <2> QED BY <1>2, <1>3, <1>4, <2>5, <2>6 DEF S
<1> QED BY <1>5, <1>6

LEMMA EndsFlowing ==
  ASSUME Flowing, NEW v \in Rounds, NEW job \in FlowJobs, Doing(v, job), NEW o, Ends(v, o),
         recovery' \in [Rounds -> Recoveries \cup {NoJob}],
         \A u \in Rounds : recovery'[u] # recovery[u] => u = v /\ job = "persist"
  PROVE  Flowing'
<1>1. /\ stage[v] = job /\ work' = NoJob
      /\ stage' = [stage EXCEPT ![v] = After(job)]
      /\ waiting' \in Seq(Rounds \X JobNames) /\ Distinct(waiting')
      /\ Elems(waiting') = (Elems(waiting) \ {<<v, job>>})
                             \cup {<<v, j>> : j \in {After(job)} \ {"distribute"}}
      /\ recovery[v] = NoJob
  BY EndsQueue
<1>2. After(job) \in StageNames /\ After(job) # "recover"
      /\ (job = "persist" => After(job) = "distribute")
  BY AfterFlow
<1>3. Typed'
  BY <1>1, <1>2 DEF Flowing, Typed
<1>4. Active' = {}
  BY <1>1 DEF Active
<1>5. ASSUME NEW x \in Elems(waiting) \ {<<v, job>>} PROVE Due(x)'
  <2>1. x \in Rounds \X JobNames /\ Due(x)
    BY ActiveTyped DEF Flowing, Queued
  <2>2. CASE x[1] = v
    <3>1. x[2] # job
      BY <1>5, <2>1, <2>2
    <3> QED BY <1>1, <2>1, <2>2, <3>1 DEF Due
  <2>3. CASE x[1] # v
    <3>1. stage'[x[1]] = stage[x[1]] /\ recovery'[x[1]] = recovery[x[1]]
      BY <1>1, <2>1, <2>3 DEF Flowing, Typed
    <3> QED BY <2>1, <3>1 DEF Due
  <2> QED BY <2>2, <2>3
<1>6. Due(<<v, After(job)>>)'
  BY <1>1, <1>2 DEF Due, Flowing, Typed
<1>7. ASSUME NEW u \in Rounds, recovery'[u] # NoJob PROVE stage'[u] \in {"distribute", "done"}
  BY <1>1, <1>2, <1>7 DEF Flowing, Typed, Queued
<1> QED BY <1>1, <1>3, <1>4, <1>5, <1>6, <1>7 DEF Flowing, Queued

\* What was due stays due, with the retries that it had.
StaysDue ==
  \A u \in Rounds :
    /\ stage[u] \in FlowJobs => stage'[u] = stage[u]
    /\ recovery[u] # NoJob => /\ recovery'[u] # NoJob
                              /\ recovery'[u].retries = recovery[u].retries
                              /\ recovery[u].sent => recovery'[u].sent

LEMMA AddedFlowing ==
  ASSUME Flowing, NEW v \in Rounds, NEW job \in JobNames,
         ~Due(<<v, job>>), Due(<<v, job>>)', StaysDue,
         waiting' = Append(waiting, <<v, job>>), UNCHANGED work,
         stage' \in [Rounds -> StageNames], recovery' \in [Rounds -> Recoveries \cup {NoJob}],
         \A u \in Rounds : recovery'[u] # NoJob => stage'[u] \in {"distribute", "done"}
  PROVE  Flowing'
<1>1. Active' = Active /\ <<v, job>> \notin Active
  BY DEF Active, Flowing, Queued
<1>2. <<v, job>> \in Rounds \X JobNames /\ <<v, job>> \notin Elems(waiting)
  BY DEF Flowing, Queued
<1>3. /\ waiting' \in Seq(Rounds \X JobNames) /\ Distinct(waiting')
      /\ Elems(waiting') = Elems(waiting) \cup {<<v, job>>}
  <2>1. waiting \in Seq(Rounds \X JobNames) /\ Distinct(waiting)
    BY DEF Flowing, Queued
  <2>2. PICK x : x = <<v, job>>
    OBVIOUS
  <2>3. PICK S : S = Rounds \X JobNames
    OBVIOUS
  <2>4. waiting \in Seq(S) /\ x \in S /\ x \notin Elems(waiting) /\ waiting' = Append(waiting, x)
    BY <1>2, <2>1, <2>2, <2>3
  <2>5. PICK s : s = waiting
    OBVIOUS
  <2>6. s \in Seq(S) /\ Distinct(s) /\ x \in S /\ x \notin Elems(s)
    BY <2>1, <2>4, <2>5
  <2>7. /\ Append(s, x) \in Seq(S) /\ Distinct(Append(s, x))
        /\ Elems(Append(s, x)) = Elems(s) \cup {x}
    BY <2>6, ElemsAppend
  <2> QED BY <2>2, <2>3, <2>4, <2>5, <2>7
<1>4. ASSUME NEW x \in Elems(waiting) \cup Active PROVE Due(x)'
  <2>1. x \in Rounds \X JobNames /\ Due(x)
    BY ActiveTyped DEF Flowing, Queued
  <2>2. CASE x[2] = "recover"
    BY <2>1, <2>2 DEF Due, StaysDue
  <2>3. CASE x[2] \in FlowJobs
    <3>1. x[2] # "recover" /\ x[1] \in Rounds
      BY <2>1, <2>3 DEF FlowJobs
    <3> QED BY <2>1, <2>3, <3>1 DEF Due, StaysDue
  <2> QED BY <2>1, <2>2, <2>3 DEF JobNames
<1>5. work # NoJob /\ work.job = "recover" => work.retries = recovery'[work.round].retries - 1
  BY ActiveTyped DEF Flowing, Queued, StaysDue
<1>6. Typed'
  BY DEF Flowing, Typed
<1>7. Active' \cap Elems(waiting') = {}
  BY <1>1, <1>3 DEF Flowing, Queued
<1>8. Queued'
  BY <1>1, <1>2, <1>3, <1>4, <1>5, <1>7 DEF Queued
<1> QED BY <1>6, <1>8 DEF Flowing

-----------------------------------------------------------------------------
\* One lemma for each action.

LEMMA StartRoundFlowing ==
  ASSUME Flowing, NEW v \in Rounds, NEW R \in SUBSET Relays, StartRound(v, R)
  PROVE  Flowing'
<1>1. /\ stage[v] = "none" /\ stage' = [stage EXCEPT ![v] = "verify"]
      /\ waiting' = Append(waiting, <<v, "verify">>) /\ UNCHANGED <<work, recovery>>
  BY DEF StartRound
<1>2. stage \in [Rounds -> StageNames] /\ recovery \in [Rounds -> Recoveries \cup {NoJob}]
      /\ recovery[v] = NoJob
  BY <1>1 DEF Flowing, Typed, Queued
<1>3. stage' \in [Rounds -> StageNames] /\ "verify" \in JobNames
  BY <1>1, <1>2 DEF StageNames, FlowJobs, JobNames
<1>4. ~Due(<<v, "verify">>) /\ Due(<<v, "verify">>)' /\ StaysDue
  BY <1>1, <1>2 DEF Due, StaysDue, FlowJobs
<1>5. \A u \in Rounds : recovery'[u] # NoJob => stage'[u] \in {"distribute", "done"}
  BY <1>1, <1>2 DEF Flowing, Queued
<1> QED BY <1>1, <1>2, <1>3, <1>4, <1>5, AddedFlowing

\* The end of a job that leaves the recoveries alone.
LEMMA PlainEndFlowing ==
  ASSUME Flowing, NEW v \in Rounds, NEW job \in FlowJobs, Doing(v, job), NEW o, Ends(v, o),
         UNCHANGED recovery
  PROVE  Flowing'
BY EndsFlowing DEF Flowing, Typed

LEMMA VerifyRelaysFlowing ==
  ASSUME IInv, Flowing, NEW v \in Rounds, VerifyRelays(v)
  PROVE  Flowing'
<1>1. Takes(v, "verify") /\ Doing(v, "verify") /\ UNCHANGED recovery /\ "verify" \in FlowJobs
      /\ "verify" \in JobNames
  BY DEF VerifyRelays, Doing, FlowJobs, JobNames
<1>2. CASE Ends(v, Empty)
  BY <1>1, <1>2, PlainEndFlowing
<1>3. CASE Begins(v, StateRead)
  <2>1. work' \in VerifyWork /\ work'.round = v /\ work'.job = "verify"
    BY <1>3, ReadTyped, BeginsTyped
  <2> QED BY <1>1, <1>3, <2>1, TakenFlowing DEF Begins
<1> QED BY <1>2, <1>3, VerifyRelaysCases

\* The flow of a job that fails hangs.
LEMMA SetRelayFamiliesFailsFlowing ==
  ASSUME Flowing, NEW v \in Rounds, SetRelayFamiliesFails(v)
  PROVE  Flowing'
<1>1. /\ Takes(v, "families") /\ stage' = [stage EXCEPT ![v] = "failed"]
      /\ waiting' = Tail(waiting) /\ UNCHANGED <<recovery, work>>
  BY DEF SetRelayFamiliesFails
<1>2. /\ waiting' \in Seq(Rounds \X JobNames) /\ Distinct(waiting')
      /\ Elems(waiting') = Elems(waiting) \ {<<v, "families">>} /\ work = NoJob
      /\ stage[v] = "families"
  BY <1>1, TakesHead
<1>3. Active' = {}
  BY <1>1, <1>2 DEF Active
<1>4. Typed'
  BY <1>1 DEF Flowing, Typed, StageNames
<1>5. ASSUME NEW x \in Elems(waiting') PROVE Due(x)'
  <2>1. x \in Rounds \X JobNames /\ Due(x) /\ x # <<v, "families">>
    BY <1>2, ActiveTyped DEF Flowing, Queued
  <2>2. CASE x[2] = "recover"
    BY <1>1, <2>1, <2>2 DEF Due
  <2>3. CASE x[2] # "recover"
    <3>1. x[1] # v
      BY <1>2, <2>1, <2>3 DEF Due
    <3> QED BY <1>1, <2>1, <2>3, <3>1 DEF Due, Flowing, Typed
  <2> QED BY <2>2, <2>3
<1>6. ASSUME NEW u \in Rounds, recovery'[u] # NoJob PROVE stage'[u] \in {"distribute", "done"}
  BY <1>1, <1>2, <1>6 DEF Flowing, Queued, Typed
<1> QED BY <1>1, <1>2, <1>3, <1>4, <1>5, <1>6 DEF Flowing, Queued

\* What the worker holds while it verifies and while it uploads.
LEMMA VerifyingRound ==
  ASSUME Flowing, Verifying
  PROVE  /\ work \in VerifyWork /\ work.round \in Rounds /\ work # NoJob
         /\ Doing(work.round, "verify") /\ stage[work.round] = "verify"
<1>1. work \in VerifyWork \cup UploadWork /\ work.job = "verify" /\ work # NoJob
  BY DEF Flowing, Typed, Verifying
<1>2. work \in VerifyWork
  BY <1>1 DEF UploadWork
<1> QED BY <1>1, <1>2, ActiveTyped DEF Doing, VerifyWork

LEMMA UploadingRound ==
  ASSUME Flowing, NEW step, Persisting(step)
  PROVE  /\ work \in UploadWork /\ work.round \in Rounds /\ work # NoJob
         /\ work.job = "persist" => Doing(work.round, "persist") /\ stage[work.round] = "persist"
                                      /\ recovery[work.round] = NoJob
         /\ work.job = "recover" =>
              /\ recovery[work.round] \in Recoveries /\ recovery[work.round].sent
              /\ stage[work.round] \in {"distribute", "done"}
              /\ work.retries = recovery[work.round].retries - 1
<1>1. work \in VerifyWork \cup UploadWork /\ work.job \in {"persist", "recover"} /\ work # NoJob
  BY DEF Flowing, Typed, Persisting
<1>2. work \in UploadWork /\ work.round \in Rounds
  BY <1>1 DEF VerifyWork, UploadWork
<1>3. ASSUME work.job = "persist"
      PROVE  Doing(work.round, "persist") /\ stage[work.round] = "persist"
             /\ recovery[work.round] = NoJob
  BY <1>1, <1>2, <1>3, ActiveTyped DEF Doing, Flowing, Queued
<1>4. ASSUME work.job = "recover"
      PROVE  /\ recovery[work.round] \in Recoveries /\ recovery[work.round].sent
             /\ stage[work.round] \in {"distribute", "done"}
             /\ work.retries = recovery[work.round].retries - 1
  BY <1>1, <1>2, <1>4, ActiveTyped DEF Flowing, Queued, Typed
<1> QED BY <1>1, <1>2, <1>3, <1>4

LEMMA CheckHardwareFlowing ==
  ASSUME Flowing, CheckHardware
  PROVE  Flowing'
<1>1. /\ work \in VerifyWork /\ work.round \in Rounds /\ work # NoJob
      /\ Doing(work.round, "verify") /\ work.job = "verify"
  BY VerifyingRound DEF CheckHardware, Verifying
<1>2. UNCHANGED recovery /\ "verify" \in FlowJobs
  BY DEF CheckHardware, FlowJobs
<1>3. CASE Ends(work.round, Empty)
  BY <1>1, <1>2, <1>3, PlainEndFlowing
<1>4. ASSUME NEW r \in work.check, UNCHANGED <<stage, waiting>>,
             \/ work' = [work EXCEPT !.check = @ \ {r}, !.add = @ \cup {r}, !.left = @ \cup {r}]
             \/ work' = [work EXCEPT !.check = @ \ {r}]
      PROVE  Flowing'
  <2>1. work' \in VerifyWork /\ work'.round = work.round /\ work'.job = "verify"
    <3>1. r \in Relays
      BY <1>1 DEF VerifyWork
    <3>2. CASE work' = [work EXCEPT !.check = @ \ {r}]
      BY <1>1, <3>2 DEF VerifyWork
    <3>3. CASE work' = [work EXCEPT !.check = @ \ {r}, !.add = @ \cup {r}, !.left = @ \cup {r}]
      BY <1>1, <3>1, <3>3 DEF VerifyWork
    <3> QED BY <1>4, <3>2, <3>3
  <2>2. work' # NoJob
    BY <2>1, NotWork
  <2> QED BY <1>1, <1>2, <1>4, <2>1, <2>2, SameFlowing DEF SameJob
<1> QED BY <1>3, <1>4, Zenon DEF CheckHardware

LEMMA AddClaimableBatchedFlowing ==
  ASSUME Flowing, AddClaimableBatched
  PROVE  Flowing'
<1>1. /\ work \in VerifyWork /\ work.round \in Rounds /\ work # NoJob
      /\ Doing(work.round, "verify") /\ work.job = "verify"
  BY VerifyingRound DEF AddClaimableBatched, Verifying
<1>2. UNCHANGED recovery /\ "verify" \in FlowJobs
  BY DEF AddClaimableBatched, FlowJobs
<1>3. CASE Ends(work.round, Verified("Failed"))
  BY <1>1, <1>2, <1>3, PlainEndFlowing
<1>4. ASSUME NEW B, UNCHANGED <<stage, waiting>>, work' = [work EXCEPT !.left = @ \ B]
      PROVE  Flowing'
  <2>1. work' \in VerifyWork /\ work'.round = work.round /\ work'.job = "verify"
    BY <1>1, <1>4 DEF VerifyWork
  <2>2. work' # NoJob
    BY <2>1, NotWork
  <2> QED BY <1>1, <1>2, <1>4, <2>1, <2>2, SameFlowing DEF SameJob
<1> QED BY <1>3, <1>4, Zenon DEF AddClaimableBatched

LEMMA PersistVerificationFlowing ==
  ASSUME Flowing, NEW v \in Rounds, PersistVerification(v)
  PROVE  Flowing'
<1>1. Takes(v, "persist") /\ Doing(v, "persist") /\ UNCHANGED recovery
      /\ "persist" \in FlowJobs /\ "persist" \in JobNames
  BY DEF PersistVerification, Doing, FlowJobs, JobNames
<1>2. CASE Ends(v, Empty)
  BY <1>1, <1>2, PlainEndFlowing
<1>3. ASSUME work' = [round |-> v, job |-> "persist", step |-> "metrics",
                      retries |-> MaxUploadRetries, metrics |-> FALSE,
                      stats |-> FALSE, given |-> [metrics |-> FALSE, stats |-> FALSE]],
             waiting' = Tail(waiting), UNCHANGED stage
      PROVE  Flowing'
  <2>1. MaxUploadRetries \in 0..MaxUploadRetries
    BY VerificationAssumption
  <2>2. work' \in UploadWork /\ work'.round = v /\ work'.job = "persist"
    BY <1>3, <2>1 DEF UploadWork
  <2> QED BY <1>1, <1>3, <2>2, TakenFlowing
<1> QED BY <1>2, <1>3, Zenon DEF PersistVerification

LEMMA RecoverPersistVerificationFlowing ==
  ASSUME Flowing, NEW v \in Rounds, RecoverPersistVerification(v)
  PROVE  Flowing'
<1>1. Takes(v, "recover") /\ waiting' = Tail(waiting) /\ UNCHANGED <<stage, recovery>>
      /\ "recover" \in JobNames
  BY DEF RecoverPersistVerification, JobNames
<1>2. recovery[v] \in Recoveries
  BY <1>1, TakesHead DEF Due, Flowing, Typed
<1>3. CASE UNCHANGED work
  BY <1>1, <1>3, DroppedFlowing
<1>4. ASSUME NEW g, g = [metrics |-> recovery[v].metrics, stats |-> recovery[v].stats],
             ~NoRetries(v),
             work' = [round |-> v, job |-> "recover", step |-> "metrics",
                      retries |-> recovery[v].retries - 1, metrics |-> g.metrics,
                      stats |-> g.stats, given |-> g]
      PROVE  Flowing'
  <2>1. g \in [metrics : BOOLEAN, stats : BOOLEAN] /\ g.metrics \in BOOLEAN /\ g.stats \in BOOLEAN
    BY <1>2, <1>4 DEF Recoveries
  <2>2. recovery[v].retries - 1 \in 0..MaxUploadRetries
    BY <1>2, <1>4, VerificationAssumption DEF Recoveries, NoRetries
  <2>3. work' \in UploadWork /\ work'.round = v /\ work'.job = "recover"
        /\ work'.retries = recovery[v].retries - 1
    BY <1>4, <2>1, <2>2 DEF UploadWork
  <2> QED BY <1>1, <2>3, TakenFlowing
<1> QED BY <1>3, <1>4, Zenon DEF RecoverPersistVerification

LEMMA StoreFlowing ==
  ASSUME Flowing, NEW step \in {"metrics", "stats"}, Store(step)
  PROVE  Flowing'
<1>1. work \in UploadWork /\ work # NoJob
  BY UploadingRound DEF Store
<1>2. UNCHANGED <<stage, waiting, recovery>>
  BY DEF Store, flow
<1>3. \/ work' = [work EXCEPT !.step = StoreNext(step)]
      \/ \E ok \in BOOLEAN : work' = [work EXCEPT ![step] = ok, !.step = StoreNext(step)]
  BY DEF Store
<1>4. /\ work' \in UploadWork /\ work'.round = work.round /\ work'.job = work.job
      /\ work'.retries = work.retries
  BY <1>1, <1>3 DEF UploadWork, StoreNext
<1>5. work' # NoJob
  BY <1>4, NotWork
<1> QED BY <1>1, <1>2, <1>4, <1>5, SameFlowing DEF SameJob

\* The steps between the uploads and the end of the job.
LEMMA SteppedFlowing ==
  ASSUME Flowing, work \in UploadWork, NEW next \in {"hexMap", "end"},
         work' = [work EXCEPT !.step = next], UNCHANGED <<stage, waiting, recovery>>
  PROVE  Flowing'
<1>1. /\ work' \in UploadWork /\ work'.round = work.round /\ work'.job = work.job
      /\ work'.retries = work.retries
  BY DEF UploadWork
<1>2. work' # NoJob /\ work # NoJob
  BY <1>1, NotWork
<1> QED BY <1>1, <1>2, SameFlowing DEF SameJob

LEMMA CreateVerificationDataFlowing ==
  ASSUME Flowing, CreateVerificationData
  PROVE  Flowing'
<1>1. work \in UploadWork /\ UNCHANGED <<stage, waiting, recovery>>
  BY UploadingRound DEF CreateVerificationData, flow
<1>2. PICK next \in {"hexMap", "end"} : work' = [work EXCEPT !.step = next]
  BY DEF CreateVerificationData
<1> QED BY <1>1, <1>2, SteppedFlowing

LEMMA StoreRelayHexMapFlowing ==
  ASSUME Flowing, StoreRelayHexMap
  PROVE  Flowing'
<1>1. work \in UploadWork /\ UNCHANGED <<stage, waiting, recovery>>
  BY UploadingRound DEF StoreRelayHexMap, flow
<1> QED BY <1>1, SteppedFlowing DEF StoreRelayHexMap

\* What persistVerification sends, or not, when it ends.
LEMMA SentRecovery ==
  ASSUME PersistEnds
  PROVE  recovery' = [recovery EXCEPT ![work.round] =
           IF work.metrics /\ work.stats THEN NoJob
           ELSE [retries |-> RecoveryLeft,
                 metrics |-> IF work.job = "persist" THEN work.metrics ELSE work.given.metrics,
                 stats |-> IF work.job = "persist" THEN work.stats ELSE work.given.stats,
                 sent |-> FALSE]]
BY DEF PersistEnds, Complete

LEMMA PersistEndsFlowing ==
  ASSUME Flowing, PersistEnds
  PROVE  Flowing'
<1> DEFINE v == work.round
           fresh == [retries |-> RecoveryLeft,
                     metrics |-> IF work.job = "persist" THEN work.metrics ELSE work.given.metrics,
                     stats |-> IF work.job = "persist" THEN work.stats ELSE work.given.stats,
                     sent |-> FALSE]
<1>1. /\ work \in UploadWork /\ v \in Rounds /\ work # NoJob
      /\ work.job \in {"persist", "recover"}
  BY UploadingRound DEF PersistEnds, Persisting
<1>2. fresh \in Recoveries
  BY <1>1 DEF UploadWork, Recoveries, RecoveryLeft
<1>3. recovery' = [recovery EXCEPT ![v] = IF work.metrics /\ work.stats THEN NoJob ELSE fresh]
  BY SentRecovery
<1>4. recovery' \in [Rounds -> Recoveries \cup {NoJob}]
  BY <1>1, <1>2, <1>3 DEF Flowing, Typed
<1>5. \A u \in Rounds : recovery'[u] # recovery[u] => u = v
  BY <1>3 DEF Flowing, Typed
<1>6. CASE work.job = "persist"
  <2>1. Doing(v, "persist") /\ Ends(v, output[v]) /\ "persist" \in FlowJobs
    BY <1>6, UploadingRound DEF PersistEnds, FlowJobs
  <2> HIDE DEF v, fresh
  <2> QED BY <1>1, <1>4, <1>5, <1>6, <2>1, EndsFlowing
<1>7. CASE work.job = "recover"
  <2>1. work' = NoJob /\ UNCHANGED <<stage, waiting>>
    BY <1>7 DEF PersistEnds
  <2>2. stage[v] \in {"distribute", "done"} /\ Active = {<<v, "recover">>}
    BY <1>1, <1>7, UploadingRound, ActiveTyped DEF PersistEnds
  <2>3. <<v, "recover">> \notin Elems(waiting)
    BY <2>2 DEF Flowing, Queued
  <2>4. \A u \in Rounds : recovery'[u] # NoJob => stage'[u] \in {"distribute", "done"}
    BY <1>5, <2>1, <2>2 DEF Flowing, Queued
  <2>5. Typed'
    BY <1>4, <2>1 DEF Flowing, Typed
  <2> HIDE DEF v, fresh
  <2>6. ASSUME NEW x \in Elems(waiting) PROVE Due(x)'
    <3>1. x \in Rounds \X JobNames /\ Due(x) /\ x # <<v, "recover">>
      BY <2>3, ActiveTyped DEF Flowing, Queued
    <3>2. CASE x[2] = "recover"
      <4>1. x[1] # v
        BY <3>1, <3>2
      <4> QED BY <1>5, <3>1, <3>2, <4>1 DEF Due
    <3>3. CASE x[2] # "recover"
      BY <2>1, <3>1, <3>3 DEF Due
    <3> QED BY <3>2, <3>3
  <2>7. Active' = {}
    BY <2>1 DEF Active
  <2> QED BY <2>1, <2>4, <2>5, <2>6, <2>7 DEF Flowing, Queued
<1> QED BY <1>1, <1>6, <1>7

LEMMA RecoveryAddedFlowing ==
  ASSUME Flowing, NEW v \in Rounds, RecoveryAdded(v)
  PROVE  Flowing'
<1>1. /\ recovery[v] # NoJob /\ ~recovery[v].sent
      /\ recovery' = [recovery EXCEPT ![v].sent = TRUE]
      /\ waiting' = Append(waiting, <<v, "recover">>) /\ UNCHANGED <<work, stage>>
  BY DEF RecoveryAdded
<1>2. stage \in [Rounds -> StageNames] /\ recovery \in [Rounds -> Recoveries \cup {NoJob}]
      /\ recovery[v] \in Recoveries
  BY <1>1 DEF Flowing, Typed
<1>3. "recover" \in JobNames /\ ~Due(<<v, "recover">>)
  BY <1>1 DEF JobNames, Due
<1>4. /\ recovery' \in [Rounds -> Recoveries \cup {NoJob}]
      /\ recovery'[v] \in Recoveries /\ recovery'[v].sent
      /\ recovery'[v].retries = recovery[v].retries
      /\ \A u \in Rounds \ {v} : recovery'[u] = recovery[u]
  BY <1>1, <1>2 DEF Recoveries
<1>5. recovery'[v] # NoJob
  BY <1>4, VerificationAssumption
<1>6. Due(<<v, "recover">>)' /\ StaysDue
  BY <1>1, <1>4, <1>5 DEF Due, StaysDue
<1>7. \A u \in Rounds : recovery'[u] # NoJob => stage'[u] \in {"distribute", "done"}
  BY <1>1, <1>4 DEF Flowing, Queued
<1> QED BY <1>1, <1>2, <1>3, <1>4, <1>6, <1>7, AddedFlowing

LEMMA DistributeMostRecentFlowing ==
  ASSUME Flowing, NEW v \in Rounds, DistributeMostRecent(v)
  PROVE  Flowing'
<1>1. /\ stage[v] = "distribute" /\ stage' = [stage EXCEPT ![v] = "done"]
      /\ UNCHANGED <<waiting, work, recovery>>
  BY DEF DistributeMostRecent
<1>2. Typed' /\ Active' = Active
  BY <1>1 DEF Flowing, Typed, StageNames, Active
<1>3. ASSUME NEW x \in Elems(waiting) \cup Active PROVE Due(x)'
  <2>1. x \in Rounds \X JobNames /\ Due(x)
    BY ActiveTyped DEF Flowing, Queued
  <2>2. CASE x[2] = "recover"
    BY <1>1, <2>1, <2>2 DEF Due
  <2>3. CASE x[2] \in FlowJobs
    <3>1. x[2] # "recover" /\ x[2] # "distribute" /\ stage[x[1]] = x[2]
      BY <2>1, <2>3 DEF FlowJobs, Due
    <3>2. stage'[x[1]] = stage[x[1]]
      BY <1>1, <2>1, <3>1 DEF Flowing, Typed
    <3> QED BY <3>1, <3>2 DEF Due
  <2> QED BY <2>1, <2>2, <2>3 DEF JobNames
<1>4. \A u \in Rounds : recovery'[u] # NoJob => stage'[u] \in {"distribute", "done"}
  BY <1>1 DEF Flowing, Queued, Typed
<1> QED BY <1>1, <1>2, <1>3, <1>4 DEF Flowing, Queued

\* What runs when the process dies leaves the queue, and joins it again unless it was
\* found stalled before: then its round has failed or its recovery is dropped.
LEMMA CrashFlowing ==
  ASSUME Flowing, Crash
  PROVE  Flowing'
<1>1. PICK job \in Running :
       LET lost == {v \in Rounds : recovery[v] # NoJob /\ ~recovery[v].sent}
           dead == job \cap stalled
           others == IF work = NoJob /\ job # {} THEN Tail(waiting) ELSE waiting
       IN
         /\ IF job \ dead = {} THEN waiting' = others
            ELSE \E j \in job, i \in 0..Len(others) :
                   waiting' = SubSeq(others, 1, i) \o <<j>>
                                \o SubSeq(others, i + 1, Len(others))
         /\ stage' = [v \in Rounds |-> IF <<v, stage[v]>> \in dead THEN "failed"
                                       ELSE stage[v]]
         /\ recovery' = [v \in Rounds |->
              IF v \in lost \/ <<v, "recover">> \in dead THEN NoJob ELSE recovery[v]]
  BY Zenon DEF Crash
<1>2. PICK dead : dead = job \cap stalled
  OBVIOUS
<1>3. PICK others : others = IF work = NoJob /\ job # {} THEN Tail(waiting) ELSE waiting
  OBVIOUS
<1>4. PICK lost : lost = {v \in Rounds : recovery[v] # NoJob /\ ~recovery[v].sent}
  OBVIOUS
<1>5. PICK S : S = Rounds \X JobNames
  OBVIOUS
<1>6. /\ waiting \in Seq(S) /\ Distinct(waiting) /\ Active \cap Elems(waiting) = {}
      /\ Active \subseteq S /\ \A j, k \in Active : j = k
  BY <1>5, ActiveTyped DEF Flowing, Queued, Active
<1>7. /\ job \subseteq S /\ \A j, k \in job : j = k
      /\ others \in Seq(S) /\ Distinct(others) /\ job \cap Elems(others) = {}
      /\ Elems(others) \cup job = Elems(waiting) \cup Active
  <2>1. CASE work # NoJob
    <3>1. job = Active /\ others = waiting
      BY <1>3, <2>1 DEF Running, Active
    <3> QED BY <1>6, <3>1
  <2>2. CASE work = NoJob /\ job = {}
    <3>1. others = waiting /\ Active = {}
      BY <1>3, <2>2 DEF Active
    <3> QED BY <1>6, <2>2, <3>1
  <2>3. CASE work = NoJob /\ job # {}
    <3>1. waiting # <<>> /\ job = {Head(waiting)} /\ others = Tail(waiting) /\ Active = {}
      BY <1>3, <2>3 DEF Running, Active
    <3>2. /\ Tail(waiting) \in Seq(S) /\ Distinct(Tail(waiting)) /\ Head(waiting) \in S
          /\ Elems(Tail(waiting)) = Elems(waiting) \ {Head(waiting)}
          /\ Head(waiting) \in Elems(waiting)
      BY <1>6, <3>1, ElemsTail
    <3> QED BY <3>1, <3>2
  <2> QED BY <2>1, <2>2, <2>3
<1>8. /\ waiting' \in Seq(S) /\ Distinct(waiting')
      /\ Elems(waiting') = Elems(others) \cup (job \ dead)
  <2>1. CASE job \ dead = {}
    BY <1>1, <1>2, <1>3, <1>7, <2>1
  <2>2. CASE job \ dead # {}
    <3>1. PICK j \in job, i \in 0..Len(others) : waiting' = Inserted(others, j, i)
      BY <1>1, <1>2, <1>3, <2>2 DEF Inserted
    <3>2. job \ dead = {j} /\ j \in S /\ j \notin Elems(others)
      BY <1>7, <2>2
    <3>3. PICK t : t = Inserted(others, j, i)
      OBVIOUS
    <3>4. t \in Seq(S) /\ Distinct(t) /\ Elems(t) = Elems(others) \cup {j}
      BY <1>7, <3>2, <3>3, ElemsInsert
    <3> QED BY <3>1, <3>2, <3>3, <3>4
  <2> QED BY <2>1, <2>2
<1>9. /\ stage' = [v \in Rounds |-> IF <<v, stage[v]>> \in dead THEN "failed" ELSE stage[v]]
      /\ recovery' = [v \in Rounds |->
           IF v \in lost \/ <<v, "recover">> \in dead THEN NoJob ELSE recovery[v]]
      /\ work' = NoJob
  BY <1>1, <1>2, <1>4 DEF Crash
<1>10. Typed'
  BY <1>9 DEF Flowing, Typed, StageNames
<1>11. Active' = {}
  BY <1>9 DEF Active
<1>12. ASSUME NEW x \in Elems(waiting') PROVE Due(x)'
  <2>1. x \in Rounds \X JobNames /\ Due(x) /\ x \notin dead
    <3>1. x \in Elems(waiting) \cup Active /\ x \notin dead
      BY <1>2, <1>7, <1>8
    <3> QED BY <3>1, ActiveTyped DEF Flowing, Queued
  <2>2. x = <<x[1], x[2]>> /\ x[1] \in Rounds
    BY <2>1
  <2>3. CASE x[2] = "recover"
    <3>1. recovery[x[1]] # NoJob /\ recovery[x[1]].sent
      BY <2>1, <2>3 DEF Due
    <3>2. recovery'[x[1]] = recovery[x[1]]
      BY <1>4, <1>9, <2>1, <2>2, <2>3, <3>1
    <3> QED BY <2>3, <3>1, <3>2 DEF Due
  <2>4. CASE x[2] # "recover"
    <3>1. stage[x[1]] = x[2]
      BY <2>1, <2>4 DEF Due
    <3>2. stage'[x[1]] = stage[x[1]]
      BY <1>9, <2>1, <2>2, <3>1
    <3> QED BY <2>4, <3>1, <3>2 DEF Due
  <2> QED BY <2>3, <2>4
<1>13. ASSUME NEW v \in Rounds, recovery'[v] # NoJob PROVE stage'[v] \in {"distribute", "done"}
  <2>1. stage[v] \in {"distribute", "done"}
    BY <1>9, <1>13 DEF Flowing, Queued
  <2>2. <<v, stage[v]>> \notin dead
    BY <1>2, <1>5, <1>7, <2>1 DEF JobNames, FlowJobs
  <2> QED BY <1>9, <2>1, <2>2
<1> QED BY <1>5, <1>8, <1>9, <1>10, <1>11, <1>12, <1>13 DEF Flowing, Queued

LEMMA NextFlowing ==
  ASSUME IInv, Flowing, [Next]_vars
  PROVE  Flowing'
<1>1. ASSUME UNCHANGED <<waiting, stage, recovery, work>> PROVE Flowing'
  BY <1>1 DEF Flowing, Typed, Queued, Active, Due, Distinct, Elems
<1>2. CASE UNCHANGED vars
  BY <1>1, <1>2 DEF vars, flow
<1>3. ASSUME NEW v \in Rounds, NEW job \in {"families", "bonus", "confirm"}, Takes(v, job),
             NEW o, Ends(v, o), UNCHANGED recovery
      PROVE  Flowing'
  BY <1>3, PlainEndFlowing DEF Doing, FlowJobs
<1>4. ASSUME NEW v \in Rounds, SetRelayFamilies(v) PROVE Flowing'
  BY <1>3, <1>4, Zenon DEF SetRelayFamilies
<1>5. ASSUME NEW v \in Rounds, SetHardwareBonusRelays(v) PROVE Flowing'
  BY <1>3, <1>5, Zenon DEF SetHardwareBonusRelays
<1>6. ASSUME NEW v \in Rounds, ConfirmVerification(v) PROVE Flowing'
  BY <1>3, <1>6, Zenon DEF ConfirmVerification
<1>7. ASSUME VerifyEnds PROVE Flowing'
  <2>1. Ends(work.round, Verified("OK")) /\ UNCHANGED recovery /\ "verify" \in FlowJobs
    BY <1>7 DEF VerifyEnds, FlowJobs
  <2>2. work.round \in Rounds /\ Doing(work.round, "verify")
    BY <1>7, VerifyingRound DEF VerifyEnds
  <2> QED BY <2>1, <2>2, PlainEndFlowing
<1>8. ASSUME NEW r \in Relays, Claim(r) \/ Remove(r) \/ Transfer(r) PROVE Flowing'
  BY <1>1, <1>8 DEF Claim, Remove, Transfer, flow
<1>9. ASSUME Cools PROVE Flowing'
  BY <1>1, <1>9 DEF Cools, flow
<1>10. CASE Worker
  BY <1>4, <1>5, <1>6, <1>7, <1>10, VerifyRelaysFlowing, SetRelayFamiliesFailsFlowing,
     PersistVerificationFlowing, RecoverPersistVerificationFlowing, CheckHardwareFlowing,
     AddClaimableBatchedFlowing, StoreFlowing, CreateVerificationDataFlowing,
     StoreRelayHexMapFlowing, PersistEndsFlowing DEF Worker
<1> QED BY <1>2, <1>8, <1>9, <1>10, StartRoundFlowing, RecoveryAddedFlowing,
           DistributeMostRecentFlowing, CrashFlowing DEF Next

LEMMA InitFlowing == Init => Flowing
BY DEF Init, Flowing, Typed, Queued, Active, Elems, Distinct, Due, StageNames

LEMMA AlwaysFlowing == Spec => [](IInv /\ Flowing)
BY InitIInv, NextIInv, InitFlowing, NextFlowing, PTL DEF Spec

-----------------------------------------------------------------------------
(* What a round reports as verified it read in the registry, so it was     *)
(* verified when the state that the round was served was fetched or later, *)
(* unless that state was of any age.                                       *)

\* The relays an output says were claimed.
Reported(o) == {r \in DOMAIN o.of : o.of[r] = "AlreadyVerified"}

\* The round is past verify-relays: before that it reports nothing.
Begun(v) == stage[v] \notin {"none", "verify"}

ReadsOK == /\ recent \subseteq Relays
           /\ warm => dreState # NoState /\ VerifiedIn(dreState) \subseteq recent
OutputsSighted ==
  \A v \in Rounds : /\ Reported(output[v]) \subseteq seen[v]
                    /\ ~Begun(v) => Reported(output[v]) = {}
DocsSighted ==
  \A i \in 1..Len(docs) : /\ docs[i].round \in Rounds /\ Begun(docs[i].round)
                          /\ docs[i].relays \subseteq seen[docs[i].round]
WorkSighted == Verifying => VerifiedIn(work.state) \subseteq seen[work.round]
Sighted == /\ seen \in [Rounds -> SUBSET Relays]
           /\ ReadsOK /\ OutputsSighted /\ DocsSighted /\ WorkSighted

LEMMA SightedImplies == Sighted => ScoredWereVerified
BY DEF Sighted, DocsSighted, ScoredWereVerified

LEMMA EmptyReports == Reported(Empty) = {}
BY DEF Reported, Empty

LEMMA EndsVerifying ==
  ASSUME NEW v, NEW o, Ends(v, o)
  PROVE  ~Verifying'
BY DEF Ends, Verifying

LEMMA RefreshReads ==
  ASSUME IInv, ReadsOK, RefreshDreState, UNCHANGED registry
  PROVE  /\ ReadsOK'
         /\ dreState' = NoState => trouble'
         /\ ~warm' => trouble'
<1>1. registry # NoState /\ VerifiedIn(registry) \subseteq Relays
  BY VerificationAssumption DEF IInv, ContractsOK, VerifiedIn
<1>2. CASE warm /\ UNCHANGED <<dreState, warm, recent, trouble>>
  BY <1>2 DEF ReadsOK
<1>3. CASE Fetch
  BY <1>1, <1>3 DEF Fetch, ReadsOK
<1>4. CASE FetchFails
  BY <1>4 DEF FetchFails, ReadsOK
<1> QED BY <1>2, <1>3, <1>4 DEF RefreshDreState

\* Time and the registry go on: what may be verified in the minute grows.
LEMMA BecomesReads ==
  ASSUME ReadsOK, NEW g, RegistryBecomes(g), UNCHANGED <<dreState, warm>>
  PROVE  ReadsOK'
BY DEF ReadsOK, RegistryBecomes, VerifiedIn

LEMMA ReadsKept ==
  ASSUME ReadsOK, UNCHANGED <<dreState, warm, recent>>
  PROVE  ReadsOK'
BY DEF ReadsOK

\* No round goes back to where it has nothing to report.
Onward == \A v \in Rounds : Begun(v) => Begun(v)'

\* A step that leaves outputs and documents alone.
LEMMA SightedKept ==
  ASSUME Sighted, ReadsOK', Onward, UNCHANGED <<seen, output, docs>>,
         Verifying' => Verifying /\ work'.state = work.state /\ work'.round = work.round
  PROVE  Sighted'
<1>1. OutputsSighted'
  BY DEF Sighted, OutputsSighted, Onward
<1>2. DocsSighted'
  BY DEF Sighted, DocsSighted, Onward
<1>3. WorkSighted'
  BY DEF Sighted, WorkSighted
<1> QED BY <1>1, <1>2, <1>3 DEF Sighted

LEMMA EndsOnward ==
  ASSUME Flowing, NEW v \in Rounds, NEW job \in FlowJobs, Doing(v, job), NEW o, Ends(v, o)
  PROVE  Onward /\ Begun(v)'
<1>1. stage' = [stage EXCEPT ![v] = After(job)]
  BY EndsQueue
<1>2. After(job) \notin {"none", "verify"}
  BY AfterFlow
<1> QED BY <1>1, <1>2 DEF Onward, Begun, Flowing, Typed

LEMMA EndsSighted ==
  ASSUME IInv, Flowing, Sighted, ReadsOK', NEW v \in Rounds, NEW job \in FlowJobs, Doing(v, job),
         NEW o, Ends(v, o), Reported(o) \subseteq seen[v], UNCHANGED <<seen, docs>>
  PROVE  Sighted'
<1>1. Onward /\ Begun(v)' /\ ~Verifying'
  BY EndsOnward, EndsVerifying
<1>2. output' = [output EXCEPT ![v] = o] /\ DOMAIN output = Rounds
  BY DEF Ends, IInv, OutputOK
<1>3. ASSUME NEW u \in Rounds
      PROVE  Reported(output'[u]) \subseteq seen'[u] /\ (~Begun(u)' => Reported(output'[u]) = {})
  <2>1. CASE u = v
    <3>1. output'[u] = o
      BY <1>2, <2>1
    <3> QED BY <1>1, <2>1, <3>1
  <2>2. CASE u # v
    <3>1. output'[u] = output[u]
      BY <1>2, <2>2
    <3> QED BY <1>1, <3>1 DEF Sighted, OutputsSighted, Onward
  <2> QED BY <2>1, <2>2
<1>4. OutputsSighted'
  BY <1>3 DEF OutputsSighted
<1>5. DocsSighted'
  BY <1>1 DEF Sighted, DocsSighted, Onward
<1> QED BY <1>1, <1>4, <1>5 DEF Sighted, WorkSighted

\* A round that is verified again, after a crash, has reported nothing yet.
LEMMA VerifyRelaysSighted ==
  ASSUME IInv, Flowing, Sighted, NEW v \in Rounds, VerifyRelays(v)
  PROVE  Sighted'
<1>1. /\ Takes(v, "verify") /\ Doing(v, "verify") /\ "verify" \in FlowJobs /\ UNCHANGED docs
      /\ RefreshDreState /\ UNCHANGED registry
      /\ seen' = [seen EXCEPT ![v] = IF warm' THEN recent' ELSE Relays]
  BY DEF VerifyRelays, Doing, FlowJobs, contracts
<1>2. stage[v] = "verify" /\ ~Begun(v)
  BY <1>1, TakesHead DEF Begun
<1>3. ReadsOK'
  BY <1>1, RefreshReads DEF Sighted
<1>4. /\ seen \in [Rounds -> SUBSET Relays] /\ seen' \in [Rounds -> SUBSET Relays]
      /\ seen'[v] = IF warm' THEN recent' ELSE Relays
      /\ \A u \in Rounds \ {v} : seen'[u] = seen[u]
  BY <1>1, <1>3 DEF Sighted, ReadsOK
<1>5. Reported(output[v]) = {} /\ \A i \in 1..Len(docs) : docs[i].round # v
  BY <1>2 DEF Sighted, OutputsSighted, DocsSighted
<1>6. ASSUME Onward PROVE DocsSighted'
  BY <1>1, <1>4, <1>5, <1>6 DEF Sighted, DocsSighted, Onward
<1>7. CASE Ends(v, Empty)
  <2>1. Onward /\ Begun(v)' /\ ~Verifying'
    BY <1>1, <1>7, EndsOnward, EndsVerifying
  <2>2. output' = [output EXCEPT ![v] = Empty] /\ DOMAIN output = Rounds
    BY <1>7 DEF Ends, IInv, OutputOK
  <2>3. ASSUME NEW u \in Rounds
        PROVE  Reported(output'[u]) \subseteq seen'[u] /\ (~Begun(u)' => Reported(output'[u]) = {})
    <3>1. CASE u = v
      <4>1. output'[u] = Empty
        BY <2>2, <3>1
      <4> QED BY <4>1, EmptyReports
    <3>2. CASE u # v
      <4>1. output'[u] = output[u]
        BY <2>2, <3>2
      <4> QED BY <1>4, <2>1, <3>2, <4>1 DEF Sighted, OutputsSighted, Onward
    <3> QED BY <3>1, <3>2
  <2>4. OutputsSighted'
    BY <2>3 DEF OutputsSighted
  <2> QED BY <1>3, <1>4, <1>6, <2>1, <2>4 DEF Sighted, WorkSighted
<1>8. CASE Begins(v, StateRead)
  <2>1. UNCHANGED <<stage, output>>
    BY <1>8 DEF Begins
  <2>2. Onward
    BY <2>1 DEF Onward, Begun
  <2>3. ASSUME NEW u \in Rounds
        PROVE  Reported(output'[u]) \subseteq seen'[u] /\ (~Begun(u)' => Reported(output'[u]) = {})
    <3>1. CASE u = v
      BY <1>5, <2>1, <3>1
    <3>2. CASE u # v
      BY <1>4, <2>1, <3>2 DEF Sighted, OutputsSighted, Begun
    <3> QED BY <3>1, <3>2
  <2>4. OutputsSighted'
    BY <2>3 DEF OutputsSighted
  <2>5. work'.state = StateRead /\ work'.round = v
    BY <1>8, ReadTyped, BeginsTyped
  <2>6. VerifiedIn(StateRead) \subseteq seen'[v]
    <3>1. CASE warm'
      BY <1>3, <1>4, <3>1 DEF ReadsOK, StateRead
    <3>2. CASE ~warm'
      BY <1>4, <3>2 DEF VerifiedIn
    <3> QED BY <3>1, <3>2
  <2>7. VerifiedIn(work'.state) \subseteq seen'[work'.round]
    BY <2>5, <2>6
  <2>8. WorkSighted'
    BY <2>7 DEF WorkSighted, VerifiedIn
  <2> QED BY <1>3, <1>4, <1>6, <2>2, <2>4, <2>8 DEF Sighted
<1> QED BY <1>7, <1>8, VerifyRelaysCases

\* The results of verify-relays report what the state of the registry said.
LEMMA VerifiedReports ==
  ASSUME IInv, Flowing, Sighted, Verifying, NEW res \in {"OK", "Failed"}
  PROVE  Reported(Verified(res)) \subseteq seen[work.round]
<1>1. input[work.round] \subseteq Relays
  BY VerifyingRound DEF IInv, ContractsOK
<1>2. ASSUME NEW r \in Reported(Verified(res)) PROVE r \in VerifiedIn(work.state)
  <2>1. DOMAIN Verified(res).of = input[work.round]
    BY DEF Verified
  <2>2. r \in input[work.round] /\ Verified(res).of[r] = "AlreadyVerified"
    BY <1>2, <2>1 DEF Reported
  <2>3. work.state[r] = "verified"
    BY <2>2 DEF Verified
  <2> QED BY <1>1, <2>2, <2>3 DEF VerifiedIn
<1> QED BY <1>2 DEF Sighted, WorkSighted

LEMMA CheckHardwareSighted ==
  ASSUME IInv, Flowing, Sighted, CheckHardware
  PROVE  Sighted'
<1>1. /\ work \in VerifyWork /\ Verifying /\ work.round \in Rounds /\ Doing(work.round, "verify")
      /\ "verify" \in FlowJobs /\ UNCHANGED <<seen, docs>>
  BY VerifyingRound DEF CheckHardware, reads, FlowJobs
<1>2. ReadsOK'
  BY ReadsKept DEF CheckHardware, reads, Sighted
<1>3. CASE Ends(work.round, Empty)
  BY <1>1, <1>2, <1>3, EndsSighted, EmptyReports
<1>4. ASSUME NEW r, UNCHANGED <<stage, output>>,
             \/ work' = [work EXCEPT !.check = @ \ {r}, !.add = @ \cup {r}, !.left = @ \cup {r}]
             \/ work' = [work EXCEPT !.check = @ \ {r}]
      PROVE  Sighted'
  <2>1. work'.state = work.state /\ work'.round = work.round
    BY <1>1, <1>4 DEF VerifyWork
  <2>2. Onward
    BY <1>4 DEF Onward, Begun
  <2> QED BY <1>1, <1>2, <1>4, <2>1, <2>2, SightedKept
<1> QED BY <1>3, <1>4, Zenon DEF CheckHardware

LEMMA AddClaimableBatchedSighted ==
  ASSUME IInv, Flowing, Sighted, AddClaimableBatched
  PROVE  Sighted'
<1>1. /\ work \in VerifyWork /\ Verifying /\ work.round \in Rounds /\ Doing(work.round, "verify")
      /\ "verify" \in FlowJobs /\ UNCHANGED <<seen, docs, dreState, warm>>
  BY VerifyingRound DEF AddClaimableBatched, FlowJobs
<1>2. ReadsOK'
  <2>1. UNCHANGED recent \/ \E g : RegistryBecomes(g)
    BY Zenon DEF AddClaimableBatched, Register
  <2> QED BY <1>1, <2>1, ReadsKept, BecomesReads DEF Sighted
<1>3. CASE Ends(work.round, Verified("Failed"))
  BY <1>1, <1>2, <1>3, EndsSighted, VerifiedReports
<1>4. ASSUME NEW B, UNCHANGED <<stage, output>>, work' = [work EXCEPT !.left = @ \ B]
      PROVE  Sighted'
  <2>1. work'.state = work.state /\ work'.round = work.round
    BY <1>1, <1>4 DEF VerifyWork
  <2>2. Onward
    BY <1>4 DEF Onward, Begun
  <2> QED BY <1>1, <1>2, <1>4, <2>1, <2>2, SightedKept
<1> QED BY <1>3, <1>4, Zenon DEF AddClaimableBatched

\* A document scores what the output of its round reports.
LEMMA CreateVerificationDataSighted ==
  ASSUME IInv, Flowing, Sighted, CreateVerificationData
  PROVE  Sighted'
<1>1. PICK v \in Rounds : v = work.round
  BY UploadingRound DEF CreateVerificationData
<1>2. /\ UNCHANGED <<dreState, warm, recent, seen, output, stage>>
      /\ docs' \in {Append(docs, Document(v)), docs}
  BY <1>1 DEF CreateVerificationData, reads, flow
<1>3. Begun(v)
  <2>1. stage[v] = "persist" \/ stage[v] \in {"distribute", "done"}
    BY <1>1, UploadingRound DEF CreateVerificationData, Persisting
  <2> QED BY <2>1 DEF Begun
<1>4. ~Verifying'
  <2>1. work' = [work EXCEPT !.step = work'.step] /\ work \in UploadWork
    BY UploadingRound DEF CreateVerificationData, UploadWork
  <2> QED BY <2>1 DEF UploadWork, Verifying
<1>5. ReadsOK' /\ OutputsSighted' /\ WorkSighted'
  BY <1>2, <1>4, ReadsKept DEF Sighted, OutputsSighted, WorkSighted, Begun
<1>6. Scored(v) \subseteq seen[v]
  BY DEF Sighted, OutputsSighted, Scored, Reported
<1>7. DocsSighted'
  <2>1. CASE docs' = docs
    BY <1>2, <2>1 DEF Sighted, DocsSighted, Begun
  <2>2. CASE docs' = Append(docs, Document(v))
    <3>1. PICK d : d = Document(v)
      OBVIOUS
    <3>2. d.round = v /\ d.relays \subseteq seen[v]
      BY <1>1, <1>6, <3>1 DEF Document
    <3>3. PICK S : docs \in Seq(S)
      BY DEF IInv, DocsOK
    <3>4. docs \in Seq(S \cup {d}) /\ docs' = Append(docs, d)
      BY <2>2, <3>1, <3>3
    <3>5. /\ Len(docs') = Len(docs) + 1 /\ docs'[Len(docs) + 1] = d /\ Len(docs) \in Nat
          /\ \A i \in 1..Len(docs) : docs'[i] = docs[i]
      BY <3>4
    <3>6. ASSUME NEW i \in 1..Len(docs')
          PROVE  /\ docs'[i].round \in Rounds /\ Begun(docs'[i].round)
                 /\ docs'[i].relays \subseteq seen[docs'[i].round]
      <4>1. CASE i \in 1..Len(docs)
        BY <3>5, <4>1 DEF Sighted, DocsSighted
      <4>2. CASE i = Len(docs) + 1
        BY <1>3, <3>2, <3>5, <4>2
      <4> QED BY <3>5, <4>1, <4>2
    <3> QED BY <1>2, <3>6 DEF DocsSighted, Begun
  <2> QED BY <1>2, <2>1, <2>2
<1> QED BY <1>2, <1>5, <1>7 DEF Sighted

LEMMA NextSighted ==
  ASSUME IInv, Flowing, Sighted, [Next]_vars
  PROVE  Sighted'
<1>1. ASSUME UNCHANGED <<stage, seen, output, docs>>, ReadsOK', UNCHANGED work \/ ~Verifying'
      PROVE  Sighted'
  <2>1. Onward
    BY <1>1 DEF Onward, Begun
  <2> QED BY <1>1, <2>1, SightedKept DEF Verifying
<1>2. CASE UNCHANGED vars
  BY <1>1, <1>2, ReadsKept DEF vars, reads, flow, Sighted
<1>3. ASSUME NEW v \in Rounds, NEW job \in {"families", "bonus", "confirm", "persist"},
             Doing(v, job), NEW o \in {output[v], Empty}, Ends(v, o), ReadsOK',
             UNCHANGED <<seen, docs>>
      PROVE  Sighted'
  <2>1. Reported(o) \subseteq seen[v]
    BY <1>3, EmptyReports DEF Sighted, OutputsSighted
  <2> QED BY <1>3, <2>1, EndsSighted DEF FlowJobs
<1>4. ASSUME UNCHANGED reads PROVE ReadsOK'
  BY <1>4, ReadsKept DEF reads, Sighted
<1>5. ASSUME NEW v \in Rounds, NEW R \in SUBSET Relays, StartRound(v, R) PROVE Sighted'
  <2>1. /\ stage[v] = "none" /\ stage' = [stage EXCEPT ![v] = "verify"]
        /\ UNCHANGED <<work, output, docs, seen>>
    BY <1>5 DEF StartRound, reads
  <2>2. Onward
    BY <2>1 DEF Onward, Begun, Flowing, Typed
  <2> QED BY <1>4, <1>5, <2>1, <2>2, SightedKept DEF StartRound, Verifying
<1>6. ASSUME NEW v \in Rounds, SetRelayFamilies(v) PROVE Sighted'
  <2>1. Doing(v, "families") /\ UNCHANGED <<seen, docs>> /\ RefreshDreState /\ UNCHANGED registry
    BY <1>6 DEF SetRelayFamilies, Doing, contracts
  <2>2. ReadsOK'
    BY <2>1, RefreshReads DEF Sighted
  <2> QED BY <1>3, <1>6, <2>1, <2>2 DEF SetRelayFamilies
<1>7. ASSUME NEW v \in Rounds, SetRelayFamiliesFails(v) PROVE Sighted'
  <2>1. /\ stage' = [stage EXCEPT ![v] = "failed"] /\ UNCHANGED <<work, output, docs, seen>>
    BY <1>7 DEF SetRelayFamiliesFails, reads
  <2>2. Onward
    BY <2>1 DEF Onward, Begun, Flowing, Typed
  <2> QED BY <1>4, <1>7, <2>1, <2>2, SightedKept DEF SetRelayFamiliesFails, Verifying
<1>8. ASSUME NEW v \in Rounds, SetHardwareBonusRelays(v) PROVE Sighted'
  <2>1. Doing(v, "bonus") /\ UNCHANGED <<seen, docs>> /\ ReadsOK'
    BY <1>4, <1>8 DEF SetHardwareBonusRelays, Doing, reads
  <2> QED BY <1>3, <1>8, <2>1 DEF SetHardwareBonusRelays
<1>9. ASSUME NEW v \in Rounds, ConfirmVerification(v) PROVE Sighted'
  <2>1. Doing(v, "confirm") /\ UNCHANGED <<seen, docs>> /\ ReadsOK'
    BY <1>4, <1>9 DEF ConfirmVerification, Doing, reads
  <2> QED BY <1>3, <1>9, <2>1 DEF ConfirmVerification
<1>10. ASSUME NEW v \in Rounds, PersistVerification(v) PROVE Sighted'
  <2>1. Doing(v, "persist") /\ UNCHANGED <<seen, docs>> /\ ReadsOK'
    BY <1>4, <1>10 DEF PersistVerification, Doing, reads
  <2>2. Ends(v, Empty) \/ (UNCHANGED <<stage, output>> /\ ~Verifying')
    BY <1>10 DEF PersistVerification, Verifying
  <2> QED BY <1>1, <1>3, <2>1, <2>2
<1>11. ASSUME NEW v \in Rounds, RecoverPersistVerification(v) PROVE Sighted'
  <2>1. UNCHANGED <<stage, seen, output, docs>> /\ ReadsOK'
    BY <1>4, <1>11 DEF RecoverPersistVerification, reads
  <2>2. UNCHANGED work \/ ~Verifying'
    BY <1>11 DEF RecoverPersistVerification, Verifying
  <2> QED BY <1>1, <2>1, <2>2
<1>12. ASSUME VerifyEnds PROVE Sighted'
  <2>1. /\ Ends(work.round, Verified("OK")) /\ UNCHANGED <<seen, docs>> /\ ReadsOK'
        /\ work.round \in Rounds /\ Doing(work.round, "verify") /\ "verify" \in FlowJobs
        /\ Verifying
    BY <1>4, <1>12, VerifyingRound DEF VerifyEnds, reads, FlowJobs
  <2> QED BY <2>1, EndsSighted, VerifiedReports
<1>13. ASSUME NEW step \in {"metrics", "stats"}, Store(step) PROVE Sighted'
  <2>1. UNCHANGED <<stage, seen, output, docs>> /\ ReadsOK' /\ PersistWork(work)
    BY <1>4, <1>13, PersistingWork DEF Store, reads, flow
  <2>2. \/ \E ok : work' = [work EXCEPT ![step] = ok, !.step = StoreNext(step)]
        \/ work' = [work EXCEPT !.step = StoreNext(step)]
    BY <1>13 DEF Store
  <2>3. ~Verifying'
    BY <2>1, <2>2 DEF PersistWork, Verifying
  <2> QED BY <1>1, <2>1, <2>3
<1>14. ASSUME StoreRelayHexMap PROVE Sighted'
  <2>1. UNCHANGED <<stage, seen, output, docs>> /\ ReadsOK' /\ PersistWork(work)
    BY <1>4, <1>14, PersistingWork DEF StoreRelayHexMap, reads, flow
  <2>2. ~Verifying'
    BY <1>14, <2>1 DEF StoreRelayHexMap, PersistWork, Verifying
  <2> QED BY <1>1, <2>1, <2>2
<1>15. ASSUME PersistEnds PROVE Sighted'
  <2>1. PICK v \in Rounds : v = work.round
    BY <1>15, UploadingRound DEF PersistEnds
  <2>2. UNCHANGED <<seen, docs>> /\ ReadsOK'
    BY <1>4, <1>15 DEF PersistEnds, reads
  <2>3. CASE work.job = "persist" /\ Ends(v, output[v])
    <3>1. Doing(v, "persist")
      BY <1>15, <2>1, <2>3, UploadingRound DEF PersistEnds
    <3> QED BY <1>3, <2>2, <2>3, <3>1
  <2>4. CASE work' = NoJob /\ UNCHANGED <<stage, output>>
    BY <1>1, <2>2, <2>4 DEF Verifying
  <2> QED BY <1>15, <2>1, <2>3, <2>4 DEF PersistEnds
<1>16. ASSUME NEW v \in Rounds, RecoveryAdded(v) PROVE Sighted'
  BY <1>1, <1>4, <1>16 DEF RecoveryAdded, reads
<1>17. ASSUME NEW v \in Rounds, DistributeMostRecent(v) PROVE Sighted'
  <2>1. /\ stage' = [stage EXCEPT ![v] = "done"] /\ UNCHANGED <<work, output, docs, seen>>
    BY <1>17 DEF DistributeMostRecent, reads
  <2>2. Onward
    BY <2>1 DEF Onward, Begun, Flowing, Typed
  <2> QED BY <1>4, <1>17, <2>1, <2>2, SightedKept DEF DistributeMostRecent, Verifying
<1>18. ASSUME NEW r \in Relays, Claim(r) \/ Remove(r) PROVE Sighted'
  <2>1. UNCHANGED <<dreState, warm>> /\ \E g : RegistryBecomes(g)
    BY <1>18 DEF Claim, Remove
  <2>2. ReadsOK'
    BY <2>1, BecomesReads DEF Sighted
  <2> QED BY <1>1, <1>18, <2>2 DEF Claim, Remove, flow
<1>19. ASSUME NEW r \in Relays, Transfer(r) PROVE Sighted'
  BY <1>1, <1>4, <1>19 DEF Transfer, reads, flow
<1>20. ASSUME Cools PROVE Sighted'
  <2>1. ReadsOK'
    BY <1>20 DEF Cools, ReadsOK, VerifiedIn
  <2> QED BY <1>1, <1>20, <2>1 DEF Cools, flow
<1>21. ASSUME Crash PROVE Sighted'
  <2>1. ReadsOK' /\ ~Verifying' /\ UNCHANGED <<seen, output, docs>>
    BY <1>21 DEF Crash, Sighted, ReadsOK, Verifying
  <2>2. \A v \in Rounds : stage'[v] = stage[v] \/ stage'[v] = "failed"
    BY <1>21 DEF Crash
  <2>3. Onward
    BY <2>2 DEF Onward, Begun
  <2> QED BY <2>1, <2>3, SightedKept
<1>22. CASE Worker
  BY <1>6, <1>7, <1>8, <1>9, <1>10, <1>11, <1>12, <1>13, <1>14, <1>15, <1>22,
     VerifyRelaysSighted, CheckHardwareSighted, AddClaimableBatchedSighted,
     CreateVerificationDataSighted DEF Worker
<1> QED BY <1>2, <1>5, <1>16, <1>17, <1>18, <1>19, <1>20, <1>21, <1>22 DEF Next

LEMMA InitSighted == Init => Sighted
<1> SUFFICES ASSUME Init PROVE Sighted
  OBVIOUS
<1>1. \A v \in Rounds : Reported(output[v]) = {}
  BY EmptyReports DEF Init
<1> QED BY <1>1 DEF Init, Sighted, ReadsOK, OutputsSighted, DocsSighted, WorkSighted, Verifying,
           VerifiedIn

LEMMA AlwaysSighted == Spec => [](IInv /\ Flowing /\ Sighted)
BY InitIInv, NextIInv, InitFlowing, NextFlowing, InitSighted, NextSighted, PTL DEF Spec

\* However rounds overlap, the process crashes and relays leave the registry, a relay that
\* is scored was verified in the minute before its round read the registry, or the fetch
\* for the round failed: what it was served then may be of any age.
THEOREM OnlySeenAreScored == Spec => []ScoredWereVerified
BY AlwaysSighted, SightedImplies, PTL

-----------------------------------------------------------------------------
(* A relay that the worker is to register and the registry has already was *)
(* dropped once more, or read from the state of an earlier fetch once      *)
(* more.                                                                   *)

\* The relays that the worker may yet register.
Hand == IF Verifying THEN work.check \cup work.left ELSE {}
Known(r) == IF registry[r] = "unknown" THEN 0 ELSE 1
Twice(r) == IF r \in Hand /\ registry[r] # "unknown" THEN 1 ELSE 0
CountsOK == registered \in [Relays -> Nat] /\ removed \in [Relays -> Nat] /\ cached \in Nat
Counted ==
  /\ CountsOK
  /\ \A r \in Relays : registered[r] + Twice(r) <= removed[r] + Known(r) + cached

LEMMA CountedImplies == Counted => RegistrationsBounded
<1> SUFFICES ASSUME Counted, NEW r \in Relays
             PROVE  registered[r] <= 1 + removed[r] + cached
  BY DEF RegistrationsBounded
<1>1. registered[r] \in Nat /\ removed[r] \in Nat /\ cached \in Nat
  BY DEF Counted, CountsOK
<1>2. Known(r) \in {0, 1} /\ Twice(r) \in {0, 1}
  BY DEF Known, Twice
<1>3. registered[r] + Twice(r) <= removed[r] + Known(r) + cached
  BY DEF Counted
<1> QED BY <1>1, <1>2, <1>3

\* The steps that neither begin to verify, nor look at hardware, nor register.
Aside ==
  /\ Verifying' => Verifying /\ UNCHANGED work
  /\ Verifying => Verifying' \/ work.left = {} \/ trouble'
  /\ UNCHANGED <<registered, hardware, cached>>
  /\ trouble => trouble'
  /\ UNCHANGED <<registry, removed>> \/ \E r \in Relays : Claim(r) \/ Remove(r)

LEMMA AsideSteps ==
  ASSUME IInv, Flowing, [Next]_vars
  PROVE  \/ \E v \in Rounds : VerifyRelays(v)
         \/ CheckHardware \/ AddClaimableBatched \/ Aside
<1>1. ASSUME UNCHANGED <<registered, hardware, cached, registry, removed>>, trouble => trouble',
             ~Verifying, ~Verifying'
      PROVE  Aside
  BY <1>1 DEF Aside
<1>2. ASSUME UNCHANGED <<registered, hardware, cached, work>>, trouble => trouble',
             UNCHANGED <<registry, removed>> \/ \E r \in Relays : Claim(r) \/ Remove(r)
      PROVE  Aside
  BY <1>2 DEF Aside, Verifying
<1>3. CASE UNCHANGED vars
  BY <1>2, <1>3 DEF vars, contracts, proofs, reads
<1>4. ASSUME NEW v \in Rounds, NEW R \in SUBSET Relays, StartRound(v, R) PROVE Aside
  BY <1>2, <1>4 DEF StartRound, contracts, proofs, reads
<1>5. ASSUME NEW v \in Rounds, SetRelayFamilies(v) PROVE Aside
  <2>1. ~Verifying /\ ~Verifying'
    BY <1>5, EndsVerifying DEF SetRelayFamilies, Takes, Verifying
  <2>2. trouble => trouble'
    BY <1>5, Refreshed DEF SetRelayFamilies
  <2> QED BY <1>1, <1>5, <2>1, <2>2 DEF SetRelayFamilies, contracts, proofs
<1>6. ASSUME NEW v \in Rounds, SetRelayFamiliesFails(v) PROVE Aside
  BY <1>2, <1>6 DEF SetRelayFamiliesFails, contracts, proofs, reads
<1>7. ASSUME NEW v \in Rounds, SetHardwareBonusRelays(v) PROVE Aside
  <2>1. ~Verifying /\ ~Verifying' /\ (trouble => trouble')
    BY <1>7, EndsVerifying DEF SetHardwareBonusRelays, Takes, Verifying
  <2> QED BY <1>1, <1>7, <2>1 DEF SetHardwareBonusRelays, proofs, reads
<1>8. ASSUME NEW v \in Rounds, ConfirmVerification(v) PROVE Aside
  <2>1. ~Verifying /\ ~Verifying' /\ (trouble => trouble')
    BY <1>8, EndsVerifying DEF ConfirmVerification, Takes, Verifying
  <2> QED BY <1>1, <1>8, <2>1 DEF ConfirmVerification, contracts, proofs, reads
<1>9. ASSUME NEW v \in Rounds, PersistVerification(v) PROVE Aside
  <2>1. ~Verifying /\ ~Verifying' /\ (trouble => trouble')
    BY <1>9, EndsVerifying DEF PersistVerification, Takes, Verifying
  <2> QED BY <1>1, <1>9, <2>1 DEF PersistVerification, contracts, proofs, reads
<1>10. ASSUME NEW v \in Rounds, RecoverPersistVerification(v) PROVE Aside
  <2>1. ~Verifying /\ ~Verifying'
    BY <1>10 DEF RecoverPersistVerification, Takes, Verifying
  <2> QED BY <1>1, <1>10, <2>1 DEF RecoverPersistVerification, contracts, proofs, reads
<1>11. CASE VerifyEnds
  <2>1. Verifying /\ ~Verifying' /\ work.left = {}
    BY <1>11, EndsVerifying DEF VerifyEnds
  <2>2. UNCHANGED <<registered, hardware, cached, registry, removed, trouble>>
    BY <1>11 DEF VerifyEnds, contracts, proofs, reads
  <2> QED BY <2>1, <2>2 DEF Aside
<1>12. ASSUME NEW step \in {"metrics", "stats"}, Store(step) PROVE Aside
  <2>1. PersistWork(work)
    BY <1>12, PersistingWork DEF Store
  <2>2. \/ \E ok : work' = [work EXCEPT ![step] = ok, !.step = StoreNext(step)]
        \/ work' = [work EXCEPT !.step = StoreNext(step)]
    BY <1>12 DEF Store
  <2>3. ~Verifying /\ ~Verifying'
    BY <2>1, <2>2 DEF PersistWork, Verifying
  <2>4. trouble => trouble'
    BY <1>12 DEF Store
  <2> QED BY <1>1, <1>12, <2>3, <2>4 DEF Store, contracts, proofs, reads
<1>13. CASE CreateVerificationData \/ StoreRelayHexMap
  <2>1. PersistWork(work)
    BY <1>13, PersistingWork DEF CreateVerificationData, StoreRelayHexMap
  <2>2. \E s : work' = [work EXCEPT !.step = s]
    BY <1>13 DEF CreateVerificationData, StoreRelayHexMap
  <2>3. ~Verifying /\ ~Verifying'
    BY <2>1, <2>2 DEF PersistWork, Verifying
  <2>4. trouble => trouble'
    BY <1>13 DEF CreateVerificationData, StoreRelayHexMap
  <2>5. UNCHANGED <<registered, hardware, cached, registry, removed>>
    BY <1>13 DEF CreateVerificationData, StoreRelayHexMap, contracts, proofs, reads
  <2> QED BY <1>1, <2>3, <2>4, <2>5
<1>14. CASE PersistEnds
  <2>1. PersistWork(work) /\ work' = NoJob
    BY <1>14, PersistingWork DEF PersistEnds, Ends
  <2>2. ~Verifying /\ ~Verifying'
    BY <2>1 DEF PersistWork, Verifying
  <2> QED BY <1>1, <1>14, <2>2 DEF PersistEnds, contracts, proofs, reads
<1>15. ASSUME NEW v \in Rounds, RecoveryAdded(v) \/ DistributeMostRecent(v) PROVE Aside
  BY <1>2, <1>15 DEF RecoveryAdded, DistributeMostRecent, contracts, proofs, reads
<1>16. ASSUME NEW r \in Relays, Claim(r) \/ Remove(r) PROVE Aside
  BY <1>2, <1>16 DEF Claim, Remove, proofs
<1>17. ASSUME NEW r \in Relays, Transfer(r) PROVE Aside
  BY <1>2, <1>17 DEF Transfer, contracts, reads
<1>18. CASE Cools
  BY <1>2, <1>18 DEF Cools, contracts, proofs
<1>19. CASE Crash
  <2>1. ~Verifying' /\ trouble'
    BY <1>19 DEF Crash, Verifying
  <2> QED BY <1>19, <2>1 DEF Aside, Crash, proofs
<1>20. CASE Worker
  BY <1>5, <1>6, <1>7, <1>8, <1>9, <1>10, <1>11, <1>12, <1>13, <1>14, <1>20 DEF Worker
<1> QED BY <1>3, <1>4, <1>15, <1>16, <1>17, <1>18, <1>19, <1>20 DEF Next

\* A step that registers nothing and gives the worker nothing more to register.
LEMMA CountedKept ==
  ASSUME Counted, UNCHANGED <<registered, cached, registry, removed>>, Hand' \subseteq Hand
  PROVE  Counted'
<1>1. CountsOK'
  BY DEF Counted, CountsOK
<1>2. ASSUME NEW r \in Relays
      PROVE  registered'[r] + Twice(r)' <= removed'[r] + Known(r)' + cached'
  <2>1. registered[r] \in Nat /\ removed[r] \in Nat /\ cached \in Nat
    BY DEF Counted, CountsOK
  <2>2. Known(r)' = Known(r) /\ Known(r) \in {0, 1}
    BY DEF Known
  <2>3. Twice(r) \in {0, 1} /\ Twice(r)' \in {0, Twice(r)}
    BY DEF Twice
  <2>4. registered[r] + Twice(r) <= removed[r] + Known(r) + cached
    BY DEF Counted
  <2> QED BY <2>1, <2>2, <2>3, <2>4
<1> QED BY <1>1, <1>2 DEF Counted

\* A round whose state is not that of the registry was served an earlier fetch.
LEMMA VerifyRelaysCounted ==
  ASSUME IInv, Counted, NEW v \in Rounds, VerifyRelays(v)
  PROVE  Counted'
<1>1. UNCHANGED <<registered, registry, removed>>
  BY DEF VerifyRelays, contracts
<1>2. Hand = {}
  BY DEF VerifyRelays, Takes, Hand, Verifying
<1>3. cached \in Nat /\ cached' \in {cached, cached + 1}
  BY DEF VerifyRelays, Counted, CountsOK
<1>4. CountsOK'
  BY <1>1, <1>3 DEF Counted, CountsOK
<1>5. cached' = cached + 1 \/ \A r \in Hand' : registry'[r] = "unknown"
  <2>1. CASE Ends(v, Empty)
    BY <2>1, EndsVerifying DEF Hand
  <2>2. CASE Begins(v, StateRead)
    <3>1. Hand' \subseteq New(v, StateRead)
      BY <2>2, ReadTyped, BeginsTyped DEF Hand
    <3>2. \A r \in New(v, StateRead) : StateRead[r] = "unknown"
      BY DEF New, Unregistered
    <3>3. CASE StateRead = registry
      BY <1>1, <3>1, <3>2, <3>3
    <3>4. CASE StateRead # registry
      <4>1. StateRead = dreState' /\ dreState' # registry /\ dreState' # NoState
        BY <3>4 DEF StateRead
      <4>2. dreState' = dreState /\ warm' = warm
        BY <4>1 DEF VerifyRelays, RefreshDreState, Fetch, FetchFails
      <4> QED BY <4>1, <4>2 DEF VerifyRelays
    <3> QED BY <3>3, <3>4
  <2> QED BY <2>1, <2>2, VerifyRelaysCases
<1>6. ASSUME NEW r \in Relays
      PROVE  registered'[r] + Twice(r)' <= removed'[r] + Known(r)' + cached'
  <2>1. registered[r] \in Nat /\ removed[r] \in Nat
    BY DEF Counted, CountsOK
  <2>2. Known(r)' = Known(r) /\ Known(r) \in {0, 1}
    BY <1>1 DEF Known
  <2>3. Twice(r) = 0 /\ Twice(r)' \in {0, 1}
    BY <1>2 DEF Twice
  <2>4. cached' = cached + 1 \/ Twice(r)' = 0
    BY <1>5 DEF Twice
  <2>5. registered[r] + Twice(r) <= removed[r] + Known(r) + cached
    BY DEF Counted
  <2> QED BY <1>1, <1>3, <2>1, <2>2, <2>3, <2>4, <2>5
<1> QED BY <1>4, <1>6 DEF Counted

LEMMA CheckHardwareCounted ==
  ASSUME IInv, Counted, CheckHardware
  PROVE  Counted'
<1>1. work \in VerifyWork /\ Verifying
  BY VerifyingWork DEF CheckHardware
<1>2. UNCHANGED <<registered, cached, registry, removed>>
  BY DEF CheckHardware, contracts, reads
<1>3. PICK r \in work.check :
        \/ work' = [work EXCEPT !.check = @ \ {r}, !.add = @ \cup {r}, !.left = @ \cup {r}]
        \/ work' = [work EXCEPT !.check = @ \ {r}]
        \/ Ends(work.round, Empty)
  BY Zenon DEF CheckHardware
<1>4. Hand' \subseteq Hand
  <2>1. CASE Ends(work.round, Empty)
    BY <2>1, EndsVerifying DEF Hand
  <2>2. CASE work' = [work EXCEPT !.check = @ \ {r}, !.add = @ \cup {r}, !.left = @ \cup {r}]
    <3>1. work'.check = work.check \ {r} /\ work'.left = work.left \cup {r}
      BY <1>1, <2>2 DEF VerifyWork
    <3> QED BY <1>1, <3>1 DEF Hand
  <2>3. CASE work' = [work EXCEPT !.check = @ \ {r}]
    <3>1. work'.check = work.check \ {r} /\ work'.left = work.left
      BY <1>1, <2>3 DEF VerifyWork
    <3> QED BY <1>1, <3>1 DEF Hand
  <2> QED BY <1>3, <2>1, <2>2, <2>3
<1> QED BY <1>2, <1>4, CountedKept

\* What an interaction registers leaves the hand of the worker.
LEMMA AddClaimableBatchedCounted ==
  ASSUME IInv, Counted, AddClaimableBatched
  PROVE  Counted'
<1>1. work \in VerifyWork /\ Verifying /\ work.check = {} /\ UNCHANGED <<cached, removed>>
  BY VerifyingWork DEF AddClaimableBatched
<1>2. PICK B \in SUBSET work.left :
        /\ Register(B) \/ UNCHANGED <<registry, recent, registered>>
        /\ Ends(work.round, Verified("Failed")) \/ work' = [work EXCEPT !.left = @ \ B]
  BY Zenon DEF AddClaimableBatched
<1>3. Hand = work.left /\ Hand' \subseteq work.left \ B
  <2>1. CASE Ends(work.round, Verified("Failed"))
    BY <1>1, <2>1, EndsVerifying DEF Hand
  <2>2. CASE work' = [work EXCEPT !.left = @ \ B]
    <3>1. work'.left = work.left \ B /\ work'.check = {}
      BY <1>1, <2>2 DEF VerifyWork
    <3> QED BY <1>1, <3>1 DEF Hand
  <2> QED BY <1>2, <2>1, <2>2
<1>4. CASE UNCHANGED <<registry, recent, registered>>
  BY <1>1, <1>3, <1>4, CountedKept
<1>5. CASE Register(B)
  <2>1. /\ registry' = [r \in Relays |->
             IF r \in B /\ registry[r] = "unknown" THEN "claimable" ELSE registry[r]]
        /\ registered' = [r \in Relays |-> registered[r] + IF r \in B THEN 1 ELSE 0]
    BY <1>5 DEF Register, RegistryBecomes
  <2>2. CountsOK'
    BY <1>1, <2>1 DEF Counted, CountsOK
  <2>3. ASSUME NEW r \in Relays
        PROVE  registered'[r] + Twice(r)' <= removed'[r] + Known(r)' + cached'
    <3>1. registered[r] \in Nat /\ removed[r] \in Nat /\ cached \in Nat
      BY DEF Counted, CountsOK
    <3>2. registered[r] + Twice(r) <= removed[r] + Known(r) + cached
      BY DEF Counted
    <3>3. CASE r \in B
      <4>1. registered'[r] = registered[r] + 1 /\ Known(r)' = 1 /\ Twice(r)' = 0
        BY <1>3, <2>1, <3>3 DEF Known, Twice
      <4>2. Known(r) = Twice(r) /\ Twice(r) \in {0, 1}
        BY <1>2, <1>3, <3>3 DEF Known, Twice
      <4> QED BY <1>1, <3>1, <3>2, <4>1, <4>2
    <3>4. CASE r \notin B
      <4>1. registered'[r] = registered[r] /\ registry'[r] = registry[r]
        BY <2>1, <3>1, <3>4
      <4>2. Known(r)' = Known(r) /\ Known(r) \in {0, 1}
        BY <4>1 DEF Known
      <4>3. Twice(r) \in {0, 1} /\ Twice(r)' \in {0, Twice(r)}
        BY <1>3, <4>1 DEF Twice
      <4> QED BY <1>1, <3>1, <3>2, <4>1, <4>2, <4>3
    <3> QED BY <3>3, <3>4
  <2> QED BY <2>2, <2>3 DEF Counted
<1> QED BY <1>2, <1>4, <1>5

\* A relay that is dropped is counted among the dropped, and no longer known.
LEMMA RegistryCounted ==
  ASSUME IInv, Counted, NEW q \in Relays, Claim(q) \/ Remove(q)
  PROVE  Counted'
<1>1. registry \in [Relays -> Statuses] /\ UNCHANGED <<registered, cached, work>>
  BY DEF IInv, ContractsOK, Registry, Claim, Remove
<1>2. Hand' = Hand
  BY <1>1 DEF Hand, Verifying
<1>3. CountsOK'
  BY <1>1 DEF Counted, CountsOK, Claim, Remove
<1>4. ASSUME NEW r \in Relays
      PROVE  registered'[r] + Twice(r)' <= removed'[r] + Known(r)' + cached'
  <2>1. registered[r] \in Nat /\ removed[r] \in Nat /\ cached \in Nat
    BY DEF Counted, CountsOK
  <2>2. registered[r] + Twice(r) <= removed[r] + Known(r) + cached
    BY DEF Counted
  <2>3. Known(r) \in {0, 1} /\ Twice(r) \in {0, 1}
    BY DEF Known, Twice
  <2>4. CASE Remove(q) /\ r = q
    <3>1. registry[r] # "unknown" /\ registry'[r] = "unknown" /\ removed'[r] = removed[r] + 1
      BY <1>1, <2>4 DEF Remove, RegistryBecomes, Counted, CountsOK
    <3>2. Known(r) = 1 /\ Known(r)' = 0 /\ Twice(r)' = 0
      BY <3>1 DEF Known, Twice
    <3> QED BY <1>1, <2>1, <2>2, <2>3, <3>1, <3>2
  <2>5. CASE Claim(q) \/ r # q
    <3>1. removed'[r] = removed[r] /\ (registry'[r] = "unknown" <=> registry[r] = "unknown")
      BY <1>1, <2>5 DEF Claim, Remove, RegistryBecomes, Counted, CountsOK
    <3>2. Known(r)' = Known(r) /\ Twice(r)' = Twice(r)
      BY <1>2, <3>1 DEF Known, Twice
    <3> QED BY <1>1, <2>1, <2>2, <2>3, <3>1, <3>2
  <2> QED BY <2>4, <2>5
<1> QED BY <1>3, <1>4 DEF Counted

LEMMA NextCounted ==
  ASSUME IInv, Flowing, Counted, [Next]_vars
  PROVE  Counted'
<1>1. CASE Aside
  <2>1. CASE UNCHANGED <<registry, removed>>
    <3>1. Hand' \subseteq Hand
      BY <1>1 DEF Aside, Hand
    <3> QED BY <1>1, <2>1, <3>1, CountedKept DEF Aside
  <2> QED BY <1>1, <2>1, RegistryCounted DEF Aside
<1> QED BY <1>1, AsideSteps, VerifyRelaysCounted, CheckHardwareCounted,
           AddClaimableBatchedCounted

LEMMA InitCounted == Init => Counted
BY DEF Init, Counted, CountsOK, Twice, Known, Hand, Verifying

LEMMA AlwaysCounted == Spec => [](IInv /\ Flowing /\ Counted)
BY InitIInv, NextIInv, InitFlowing, NextFlowing, InitCounted, NextCounted, PTL DEF Spec

\* A relay is registered again only when the registry dropped it or a round was served
\* the state of an earlier fetch, however rounds overlap, calls fail and crashes run the
\* jobs again.
THEOREM RegistrationsStayBounded == Spec => []RegistrationsBounded
BY AlwaysCounted, CountedImplies, PTL

-----------------------------------------------------------------------------
(* The uploads of a round against the attempts that it has left.           *)

Early(v) == stage[v] \in FlowJobs \cup {"none"}

\* The attempts at the uploads of v that may still come: the first and its retries, or
\* the retries that its recovery has.
Left(v) == IF Early(v) THEN 1 + MaxUploadRetries
           ELSE IF recovery[v] = NoJob THEN 0 ELSE recovery[v].retries

\* The attempt under way is among those left, and has passed the upload of metrics, of
\* statistics, or of the hex map, when its step is one of those given.
Uploading == work # NoJob /\ work.job \in {"persist", "recover"}
Spent(v, steps) == IF Uploading /\ work.round = v /\ work.step \in steps THEN 1 ELSE 0

PastStats == {"create", "hexMap", "end"}
PastMetrics == {"stats"} \cup PastStats

Bounds(v) ==
  /\ uploaded[v].metrics + Left(v) <= 1 + MaxUploadRetries + crashes + Spent(v, PastMetrics)
  /\ uploaded[v].stats + Left(v) <= 1 + MaxUploadRetries + crashes + Spent(v, PastStats)
HexMapOf(v) ==
  /\ uploaded[v].hexMap <= crashes + IF Early(v) THEN Spent(v, {"end"}) ELSE 1
  /\ uploaded[v].hexMap > 0 => uploaded[v].metrics > 0 /\ uploaded[v].stats > 0
Attempt(v) ==
  Uploading /\ work.round = v =>
    /\ work.job = "persist" => /\ work.metrics => uploaded[v].metrics > 0
                               /\ work.stats => uploaded[v].stats > 0
    /\ work.step = "hexMap" => work.job = "persist" /\ work.metrics /\ work.stats
UploadsOf(v) == Bounds(v) /\ HexMapOf(v) /\ Attempt(v)
Uploads == /\ crashes \in Nat
           /\ uploaded \in [Rounds -> [metrics : Nat, stats : Nat, hexMap : Nat]]
           /\ \A v \in Rounds : UploadsOf(v)

LEMMA LeftTyped ==
  ASSUME Flowing, NEW v \in Rounds
  PROVE  /\ Left(v) \in Nat
         /\ \A steps : Spent(v, steps) \in {0, 1}
         /\ recovery[v] # NoJob => ~Early(v) /\ Left(v) = recovery[v].retries
         /\ stage[v] \in StageNames
<1>1. recovery[v] # NoJob => ~Early(v)
  BY DEF Flowing, Queued, Early, FlowJobs
<1>2. recovery[v] # NoJob => recovery[v].retries \in Nat
  BY DEF Flowing, Typed, Recoveries
<1> QED BY <1>1, <1>2, VerificationAssumption DEF Left, Spent, Flowing, Typed

\* An attempt under way is one of those left.
LEMMA ActiveLeft ==
  ASSUME Flowing, Uploading
  PROVE  work.round \in Rounds /\ Left(work.round) > 0
<1>1. work \in UploadWork /\ work.round \in Rounds
  BY DEF Flowing, Typed, Uploading, VerifyWork, UploadWork
<1>2. Persisting(work.step)
  BY DEF Uploading, Persisting
<1>3. CASE work.job = "persist"
  BY <1>1, <1>2, <1>3, UploadingRound, VerificationAssumption DEF Left, Early, FlowJobs
<1>4. CASE work.job = "recover"
  <2>1. /\ recovery[work.round] # NoJob
        /\ work.retries = recovery[work.round].retries - 1
    BY <1>1, <1>2, <1>4, UploadingRound, VerificationAssumption
  <2>2. work.retries \in Nat /\ recovery[work.round].retries \in Nat
    BY <1>1, <2>1 DEF UploadWork, Flowing, Typed, Recoveries
  <2> QED BY <1>1, <2>1, <2>2, LeftTyped
<1> QED BY <1>1, <1>3, <1>4 DEF Uploading

LEMMA UploadsImply == Flowing /\ Uploads => UploadsBounded
<1> SUFFICES ASSUME Flowing, Uploads, NEW v \in Rounds
             PROVE  /\ uploaded[v].metrics <= 1 + MaxUploadRetries + crashes
                    /\ uploaded[v].stats <= 1 + MaxUploadRetries + crashes
                    /\ uploaded[v].hexMap <= 1 + crashes
                    /\ uploaded[v].hexMap > 0 => uploaded[v].metrics > 0 /\ uploaded[v].stats > 0
  BY DEF UploadsBounded
<1>1. /\ uploaded[v].metrics \in Nat /\ uploaded[v].stats \in Nat /\ uploaded[v].hexMap \in Nat
      /\ crashes \in Nat /\ MaxUploadRetries \in Nat /\ UploadsOf(v)
  BY VerificationAssumption DEF Uploads
<1>2. PICK a, b \in {0, 1} : a = Spent(v, PastMetrics) /\ b = Spent(v, PastStats)
  BY DEF Spent
<1>3. Left(v) \in Nat /\ (a = 1 => Left(v) > 0) /\ (b = 1 => Left(v) > 0)
  <2>1. Uploading /\ work.round = v => Left(v) > 0
    BY ActiveLeft
  <2> QED BY <1>2, <2>1, LeftTyped DEF Spent
<1>4. /\ uploaded[v].metrics + Left(v) <= 1 + MaxUploadRetries + crashes + a
      /\ uploaded[v].stats + Left(v) <= 1 + MaxUploadRetries + crashes + b
  BY <1>1, <1>2 DEF UploadsOf, Bounds
<1>5. uploaded[v].hexMap <= 1 + crashes
  <2>1. PICK c \in {0, 1} : uploaded[v].hexMap <= crashes + c
    BY <1>1 DEF UploadsOf, HexMapOf, Spent
  <2> QED BY <1>1, <2>1
<1> QED BY <1>1, <1>3, <1>4, <1>5 DEF UploadsOf, HexMapOf

LEMMA LeftTypedNext ==
  ASSUME Flowing', NEW v \in Rounds
  PROVE  Left(v)' \in Nat
<1>1. recovery'[v] # NoJob => recovery'[v].retries \in Nat
  BY DEF Flowing, Typed, Recoveries
<1> QED BY <1>1, VerificationAssumption DEF Left

LEMMA LeftKept ==
  ASSUME Flowing, Flowing', NEW v \in Rounds, Early(v)' => Early(v),
         recovery'[v] = NoJob \/ (recovery[v] # NoJob /\ recovery'[v].retries = recovery[v].retries)
  PROVE  Left(v) \in Nat /\ Left(v)' \in Nat /\ Left(v)' <= Left(v)
<1>1. Left(v) \in Nat /\ (recovery[v] # NoJob => ~Early(v) /\ Left(v) = recovery[v].retries)
  BY LeftTyped
<1>2. Early(v)' => Left(v)' = Left(v)
  BY DEF Left
<1>3. ~Early(v)' /\ recovery'[v] = NoJob => Left(v)' = 0
  BY DEF Left
<1>4. ~Early(v)' /\ recovery'[v] # NoJob => Left(v)' = Left(v)
  BY <1>1 DEF Left
<1> QED BY <1>1, <1>2, <1>3, <1>4

\* A step that uploads nothing and ends no attempt.
Quiet == /\ UNCHANGED <<uploaded, crashes>>
         /\ \A v \in Rounds :
              /\ Early(v)' => Early(v)
              /\ \/ recovery'[v] = NoJob
                 \/ recovery[v] # NoJob /\ recovery'[v].retries = recovery[v].retries
         /\ \/ UNCHANGED work
            \/ /\ ~Uploading
               /\ Uploading' => /\ work'.step = "metrics"
                                /\ work'.job = "persist" => ~work'.metrics /\ ~work'.stats

LEMMA QuietUploads ==
  ASSUME Flowing, Flowing', Uploads, Quiet
  PROVE  Uploads'
<1>1. crashes' \in Nat /\ uploaded' \in [Rounds -> [metrics : Nat, stats : Nat, hexMap : Nat]]
  BY DEF Uploads, Quiet
<1>2. ASSUME NEW v \in Rounds PROVE UploadsOf(v)'
  <2>1. Left(v) \in Nat /\ Left(v)' \in Nat /\ Left(v)' <= Left(v)
    BY LeftKept DEF Quiet
  <2>2. /\ Spent(v, PastMetrics)' = Spent(v, PastMetrics)
        /\ Spent(v, PastStats)' = Spent(v, PastStats)
        /\ Spent(v, {"end"})' = Spent(v, {"end"})
    BY DEF Quiet, Spent, Uploading, PastMetrics, PastStats
  <2>3. /\ Spent(v, PastMetrics) \in {0, 1} /\ Spent(v, PastStats) \in {0, 1}
        /\ Spent(v, {"end"}) \in {0, 1}
    BY DEF Spent
  <2>4. /\ uploaded[v].metrics \in Nat /\ uploaded[v].stats \in Nat /\ crashes \in Nat
        /\ uploaded[v].hexMap \in Nat
        /\ MaxUploadRetries \in Nat /\ uploaded' = uploaded /\ crashes' = crashes
    BY VerificationAssumption DEF Uploads, Quiet
  <2>5. Bounds(v) /\ HexMapOf(v) /\ Attempt(v)
    BY DEF Uploads, UploadsOf
  <2>6. Bounds(v)'
    BY <2>1, <2>2, <2>3, <2>4, <2>5 DEF Bounds
  <2>7. HexMapOf(v)'
    <3>1. Early(v)' => Early(v)
      BY DEF Quiet
    <3> QED BY <2>2, <2>3, <2>4, <2>5, <3>1 DEF HexMapOf
  <2>8. Attempt(v)'
    BY <2>5 DEF Quiet, Uploading, Attempt
  <2> QED BY <2>6, <2>7, <2>8 DEF UploadsOf
<1> QED BY <1>1, <1>2 DEF Uploads

\* The end of a job of a flow that uploads nothing.
LEMMA EndsQuiet ==
  ASSUME Flowing, NEW v \in Rounds, NEW job \in FlowJobs, Doing(v, job), NEW o, Ends(v, o),
         ~Uploading, UNCHANGED <<recovery, uploaded, crashes>>
  PROVE  Quiet
<1>1. stage[v] = job /\ work' = NoJob /\ stage' = [stage EXCEPT ![v] = After(job)]
  BY EndsQueue
<1>2. \A u \in Rounds : Early(u)' => Early(u)
  BY <1>1 DEF Early, Flowing, Typed
<1> QED BY <1>1, <1>2 DEF Quiet, Uploading

LEMMA StageQuiet ==
  ASSUME UNCHANGED <<stage, recovery, uploaded, crashes>>,
         UNCHANGED work \/ (~Uploading /\ ~Uploading')
  PROVE  Quiet
BY DEF Quiet, Early

LEMMA VerifyingQuiet == Verifying => ~Uploading
BY DEF Verifying, Uploading

LEMMA TakesQuiet == \A v, job : Takes(v, job) => ~Uploading
BY DEF Takes, Uploading

LEMMA VerifyRelaysQuiet ==
  ASSUME Flowing, NEW v \in Rounds, VerifyRelays(v)
  PROVE  Quiet
<1>1. /\ Takes(v, "verify") /\ Doing(v, "verify") /\ "verify" \in FlowJobs
      /\ UNCHANGED <<recovery, uploaded, crashes>>
  BY DEF VerifyRelays, Doing, FlowJobs
<1>2. ~Uploading
  BY <1>1, TakesQuiet
<1>3. CASE Ends(v, Empty)
  BY <1>1, <1>2, <1>3, EndsQuiet
<1>4. CASE Begins(v, StateRead)
  <2>1. ~Uploading'
    BY <1>4 DEF Uploading, Begins
  <2> QED BY <1>1, <1>2, <1>4, <2>1, StageQuiet DEF Begins
<1> QED BY <1>3, <1>4, VerifyRelaysCases

LEMMA CheckHardwareQuiet ==
  ASSUME Flowing, CheckHardware
  PROVE  Quiet
<1>1. /\ work \in VerifyWork /\ work.round \in Rounds /\ Doing(work.round, "verify")
      /\ ~Uploading /\ "verify" \in FlowJobs /\ UNCHANGED <<recovery, uploaded, crashes>>
  BY VerifyingRound, VerifyingQuiet DEF CheckHardware, FlowJobs
<1>2. CASE Ends(work.round, Empty)
  BY <1>1, <1>2, EndsQuiet
<1>3. ASSUME NEW r, UNCHANGED stage,
             \/ work' = [work EXCEPT !.check = @ \ {r}, !.add = @ \cup {r}, !.left = @ \cup {r}]
             \/ work' = [work EXCEPT !.check = @ \ {r}]
      PROVE  Quiet
  <2>1. ~Uploading'
    BY <1>1, <1>3 DEF Uploading, VerifyWork
  <2> QED BY <1>1, <1>3, <2>1, StageQuiet
<1> QED BY <1>2, <1>3, Zenon DEF CheckHardware

LEMMA AddClaimableBatchedQuiet ==
  ASSUME Flowing, AddClaimableBatched
  PROVE  Quiet
<1>1. /\ work \in VerifyWork /\ work.round \in Rounds /\ Doing(work.round, "verify")
      /\ ~Uploading /\ "verify" \in FlowJobs /\ UNCHANGED <<recovery, uploaded, crashes>>
  BY VerifyingRound, VerifyingQuiet DEF AddClaimableBatched, FlowJobs
<1>2. CASE Ends(work.round, Verified("Failed"))
  BY <1>1, <1>2, EndsQuiet
<1>3. ASSUME NEW B, UNCHANGED stage, work' = [work EXCEPT !.left = @ \ B]
      PROVE  Quiet
  <2>1. ~Uploading'
    BY <1>1, <1>3 DEF Uploading, VerifyWork
  <2> QED BY <1>1, <1>3, <2>1, StageQuiet
<1> QED BY <1>2, <1>3, Zenon DEF AddClaimableBatched

LEMMA PersistVerificationQuiet ==
  ASSUME Flowing, NEW v \in Rounds, PersistVerification(v)
  PROVE  Quiet
<1>1. /\ Takes(v, "persist") /\ Doing(v, "persist") /\ "persist" \in FlowJobs
      /\ ~Uploading /\ UNCHANGED <<recovery, uploaded, crashes>>
  BY TakesQuiet DEF PersistVerification, Doing, FlowJobs
<1>2. CASE Ends(v, Empty)
  BY <1>1, <1>2, EndsQuiet
<1>3. CASE /\ work' = [round |-> v, job |-> "persist", step |-> "metrics",
                       retries |-> MaxUploadRetries, metrics |-> FALSE,
                       stats |-> FALSE, given |-> [metrics |-> FALSE, stats |-> FALSE]]
           /\ UNCHANGED stage
  <2>1. work'.step = "metrics" /\ ~work'.metrics /\ ~work'.stats
    BY <1>3
  <2> QED BY <1>1, <1>3, <2>1 DEF Quiet, Early
<1> QED BY <1>2, <1>3, Zenon DEF PersistVerification

LEMMA RecoverPersistVerificationQuiet ==
  ASSUME Flowing, NEW v \in Rounds, RecoverPersistVerification(v)
  PROVE  Quiet
<1>1. ~Uploading /\ UNCHANGED <<stage, recovery, uploaded, crashes>>
  BY TakesQuiet DEF RecoverPersistVerification
<1>2. UNCHANGED work \/ (work'.step = "metrics" /\ work'.job = "recover")
  BY DEF RecoverPersistVerification
<1> QED BY <1>1, <1>2 DEF Quiet, Early

\* storeRelayMetrics and storeValidationStats: an upload that succeeds spends the
\* attempt for its kind.
LEMMA StoreUploads ==
  ASSUME Flowing, Uploads, NEW step \in {"metrics", "stats"}, Store(step)
  PROVE  Uploads'
<1> DEFINE r == work.round
<1>1. /\ work \in UploadWork /\ r \in Rounds /\ work # NoJob /\ work.step = step /\ Uploading
  BY UploadingRound DEF Store, Persisting, Uploading
<1>2. UNCHANGED <<stage, recovery, crashes>>
  BY DEF Store, flow
<1>3. /\ work' \in UploadWork /\ work' # NoJob /\ work'.round = r /\ work'.job = work.job
      /\ work'.step = StoreNext(step)
      /\ \A kind \in {"metrics", "stats"} \ {step} : work'[kind] = work[kind]
  <2>1. \/ work' = [work EXCEPT !.step = StoreNext(step)]
        \/ \E ok \in BOOLEAN : work' = [work EXCEPT ![step] = ok, !.step = StoreNext(step)]
    BY DEF Store
  <2>2. /\ work' \in UploadWork /\ work'.round = r /\ work'.job = work.job
        /\ work'.step = StoreNext(step)
        /\ \A kind \in {"metrics", "stats"} \ {step} : work'[kind] = work[kind]
    BY <1>1, <2>1 DEF UploadWork, StoreNext
  <2> QED BY <2>2, NotWork
<1>4. Uploading'
  BY <1>1, <1>3 DEF Uploading
<1>5. PICK n \in {0, 1} :
        /\ uploaded' = [uploaded EXCEPT ![r][step] = @ + n]
        /\ n = 0 /\ work'[step] => work[step]
  <2>1. CASE uploaded' = uploaded /\ (work'[step] => work[step])
    <3>1. uploaded' = [uploaded EXCEPT ![r][step] = @ + 0]
      BY <1>1, <2>1 DEF Uploads
    <3> QED BY <2>1, <3>1
  <2>2. CASE uploaded' = [uploaded EXCEPT ![r][step] = @ + 1]
    BY <2>2
  <2>3. \/ uploaded' = uploaded /\ (work'[step] => work[step])
        \/ uploaded' = [uploaded EXCEPT ![r][step] = @ + 1]
    BY <1>1 DEF Store, UploadWork, StoreNext
  <2> QED BY <2>1, <2>2, <2>3
<1>6. uploaded' \in [Rounds -> [metrics : Nat, stats : Nat, hexMap : Nat]]
  BY <1>1, <1>5 DEF Uploads
<1>7. ASSUME NEW v \in Rounds PROVE UploadsOf(v)'
  <2>1. Left(v)' = Left(v) /\ Early(v)' = Early(v) /\ Left(v) \in Nat
    BY <1>2, LeftTyped DEF Left, Early
  <2>2. CASE v # r
    <3>1. uploaded'[v] = uploaded[v] /\ UploadsOf(v)
      BY <1>5, <2>2 DEF Uploads
    <3>2. \A steps : Spent(v, steps)' = Spent(v, steps)
      BY <1>1, <1>3, <2>2 DEF Spent
    <3>3. Bounds(v)' /\ HexMapOf(v)' /\ Attempt(v)'
      BY <1>2, <1>3, <2>1, <2>2, <3>1, <3>2 DEF UploadsOf, Bounds, HexMapOf, Attempt
    <3> QED BY <3>3 DEF UploadsOf
  <2>3. CASE v = r
    <3>1. /\ uploaded[v].metrics \in Nat /\ uploaded[v].stats \in Nat /\ uploaded[v].hexMap \in Nat
          /\ crashes \in Nat /\ MaxUploadRetries \in Nat /\ UploadsOf(v) /\ n \in Nat
      BY VerificationAssumption DEF Uploads
    <3>2. CASE step = "metrics"
      <4>1. /\ Spent(v, PastMetrics) = 0 /\ Spent(v, PastMetrics)' = 1
            /\ Spent(v, PastStats) = 0 /\ Spent(v, PastStats)' = 0
            /\ Spent(v, {"end"}) = 0 /\ Spent(v, {"end"})' = 0
        BY <1>1, <1>3, <1>4, <2>3, <3>2 DEF Spent, StoreNext, PastMetrics, PastStats
      <4>2. /\ uploaded'[v].metrics = uploaded[v].metrics + n
            /\ uploaded'[v].stats = uploaded[v].stats /\ uploaded'[v].hexMap = uploaded[v].hexMap
        BY <1>1, <1>5, <2>3, <3>2 DEF Uploads
      <4>3. /\ work'.metrics => work.metrics \/ n = 1
            /\ work'.stats = work.stats
        BY <1>3, <1>5, <3>2
      <4>4. /\ uploaded[v].metrics + Left(v) <= 1 + MaxUploadRetries + crashes
            /\ uploaded[v].stats + Left(v) <= 1 + MaxUploadRetries + crashes
        BY <3>1, <4>1 DEF UploadsOf, Bounds
      <4>5. Bounds(v)'
        BY <1>2, <2>1, <3>1, <4>1, <4>2, <4>4 DEF Bounds
      <4>6. HexMapOf(v)'
        BY <1>2, <2>1, <3>1, <4>1, <4>2 DEF UploadsOf, HexMapOf
      <4>7. Attempt(v)'
        <5>1. work.job = "persist" => /\ work.metrics => uploaded[v].metrics > 0
                                      /\ work.stats => uploaded[v].stats > 0
          BY <1>1, <2>3, <3>1 DEF UploadsOf, Attempt
        <5>2. work'.step # "hexMap"
          BY <1>3 DEF StoreNext
        <5> QED BY <1>3, <3>1, <4>2, <4>3, <5>1, <5>2 DEF Attempt
      <4> QED BY <4>5, <4>6, <4>7 DEF UploadsOf
    <3>3. CASE step = "stats"
      <4>1. /\ Spent(v, PastMetrics) = 1 /\ Spent(v, PastMetrics)' = 1
            /\ Spent(v, PastStats) = 0 /\ Spent(v, PastStats)' = 1
            /\ Spent(v, {"end"}) = 0 /\ Spent(v, {"end"})' = 0
        BY <1>1, <1>3, <1>4, <2>3, <3>3 DEF Spent, StoreNext, PastMetrics, PastStats
      <4>2. /\ uploaded'[v].stats = uploaded[v].stats + n
            /\ uploaded'[v].metrics = uploaded[v].metrics /\ uploaded'[v].hexMap = uploaded[v].hexMap
        BY <1>1, <1>5, <2>3, <3>3 DEF Uploads
      <4>3. /\ work'.stats => work.stats \/ n = 1
            /\ work'.metrics = work.metrics
        BY <1>3, <1>5, <3>3
      <4>4. /\ uploaded[v].metrics + Left(v) <= 1 + MaxUploadRetries + crashes + 1
            /\ uploaded[v].stats + Left(v) <= 1 + MaxUploadRetries + crashes
        BY <3>1, <4>1 DEF UploadsOf, Bounds
      <4>5. Bounds(v)'
        BY <1>2, <2>1, <3>1, <4>1, <4>2, <4>4 DEF Bounds
      <4>6. HexMapOf(v)'
        BY <1>2, <2>1, <3>1, <4>1, <4>2 DEF UploadsOf, HexMapOf
      <4>7. Attempt(v)'
        <5>1. work.job = "persist" => /\ work.metrics => uploaded[v].metrics > 0
                                      /\ work.stats => uploaded[v].stats > 0
          BY <1>1, <2>3, <3>1 DEF UploadsOf, Attempt
        <5>2. work'.step # "hexMap"
          BY <1>3 DEF StoreNext
        <5> QED BY <1>3, <3>1, <4>2, <4>3, <5>1, <5>2 DEF Attempt
      <4> QED BY <4>5, <4>6, <4>7 DEF UploadsOf
    <3> QED BY <3>2, <3>3
  <2> QED BY <2>2, <2>3
<1> QED BY <1>2, <1>6, <1>7 DEF Uploads

\* The document is stored: the attempt goes on, to the hex map of a first attempt that is
\* complete.
LEMMA CreateVerificationDataUploads ==
  ASSUME Flowing, Uploads, CreateVerificationData
  PROVE  Uploads'
<1>1. /\ work \in UploadWork /\ work.round \in Rounds /\ work # NoJob /\ work.step = "create"
      /\ Uploading /\ UNCHANGED <<stage, recovery, uploaded, crashes>>
  BY UploadingRound DEF CreateVerificationData, Persisting, Uploading, flow
<1>2. PICK next \in {"hexMap", "end"} :
        /\ work' = [work EXCEPT !.step = next]
        /\ next = "hexMap" => work.job = "persist" /\ work.metrics /\ work.stats
  BY DEF CreateVerificationData, Complete
<1>3. /\ work' \in UploadWork /\ work'.round = work.round /\ work'.job = work.job
      /\ work'.metrics = work.metrics /\ work'.stats = work.stats /\ work'.step = next
  BY <1>1, <1>2 DEF UploadWork
<1>4. Uploading'
  BY <1>1, <1>3, NotWork DEF Uploading
<1>5. ASSUME NEW v \in Rounds PROVE UploadsOf(v)'
  <2>1. Left(v)' = Left(v) /\ Early(v)' = Early(v)
    BY <1>1 DEF Left, Early
  <2>2. /\ Spent(v, PastMetrics)' = Spent(v, PastMetrics)
        /\ Spent(v, PastStats)' = Spent(v, PastStats)
        /\ Spent(v, {"end"}) = 0 /\ Spent(v, {"end"})' \in {0, 1}
    BY <1>1, <1>3, <1>4 DEF Spent, PastMetrics, PastStats
  <2>3. Bounds(v) /\ HexMapOf(v) /\ Attempt(v)
    BY DEF Uploads, UploadsOf
  <2>4. Bounds(v)'
    BY <1>1, <2>1, <2>2, <2>3 DEF Bounds
  <2>5. HexMapOf(v)'
    <3>1. uploaded[v].hexMap \in Nat /\ crashes \in Nat
      BY DEF Uploads
    <3> QED BY <1>1, <2>1, <2>2, <2>3, <3>1 DEF HexMapOf
  <2>6. Attempt(v)'
    BY <1>1, <1>2, <1>3, <2>3 DEF Attempt
  <2> QED BY <2>4, <2>5, <2>6 DEF UploadsOf
<1> QED BY <1>1, <1>5 DEF Uploads

\* storeRelayHexMap of a first attempt: the round has not left its flow yet.
LEMMA StoreRelayHexMapUploads ==
  ASSUME Flowing, Uploads, StoreRelayHexMap
  PROVE  Uploads'
<1>1. PICK r \in Rounds : r = work.round
  BY UploadingRound DEF StoreRelayHexMap
<1>2. /\ work \in UploadWork /\ work # NoJob /\ work.step = "hexMap"
      /\ Uploading /\ UNCHANGED <<stage, recovery, crashes>>
  BY UploadingRound DEF StoreRelayHexMap, Persisting, Uploading, flow
<1>3. work.job = "persist" /\ work.metrics /\ work.stats
  BY <1>1, <1>2 DEF Uploads, UploadsOf, Attempt
<1>4. Early(r)
  BY <1>1, <1>3, UploadingRound DEF StoreRelayHexMap, Early, FlowJobs
<1>5. /\ work' \in UploadWork /\ work'.round = r /\ work'.job = work.job
      /\ work'.metrics = work.metrics /\ work'.stats = work.stats /\ work'.step = "end"
  BY <1>1, <1>2 DEF UploadWork, StoreRelayHexMap
<1>6. Uploading'
  BY <1>2, <1>5, NotWork DEF Uploading
<1>7. PICK n \in {0, 1} : uploaded' = [uploaded EXCEPT ![r].hexMap = @ + n]
  <2>1. CASE uploaded' = uploaded
    <3>1. uploaded' = [uploaded EXCEPT ![r].hexMap = @ + 0]
      BY <2>1 DEF Uploads
    <3> QED BY <3>1
  <2>2. CASE uploaded' = [uploaded EXCEPT ![r].hexMap = @ + 1]
    BY <2>2
  <2> QED BY <1>1, <2>1, <2>2 DEF StoreRelayHexMap
<1>8. uploaded' \in [Rounds -> [metrics : Nat, stats : Nat, hexMap : Nat]]
  BY <1>7 DEF Uploads
<1>9. ASSUME NEW v \in Rounds PROVE UploadsOf(v)'
  <2>1. Left(v)' = Left(v) /\ Early(v)' = Early(v)
    BY <1>2 DEF Left, Early
  <2>2. /\ Spent(v, PastMetrics)' = Spent(v, PastMetrics)
        /\ Spent(v, PastStats)' = Spent(v, PastStats)
    BY <1>1, <1>2, <1>5, <1>6 DEF Spent, PastMetrics, PastStats
  <2>3. Bounds(v) /\ HexMapOf(v) /\ Attempt(v)
    BY DEF Uploads, UploadsOf
  <2>4. /\ uploaded[v].hexMap \in Nat /\ crashes \in Nat
        /\ uploaded'[v].metrics = uploaded[v].metrics /\ uploaded'[v].stats = uploaded[v].stats
    BY <1>7 DEF Uploads
  <2>5. Bounds(v)'
    BY <1>2, <2>1, <2>2, <2>3, <2>4 DEF Bounds
  <2>6. CASE v # r
    <3>1. uploaded'[v] = uploaded[v]
      BY <1>7, <2>6 DEF Uploads
    <3>2. Spent(v, {"end"}) = 0 /\ Spent(v, {"end"})' = 0
      BY <1>1, <1>2, <1>5, <2>6 DEF Spent
    <3>3. HexMapOf(v)' /\ Attempt(v)'
      BY <1>2, <1>5, <2>1, <2>3, <2>6, <3>1, <3>2 DEF HexMapOf, Attempt
    <3> QED BY <2>5, <3>3 DEF UploadsOf
  <2>7. CASE v = r
    <3>1. Spent(v, {"end"}) = 0 /\ Spent(v, {"end"})' = 1
      BY <1>1, <1>2, <1>5, <1>6, <2>7 DEF Spent
    <3>2. uploaded'[v].hexMap = uploaded[v].hexMap + n
      BY <1>7, <2>7 DEF Uploads
    <3>3. uploaded[v].hexMap <= crashes
      BY <1>4, <2>3, <2>4, <2>7, <3>1 DEF HexMapOf
    <3>4. uploaded[v].metrics > 0 /\ uploaded[v].stats > 0
      BY <1>1, <1>2, <1>3, <2>3, <2>7 DEF Attempt
    <3>5. HexMapOf(v)'
      BY <1>2, <1>4, <2>1, <2>4, <2>7, <3>1, <3>2, <3>3, <3>4 DEF HexMapOf
    <3>6. Attempt(v)'
      BY <1>5, <2>4, <3>4 DEF Attempt
    <3> QED BY <2>5, <3>5, <3>6 DEF UploadsOf
  <2> QED BY <2>6, <2>7
<1> QED BY <1>2, <1>8, <1>9 DEF Uploads

\* The job ends, and the recovery that it sends has less left: the attempt is over.
LEMMA PersistEndsUploads ==
  ASSUME Flowing, Flowing', Uploads, PersistEnds
  PROVE  Uploads'
<1>0. PICK r : r = work.round
  OBVIOUS
<1>1. /\ work \in UploadWork /\ r \in Rounds /\ work # NoJob /\ work.step = "end" /\ Uploading
      /\ UNCHANGED <<crashes, uploaded>> /\ r = work.round
  BY <1>0, UploadingRound DEF PersistEnds, Persisting, Uploading
<1>2. recovery' = [recovery EXCEPT ![r] = recovery'[r]]
      /\ (recovery'[r] = NoJob \/ recovery'[r].retries = work.retries)
  BY <1>1, SentRecovery DEF Flowing, Typed, RecoveryLeft
<1>3. work' = NoJob /\ ~Uploading' /\ \A v, steps : Spent(v, steps)' = 0
  BY DEF PersistEnds, Ends, Uploading, Spent
<1>4. \A v \in Rounds \ {r} : stage'[v] = stage[v] /\ recovery'[v] = recovery[v]
  <2>1. UNCHANGED stage \/ stage' = [stage EXCEPT ![r] = After(stage[r])]
    BY <1>0 DEF PersistEnds, Ends
  <2> QED BY <1>1, <1>2, <2>1 DEF Flowing, Typed
<1>5. ~Early(r)' /\ Left(r)' \in Nat /\ Left(r)' <= Left(r) - 1 /\ Left(r) \in Nat
  <2>1. work.retries \in Nat /\ Left(r) \in Nat /\ Left(r)' \in Nat /\ Left(r) > 0
    BY <1>1, LeftTyped, LeftTypedNext, ActiveLeft DEF UploadWork
  <2>2. CASE work.job = "persist"
    <3>1. stage[r] = "persist" /\ stage'[r] = "distribute"
      <4>1. stage[r] = "persist" /\ Ends(r, output[r])
        BY <1>0, <2>2, UploadingRound DEF PersistEnds
      <4>2. After("persist") = "distribute"
        BY AfterStage
      <4> QED BY <1>1, <4>1, <4>2 DEF Ends, Flowing, Typed
    <3>2. ~Early(r)' /\ Left(r) = 1 + MaxUploadRetries
      BY <3>1 DEF Early, Left, FlowJobs
    <3>3. Left(r)' = IF recovery'[r] = NoJob THEN 0 ELSE recovery'[r].retries
      BY <3>2 DEF Left
    <3>4. work.retries <= MaxUploadRetries /\ MaxUploadRetries \in Nat
      BY <1>1, VerificationAssumption DEF UploadWork
    <3> QED BY <1>2, <2>1, <3>2, <3>3, <3>4
  <2>3. CASE work.job = "recover"
    <3>1. /\ recovery[r] \in Recoveries /\ stage[r] \in {"distribute", "done"}
          /\ work.retries = recovery[r].retries - 1
      BY <1>0, <2>3, UploadingRound DEF PersistEnds
    <3>2. stage'[r] = stage[r] /\ recovery[r] # NoJob /\ recovery[r].retries \in Nat
      BY <2>3, <3>1, VerificationAssumption DEF PersistEnds, Recoveries
    <3>3. ~Early(r)' /\ ~Early(r)
      BY <3>1, <3>2 DEF Early, FlowJobs
    <3>4. Left(r) = recovery[r].retries
          /\ Left(r)' = IF recovery'[r] = NoJob THEN 0 ELSE recovery'[r].retries
      BY <3>2, <3>3 DEF Left
    <3> QED BY <1>2, <2>1, <3>1, <3>2, <3>3, <3>4
  <2> QED BY <1>1, <2>2, <2>3 DEF Uploading
<1>6. ASSUME NEW v \in Rounds PROVE UploadsOf(v)'
  <2>1. /\ uploaded[v].metrics \in Nat /\ uploaded[v].stats \in Nat /\ uploaded[v].hexMap \in Nat
        /\ crashes \in Nat /\ MaxUploadRetries \in Nat /\ Bounds(v) /\ HexMapOf(v)
    BY VerificationAssumption DEF Uploads, UploadsOf
  <2>2. Attempt(v)'
    BY <1>3 DEF Attempt
  <2>3. CASE v # r
    <3>1. Left(v)' = Left(v) /\ Early(v)' = Early(v)
      <4>1. stage'[v] = stage[v] /\ recovery'[v] = recovery[v]
        BY <1>4, <2>3
      <4> QED BY <4>1 DEF Left, Early
    <3>2. \A steps : Spent(v, steps) = 0
      BY <1>0, <2>3 DEF Spent
    <3>3. Bounds(v)' /\ HexMapOf(v)'
      BY <1>1, <1>3, <2>1, <3>1, <3>2 DEF Bounds, HexMapOf
    <3> QED BY <2>2, <3>3 DEF UploadsOf
  <2>4. CASE v = r
    <3>1. Spent(v, PastMetrics) = 1 /\ Spent(v, PastStats) = 1
      BY <1>1, <2>4 DEF Spent, PastMetrics, PastStats
    <3>2. /\ uploaded[v].metrics + Left(v) <= 1 + MaxUploadRetries + crashes + 1
          /\ uploaded[v].stats + Left(v) <= 1 + MaxUploadRetries + crashes + 1
      BY <2>1, <3>1 DEF Bounds
    <3>3. /\ uploaded'[v].metrics + Left(v)' <= 1 + MaxUploadRetries + crashes' + 0
          /\ uploaded'[v].stats + Left(v)' <= 1 + MaxUploadRetries + crashes' + 0
      BY <1>1, <1>5, <2>1, <2>4, <3>2
    <3>4. Bounds(v)'
      BY <1>3, <3>3 DEF Bounds
    <3>5. HexMapOf(v)'
      <4>1. PICK c \in {0, 1} : uploaded[v].hexMap <= crashes + c
        BY <2>1 DEF HexMapOf, Spent
      <4>2. uploaded'[v].hexMap <= crashes' + 1
        BY <1>1, <2>1, <4>1
      <4> QED BY <1>1, <1>5, <2>1, <2>4, <4>2 DEF HexMapOf
    <3> QED BY <2>2, <3>4, <3>5 DEF UploadsOf
  <2> QED BY <2>3, <2>4
<1> QED BY <1>1, <1>6 DEF Uploads

\* An attempt that a crash cuts short may have uploaded: the crash counts for it.
LEMMA CrashUploads ==
  ASSUME Flowing, Flowing', Uploads, Crash
  PROVE  Uploads'
<1>1. /\ uploaded' = uploaded /\ crashes' = crashes + 1 /\ work' = NoJob
  BY DEF Crash
<1>2. ASSUME NEW v \in Rounds
      PROVE  /\ recovery'[v] = NoJob \/ recovery'[v] = recovery[v]
             /\ stage'[v] = "failed" \/ stage'[v] = stage[v]
  BY DEF Crash
<1>3. ASSUME NEW v \in Rounds PROVE UploadsOf(v)'
  <2>1. Early(v)' => Early(v)
    BY <1>2 DEF Early, FlowJobs
  <2>2. recovery'[v] = NoJob \/ (recovery[v] # NoJob /\ recovery'[v].retries = recovery[v].retries)
    BY <1>2
  <2>3. Left(v) \in Nat /\ Left(v)' \in Nat /\ Left(v)' <= Left(v)
    BY <2>1, <2>2, LeftKept
  <2>4. /\ uploaded[v].metrics \in Nat /\ uploaded[v].stats \in Nat /\ uploaded[v].hexMap \in Nat
        /\ crashes \in Nat /\ MaxUploadRetries \in Nat /\ UploadsOf(v)
    BY VerificationAssumption DEF Uploads
  <2>5. PICK a, b \in {0, 1} : a = Spent(v, PastMetrics) /\ b = Spent(v, PastStats)
    BY DEF Spent
  <2>6. ~Uploading' /\ \A steps : Spent(v, steps)' = 0
    BY <1>1 DEF Uploading, Spent
  <2>7. /\ uploaded[v].metrics + Left(v) <= 1 + MaxUploadRetries + crashes + a
        /\ uploaded[v].stats + Left(v) <= 1 + MaxUploadRetries + crashes + b
    BY <2>4, <2>5 DEF UploadsOf, Bounds
  <2>8. /\ uploaded'[v].metrics + Left(v)' <= 1 + MaxUploadRetries + crashes' + 0
        /\ uploaded'[v].stats + Left(v)' <= 1 + MaxUploadRetries + crashes' + 0
    BY <1>1, <2>3, <2>4, <2>7
  <2>9. Bounds(v)' /\ Attempt(v)'
    BY <2>6, <2>8 DEF Bounds, Attempt
  <2>10. HexMapOf(v)'
    <3>1. PICK c \in {0, 1} : uploaded[v].hexMap <= crashes + c
      BY <2>4 DEF UploadsOf, HexMapOf, Spent
    <3>2. uploaded'[v].hexMap <= crashes' + 0 /\ uploaded'[v].hexMap <= crashes' + 1
      BY <1>1, <2>4, <3>1
    <3> QED BY <1>1, <2>4, <2>6, <3>2 DEF UploadsOf, HexMapOf
  <2> QED BY <2>9, <2>10 DEF UploadsOf
<1> QED BY <1>1, <1>3 DEF Uploads

LEMMA NextUploads ==
  ASSUME IInv, Flowing, Uploads, [Next]_vars
  PROVE  Uploads'
<1>1. Flowing'
  BY NextFlowing
<1>2. CASE UNCHANGED vars
  <2>1. Quiet
    BY <1>2, StageQuiet DEF vars, flow
  <2> QED BY <1>1, <2>1, QuietUploads
<1>3. ASSUME NEW v \in Rounds, NEW R \in SUBSET Relays, StartRound(v, R) PROVE Quiet
  <2>1. UNCHANGED <<recovery, uploaded, crashes, work>>
    BY <1>3 DEF StartRound
  <2>2. \A u \in Rounds : Early(u)' => Early(u)
    BY <1>3 DEF StartRound, Early, Flowing, Typed
  <2> QED BY <2>1, <2>2 DEF Quiet
<1>4. ASSUME NEW v \in Rounds, NEW job \in {"families", "bonus", "confirm"}, Takes(v, job),
             NEW o, Ends(v, o), UNCHANGED <<recovery, uploaded, crashes>>
      PROVE  Quiet
  BY <1>4, EndsQuiet, TakesQuiet DEF Doing, FlowJobs
<1>5. ASSUME NEW v \in Rounds, SetRelayFamilies(v) \/ SetRelayFamiliesFails(v) PROVE Quiet
  <2>1. CASE SetRelayFamilies(v)
    BY <1>4, <2>1, Zenon DEF SetRelayFamilies
  <2>2. CASE SetRelayFamiliesFails(v)
    <3>1. UNCHANGED <<recovery, uploaded, crashes, work>>
      BY <2>2 DEF SetRelayFamiliesFails
    <3>2. \A u \in Rounds : Early(u)' => Early(u)
      BY <2>2 DEF SetRelayFamiliesFails, Early, Flowing, Typed, FlowJobs
    <3> QED BY <3>1, <3>2 DEF Quiet
  <2> QED BY <1>5, <2>1, <2>2
<1>6. ASSUME NEW v \in Rounds, SetHardwareBonusRelays(v) PROVE Quiet
  BY <1>4, <1>6, Zenon DEF SetHardwareBonusRelays
<1>7. ASSUME NEW v \in Rounds, ConfirmVerification(v) PROVE Quiet
  BY <1>4, <1>7, Zenon DEF ConfirmVerification
<1>8. ASSUME VerifyEnds PROVE Quiet
  <2>1. Ends(work.round, Verified("OK")) /\ UNCHANGED <<recovery, uploaded, crashes>>
        /\ "verify" \in FlowJobs
    BY <1>8 DEF VerifyEnds, FlowJobs
  <2>2. work.round \in Rounds /\ Doing(work.round, "verify") /\ ~Uploading
    BY <1>8, VerifyingRound, VerifyingQuiet DEF VerifyEnds
  <2> QED BY <2>1, <2>2, EndsQuiet
<1>9. ASSUME NEW v \in Rounds, RecoveryAdded(v) PROVE Quiet
  <2>1. UNCHANGED <<stage, uploaded, crashes, work>>
    BY <1>9 DEF RecoveryAdded
  <2>2. \A u \in Rounds : \/ recovery'[u] = recovery[u]
                          \/ recovery[u] # NoJob /\ recovery'[u].retries = recovery[u].retries
    BY <1>9 DEF RecoveryAdded, Flowing, Typed, Recoveries
  <2> QED BY <2>1, <2>2 DEF Quiet, Early
<1>10. ASSUME NEW v \in Rounds, DistributeMostRecent(v) PROVE Quiet
  <2>1. UNCHANGED <<recovery, uploaded, crashes, work>>
    BY <1>10 DEF DistributeMostRecent
  <2>2. \A u \in Rounds : Early(u)' => Early(u)
    BY <1>10 DEF DistributeMostRecent, Early, Flowing, Typed, FlowJobs
  <2> QED BY <2>1, <2>2 DEF Quiet
<1>11. ASSUME Cools \/ \E r \in Relays : Claim(r) \/ Remove(r) \/ Transfer(r) PROVE Quiet
  BY <1>11, StageQuiet DEF Cools, Claim, Remove, Transfer, flow
<1>12. CASE Worker
  BY <1>1, <1>5, <1>6, <1>7, <1>8, <1>12, QuietUploads, VerifyRelaysQuiet, CheckHardwareQuiet,
     AddClaimableBatchedQuiet, PersistVerificationQuiet, RecoverPersistVerificationQuiet,
     StoreUploads, CreateVerificationDataUploads, StoreRelayHexMapUploads, PersistEndsUploads
     DEF Worker
<1> QED BY <1>1, <1>2, <1>3, <1>9, <1>10, <1>11, <1>12, QuietUploads, CrashUploads DEF Next

LEMMA InitUploads == Init => Uploads
<1> SUFFICES ASSUME Init PROVE Uploads
  OBVIOUS
<1>1. ASSUME NEW v \in Rounds PROVE UploadsOf(v)
  <2>1. /\ Left(v) = 1 + MaxUploadRetries /\ Early(v) /\ ~Uploading /\ crashes = 0
        /\ uploaded[v] = [metrics |-> 0, stats |-> 0, hexMap |-> 0]
    BY DEF Init, Left, Early, Uploading
  <2>2. \A steps : Spent(v, steps) = 0
    BY <2>1 DEF Spent
  <2>3. Bounds(v) /\ HexMapOf(v) /\ Attempt(v)
    BY <2>1, <2>2, VerificationAssumption DEF Bounds, HexMapOf, Attempt
  <2> QED BY <2>3 DEF UploadsOf
<1>2. uploaded \in [Rounds -> [metrics : Nat, stats : Nat, hexMap : Nat]] /\ crashes \in Nat
  BY DEF Init
<1> QED BY <1>1, <1>2 DEF Uploads

LEMMA AlwaysUploads == Spec => [](IInv /\ Flowing /\ Uploads)
BY InitIInv, NextIInv, InitFlowing, NextFlowing, InitUploads, NextUploads, PTL DEF Spec

\* Recoveries come to an end: whatever fails, the uploads of a round are bounded by its
\* retries and the crashes, and the hex map goes up only with the other two.
THEOREM UploadsStayBounded == Spec => []UploadsBounded
BY AlwaysUploads, UploadsImply, PTL

-----------------------------------------------------------------------------
(* The documents of a relay against the rounds that may still write one.   *)

\* The run of verify-relays of v under way has passed the relay r.
Passed(v, r) == Verifying /\ work.round = v /\ r \notin work.check

\* The rounds that may still write a document of r.
Fresh(r) == {v \in Rounds : stage[v] = "verify" /\ ~Passed(v, r)}

Recorded == /\ crashes \in Nat /\ IsFiniteSet(Started)
            /\ \A r \in Relays :
                 hardware[r] + Cardinality(Fresh(r)) <= Cardinality(Started) + crashes

LEMMA FreshFinite ==
  ASSUME Recorded, NEW r
  PROVE  /\ Fresh(r) \subseteq Started /\ IsFiniteSet(Fresh(r))
         /\ Cardinality(Fresh(r)) \in Nat /\ Cardinality(Started) \in Nat
<1>1. Fresh(r) \subseteq Started /\ IsFiniteSet(Started)
  BY DEF Fresh, Started, Recorded
<1>2. IsFiniteSet(Fresh(r))
  BY <1>1, FS_Subset, Zenon
<1> QED BY <1>1, <1>2, FS_CardinalityType

\* A step that writes no document and starts nothing.
Idle == /\ UNCHANGED <<hardware, crashes>>
        /\ \A v \in Rounds : /\ stage'[v] = "none" <=> stage[v] = "none"
                             /\ stage'[v] = "verify" =>
                                  /\ stage[v] = "verify"
                                  /\ \A r \in Relays : Passed(v, r) => Passed(v, r)'

LEMMA IdleRecorded ==
  ASSUME IInv, Recorded, Idle
  PROVE  Recorded'
<1>1. Started' = Started /\ crashes' = crashes /\ hardware' = hardware
  BY DEF Started, Idle
<1>2. ASSUME NEW r \in Relays
      PROVE  hardware'[r] + Cardinality(Fresh(r)') <= Cardinality(Started') + crashes'
  <2>1. PICK f : f = Fresh(r)
    OBVIOUS
  <2>2. PICK g : g = Fresh(r)'
    OBVIOUS
  <2>3. g \subseteq f
    BY <2>1, <2>2 DEF Fresh, Idle
  <2>4. IsFiniteSet(f) /\ Cardinality(f) \in Nat /\ Cardinality(Started) \in Nat
    BY <2>1, FreshFinite
  <2>5. Cardinality(g) <= Cardinality(f) /\ IsFiniteSet(g)
    BY <2>3, <2>4, FS_Subset
  <2>6. Cardinality(g) \in Nat
    BY <2>5, FS_CardinalityType
  <2>7. hardware[r] \in Nat /\ crashes \in Nat
        /\ hardware[r] + Cardinality(f) <= Cardinality(Started) + crashes
    BY <2>1 DEF Recorded, IInv, ContractsOK
  <2> QED BY <1>1, <2>2, <2>4, <2>5, <2>6, <2>7
<1> QED BY <1>1, <1>2 DEF Recorded

LEMMA StageIdle ==
  ASSUME UNCHANGED <<stage, hardware, crashes>>,
         ~Verifying \/ UNCHANGED work
  PROVE  Idle
BY DEF Idle, Passed, Verifying

LEMMA EndsIdle ==
  ASSUME Flowing, NEW v \in Rounds, NEW job \in FlowJobs, Doing(v, job), NEW o, Ends(v, o),
         UNCHANGED <<hardware, crashes>>
  PROVE  Idle
<1>1. stage[v] = job /\ stage' = [stage EXCEPT ![v] = After(job)]
  BY EndsQueue
<1>2. PICK a : a = After(job)
  OBVIOUS
<1>3. a \notin {"none", "verify"} /\ job \notin {"none"}
  BY <1>2, AfterFlow DEF FlowJobs
<1>4. ASSUME NEW u \in Rounds \ {v} PROVE stage'[u] = stage[u] /\ \A r : ~Passed(u, r)
  <2>1. stage'[u] = stage[u]
    BY <1>1 DEF Flowing, Typed
  <2>2. ~(Verifying /\ work.round = u)
    BY DEF Doing, Takes, Verifying
  <2> QED BY <2>1, <2>2 DEF Passed
<1>5. stage'[v] = a
  BY <1>1, <1>2 DEF Flowing, Typed
<1> QED BY <1>1, <1>3, <1>4, <1>5 DEF Idle

LEMMA StartRoundRecorded ==
  ASSUME IInv, Flowing, Recorded, NEW v \in Rounds, NEW R \in SUBSET Relays, StartRound(v, R)
  PROVE  Recorded'
<1>1. /\ stage[v] = "none" /\ stage' = [stage EXCEPT ![v] = "verify"]
      /\ UNCHANGED <<work, hardware, crashes>> /\ stage \in [Rounds -> StageNames]
  BY DEF StartRound, proofs, Flowing, Typed
<1>2. PICK S : S = Started
  OBVIOUS
<1>3. v \notin S /\ Started' = S \cup {v}
  BY <1>1, <1>2 DEF Started
<1>4. IsFiniteSet(S)
  BY <1>2 DEF Recorded
<1>5. IsFiniteSet(S \cup {v}) /\ Cardinality(S \cup {v}) = Cardinality(S) + 1
      /\ Cardinality(S) \in Nat
  BY <1>3, <1>4, FS_AddElement, FS_CardinalityType
<1>6. ASSUME NEW r \in Relays
      PROVE  hardware'[r] + Cardinality(Fresh(r)') <= Cardinality(Started') + crashes'
  <2>1. PICK f : f = Fresh(r)
    OBVIOUS
  <2>2. PICK g : g = Fresh(r)'
    OBVIOUS
  <2>3. g \subseteq f \cup {v} /\ v \notin f
    BY <1>1, <2>1, <2>2 DEF Fresh, Passed, Verifying
  <2>4. IsFiniteSet(f) /\ Cardinality(f) \in Nat
    BY <2>1, FreshFinite
  <2>5. IsFiniteSet(f \cup {v}) /\ Cardinality(f \cup {v}) = Cardinality(f) + 1
    BY <2>3, <2>4, FS_AddElement
  <2>6. Cardinality(g) <= Cardinality(f) + 1 /\ IsFiniteSet(g)
    BY <2>3, <2>5, FS_Subset
  <2>7. Cardinality(g) \in Nat
    BY <2>6, FS_CardinalityType
  <2>8. hardware[r] \in Nat /\ crashes \in Nat
        /\ hardware[r] + Cardinality(f) <= Cardinality(S) + crashes
    BY <1>2, <2>1 DEF Recorded, IInv, ContractsOK
  <2> QED BY <1>1, <1>3, <1>5, <2>2, <2>4, <2>6, <2>7, <2>8
<1> QED BY <1>1, <1>3, <1>5, <1>6 DEF Recorded

\* A document is written by a round that can write no other of that relay.
LEMMA CheckHardwareRecorded ==
  ASSUME IInv, Flowing, Recorded, CheckHardware
  PROVE  Recorded'
<1>1. /\ work \in VerifyWork /\ work.round \in Rounds /\ Doing(work.round, "verify")
      /\ stage[work.round] = "verify" /\ "verify" \in FlowJobs /\ UNCHANGED crashes
      /\ work.check \subseteq Relays /\ Verifying
  BY VerifyingRound DEF CheckHardware, FlowJobs, VerifyWork
<1>2. CASE Ends(work.round, Empty) /\ UNCHANGED hardware
  BY <1>1, <1>2, EndsIdle, IdleRecorded
<1>3. ASSUME NEW r \in work.check, UNCHANGED <<stage, hardware>>,
             work' = [work EXCEPT !.check = @ \ {r}]
      PROVE  Recorded'
  <2>1. Verifying' /\ work'.round = work.round /\ work'.check \subseteq work.check
    BY <1>1, <1>3, NotWork DEF Verifying, VerifyWork
  <2>2. Idle
    BY <1>1, <1>3, <2>1 DEF Idle, Passed
  <2> QED BY <2>2, IdleRecorded
<1>4. ASSUME NEW r \in work.check, UNCHANGED stage,
             hardware' = [hardware EXCEPT ![r] = @ + 1],
             work' = [work EXCEPT !.check = @ \ {r}, !.add = @ \cup {r}, !.left = @ \cup {r}]
      PROVE  Recorded'
  <2>1. Verifying' /\ work'.round = work.round /\ work'.check = work.check \ {r}
    BY <1>1, <1>4, NotWork DEF Verifying, VerifyWork
  <2>2. Started' = Started
    BY <1>4 DEF Started
  <2>3. ASSUME NEW q \in Relays
        PROVE  hardware'[q] + Cardinality(Fresh(q)') <= Cardinality(Started') + crashes'
    <3>1. PICK f : f = Fresh(q)
      OBVIOUS
    <3>2. PICK g : g = Fresh(q)'
      OBVIOUS
    <3>3. g \subseteq f
      BY <1>1, <1>4, <2>1, <3>1, <3>2 DEF Fresh, Passed
    <3>4. IsFiniteSet(f) /\ Cardinality(f) \in Nat /\ Cardinality(Started) \in Nat
      BY <3>1, FreshFinite
    <3>5. Cardinality(g) <= Cardinality(f) /\ IsFiniteSet(g)
      BY <3>3, <3>4, FS_Subset
    <3>6. Cardinality(g) \in Nat
      BY <3>5, FS_CardinalityType
    <3>7. hardware[q] \in Nat /\ crashes \in Nat
          /\ hardware[q] + Cardinality(f) <= Cardinality(Started) + crashes
      BY <3>1 DEF Recorded, IInv, ContractsOK
    <3>8. CASE q # r
      <4>1. hardware'[q] = hardware[q]
        BY <1>1, <1>4, <3>8 DEF IInv, ContractsOK
      <4> QED BY <1>1, <2>2, <3>2, <3>4, <3>5, <3>6, <3>7, <4>1
    <3>9. CASE q = r
      <4>1. hardware'[q] = hardware[q] + 1
        BY <1>1, <1>4, <3>9 DEF IInv, ContractsOK
      <4>2. work.round \in f /\ work.round \notin g
        BY <1>1, <1>4, <2>1, <3>1, <3>2, <3>9 DEF Fresh, Passed
      <4>3. Cardinality(g) # Cardinality(f)
        BY <3>3, <3>4, <4>2, FS_Subset
      <4> QED BY <1>1, <2>2, <3>2, <3>4, <3>5, <3>6, <3>7, <4>1, <4>3
    <3> QED BY <3>8, <3>9
  <2> QED BY <1>1, <2>2, <2>3 DEF Recorded
<1> QED BY <1>2, <1>3, <1>4, Zenon DEF CheckHardware

\* A run that a crash ends may write its documents again: the crash counts for it.
LEMMA CrashRecorded ==
  ASSUME IInv, Flowing, Recorded, Crash
  PROVE  Recorded'
<1>1. UNCHANGED hardware /\ crashes' = crashes + 1 /\ work' = NoJob /\ crashes \in Nat
  BY DEF Crash, proofs, Recorded
<1>2. PICK dead : stage' = [v \in Rounds |-> IF <<v, stage[v]>> \in dead THEN "failed"
                                             ELSE stage[v]]
                  /\ dead \subseteq Rounds \X JobNames
  <2>1. PICK job \in Running :
          stage' = [v \in Rounds |-> IF <<v, stage[v]>> \in job \cap stalled THEN "failed"
                                     ELSE stage[v]]
    BY DEF Crash
  <2>2. job \subseteq Active \cup Elems(waiting)
    <3>1. CASE work # NoJob
      BY <3>1 DEF Running, Active
    <3>2. CASE work = NoJob
      <4>1. job = {} \/ (job = {Head(waiting)} /\ waiting # <<>>)
        BY <3>2 DEF Running
      <4>2. waiting # <<>> => Head(waiting) \in Elems(waiting)
        BY ElemsTail DEF Flowing, Queued
      <4> QED BY <4>1, <4>2
    <3> QED BY <3>1, <3>2
  <2> QED BY <2>1, <2>2, ActiveTyped
<1>3. \A v \in Rounds : /\ stage'[v] = "none" <=> stage[v] = "none"
                        /\ stage'[v] = "verify" => stage[v] = "verify"
  BY <1>2 DEF JobNames, FlowJobs
<1>4. Started' = Started
  BY <1>3 DEF Started
<1>5. ASSUME NEW r \in Relays
      PROVE  hardware'[r] + Cardinality(Fresh(r)') <= Cardinality(Started') + crashes'
  <2>1. PICK f : f = Fresh(r)
    OBVIOUS
  <2>2. PICK g : g = Fresh(r)'
    OBVIOUS
  <2>3. PICK v : v = work.round
    OBVIOUS
  <2>4. g \subseteq f \cup {v}
    BY <1>3, <2>1, <2>2, <2>3 DEF Fresh, Passed
  <2>5. IsFiniteSet(f) /\ Cardinality(f) \in Nat /\ Cardinality(Started) \in Nat
    BY <2>1, FreshFinite
  <2>6. IsFiniteSet(f \cup {v}) /\ Cardinality(f \cup {v}) <= Cardinality(f) + 1
        /\ Cardinality(f \cup {v}) \in Nat
    <3>1. IsFiniteSet(f \cup {v}) /\ (v \notin f => Cardinality(f \cup {v}) = Cardinality(f) + 1)
      BY <2>5, FS_AddElement
    <3>2. v \in f => f \cup {v} = f
      OBVIOUS
    <3> QED BY <2>5, <3>1, <3>2
  <2>7. Cardinality(g) <= Cardinality(f \cup {v}) /\ IsFiniteSet(g)
    BY <2>4, <2>6, FS_Subset
  <2>8. Cardinality(g) \in Nat
    BY <2>7, FS_CardinalityType
  <2>9. hardware[r] \in Nat /\ hardware[r] + Cardinality(f) <= Cardinality(Started) + crashes
    BY <2>1 DEF Recorded, IInv, ContractsOK
  <2>10. Cardinality(g) <= Cardinality(f) + 1
    BY <2>5, <2>6, <2>7, <2>8
  <2> QED BY <1>1, <1>4, <2>2, <2>5, <2>8, <2>9, <2>10
<1>6. crashes' \in Nat
  BY <1>1
<1> QED BY <1>4, <1>5, <1>6 DEF Recorded

LEMMA NextRecorded ==
  ASSUME IInv, Flowing, Recorded, [Next]_vars
  PROVE  Recorded'
<1>1. CASE UNCHANGED vars
  BY <1>1, StageIdle, IdleRecorded DEF vars, proofs, flow
<1>2. ASSUME NEW v \in Rounds, NEW job \in {"verify", "families", "bonus", "confirm", "persist"},
             Takes(v, job), NEW o, Ends(v, o), UNCHANGED <<hardware, crashes>>
      PROVE  Recorded'
  BY <1>2, EndsIdle, IdleRecorded DEF Doing, FlowJobs
<1>3. ASSUME ~Verifying, UNCHANGED <<stage, hardware, crashes>> PROVE Recorded'
  BY <1>3, StageIdle, IdleRecorded
<1>4. \A v, job : Takes(v, job) => ~Verifying
  BY DEF Takes, Verifying
<1>5. ASSUME NEW v \in Rounds, VerifyRelays(v) PROVE Recorded'
  <2>1. Takes(v, "verify") /\ UNCHANGED <<hardware, crashes>>
    BY <1>5 DEF VerifyRelays, proofs
  <2>2. Ends(v, Empty) \/ UNCHANGED stage
    BY <1>5, VerifyRelaysCases DEF Begins
  <2> QED BY <1>2, <1>3, <1>4, <2>1, <2>2
<1>6. ASSUME NEW v \in Rounds, SetRelayFamilies(v) \/ SetRelayFamiliesFails(v) PROVE Recorded'
  <2>1. CASE SetRelayFamilies(v)
    BY <1>2, <2>1, Zenon DEF SetRelayFamilies, proofs
  <2>2. CASE SetRelayFamiliesFails(v)
    <3>1. /\ stage' = [stage EXCEPT ![v] = "failed"] /\ Takes(v, "families")
          /\ UNCHANGED <<hardware, crashes, work>>
      BY <2>2 DEF SetRelayFamiliesFails, proofs
    <3>2. stage[v] = "families"
      BY <3>1, TakesHead
    <3>3. Idle
      BY <1>4, <3>1, <3>2 DEF Idle, Passed, Flowing, Typed
    <3> QED BY <3>3, IdleRecorded
  <2> QED BY <1>6, <2>1, <2>2
<1>7. ASSUME NEW v \in Rounds, SetHardwareBonusRelays(v) PROVE Recorded'
  BY <1>2, <1>7, Zenon DEF SetHardwareBonusRelays, proofs
<1>8. ASSUME NEW v \in Rounds, ConfirmVerification(v) PROVE Recorded'
  BY <1>2, <1>8, Zenon DEF ConfirmVerification, proofs
<1>9. ASSUME NEW v \in Rounds, PersistVerification(v) PROVE Recorded'
  <2>1. Takes(v, "persist") /\ UNCHANGED <<hardware, crashes>>
    BY <1>9 DEF PersistVerification, proofs
  <2>2. Ends(v, Empty) \/ UNCHANGED stage
    BY <1>9, Zenon DEF PersistVerification
  <2> QED BY <1>2, <1>3, <1>4, <2>1, <2>2
<1>10. ASSUME NEW v \in Rounds, RecoverPersistVerification(v) PROVE Recorded'
  BY <1>3, <1>4, <1>10, Zenon DEF RecoverPersistVerification, proofs
<1>11. ASSUME AddClaimableBatched PROVE Recorded'
  <2>1. /\ work \in VerifyWork /\ work.round \in Rounds /\ Doing(work.round, "verify")
        /\ "verify" \in FlowJobs /\ UNCHANGED <<hardware, crashes>> /\ Verifying
    BY <1>11, VerifyingRound DEF AddClaimableBatched, FlowJobs, proofs
  <2>2. CASE Ends(work.round, Verified("Failed"))
    BY <2>1, <2>2, EndsIdle, IdleRecorded
  <2>3. ASSUME NEW B, work' = [work EXCEPT !.left = @ \ B], UNCHANGED stage PROVE Recorded'
    <3>1. Verifying' /\ work'.round = work.round /\ work'.check = work.check
      BY <2>1, <2>3, NotWork DEF Verifying, VerifyWork
    <3>2. Idle
      BY <2>1, <2>3, <3>1 DEF Idle, Passed
    <3> QED BY <3>2, IdleRecorded
  <2> QED BY <1>11, <2>2, <2>3, Zenon DEF AddClaimableBatched
<1>12. ASSUME VerifyEnds PROVE Recorded'
  <2>1. Ends(work.round, Verified("OK")) /\ UNCHANGED <<hardware, crashes>> /\ "verify" \in FlowJobs
    BY <1>12 DEF VerifyEnds, proofs, FlowJobs
  <2>2. work.round \in Rounds /\ Doing(work.round, "verify")
    BY <1>12, VerifyingRound DEF VerifyEnds
  <2> QED BY <2>1, <2>2, EndsIdle, IdleRecorded
<1>13. ASSUME NEW step \in {"metrics", "stats"}, Store(step) PROVE Recorded'
  BY <1>3, <1>13 DEF Store, Persisting, Verifying, flow, proofs
<1>14. ASSUME CreateVerificationData \/ StoreRelayHexMap \/ PersistEnds PROVE Recorded'
  <2>1. UNCHANGED <<hardware, crashes>> /\ ~Verifying /\ work.round \in Rounds
    BY <1>14, UploadingRound
       DEF CreateVerificationData, StoreRelayHexMap, PersistEnds, Persisting, Verifying, proofs
  <2>2. CASE UNCHANGED stage
    BY <1>3, <2>1, <2>2
  <2>3. CASE PersistEnds /\ work.job = "persist" /\ Ends(work.round, output[work.round])
    <3>1. Doing(work.round, "persist") /\ "persist" \in FlowJobs
      BY <2>3, UploadingRound DEF PersistEnds, FlowJobs
    <3> QED BY <2>1, <2>3, <3>1, EndsIdle, IdleRecorded
  <2> QED BY <1>14, <2>2, <2>3 DEF CreateVerificationData, StoreRelayHexMap, PersistEnds, flow
<1>15. ASSUME NEW v \in Rounds, RecoveryAdded(v) PROVE Recorded'
  BY <1>15, StageIdle, IdleRecorded DEF RecoveryAdded, proofs
<1>16. ASSUME NEW v \in Rounds, DistributeMostRecent(v) PROVE Recorded'
  <2>1. /\ stage' = [stage EXCEPT ![v] = "done"] /\ stage[v] = "distribute"
        /\ UNCHANGED <<hardware, crashes, work>>
    BY <1>16 DEF DistributeMostRecent, proofs
  <2>2. Idle
    BY <2>1 DEF Idle, Passed, Verifying, Flowing, Typed
  <2> QED BY <2>2, IdleRecorded
<1>17. ASSUME Cools \/ \E r \in Relays : Claim(r) \/ Remove(r) \/ Transfer(r) PROVE Recorded'
  BY <1>17, StageIdle, IdleRecorded DEF Cools, Claim, Remove, Transfer, flow, proofs
<1>18. CASE Worker
  BY <1>5, <1>6, <1>7, <1>8, <1>9, <1>10, <1>11, <1>12, <1>13, <1>14, <1>18,
     CheckHardwareRecorded DEF Worker
<1> QED BY <1>1, <1>15, <1>16, <1>17, <1>18, StartRoundRecorded, CrashRecorded DEF Next

LEMMA InitRecorded == Init => Recorded
<1> SUFFICES ASSUME Init PROVE Recorded
  OBVIOUS
<1>1. PICK e : e = {}
  OBVIOUS
<1>2. IsFiniteSet(e) /\ Cardinality(e) = 0
  BY <1>1, FS_EmptySet, Zenon
<1>3. Started = e /\ crashes = 0
  BY <1>1 DEF Init, Started
<1>4. \A r : Fresh(r) = e
  BY <1>1 DEF Init, Fresh
<1>5. \A r \in Relays : hardware[r] = 0
  BY DEF Init
<1> QED BY <1>2, <1>3, <1>4, <1>5 DEF Recorded

-----------------------------------------------------------------------------
(* While calls succeed and every hardware_info can be recorded, each       *)
(* document of a relay is followed by a registration, or the worker has it *)
(* in hand.                                                                *)

\* What the worker holds of a round: the relays to register are among those to add, and
\* none has been registered before all hardware is checked.
Handled ==
  Verifying => /\ work.check \subseteq WithHardware /\ work.check \cap work.add = {}
               /\ work.left \subseteq work.add
               /\ work.check # {} => work.left = work.add

LEMMA NextHandled ==
  ASSUME IInv, Flowing, Handled, [Next]_vars
  PROVE  Handled'
<1>1. CASE Aside
  BY <1>1 DEF Aside, Handled
<1>2. ASSUME NEW v \in Rounds, VerifyRelays(v) PROVE Handled'
  <2>1. CASE Ends(v, Empty)
    BY <2>1, EndsVerifying DEF Handled
  <2>2. CASE Begins(v, StateRead)
    <3>1. /\ work'.check = New(v, StateRead) \cap WithHardware
          /\ work'.add = New(v, StateRead) \ WithHardware
          /\ work'.left = New(v, StateRead) \ WithHardware
      BY <1>2, <2>2, ReadTyped, BeginsTyped
    <3>2. /\ work'.check \subseteq WithHardware /\ work'.check \cap work'.add = {}
          /\ work'.left = work'.add
      BY <3>1
    <3> QED BY <3>2 DEF Handled, WithHardware
  <2> QED BY <1>2, <2>1, <2>2, VerifyRelaysCases
<1>3. CASE CheckHardware
  <2>1. work \in VerifyWork /\ Verifying
    BY <1>3, VerifyingWork DEF CheckHardware
  <2>2. PICK r \in work.check :
          \/ work' = [work EXCEPT !.check = @ \ {r}, !.add = @ \cup {r}, !.left = @ \cup {r}]
          \/ work' = [work EXCEPT !.check = @ \ {r}]
          \/ Ends(work.round, Empty)
    BY <1>3, Zenon DEF CheckHardware
  <2>3. CASE work' = [work EXCEPT !.check = @ \ {r}, !.add = @ \cup {r}, !.left = @ \cup {r}]
    <3>1. /\ work'.check = work.check \ {r} /\ work'.add = work.add \cup {r}
          /\ work'.left = work.left \cup {r}
      BY <2>1, <2>3 DEF VerifyWork
    <3>2. work.left = work.add
      BY <2>1 DEF Handled
    <3> QED BY <2>1, <3>1, <3>2 DEF Handled, WithHardware
  <2>4. CASE work' = [work EXCEPT !.check = @ \ {r}]
    <3>1. work'.check = work.check \ {r} /\ work'.add = work.add /\ work'.left = work.left
      BY <2>1, <2>4 DEF VerifyWork
    <3> QED BY <2>1, <3>1 DEF Handled, WithHardware
  <2>5. CASE Ends(work.round, Empty)
    BY <2>5, EndsVerifying DEF Handled
  <2> QED BY <2>2, <2>3, <2>4, <2>5
<1>4. CASE AddClaimableBatched
  <2>1. work \in VerifyWork /\ Verifying /\ work.check = {}
    BY <1>4, VerifyingWork DEF AddClaimableBatched
  <2>2. Ends(work.round, Verified("Failed")) \/ \E B : work' = [work EXCEPT !.left = @ \ B]
    BY <1>4, Zenon DEF AddClaimableBatched
  <2>3. ASSUME NEW B, work' = [work EXCEPT !.left = @ \ B] PROVE Handled'
    <3>1. work'.check = {} /\ work'.add = work.add /\ work'.left = work.left \ B
      BY <2>1, <2>3 DEF VerifyWork
    <3> QED BY <2>1, <3>1 DEF Handled
  <2> QED BY <2>2, <2>3, EndsVerifying DEF Handled
<1> QED BY <1>1, <1>2, <1>3, <1>4, AsideSteps

LEMMA InitHandled == Init => Handled
BY DEF Init, Handled, Verifying

\* The documents of r that are to be followed by a registration.
Owed(r) == IF Verifying /\ r \in work.left THEN 1 ELSE 0
OnceRecorded ==
  ~trouble /\ Recordable => \A r \in Relays : hardware[r] <= registered[r] + Owed(r)

\* A step in trouble, or one that records nothing and leaves what is owed.
LEMMA OnceKept ==
  ASSUME OnceRecorded, UNCHANGED <<registered, hardware>>, trouble => trouble',
         \A r \in Relays : Owed(r)' = Owed(r)
  PROVE  OnceRecorded'
BY DEF OnceRecorded, Recordable, Documented

LEMMA VerifyRelaysOnce ==
  ASSUME IInv, CountsOK, OnceRecorded, NEW v \in Rounds, VerifyRelays(v)
  PROVE  OnceRecorded'
<1>1. /\ \A r \in Relays : Owed(r) = 0 /\ Owed(r)' \in {0, 1}
      /\ UNCHANGED <<registered, hardware>>
  BY DEF VerifyRelays, Takes, Verifying, Owed, contracts, proofs
<1>2. trouble => trouble'
  BY Refreshed DEF VerifyRelays
<1>3. \A r \in Relays : hardware[r] \in Nat /\ registered[r] \in Nat
  BY DEF IInv, ContractsOK, CountsOK
<1> QED BY <1>1, <1>2, <1>3 DEF OnceRecorded, Recordable, Documented

\* A throw while every hardware_info can be recorded is that of a call.
LEMMA RecordableThrows ==
  ASSUME Recordable, NEW r \in WithHardware
  PROVE  Documented(r) /\ ~NftThrows(r)
BY DEF Recordable, Documented, NftThrows

LEMMA CheckHardwareOnce ==
  ASSUME IInv, CountsOK, Handled, OnceRecorded, CheckHardware
  PROVE  OnceRecorded'
<1>1. /\ work \in VerifyWork /\ Verifying /\ work.check \subseteq WithHardware
      /\ work.check \subseteq Relays /\ work.check \cap work.left = {}
  BY VerifyingWork DEF CheckHardware, Handled, VerifyWork
<1>2. UNCHANGED registered
  BY DEF CheckHardware, contracts
<1>3. ASSUME NEW r \in work.check, Ends(work.round, Empty),
             trouble' = (trouble \/ ~(NftThrows(r) \/ (OwnsNft(r) /\ ~Documented(r))))
      PROVE  OnceRecorded'
  <2>1. Recordable => trouble'
    BY <1>1, <1>3, RecordableThrows
  <2> QED BY <2>1 DEF OnceRecorded, Recordable, Documented
<1>4. ASSUME NEW r \in work.check, hardware' = [hardware EXCEPT ![r] = @ + 1], UNCHANGED trouble,
             work' = [work EXCEPT !.check = @ \ {r}, !.add = @ \cup {r}, !.left = @ \cup {r}]
      PROVE  OnceRecorded'
  <2>1. Verifying' /\ work'.left = work.left \cup {r}
    BY <1>1, <1>4, NotWork DEF VerifyWork, Verifying
  <2>2. ASSUME ~trouble', Recordable, NEW q \in Relays
        PROVE  hardware'[q] <= registered'[q] + Owed(q)'
    <3>1. /\ hardware[q] \in Nat /\ registered[q] \in Nat
          /\ hardware[q] <= registered[q] + Owed(q)
      BY <1>4, <2>2 DEF IInv, ContractsOK, CountsOK, OnceRecorded
    <3>2. CASE q = r
      <4>1. Owed(q) = 0 /\ Owed(q)' = 1
        BY <1>1, <2>1, <3>2 DEF Owed
      <4>2. hardware'[q] = hardware[q] + 1
        BY <1>1, <1>4, <3>2 DEF IInv, ContractsOK
      <4> QED BY <1>2, <3>1, <4>1, <4>2
    <3>3. CASE q # r
      <4>1. Owed(q)' = Owed(q)
        BY <1>1, <2>1, <3>3 DEF Owed
      <4>2. hardware'[q] = hardware[q]
        BY <1>1, <1>4, <3>3 DEF IInv, ContractsOK
      <4> QED BY <1>2, <3>1, <4>1, <4>2
    <3> QED BY <3>2, <3>3
  <2> QED BY <2>2 DEF OnceRecorded, Recordable, Documented
<1>5. ASSUME NEW r \in work.check, UNCHANGED hardware, trouble => trouble',
             work' = [work EXCEPT !.check = @ \ {r}]
      PROVE  OnceRecorded'
  <2>1. Verifying' /\ work'.left = work.left
    BY <1>1, <1>5, NotWork DEF VerifyWork, Verifying
  <2>2. \A q \in Relays : Owed(q)' = Owed(q)
    BY <1>1, <2>1 DEF Owed
  <2> QED BY <1>2, <1>5, <2>2, OnceKept
<1>6. PICK r \in work.check :
       \/ /\ hardware' = [hardware EXCEPT ![r] = @ + 1] /\ UNCHANGED trouble
          /\ work' = [work EXCEPT !.check = @ \ {r}, !.add = @ \cup {r}, !.left = @ \cup {r}]
       \/ /\ work' = [work EXCEPT !.check = @ \ {r}]
          /\ trouble' = (trouble \/ OwnsNft(r)) /\ UNCHANGED hardware
       \/ /\ Ends(work.round, Empty)
          /\ trouble' = (trouble \/ ~(NftThrows(r) \/ (OwnsNft(r) /\ ~Documented(r))))
  BY Zenon DEF CheckHardware
<1> QED BY <1>3, <1>4, <1>5, <1>6

LEMMA AddClaimableBatchedOnce ==
  ASSUME IInv, CountsOK, OnceRecorded, AddClaimableBatched
  PROVE  OnceRecorded'
<1>1. work \in VerifyWork /\ Verifying /\ UNCHANGED hardware
  BY VerifyingWork DEF AddClaimableBatched, proofs
<1>2. PICK B, landed, thrown :
        /\ B \subseteq work.left
        /\ IF landed THEN Register(B) ELSE UNCHANGED <<registry, recent, registered>>
        /\ IF thrown
           THEN Ends(work.round, Verified("Failed"))
           ELSE /\ work' = [work EXCEPT !.left = @ \ B]
                /\ UNCHANGED <<stage, waiting, output>>
        /\ trouble' = (trouble \/ thrown \/ ~landed)
  BY Zenon DEF AddClaimableBatched
<1>3. CASE trouble'
  BY <1>3 DEF OnceRecorded
<1>4. CASE ~trouble'
  <2>1. ~trouble /\ Register(B) /\ work' = [work EXCEPT !.left = @ \ B]
    BY <1>2, <1>4
  <2>2. Verifying' /\ work'.left = work.left \ B
    BY <1>1, <2>1, NotWork DEF VerifyWork, Verifying
  <2>3. registered' = [r \in Relays |-> registered[r] + IF r \in B THEN 1 ELSE 0]
    BY <2>1 DEF Register
  <2>4. ASSUME Recordable, NEW q \in Relays
        PROVE  hardware'[q] <= registered'[q] + Owed(q)'
    <3>1. /\ hardware[q] \in Nat /\ registered[q] \in Nat
          /\ hardware[q] <= registered[q] + Owed(q)
      BY <2>1, <2>4 DEF IInv, ContractsOK, CountsOK, OnceRecorded
    <3>2. CASE q \in B
      <4>1. Owed(q) = 1 /\ Owed(q)' = 0
        BY <1>1, <1>2, <2>2, <3>2 DEF Owed
      <4> QED BY <1>1, <2>3, <3>1, <3>2, <4>1
    <3>3. CASE q \notin B
      <4>1. Owed(q)' = Owed(q) /\ Owed(q) \in {0, 1}
        BY <1>1, <2>2, <3>3 DEF Owed
      <4> QED BY <1>1, <2>3, <3>1, <3>3, <4>1
    <3> QED BY <3>2, <3>3
  <2> QED BY <2>4 DEF OnceRecorded, Recordable, Documented
<1> QED BY <1>3, <1>4

LEMMA NextOnce ==
  ASSUME IInv, Flowing, Counted, Handled, OnceRecorded, [Next]_vars
  PROVE  OnceRecorded'
<1>1. CountsOK
  BY DEF Counted
<1>2. CASE Aside
  <2>1. UNCHANGED <<registered, hardware>> /\ (trouble => trouble')
    BY <1>2 DEF Aside
  <2>2. CASE trouble'
    BY <2>2 DEF OnceRecorded
  <2>3. CASE ~trouble'
    <3>1. \A r \in Relays : Owed(r)' = Owed(r)
      BY <1>2, <2>3 DEF Aside, Owed
    <3> QED BY <2>1, <3>1, OnceKept
  <2> QED BY <2>2, <2>3
<1> QED BY <1>1, <1>2, AsideSteps, VerifyRelaysOnce, CheckHardwareOnce, AddClaimableBatchedOnce

LEMMA InitOnce == Init => OnceRecorded
BY DEF Init, OnceRecorded, Owed, Verifying

\* What is owed is still to be registered, and counted when the registry has it already.
LEMMA RecordedImplies ==
  ASSUME IInv, Counted, Recorded, OnceRecorded
  PROVE  HardwareRecorded
<1>1. \A r \in bonus : hardware[r] > 0
  BY DEF IInv, BonusOK, Backed
<1>2. ASSUME NEW r \in Relays PROVE hardware[r] <= Cardinality(Started) + crashes
  <2>1. PICK n, m \in Nat : n = Cardinality(Fresh(r)) /\ m = Cardinality(Started)
    BY FreshFinite
  <2>2. hardware[r] \in Nat /\ crashes \in Nat /\ hardware[r] + n <= m + crashes
    BY <2>1 DEF Recorded, IInv, ContractsOK
  <2> QED BY <2>1, <2>2
<1>3. ASSUME ~trouble, Recordable, NEW r \in Relays
      PROVE  hardware[r] <= 1 + removed[r] + cached
  <2>1. /\ hardware[r] \in Nat /\ registered[r] \in Nat /\ removed[r] \in Nat /\ cached \in Nat
        /\ hardware[r] <= registered[r] + Owed(r)
        /\ registered[r] + Twice(r) <= removed[r] + Known(r) + cached
    BY <1>3 DEF IInv, ContractsOK, Counted, CountsOK, OnceRecorded
  <2>2. /\ Owed(r) \in {0, 1} /\ Twice(r) \in {0, 1} /\ Known(r) \in {0, 1}
        /\ Known(r) = 1 => Owed(r) <= Twice(r)
    BY DEF Owed, Twice, Known, Hand
  <2> QED BY <2>1, <2>2
<1> QED BY <1>1, <1>2, <1>3 DEF HardwareRecorded

LEMMA AlwaysHandled == Spec => [](IInv /\ Flowing /\ Counted /\ Handled)
BY AlwaysCounted, InitHandled, NextHandled, PTL DEF Spec

LEMMA AlwaysRecorded == Spec => [](IInv /\ Counted /\ Recorded /\ OnceRecorded)
BY AlwaysHandled, InitRecorded, NextRecorded, InitOnce, NextOnce, PTL DEF Spec

\* Every bonus has a document of the hardware behind it; a relay has no more of them than
\* rounds and crashes, and, while calls succeed and each hardware_info can be recorded, one
\* for each time that it may be registered.
THEOREM HardwareIsRecorded == Spec => []HardwareRecorded
BY AlwaysRecorded, RecordedImplies, PTL

-----------------------------------------------------------------------------
(* While calls succeed, a relay that was registered with its hardware has  *)
(* its bonus or is among those that a round will set it for.               *)

\* The relays that v has registered and is to set the bonus for, as far as it got.
Pending(v) == IF Verifying /\ work.round = v THEN work.add \ work.left
              ELSE IF stage[v] \in {"families", "bonus"} THEN output[v].validated ELSE {}
BonusDue ==
  ~trouble => \A r \in WithHardware :
                registered[r] > 0 => r \in bonus \/ \E v \in Rounds : r \in Pending(v)

LEMMA BonusDueKept ==
  ASSUME BonusDue, UNCHANGED registered, bonus \subseteq bonus', trouble => trouble',
         \A v \in Rounds : Pending(v) \cap WithHardware \subseteq Pending(v)' \cup bonus'
  PROVE  BonusDue'
<1> SUFFICES ASSUME ~trouble', NEW r \in WithHardware, registered'[r] > 0
             PROVE  r \in bonus' \/ \E v \in Rounds : r \in Pending(v)'
  BY DEF BonusDue, WithHardware
<1>1. r \in bonus \/ \E v \in Rounds : r \in Pending(v)
  BY DEF BonusDue
<1> QED BY <1>1

LEMMA StagePending ==
  ASSUME UNCHANGED <<stage, output>>, ~Verifying, NEW v \in Rounds,
         stage[v] \notin {"families", "bonus"} \/ UNCHANGED work
  PROVE  Pending(v) \subseteq Pending(v)'
BY DEF Pending, Verifying

\* The end of a job hands what was validated on to families and to bonus.
LEMMA EndsPending ==
  ASSUME IInv, Flowing, NEW v \in Rounds, NEW job \in FlowJobs, Doing(v, job), NEW o, Ends(v, o)
  PROVE  /\ \A u \in Rounds \ {v} : Pending(u)' = Pending(u)
         /\ Pending(v)' = IF job \in {"verify", "families"} THEN o.validated ELSE {}
         /\ job # "verify" =>
              Pending(v) = IF job \in {"families", "bonus"} THEN output[v].validated ELSE {}
<1>1. /\ stage[v] = job /\ work' = NoJob /\ stage' = [stage EXCEPT ![v] = After(job)]
  BY EndsQueue
<1>2. output' = [output EXCEPT ![v] = o] /\ ~Verifying' /\ DOMAIN output = Rounds
      /\ stage \in [Rounds -> StageNames]
  BY EndsVerifying DEF Ends, IInv, OutputOK, Flowing, Typed
<1>3. ASSUME NEW u \in Rounds \ {v} PROVE Pending(u)' = Pending(u)
  <2>1. stage'[u] = stage[u] /\ output'[u] = output[u]
    BY <1>1, <1>2
  <2>2. ~(Verifying /\ work.round = u)
    BY DEF Doing, Takes, Verifying
  <2> QED BY <1>2, <2>1, <2>2 DEF Pending
<1>4. After(job) \in {"families", "bonus"} <=> job \in {"verify", "families"}
  BY AfterStage DEF FlowJobs
<1>5. stage'[v] = After(job) /\ output'[v] = o
  BY <1>1, <1>2
<1>6. Pending(v)' = IF job \in {"verify", "families"} THEN o.validated ELSE {}
  BY <1>2, <1>4, <1>5 DEF Pending
<1>7. ASSUME job # "verify"
      PROVE  Pending(v) = IF job \in {"families", "bonus"} THEN output[v].validated ELSE {}
  <2>1. ~(Verifying /\ work.round = v)
    BY <1>7 DEF Doing, Takes, Verifying
  <2> QED BY <1>1, <2>1 DEF Pending
<1> QED BY <1>3, <1>6, <1>7

LEMMA VerifyRelaysBonusDue ==
  ASSUME IInv, Flowing, BonusDue, NEW v \in Rounds, VerifyRelays(v)
  PROVE  BonusDue'
<1>1. /\ Takes(v, "verify") /\ Doing(v, "verify") /\ ~Verifying /\ UNCHANGED <<registered, bonus>>
      /\ "verify" \in FlowJobs /\ stage[v] = "verify" /\ (trouble => trouble')
  BY TakesHead, Refreshed DEF VerifyRelays, Takes, Doing, Verifying, contracts, FlowJobs
<1>2. Pending(v) = {}
  BY <1>1 DEF Pending
<1>3. ASSUME NEW u \in Rounds \ {v} PROVE Pending(u) \subseteq Pending(u)'
  <2>1. CASE Ends(v, Empty)
    BY <1>1, <2>1, EndsPending
  <2>2. CASE Begins(v, StateRead)
    <3>1. work'.round = v /\ UNCHANGED <<stage, output>>
      BY <2>2 DEF Begins
    <3> QED BY <1>1, <3>1 DEF Pending, Verifying
  <2> QED BY <2>1, <2>2, VerifyRelaysCases
<1> QED BY <1>1, <1>2, <1>3, BonusDueKept

LEMMA CheckHardwareBonusDue ==
  ASSUME IInv, Flowing, Handled, BonusDue, CheckHardware
  PROVE  BonusDue'
<1>1. /\ work \in VerifyWork /\ Verifying /\ work.round \in Rounds /\ Doing(work.round, "verify")
      /\ "verify" \in FlowJobs /\ UNCHANGED <<registered, bonus>>
  BY VerifyingRound DEF CheckHardware, contracts, FlowJobs
<1>2. PICK r \in work.check :
       \/ /\ work' = [work EXCEPT !.check = @ \ {r}, !.add = @ \cup {r}, !.left = @ \cup {r}]
          /\ UNCHANGED <<stage, output, trouble>>
       \/ /\ work' = [work EXCEPT !.check = @ \ {r}]
          /\ trouble' = (trouble \/ OwnsNft(r)) /\ UNCHANGED <<stage, output>>
       \/ /\ Ends(work.round, Empty)
          /\ trouble' = (trouble \/ ~(NftThrows(r) \/ (OwnsNft(r) /\ ~Documented(r))))
  BY Zenon DEF CheckHardware
<1>3. trouble => trouble'
  BY <1>2
<1>4. CASE /\ UNCHANGED <<stage, output>>
           /\ \/ work' = [work EXCEPT !.check = @ \ {r}, !.add = @ \cup {r}, !.left = @ \cup {r}]
              \/ work' = [work EXCEPT !.check = @ \ {r}]
  <2>1. /\ Verifying' /\ work'.round = work.round
        /\ work.add \ work.left \subseteq work'.add \ work'.left
    BY <1>1, <1>4, NotWork DEF Verifying, VerifyWork, Handled
  <2>2. ASSUME NEW u \in Rounds PROVE Pending(u) \subseteq Pending(u)'
    BY <1>1, <1>4, <2>1 DEF Pending
  <2> QED BY <1>1, <1>3, <2>2, BonusDueKept
<1>5. CASE Ends(work.round, Empty)
  <2>1. PICK v \in Rounds : v = work.round
    BY <1>1
  <2>2. \A u \in Rounds \ {v} : Pending(u)' = Pending(u)
    BY <1>1, <1>5, <2>1, EndsPending
  <2>3. Pending(v) = {}
    BY <1>1, <1>2, <2>1 DEF Pending, Handled
  <2> QED BY <1>1, <1>3, <2>2, <2>3, BonusDueKept
<1> QED BY <1>2, <1>4, <1>5

LEMMA AddClaimableBatchedBonusDue ==
  ASSUME IInv, CountsOK, Handled, Flowing, BonusDue, AddClaimableBatched
  PROVE  BonusDue'
<1>1. /\ work \in VerifyWork /\ Verifying /\ work.round \in Rounds
      /\ UNCHANGED bonus
  BY VerifyingRound DEF AddClaimableBatched
<1>2. PICK B \in SUBSET work.left :
        \E landed, thrown \in BOOLEAN :
            /\ IF landed THEN Register(B) ELSE UNCHANGED <<registry, recent, registered>>
            /\ IF thrown
               THEN Ends(work.round, Verified("Failed"))
               ELSE /\ work' = [work EXCEPT !.left = @ \ B]
                    /\ UNCHANGED <<stage, waiting, output>>
            /\ trouble' = (trouble \/ thrown \/ ~landed)
  BY Zenon DEF AddClaimableBatched
<1>3. SUFFICES ASSUME ~trouble', NEW r \in WithHardware, registered'[r] > 0
               PROVE  r \in bonus' \/ \E v \in Rounds : r \in Pending(v)'
  BY DEF BonusDue, WithHardware
<1>4. /\ ~trouble /\ Register(B) /\ work' = [work EXCEPT !.left = @ \ B]
      /\ UNCHANGED <<stage, output>>
  BY <1>2, <1>3
<1>5. /\ Verifying' /\ work'.round = work.round /\ work'.add = work.add
      /\ work'.left = work.left \ B
  BY <1>1, <1>4, NotWork DEF Verifying, VerifyWork
<1>6. \A v \in Rounds : Pending(v) \subseteq Pending(v)'
  BY <1>1, <1>4, <1>5 DEF Pending
<1>7. CASE r \in B
  <2>1. r \in work.add /\ r \notin work'.left
    BY <1>1, <1>2, <1>5, <1>7 DEF Handled
  <2> QED BY <1>1, <1>5, <2>1 DEF Pending
<1>8. CASE r \notin B
  <2>1. registered'[r] = registered[r] + 0 /\ registered[r] \in Nat
    BY <1>4, <1>8 DEF Register, WithHardware, CountsOK
  <2>2. registered[r] > 0
    BY <1>3, <2>1
  <2> QED BY <1>1, <1>4, <1>6, <2>2 DEF BonusDue
<1> QED BY <1>7, <1>8

LEMMA SetHardwareBonusRelaysBonusDue ==
  ASSUME IInv, Flowing, BonusDue, NEW v \in Rounds, SetHardwareBonusRelays(v)
  PROVE  BonusDue'
<1>1. Doing(v, "bonus") /\ "bonus" \in FlowJobs /\ UNCHANGED registered
  BY DEF SetHardwareBonusRelays, Doing, FlowJobs
<1>2. CASE trouble' = TRUE
  BY <1>2 DEF BonusDue
<1>3. ASSUME NEW sent \in SUBSET (output[v].validated \ bonus), bonus' = bonus \cup sent,
             trouble' = (trouble \/ sent # output[v].validated \ bonus), Ends(v, output[v])
      PROVE  BonusDue'
  <2>1. CASE trouble'
    BY <2>1 DEF BonusDue
  <2>2. CASE ~trouble'
    <3>1. ~trouble /\ output[v].validated \subseteq bonus'
      BY <1>3, <2>2
    <3>2. /\ \A u \in Rounds \ {v} : Pending(u)' = Pending(u)
          /\ Pending(v) = output[v].validated
      BY <1>1, <1>3, EndsPending
    <3> QED BY <1>1, <1>3, <3>1, <3>2, BonusDueKept
  <2> QED BY <2>1, <2>2
<1> QED BY <1>2, <1>3, Zenon DEF SetHardwareBonusRelays

LEMMA NextBonusDue ==
  ASSUME IInv, Flowing, ReadsOK, CountsOK, Handled, BonusDue, [Next]_vars
  PROVE  BonusDue'
<1>1. ASSUME UNCHANGED <<registered, bonus, stage, output, work>>, trouble => trouble'
      PROVE  BonusDue'
  <2>1. \A v \in Rounds : Pending(v)' = Pending(v)
    BY <1>1 DEF Pending, Verifying
  <2> QED BY <1>1, <2>1, BonusDueKept
<1>2. CASE UNCHANGED vars
  BY <1>1, <1>2 DEF vars, contracts, flow
<1>3. ASSUME NEW v \in Rounds, NEW R \in SUBSET Relays, StartRound(v, R) PROVE BonusDue'
  <2>1. /\ stage[v] = "none" /\ stage' = [stage EXCEPT ![v] = "verify"]
        /\ UNCHANGED <<registered, bonus, output, work, trouble>>
        /\ stage \in [Rounds -> StageNames]
    BY <1>3 DEF StartRound, contracts, Flowing, Typed
  <2>2. \A u \in Rounds : Pending(u)' = Pending(u)
    BY <2>1 DEF Pending, Verifying
  <2> QED BY <2>1, <2>2, BonusDueKept
<1>4. ASSUME NEW v \in Rounds, SetRelayFamilies(v) PROVE BonusDue'
  <2>1. Doing(v, "families") /\ "families" \in FlowJobs /\ UNCHANGED <<registered, bonus>>
    BY <1>4 DEF SetRelayFamilies, Doing, FlowJobs, contracts
  <2>2. CASE dreState' = NoState
    <3>1. trouble'
      BY <1>4, <2>2, RefreshReads DEF SetRelayFamilies, contracts
    <3> QED BY <3>1 DEF BonusDue
  <2>3. CASE Ends(v, output[v])
    <3>1. /\ \A u \in Rounds \ {v} : Pending(u)' = Pending(u)
          /\ Pending(v)' = output[v].validated /\ Pending(v) = output[v].validated
      BY <2>1, <2>3, EndsPending
    <3>2. trouble => trouble'
      BY <1>4, Refreshed DEF SetRelayFamilies
    <3> QED BY <2>1, <2>3, <3>1, <3>2, BonusDueKept
  <2> QED BY <1>4, <2>2, <2>3 DEF SetRelayFamilies
<1>5. ASSUME NEW v \in Rounds, NEW job \in {"confirm", "persist"}, Doing(v, job),
             NEW o, Ends(v, o), UNCHANGED <<registered, bonus>>, trouble => trouble'
      PROVE  BonusDue'
  <2>1. /\ \A u \in Rounds \ {v} : Pending(u)' = Pending(u)
        /\ Pending(v) = {}
    BY <1>5, EndsPending DEF FlowJobs
  <2> QED BY <1>5, <2>1, BonusDueKept
<1>6. ASSUME NEW v \in Rounds, ConfirmVerification(v) PROVE BonusDue'
  BY <1>5, <1>6 DEF ConfirmVerification, Doing, contracts
<1>7. ASSUME ~Verifying, ~Verifying', UNCHANGED <<registered, bonus, stage, output>>,
             trouble => trouble'
      PROVE  BonusDue'
  <2>1. \A v \in Rounds : Pending(v)' = Pending(v)
    BY <1>7 DEF Pending
  <2> QED BY <1>7, <2>1, BonusDueKept
<1>8. ASSUME NEW v \in Rounds, PersistVerification(v) PROVE BonusDue'
  <2>1. Takes(v, "persist") /\ Doing(v, "persist") /\ ~Verifying
        /\ UNCHANGED <<registered, bonus>> /\ (trouble => trouble')
    BY <1>8 DEF PersistVerification, Takes, Doing, Verifying, contracts
  <2>2. Ends(v, Empty) \/ (UNCHANGED <<stage, output>> /\ ~Verifying')
    BY <1>8 DEF PersistVerification, Verifying
  <2> QED BY <1>5, <1>7, <2>1, <2>2
<1>9. ASSUME NEW v \in Rounds, RecoverPersistVerification(v) PROVE BonusDue'
  <2>1. ~Verifying /\ UNCHANGED <<registered, bonus, stage, output, trouble>>
    BY <1>9 DEF RecoverPersistVerification, Takes, Verifying, contracts
  <2>2. ~Verifying'
    BY <1>9 DEF RecoverPersistVerification, Takes, Verifying
  <2> QED BY <1>7, <2>1, <2>2
<1>10. ASSUME VerifyEnds PROVE BonusDue'
  <2>1. PICK v \in Rounds : v = work.round
    BY <1>10, VerifyingRound DEF VerifyEnds
  <2>2. /\ Doing(v, "verify") /\ "verify" \in FlowJobs /\ Verifying /\ Ends(v, Verified("OK"))
        /\ UNCHANGED <<registered, bonus, trouble>>
    BY <1>10, <2>1, VerifyingRound DEF VerifyEnds, FlowJobs, contracts
  <2>3. /\ \A u \in Rounds \ {v} : Pending(u)' = Pending(u)
        /\ Pending(v)' = Verified("OK").validated
    BY <2>2, EndsPending
  <2>4. Pending(v) = work.add /\ Verified("OK").validated = work.add \cap WithHardware
    BY <1>10, <2>1, <2>2 DEF VerifyEnds, Pending, Verified, Validated
  <2> QED BY <2>2, <2>3, <2>4, BonusDueKept
<1>11. ASSUME NEW step \in {"metrics", "stats"}, Store(step) PROVE BonusDue'
  <2>1. UNCHANGED <<registered, bonus, stage, output>> /\ (trouble => trouble') /\ ~Verifying
    BY <1>11 DEF Store, contracts, flow, Persisting, Verifying
  <2>2. PersistWork(work)
    BY <1>11, PersistingWork DEF Store
  <2>3. \/ \E ok : work' = [work EXCEPT ![step] = ok, !.step = StoreNext(step)]
        \/ work' = [work EXCEPT !.step = StoreNext(step)]
    BY <1>11 DEF Store
  <2>4. ~Verifying'
    BY <2>2, <2>3 DEF PersistWork, Verifying
  <2> QED BY <1>7, <2>1, <2>4
<1>12. ASSUME CreateVerificationData \/ StoreRelayHexMap \/ PersistEnds PROVE BonusDue'
  <2>1. /\ UNCHANGED <<registered, bonus>> /\ (trouble => trouble')
        /\ work.round \in Rounds /\ ~Verifying
    <3>1. \E step \in {"create", "hexMap", "end"} : Persisting(step)
      BY <1>12, Zenon DEF CreateVerificationData, StoreRelayHexMap, PersistEnds
    <3>2. work.round \in Rounds
      BY <3>1, UploadingRound
    <3>3. ~Verifying
      BY <3>1 DEF Persisting, Verifying
    <3>4. UNCHANGED <<registered, bonus>>
      BY <1>12 DEF CreateVerificationData, StoreRelayHexMap, PersistEnds, contracts
    <3>5. trouble => trouble'
      BY <1>12 DEF CreateVerificationData, StoreRelayHexMap, PersistEnds
    <3> QED BY <3>2, <3>3, <3>4, <3>5
  <2>2. ~Verifying'
    <3>1. PersistWork(work)
      BY <1>12, PersistingWork DEF CreateVerificationData, StoreRelayHexMap, PersistEnds
    <3>2. work' = NoJob \/ \E s : work' = [work EXCEPT !.step = s]
      BY <1>12 DEF CreateVerificationData, StoreRelayHexMap, PersistEnds, Ends
    <3> QED BY <3>1, <3>2 DEF PersistWork, Verifying
  <2>3. CASE UNCHANGED <<stage, output>>
    BY <1>7, <2>1, <2>2, <2>3
  <2>4. CASE PersistEnds /\ work.job = "persist" /\ Ends(work.round, output[work.round])
    <3>1. Doing(work.round, "persist")
      BY <2>4, UploadingRound DEF PersistEnds
    <3> QED BY <1>5, <2>1, <2>4, <3>1
  <2> QED BY <1>12, <2>3, <2>4 DEF CreateVerificationData, StoreRelayHexMap, PersistEnds, flow
<1>13. ASSUME NEW v \in Rounds, RecoveryAdded(v) PROVE BonusDue'
  BY <1>1, <1>13 DEF RecoveryAdded, contracts
<1>14. ASSUME NEW v \in Rounds, DistributeMostRecent(v) PROVE BonusDue'
  <2>1. /\ stage[v] = "distribute" /\ stage' = [stage EXCEPT ![v] = "done"]
        /\ UNCHANGED <<registered, bonus, output, work, trouble>>
        /\ stage \in [Rounds -> StageNames]
    BY <1>14 DEF DistributeMostRecent, contracts, Flowing, Typed
  <2>2. \A u \in Rounds : Pending(u)' = Pending(u)
    BY <2>1 DEF Pending, Verifying
  <2> QED BY <2>1, <2>2, BonusDueKept
<1>15. ASSUME Cools \/ \E r \in Relays : Claim(r) \/ Remove(r) \/ Transfer(r) PROVE BonusDue'
  BY <1>1, <1>15 DEF Cools, Claim, Remove, Transfer, contracts, flow
<1>16. ASSUME Crash PROVE BonusDue'
  BY <1>16 DEF Crash, BonusDue
<1>18. ASSUME NEW v \in Rounds, SetRelayFamiliesFails(v) PROVE BonusDue'
  BY <1>18 DEF SetRelayFamiliesFails, BonusDue
<1>17. CASE Worker
  BY <1>4, <1>6, <1>8, <1>9, <1>10, <1>11, <1>12, <1>17, <1>18, VerifyRelaysBonusDue,
     CheckHardwareBonusDue, AddClaimableBatchedBonusDue, SetHardwareBonusRelaysBonusDue
     DEF Worker
<1> QED BY <1>2, <1>3, <1>13, <1>14, <1>15, <1>16, <1>17 DEF Next

LEMMA InitBonusDue == Init => BonusDue
<1> SUFFICES ASSUME Init, NEW r \in WithHardware, registered[r] > 0 PROVE FALSE
  BY DEF BonusDue
<1> QED BY DEF Init, WithHardware

LEMMA BonusDueImplies == Flowing /\ BonusDue => BonusFollowsRegistration
<1> SUFFICES ASSUME Flowing, BonusDue, ~trouble, \A v \in Rounds : stage[v] \in {"none", "done"},
                    NEW r \in WithHardware, registered[r] > 0
             PROVE  r \in bonus
  BY DEF BonusFollowsRegistration
<1>1. ~Verifying
  BY VerifyingRound
<1>2. \A v \in Rounds : Pending(v) = {}
  BY <1>1 DEF Pending
<1> QED BY <1>2 DEF BonusDue

LEMMA AlwaysBonusDue == Spec => [](IInv /\ Flowing /\ BonusDue)
<1>1. Counted => CountsOK
  BY DEF Counted
<1>2. Sighted => ReadsOK
  BY DEF Sighted
<1> QED BY <1>1, <1>2, AlwaysSighted, AlwaysHandled, InitBonusDue, NextBonusDue, PTL DEF Spec

\* While calls succeed, the rounds that are over leave every relay that was registered
\* with its hardware with the bonus, whoever owns its NFT by then.
THEOREM BonusIsFollowed == Spec => []BonusFollowsRegistration
BY AlwaysBonusDue, BonusDueImplies, PTL

-----------------------------------------------------------------------------
(* While calls succeed, rounds keep their order through the flow: the one  *)
(* worker takes their jobs first in first out.                             *)

Rank(s) == CASE s = "none" -> 0 [] s = "verify" -> 1 [] s = "families" -> 2
             [] s = "bonus" -> 3 [] s = "confirm" -> 4 [] s = "persist" -> 5 [] OTHER -> 6

\* A round whose flow runs has its job in the queue or under way; a later round is no
\* further than an earlier one, and behind it at the same job.
Present == \A v \in Rounds : stage[v] \in FlowJobs => <<v, stage[v]>> \in Elems(waiting) \cup Active
Behind(u, v) == /\ <<v, stage[v]>> \notin Active
                /\ Before(waiting, <<u, stage[v]>>, <<v, stage[v]>>)
InOrder == \A u, v \in Rounds : u < v =>
             /\ Rank(stage[v]) <= Rank(stage[u])
             /\ stage[v] \in FlowJobs /\ stage[u] = stage[v] => Behind(u, v)

\* Nothing failed, and the attempt under way has what it uploaded.
Unfailed == /\ \A v \in Rounds : recovery[v] = NoJob /\ stage[v] # "failed"
            /\ work # NoJob /\ work.job = "persist" =>
                 /\ work.step # "metrics" => work.metrics
                 /\ work.step \in PastStats => work.stats

\* The worker has stored v, and persist-verification goes on.
Stored(v) == /\ work # NoJob /\ work.job = "persist" /\ work.round = v
             /\ work.step \in {"hexMap", "end"}

\* The last document is of no earlier round than those with results that are stored.
HasResults(v) == DOMAIN output[v].of # {}
Latest == \A v \in Rounds : HasResults(v) =>
            /\ stage[v] \in {"distribute", "done"} \/ Stored(v) =>
                 docs # <<>> /\ docs[Len(docs)].round >= v
            /\ stage[v] = "done" => distributed[v] >= v
Ordered == /\ DOMAIN distributed = Rounds
           /\ ~trouble => Present /\ InOrder /\ Unfailed /\ Latest

LEMMA RankProperties ==
  /\ \A s \in StageNames : Rank(s) \in 0..6 /\ (Rank(s) = 0 <=> s = "none")
  /\ \A j \in FlowJobs : Rank(After(j)) = Rank(j) + 1 /\ Rank(j) \in 1..5
  /\ \A j \in FlowJobs, s \in StageNames : Rank(s) = Rank(j) => s = j
<1>1. \A j \in FlowJobs : Rank(After(j)) = Rank(j) + 1
  BY AfterStage DEF Rank, FlowJobs
<1>2. \A s \in StageNames : Rank(s) \in 0..6 /\ (Rank(s) = 0 <=> s = "none")
  BY DEF Rank, StageNames, FlowJobs
<1>3. \A j \in FlowJobs : Rank(j) \in 1..5
  BY DEF Rank, FlowJobs
<1>4. ASSUME NEW j \in FlowJobs, NEW s \in StageNames, Rank(s) = Rank(j) PROVE s = j
  <2>1. CASE s \in FlowJobs
    BY <1>4, <2>1 DEF Rank, FlowJobs
  <2>2. CASE s \notin FlowJobs
    <3>1. Rank(s) \in {0, 6}
      BY <2>2 DEF Rank, StageNames, FlowJobs
    <3> QED BY <1>3, <1>4, <3>1
  <2> QED BY <2>1, <2>2
<1> QED BY <1>1, <1>2, <1>3, <1>4

LEMMA BeforeAppend ==
  ASSUME NEW S, NEW s \in Seq(S), NEW x \in S, x \notin Elems(s), NEW y, NEW z, y # x,
         Before(s, y, z) \/ z = x
  PROVE  Before(Append(s, x), y, z)
<1> DEFINE t == Append(s, x)
           n == Len(s) + 1
<1>1. /\ Len(s) \in Nat /\ Len(t) = n /\ t[n] = x
      /\ \A i \in 1..Len(s) : t[i] = s[i]
  BY AppendProperties, LenProperties
<1> HIDE DEF t
<1>2. SUFFICES ASSUME NEW i \in 1..n, NEW k \in 1..n, t[i] = y, t[k] = z PROVE i < k
  BY <1>1 DEF Before, t
<1>3. i \in 1..Len(s)
  BY <1>1, <1>2
<1>4. CASE k = n
  BY <1>1, <1>3, <1>4
<1>5. CASE k \in 1..Len(s)
  <2>1. t[k] = s[k] /\ s[k] \in Elems(s) /\ z # x
    BY <1>1, <1>2, <1>5 DEF Elems
  <2> QED BY <1>1, <1>2, <1>3, <1>5, <2>1 DEF Before
<1> QED BY <1>1, <1>4, <1>5

\* The job that the worker takes, or has in hand, is of the first round at that job.
LEMMA DoingFirst ==
  ASSUME Flowing, Present, InOrder, NEW v \in Rounds, NEW job \in FlowJobs, Doing(v, job),
         stage[v] = job, NEW u \in Rounds, u < v
  PROVE  stage[u] # job
<1> SUFFICES ASSUME stage[u] = job PROVE FALSE
  OBVIOUS
<1>1. Behind(u, v)
  BY DEF InOrder
<1>2. CASE Takes(v, job)
  <2>1. /\ work = NoJob /\ waiting # <<>> /\ Head(waiting) = <<v, job>>
        /\ waiting \in Seq(Rounds \X JobNames) /\ Distinct(waiting)
    BY <1>2 DEF Takes, Flowing, Queued
  <2>2. <<u, job>> \in Elems(waiting)
    BY <2>1 DEF Present, Active
  <2>3. ~Before(waiting, <<u, job>>, <<v, job>>)
    <3>1. \A y \in Elems(waiting) : ~Before(waiting, y, Head(waiting))
      BY <2>1, ElemsTail
    <3> QED BY <2>1, <2>2, <3>1
  <2> QED BY <1>1, <2>3 DEF Behind
<1>3. CASE work # NoJob /\ work.round = v /\ work.job = job
  BY <1>1, <1>3 DEF Behind, Active
<1> QED BY <1>2, <1>3 DEF Doing

\* The jobs that wait keep their order when one ends, and what joins them comes last.
LEMMA EndsBefore ==
  ASSUME Flowing, NEW v \in Rounds, NEW job \in FlowJobs, Doing(v, job), NEW o, Ends(v, o),
         NEW y, NEW z, y # <<v, After(job)>>,
         Before(waiting, y, z) \/ (z = <<v, After(job)>> /\ After(job) # "distribute")
  PROVE  Before(waiting', y, z)
<1>1. PICK rest : rest = IF work = NoJob THEN Tail(waiting) ELSE waiting
  OBVIOUS
<1>2. PICK S : S = Rounds \X JobNames
  OBVIOUS
<1>3. waiting \in Seq(S) /\ Distinct(waiting)
  BY <1>2 DEF Flowing, Queued
<1>4. rest \in Seq(S) /\ Distinct(rest) /\ Elems(rest) \subseteq Elems(waiting)
      /\ (Before(waiting, y, z) => Before(rest, y, z))
  <2>1. CASE work = NoJob
    <3>1. waiting # <<>>
      BY <2>1 DEF Doing, Takes
    <3> QED BY <1>1, <1>3, <2>1, <3>1, ElemsTail
  <2>2. CASE work # NoJob
    BY <1>1, <1>3, <2>2
  <2> QED BY <2>1, <2>2
<1>5. stage[v] = job /\ waiting' = IF After(job) = "distribute" THEN rest
                                   ELSE Append(rest, <<v, After(job)>>)
  BY <1>1, EndsQueue DEF Ends
<1>6. CASE After(job) = "distribute"
  BY <1>4, <1>5, <1>6
<1>7. CASE After(job) # "distribute"
  <2>1. PICK x : x = <<v, After(job)>>
    OBVIOUS
  <2>2. x \in S /\ x \notin Elems(waiting)
    <3>1. After(job) \in FlowJobs /\ After(job) # job /\ After(job) # "recover"
      BY <1>7, AfterFlow
    <3>2. ~Due(x)
      BY <1>5, <2>1, <3>1 DEF Due
    <3> QED BY <1>2, <2>1, <3>1, <3>2 DEF Flowing, Queued, JobNames
  <2>3. y # x /\ (Before(rest, y, z) \/ z = x)
    BY <1>4, <1>7, <2>1
  <2>4. rest \in Seq(S) /\ x \notin Elems(rest)
    BY <1>4, <2>2
  <2>5. PICK t : t = Append(rest, x)
    OBVIOUS
  <2>6. Before(t, y, z)
    BY <2>2, <2>3, <2>4, <2>5, BeforeAppend
  <2> QED BY <1>5, <1>7, <2>1, <2>5, <2>6
<1> QED BY <1>6, <1>7

LEMMA EndsInOrder ==
  ASSUME Flowing, Present, InOrder, NEW v \in Rounds, NEW job \in FlowJobs, Doing(v, job),
         NEW o, Ends(v, o)
  PROVE  Present' /\ InOrder'
<1>1. /\ stage[v] = job /\ work' = NoJob
      /\ stage' = [stage EXCEPT ![v] = After(job)]
      /\ Elems(waiting') = (Elems(waiting) \ {<<v, job>>})
                             \cup {<<v, j>> : j \in {After(job)} \ {"distribute"}}
  BY EndsQueue
<1>2. PICK a : a = After(job)
  OBVIOUS
<1>3. /\ a \in StageNames /\ a # job /\ Rank(a) = Rank(job) + 1
      /\ Rank(job) \in 1..5
  BY <1>2, AfterFlow, RankProperties
<1>4. /\ stage \in [Rounds -> StageNames] /\ stage'[v] = a
      /\ \A u \in Rounds \ {v} : stage'[u] = stage[u]
  BY <1>1, <1>2, <1>3 DEF Flowing, Typed
<1>5. Active' = {} /\ Active \subseteq {<<v, job>>}
  <2>1. Active' = {}
    BY <1>1 DEF Active
  <2> QED BY <2>1 DEF Active, Doing, Takes
<1>6. Present'
  <2>1. ASSUME NEW u \in Rounds, stage'[u] \in FlowJobs PROVE <<u, stage'[u]>> \in Elems(waiting')
    <3>1. CASE u = v
      BY <1>1, <1>2, <1>4, <2>1, <3>1 DEF FlowJobs
    <3>2. CASE u # v
      <4>1. <<u, stage[u]>> \in Elems(waiting) \cup Active
        BY <1>4, <2>1, <3>2 DEF Present
      <4> QED BY <1>1, <1>4, <1>5, <3>2, <4>1
    <3> QED BY <3>1, <3>2
  <2> QED BY <2>1 DEF Present
<1>7. ASSUME NEW u \in Rounds, NEW w \in Rounds, u < w
      PROVE  /\ Rank(stage'[w]) <= Rank(stage'[u])
             /\ stage'[w] \in FlowJobs /\ stage'[u] = stage'[w] => Behind(u, w)'
  <2>1. /\ Rank(stage[w]) <= Rank(stage[u])
        /\ Rank(stage[w]) \in 0..6 /\ Rank(stage[u]) \in 0..6
    BY <1>4, <1>7, RankProperties DEF InOrder
  <2>2. CASE u # v /\ w # v
    <3>1. ASSUME stage[w] \in FlowJobs, stage[u] = stage[w] PROVE Behind(u, w)'
      <4>1. Before(waiting, <<u, stage[w]>>, <<w, stage[w]>>)
        BY <1>7, <3>1 DEF InOrder, Behind
      <4>2. <<u, stage[w]>> # <<v, After(job)>>
        BY <2>2
      <4>3. Before(waiting', <<u, stage[w]>>, <<w, stage[w]>>)
        BY <4>1, <4>2, EndsBefore
      <4> QED BY <1>4, <1>5, <2>2, <4>3 DEF Behind
    <3> QED BY <1>4, <2>1, <2>2, <3>1
  <2>3. CASE u = v
    <3>1. w # v /\ stage'[w] = stage[w] /\ stage'[u] = a /\ stage[u] = job
      BY <1>1, <1>4, <1>7, <2>3, VerificationAssumption
    <3>2. Rank(stage[w]) # Rank(a)
      BY <1>3, <2>1, <3>1
    <3> QED BY <1>3, <2>1, <3>1, <3>2
  <2>4. CASE w = v
    <3>1. u # v /\ stage'[u] = stage[u] /\ stage'[w] = a /\ stage[w] = job /\ stage[u] # job
      BY <1>1, <1>4, <1>7, <2>4, DoingFirst, VerificationAssumption
    <3>2. Rank(stage[u]) # Rank(job)
      BY <1>4, <3>1, RankProperties
    <3>3. Rank(a) <= Rank(stage[u])
      BY <1>3, <2>1, <3>1, <3>2
    <3>4. ASSUME a \in FlowJobs, stage[u] = a PROVE Behind(u, w)'
      <4>1. After(job) # "distribute" /\ <<u, a>> # <<v, After(job)>>
        BY <1>2, <3>1, <3>4 DEF FlowJobs
      <4>2. Before(waiting', <<u, a>>, <<v, a>>)
        BY <1>2, <4>1, EndsBefore
      <4> QED BY <1>4, <1>5, <2>4, <4>2 DEF Behind
    <3> QED BY <3>1, <3>3, <3>4
  <2> QED BY <2>2, <2>3, <2>4
<1> QED BY <1>6, <1>7 DEF InOrder

\* A job that the worker takes and keeps in hand.
LEMMA TakenInOrder ==
  ASSUME Flowing, Present, InOrder, NEW v \in Rounds, NEW job \in FlowJobs, Takes(v, job),
         waiting' = Tail(waiting), UNCHANGED stage, Active' = {<<v, job>>}
  PROVE  Present' /\ InOrder'
<1>1. /\ waiting \in Seq(Rounds \X JobNames) /\ Distinct(waiting) /\ waiting # <<>>
      /\ Head(waiting) = <<v, job>> /\ Active = {} /\ Doing(v, job)
  BY DEF Flowing, Queued, Takes, Active, Doing
<1>2. /\ Elems(waiting') = Elems(waiting) \ {<<v, job>>}
      /\ \A y, z : Before(waiting, y, z) => Before(waiting', y, z)
  BY <1>1, ElemsTail
<1>3. stage[v] = job
  BY <1>1, TakesHead DEF JobNames, FlowJobs
<1>4. Present'
  BY <1>1, <1>2 DEF Present
<1>5. ASSUME NEW u \in Rounds, NEW w \in Rounds, u < w
      PROVE  /\ Rank(stage'[w]) <= Rank(stage'[u])
             /\ stage'[w] \in FlowJobs /\ stage'[u] = stage'[w] => Behind(u, w)'
  <2>1. Rank(stage[w]) <= Rank(stage[u])
    BY <1>5 DEF InOrder
  <2>2. ASSUME stage[w] \in FlowJobs, stage[u] = stage[w] PROVE Behind(u, w)'
    <3>1. Before(waiting', <<u, stage[w]>>, <<w, stage[w]>>)
      BY <1>2, <1>5, <2>2 DEF InOrder, Behind
    <3>2. w # v
      BY <1>1, <1>3, <1>5, <2>2, DoingFirst
    <3> QED BY <3>1, <3>2 DEF Behind
  <2> QED BY <2>1, <2>2
<1> QED BY <1>4, <1>5 DEF InOrder

LEMMA SameInOrder ==
  ASSUME Present, InOrder, UNCHANGED <<waiting, stage>>, Active' = Active
  PROVE  Present' /\ InOrder'
<1>1. Present'
  BY DEF Present
<1>2. \A u, w \in Rounds : Behind(u, w) => Behind(u, w)'
  BY DEF Behind
<1> QED BY <1>1, <1>2 DEF InOrder

LEMMA StartRoundInOrder ==
  ASSUME Flowing, Present, InOrder, NEW v \in Rounds, NEW R \in SUBSET Relays, StartRound(v, R)
  PROVE  Present' /\ InOrder'
<1>1. /\ stage[v] = "none" /\ \A u \in Rounds : u < v => stage[u] # "none"
      /\ stage' = [stage EXCEPT ![v] = "verify"] /\ Active' = Active
      /\ waiting' = Append(waiting, <<v, "verify">>)
  BY DEF StartRound, Active
<1>2. /\ stage \in [Rounds -> StageNames] /\ stage'[v] = "verify"
      /\ \A u \in Rounds \ {v} : stage'[u] = stage[u]
  BY <1>1 DEF Flowing, Typed
<1>3. PICK x : x = <<v, "verify">>
  OBVIOUS
<1>4. PICK S : S = Rounds \X JobNames
  OBVIOUS
<1>5. /\ waiting \in Seq(S) /\ Distinct(waiting) /\ x \in S
      /\ x \notin Elems(waiting) /\ x \notin Active
  <2>1. ~Due(x)
    BY <1>1, <1>3 DEF Due
  <2> QED BY <1>3, <1>4, <2>1 DEF Flowing, Queued, JobNames, FlowJobs
<1>6. PICK t : t = Append(waiting, x)
  OBVIOUS
<1>7. Elems(t) = Elems(waiting) \cup {x}
  BY <1>5, <1>6, ElemsAppend
<1>8. \A y, z : y # x /\ (Before(waiting, y, z) \/ z = x) => Before(t, y, z)
  BY <1>5, <1>6, BeforeAppend
<1>9. waiting' = t
  BY <1>1, <1>3, <1>6
<1>10. Present'
  <2>1. ASSUME NEW u \in Rounds, stage'[u] \in FlowJobs
        PROVE  <<u, stage'[u]>> \in Elems(waiting') \cup Active'
    <3>1. CASE u = v
      BY <1>2, <1>3, <1>7, <1>9, <3>1
    <3>2. CASE u # v
      BY <1>1, <1>2, <1>7, <1>9, <2>1, <3>2 DEF Present
    <3> QED BY <3>1, <3>2
  <2> QED BY <2>1 DEF Present
<1>11. ASSUME NEW u \in Rounds, NEW w \in Rounds, u < w
       PROVE  /\ Rank(stage'[w]) <= Rank(stage'[u])
              /\ stage'[w] \in FlowJobs /\ stage'[u] = stage'[w] => Behind(u, w)'
  <2>1. /\ Rank(stage[w]) <= Rank(stage[u])
        /\ Rank(stage[w]) \in 0..6 /\ Rank(stage[u]) \in 0..6
        /\ (Rank(stage[u]) = 0 <=> stage[u] = "none") /\ Rank("none") = 0 /\ Rank("verify") = 1
    BY <1>2, <1>11, RankProperties DEF InOrder, Rank
  <2>2. CASE u # v /\ w # v
    <3>1. ASSUME stage[w] \in FlowJobs, stage[u] = stage[w] PROVE Behind(u, w)'
      <4>1. Before(waiting, <<u, stage[w]>>, <<w, stage[w]>>) /\ <<w, stage[w]>> \notin Active
        BY <1>11, <3>1 DEF InOrder, Behind
      <4>2. Before(waiting', <<u, stage[w]>>, <<w, stage[w]>>)
        BY <1>3, <1>8, <1>9, <2>2, <4>1
      <4> QED BY <1>1, <1>2, <2>2, <4>1, <4>2 DEF Behind
    <3> QED BY <1>2, <2>1, <2>2, <3>1
  <2>3. CASE u = v
    <3>1. w # v /\ stage'[w] = stage[w]
      BY <1>2, <1>11, <2>3, VerificationAssumption
    <3>2. Rank(stage[w]) = 0
      BY <1>1, <2>1, <2>3
    <3>3. stage[w] = "none"
      BY <1>2, <3>2, RankProperties
    <3> QED BY <1>2, <2>1, <2>3, <3>1, <3>2, <3>3 DEF FlowJobs
  <2>4. CASE w = v
    <3>1. u # v /\ stage'[u] = stage[u] /\ stage[u] # "none"
      BY <1>1, <1>2, <1>11, <2>4, VerificationAssumption
    <3>2. Rank(stage'[w]) <= Rank(stage'[u])
      BY <1>2, <2>1, <2>4, <3>1
    <3>3. Before(waiting', <<u, "verify">>, <<v, "verify">>)
      BY <1>3, <1>8, <1>9, <3>1
    <3>4. Behind(u, w)'
      BY <1>1, <1>2, <1>3, <1>5, <2>4, <3>3 DEF Behind
    <3> QED BY <3>2, <3>4
  <2> QED BY <2>2, <2>3, <2>4
<1> QED BY <1>10, <1>11 DEF InOrder

LEMMA DistributeInOrder ==
  ASSUME Flowing, Present, InOrder, NEW v \in Rounds, DistributeMostRecent(v)
  PROVE  Present' /\ InOrder'
<1>1. /\ stage[v] = "distribute" /\ stage' = [stage EXCEPT ![v] = "done"]
      /\ UNCHANGED <<waiting, work>> /\ Active' = Active
  BY DEF DistributeMostRecent, Active
<1>2. /\ stage \in [Rounds -> StageNames] /\ stage'[v] = "done"
      /\ \A u \in Rounds \ {v} : stage'[u] = stage[u]
  BY <1>1 DEF Flowing, Typed
<1>3. Rank("done") = Rank("distribute")
  BY DEF Rank
<1>4. \A u \in Rounds : Rank(stage'[u]) = Rank(stage[u])
  BY <1>1, <1>2, <1>3
<1>5. \A u \in Rounds : stage'[u] \in FlowJobs => stage'[u] = stage[u]
  BY <1>2 DEF FlowJobs
<1>6. Present'
  BY <1>1, <1>5 DEF Present
<1>7. ASSUME NEW u \in Rounds, NEW w \in Rounds, u < w, stage'[w] \in FlowJobs,
             stage'[u] = stage'[w]
      PROVE  Behind(u, w)'
  <2>1. stage'[w] = stage[w] /\ stage[u] = stage[w]
    BY <1>5, <1>7
  <2> QED BY <1>1, <1>7, <2>1 DEF InOrder, Behind
<1>8. ASSUME NEW u \in Rounds, NEW w \in Rounds, u < w
      PROVE  Rank(stage'[w]) <= Rank(stage'[u])
  BY <1>4, <1>8 DEF InOrder
<1> QED BY <1>6, <1>7, <1>8 DEF InOrder

-----------------------------------------------------------------------------
\* The end of a job before persist: nothing is stored, nothing distributed.
LEMMA EndsOrdered ==
  ASSUME IInv, Flowing, Ordered, NEW v \in Rounds, NEW job \in FlowJobs, Doing(v, job),
         NEW o, Ends(v, o),
         job # "persist" \/ DOMAIN o.of = {} \/ (o = output[v] /\ Stored(v)),
         UNCHANGED <<recovery, docs, distributed>>, trouble => trouble'
  PROVE  Ordered'
<1>1. SUFFICES ASSUME ~trouble' PROVE Present' /\ InOrder' /\ Unfailed' /\ Latest'
  BY DEF Ordered
<1>2. Present /\ InOrder /\ Unfailed /\ Latest
  BY <1>1 DEF Ordered
<1>3. Present' /\ InOrder'
  BY <1>2, EndsInOrder
<1>4. stage[v] = job /\ work' = NoJob /\ stage' = [stage EXCEPT ![v] = After(job)]
  BY EndsQueue
<1>5. PICK a : a = After(job)
  OBVIOUS
<1>6. a \in StageNames \ {"failed", "done"} /\ (job # "persist" => a # "distribute")
  BY <1>5, AfterFlow, AfterStage DEF FlowJobs
<1>7. /\ stage'[v] = a /\ \A u \in Rounds \ {v} : stage'[u] = stage[u]
  BY <1>4, <1>5 DEF Flowing, Typed
<1>8. Unfailed'
  BY <1>2, <1>4, <1>6, <1>7 DEF Unfailed
<1>9. output'[v] = o /\ \A u \in Rounds \ {v} : output'[u] = output[u]
  BY DEF Ends, IInv, OutputOK
<1>10. ASSUME NEW u \in Rounds, HasResults(u)'
       PROVE  /\ stage'[u] \in {"distribute", "done"} => docs' # <<>> /\ docs'[Len(docs')].round >= u
              /\ stage'[u] = "done" => distributed'[u] >= u
  <2>1. CASE u = v
    <3>1. CASE job # "persist" \/ DOMAIN o.of = {}
      BY <1>6, <1>7, <1>9, <1>10, <2>1, <3>1 DEF HasResults
    <3>2. CASE o = output[v] /\ Stored(v)
      BY <1>2, <1>6, <1>7, <1>9, <1>10, <2>1, <3>2 DEF HasResults, Latest
    <3> QED BY <3>1, <3>2
  <2>2. CASE u # v
    BY <1>2, <1>7, <1>9, <1>10, <2>2 DEF HasResults, Latest
  <2> QED BY <2>1, <2>2
<1>11. \A u \in Rounds : ~Stored(u)'
  BY <1>4 DEF Stored
<1> QED BY <1>3, <1>8, <1>10, <1>11 DEF Latest

\* A step in the middle of a job, or one that no round is about.
LEMMA SameOrdered ==
  ASSUME Ordered, UNCHANGED <<waiting, stage, recovery, output, docs, distributed>>,
         Active' = Active, trouble => trouble', Unfailed /\ ~trouble' => Unfailed',
         \A v \in Rounds : Stored(v)' => Stored(v)
  PROVE  Ordered'
<1>1. SUFFICES ASSUME ~trouble' PROVE Present' /\ InOrder' /\ Unfailed' /\ Latest'
  BY DEF Ordered
<1>2. Present /\ InOrder /\ Unfailed /\ Latest
  BY <1>1 DEF Ordered
<1>3. Latest'
  BY <1>2 DEF Latest, HasResults
<1> QED BY <1>1, <1>2, <1>3, SameInOrder

LEMMA TakenOrdered ==
  ASSUME Flowing, Ordered, NEW v \in Rounds, NEW job \in {"verify", "persist"}, Takes(v, job),
         waiting' = Tail(waiting), UNCHANGED <<stage, recovery, output, docs, distributed>>,
         trouble => trouble', work' # NoJob, work'.round = v, work'.job = job,
         job = "persist" => work'.step = "metrics"
  PROVE  Ordered'
<1>1. SUFFICES ASSUME ~trouble' PROVE Present' /\ InOrder' /\ Unfailed' /\ Latest'
  BY DEF Ordered
<1>2. Present /\ InOrder /\ Unfailed /\ Latest /\ job \in FlowJobs
  BY <1>1 DEF Ordered, FlowJobs
<1>3. Latest'
  <2>1. \A u \in Rounds : ~Stored(u)'
    BY DEF Stored
  <2> QED BY <1>2, <2>1 DEF Latest, HasResults
<1>4. Active' = {<<v, job>>}
  BY DEF Active
<1>5. Unfailed'
  BY <1>2 DEF Unfailed, PastStats
<1> QED BY <1>2, <1>3, <1>4, <1>5, TakenInOrder

LEMMA VerifyRelaysOrdered ==
  ASSUME IInv, Flowing, Ordered, NEW v \in Rounds, VerifyRelays(v)
  PROVE  Ordered'
<1>1. /\ Takes(v, "verify") /\ Doing(v, "verify") /\ "verify" \in FlowJobs
      /\ UNCHANGED <<recovery, docs, distributed>> /\ (trouble => trouble')
  BY Refreshed DEF VerifyRelays, Doing, FlowJobs
<1>2. CASE Ends(v, Empty)
  BY <1>1, <1>2, EndsOrdered
<1>3. CASE Begins(v, StateRead)
  <2>1. work' # NoJob /\ work'.round = v /\ work'.job = "verify"
    BY <1>3, ReadTyped, BeginsTyped
  <2> QED BY <1>1, <1>3, <2>1, TakenOrdered DEF Begins
<1> QED BY <1>2, <1>3, VerifyRelaysCases

LEMMA CheckHardwareOrdered ==
  ASSUME IInv, Flowing, Ordered, CheckHardware
  PROVE  Ordered'
<1>1. /\ work \in VerifyWork /\ work.round \in Rounds /\ Doing(work.round, "verify")
      /\ work.job = "verify" /\ work # NoJob
      /\ "verify" \in FlowJobs /\ UNCHANGED <<recovery, docs, distributed>>
  BY VerifyingRound DEF CheckHardware, FlowJobs, Verifying
<1>2. PICK r \in work.check :
       \/ /\ \/ work' = [work EXCEPT !.check = @ \ {r}, !.add = @ \cup {r}, !.left = @ \cup {r}]
             \/ work' = [work EXCEPT !.check = @ \ {r}]
          /\ trouble' = trouble \/ trouble' = (trouble \/ OwnsNft(r))
          /\ UNCHANGED <<stage, output, waiting>>
       \/ /\ Ends(work.round, Empty)
          /\ trouble' = (trouble \/ ~(NftThrows(r) \/ (OwnsNft(r) /\ ~Documented(r))))
  BY Zenon DEF CheckHardware
<1>3. trouble => trouble'
  BY <1>2
<1>4. CASE Ends(work.round, Empty)
  BY <1>1, <1>3, <1>4, EndsOrdered
<1>5. CASE /\ \/ work' = [work EXCEPT !.check = @ \ {r}, !.add = @ \cup {r}, !.left = @ \cup {r}]
              \/ work' = [work EXCEPT !.check = @ \ {r}]
           /\ UNCHANGED <<stage, output, waiting>>
  <2>1. work' # NoJob /\ work'.round = work.round /\ work'.job = "verify"
    BY <1>1, <1>5, NotWork DEF VerifyWork
  <2>2. Active' = Active
    BY <1>1, <2>1 DEF Active
  <2>3. Unfailed => Unfailed'
    BY <1>1, <1>5, <2>1 DEF Unfailed
  <2>4. \A u \in Rounds : ~Stored(u)'
    BY <2>1 DEF Stored
  <2> QED BY <1>1, <1>3, <1>5, <2>2, <2>3, <2>4, SameOrdered
<1> QED BY <1>2, <1>4, <1>5

LEMMA AddClaimableBatchedOrdered ==
  ASSUME IInv, Flowing, Ordered, AddClaimableBatched
  PROVE  Ordered'
<1>1. /\ work \in VerifyWork /\ work.round \in Rounds /\ Doing(work.round, "verify")
      /\ work.job = "verify" /\ work # NoJob
      /\ "verify" \in FlowJobs /\ UNCHANGED <<recovery, docs, distributed>>
  BY VerifyingRound DEF AddClaimableBatched, FlowJobs, Verifying
<1>2. PICK B, landed, thrown :
        /\ IF thrown
           THEN Ends(work.round, Verified("Failed"))
           ELSE /\ work' = [work EXCEPT !.left = @ \ B]
                /\ UNCHANGED <<stage, waiting, output>>
        /\ trouble' = (trouble \/ thrown \/ ~landed)
  BY Zenon DEF AddClaimableBatched
<1>3. trouble => trouble'
  BY <1>2
<1>4. CASE thrown
  <2>1. Ends(work.round, Verified("Failed"))
    BY <1>2, <1>4
  <2> QED BY <1>1, <1>3, <2>1, EndsOrdered
<1>5. CASE ~thrown
  <2>1. work' # NoJob /\ work'.round = work.round /\ work'.job = "verify"
    BY <1>1, <1>2, <1>5, NotWork DEF VerifyWork
  <2>2. Active' = Active
    BY <1>1, <2>1 DEF Active
  <2>3. Unfailed => Unfailed'
    BY <1>1, <1>2, <1>5, <2>1 DEF Unfailed
  <2>4. \A u \in Rounds : ~Stored(u)'
    BY <2>1 DEF Stored
  <2> QED BY <1>1, <1>2, <1>3, <1>5, <2>2, <2>3, <2>4, SameOrdered
<1> QED BY <1>4, <1>5

LEMMA StoreOrdered ==
  ASSUME Flowing, Ordered, NEW step \in {"metrics", "stats"}, Store(step)
  PROVE  Ordered'
<1>1. work \in UploadWork /\ work # NoJob /\ work.step = step
  BY UploadingRound DEF Store, Persisting
<1>2. /\ UNCHANGED <<waiting, stage, recovery, output, docs, distributed>> /\ (trouble => trouble')
  BY DEF Store, flow
<1>3. \/ work[step] /\ work' = [work EXCEPT !.step = StoreNext(step)]
      \/ \E ok \in BOOLEAN : /\ work' = [work EXCEPT ![step] = ok, !.step = StoreNext(step)]
                             /\ ~ok => trouble'
  BY DEF Store
<1>4. /\ work' \in UploadWork /\ work'.round = work.round /\ work'.job = work.job
      /\ work'.step = StoreNext(step)
      /\ trouble' \/ work'[step]
      /\ \A kind \in {"metrics", "stats"} \ {step} : work'[kind] = work[kind]
  BY <1>1, <1>3 DEF UploadWork, StoreNext
<1>5. work' # NoJob
  BY <1>4, NotWork
<1>6. Active' = Active
  BY <1>1, <1>4, <1>5 DEF Active
<1>7. Unfailed /\ ~trouble' => Unfailed'
  <2>1. CASE step = "metrics"
    BY <1>1, <1>2, <1>4, <2>1 DEF Unfailed, StoreNext, PastStats
  <2>2. CASE step = "stats"
    BY <1>1, <1>2, <1>4, <2>2 DEF Unfailed, StoreNext, PastStats
  <2> QED BY <2>1, <2>2
<1>8. \A u \in Rounds : ~Stored(u)'
  BY <1>1, <1>4 DEF Stored, StoreNext
<1> QED BY <1>2, <1>6, <1>7, <1>8, SameOrdered

LEMMA PersistVerificationOrdered ==
  ASSUME Flowing, IInv, Ordered, NEW v \in Rounds, PersistVerification(v)
  PROVE  Ordered'
<1>1. /\ Takes(v, "persist") /\ Doing(v, "persist") /\ "persist" \in FlowJobs
      /\ UNCHANGED <<recovery, docs, distributed>> /\ (trouble => trouble')
  BY DEF PersistVerification, Doing, FlowJobs
<1>2. CASE Ends(v, Empty)
  <2>1. PICK o : o = Empty
    OBVIOUS
  <2>2. DOMAIN o.of = {} /\ Ends(v, o)
    BY <1>2, <2>1 DEF Empty
  <2> QED BY <1>1, <2>2, EndsOrdered
<1>3. ASSUME work' = [round |-> v, job |-> "persist", step |-> "metrics",
                      retries |-> MaxUploadRetries, metrics |-> FALSE,
                      stats |-> FALSE, given |-> [metrics |-> FALSE, stats |-> FALSE]],
             waiting' = Tail(waiting), UNCHANGED <<stage, output>>
      PROVE  Ordered'
  <2>1. MaxUploadRetries \in 0..MaxUploadRetries
    BY VerificationAssumption
  <2>2. /\ work' \in UploadWork /\ work'.round = v /\ work'.job = "persist"
        /\ work'.step = "metrics"
    BY <1>3, <2>1 DEF UploadWork
  <2>3. work' # NoJob
    BY <2>2, NotWork
  <2> QED BY <1>1, <1>3, <2>2, <2>3, TakenOrdered
<1> QED BY <1>2, <1>3, Zenon DEF PersistVerification

\* Recoveries are sent only when an upload failed.
LEMMA RecoveryTroubled ==
  ASSUME Flowing, Ordered, NEW v \in Rounds, recovery[v] # NoJob
  PROVE  trouble
BY DEF Ordered, Unfailed

LEMMA RecoverPersistVerificationOrdered ==
  ASSUME Flowing, Ordered, NEW v \in Rounds, RecoverPersistVerification(v)
  PROVE  Ordered'
<1>1. recovery[v] # NoJob
  BY TakesHead DEF RecoverPersistVerification, Due
<1>2. trouble' /\ UNCHANGED distributed
  BY <1>1, RecoveryTroubled DEF RecoverPersistVerification
<1> QED BY <1>2 DEF Ordered

LEMMA StartRoundOrdered ==
  ASSUME Flowing, Ordered, NEW v \in Rounds, NEW R \in SUBSET Relays, StartRound(v, R)
  PROVE  Ordered'
<1>1. /\ stage' = [stage EXCEPT ![v] = "verify"] /\ stage \in [Rounds -> StageNames]
      /\ UNCHANGED <<recovery, docs, distributed, trouble, output, work>>
  BY DEF StartRound, Flowing, Typed
<1>2. SUFFICES ASSUME ~trouble' PROVE Present' /\ InOrder' /\ Unfailed' /\ Latest'
  BY <1>1 DEF Ordered
<1>3. Present /\ InOrder /\ Unfailed /\ Latest
  BY <1>1, <1>2 DEF Ordered
<1>4. \A u \in Rounds : stage'[u] # stage[u] => stage'[u] = "verify"
  BY <1>1
<1>5. Unfailed'
  BY <1>1, <1>3, <1>4 DEF Unfailed
<1>6. Latest'
  BY <1>1, <1>3, <1>4 DEF Latest, HasResults, Stored
<1> QED BY <1>3, <1>5, <1>6, StartRoundInOrder

\* The last document after one is added.
LEMMA LastAppended ==
  ASSUME NEW S, NEW s \in Seq(S), NEW d
  PROVE  Append(s, d) # <<>> /\ Append(s, d)[Len(Append(s, d))] = d
<1>1. s \in Seq(S \cup {d}) /\ d \in S \cup {d} /\ Len(s) \in Nat
  OBVIOUS
<1>2. PICK t : t = Append(s, d)
  OBVIOUS
<1>3. t \in Seq(S \cup {d}) /\ Len(t) = Len(s) + 1 /\ t[Len(s) + 1] = d
  BY <1>1, <1>2, AppendProperties
<1>4. t # <<>>
  BY <1>1, <1>3
<1> QED BY <1>2, <1>3, <1>4

\* While nothing fails, only a first attempt, which has all it uploads, is under way.
LEMMA FirstAttempt ==
  ASSUME Flowing, Unfailed, NEW step \in PastStats, Persisting(step)
  PROVE  work.job = "persist" /\ work.metrics /\ work.stats
<1>1. /\ work \in UploadWork /\ work # NoJob /\ work.job \in {"persist", "recover"}
      /\ work.step = step /\ step # "metrics"
  BY UploadingRound DEF Persisting, PastStats
<1>2. work.job # "recover"
  BY UploadingRound, VerificationAssumption DEF Unfailed
<1> QED BY <1>1, <1>2 DEF Unfailed

LEMMA CreateVerificationDataOrdered ==
  ASSUME IInv, Flowing, Ordered, CreateVerificationData
  PROVE  Ordered'
<1>1. PICK v \in Rounds : v = work.round
  BY UploadingRound DEF CreateVerificationData
<1>2. /\ work \in UploadWork /\ work # NoJob /\ Persisting("create") /\ "create" \in PastStats
      /\ UNCHANGED <<waiting, stage, output, recovery, distributed>>
      /\ trouble' = (trouble \/ docs' = docs)
      /\ docs' \in {Append(docs, Document(v)), docs}
  BY <1>1, UploadingRound DEF CreateVerificationData, Persisting, flow, PastStats
<1>3. SUFFICES ASSUME ~trouble' PROVE Present' /\ InOrder' /\ Unfailed' /\ Latest'
  BY <1>2 DEF Ordered
<1>4. ~trouble /\ Present /\ InOrder /\ Unfailed /\ Latest /\ docs' = Append(docs, Document(v))
  BY <1>2, <1>3 DEF Ordered
<1>5. work.job = "persist" /\ work.metrics /\ work.stats
  BY <1>2, <1>4, FirstAttempt
<1>6. /\ work' \in UploadWork /\ work'.round = v /\ work'.job = "persist"
      /\ work'.metrics /\ work'.stats
  BY <1>1, <1>2, <1>5 DEF CreateVerificationData, UploadWork
<1>7. Active' = Active
  BY <1>1, <1>2, <1>5, <1>6, NotWork DEF Active
<1>8. Unfailed'
  BY <1>2, <1>4, <1>6 DEF Unfailed
<1>9. docs' # <<>> /\ docs'[Len(docs')].round = v
  <2>1. PICK d : d = Document(v)
    OBVIOUS
  <2>2. PICK S : docs \in Seq(S)
    BY DEF IInv, DocsOK
  <2>3. docs' # <<>> /\ docs'[Len(docs')] = d
    BY <1>4, <2>1, <2>2, LastAppended
  <2> QED BY <2>1, <2>3 DEF Document
<1>10. stage[v] = "persist"
  BY <1>1, <1>2, <1>5, UploadingRound
<1>11. ASSUME NEW u \in Rounds, stage'[u] \in {"distribute", "done"} \/ Stored(u)' PROVE u <= v
  <2>1. CASE Stored(u)'
    BY <1>6, <2>1, VerificationAssumption DEF Stored
  <2>2. CASE stage'[u] \in {"distribute", "done"}
    <3>1. Rank(stage[u]) = 6 /\ Rank(stage[v]) = 5
      BY <1>2, <1>10, <2>2 DEF Rank
    <3>2. ~(v < u)
      BY <1>4, <3>1 DEF InOrder
    <3> QED BY <3>2, VerificationAssumption
  <2> QED BY <1>11, <2>1, <2>2
<1>12. ASSUME NEW u \in Rounds, HasResults(u)', stage'[u] = "done"
       PROVE  distributed'[u] >= u
  BY <1>2, <1>4, <1>12 DEF Latest, HasResults
<1>13. v \in Int /\ Rounds \subseteq Int
  BY VerificationAssumption
<1>14. Latest'
  BY <1>9, <1>11, <1>12, <1>13 DEF Latest
<1> QED BY <1>2, <1>4, <1>7, <1>8, <1>14, SameInOrder

LEMMA StoreRelayHexMapOrdered ==
  ASSUME Flowing, Ordered, StoreRelayHexMap
  PROVE  Ordered'
<1>1. /\ work \in UploadWork /\ work # NoJob /\ work.step = "hexMap"
      /\ UNCHANGED <<waiting, stage, recovery, output, docs, distributed, trouble>>
      /\ work' = [work EXCEPT !.step = "end"]
  BY UploadingRound DEF StoreRelayHexMap, Persisting, flow
<1>2. /\ work' \in UploadWork /\ work'.round = work.round /\ work'.job = work.job
      /\ work'.metrics = work.metrics /\ work'.stats = work.stats /\ work'.step = "end"
  BY <1>1 DEF UploadWork
<1>3. Active' = Active
  BY <1>1, <1>2, NotWork DEF Active
<1>4. Unfailed => Unfailed'
  BY <1>1, <1>2 DEF Unfailed, PastStats
<1>5. \A v \in Rounds : Stored(v)' => Stored(v)
  BY <1>1, <1>2 DEF Stored
<1> QED BY <1>1, <1>3, <1>4, <1>5, SameOrdered

LEMMA PersistEndsOrdered ==
  ASSUME IInv, Flowing, Ordered, PersistEnds
  PROVE  Ordered'
<1>1. PICK v \in Rounds : v = work.round
  BY UploadingRound DEF PersistEnds
<1>2. /\ Persisting("end") /\ "end" \in PastStats /\ work # NoJob
      /\ UNCHANGED <<docs, distributed, trouble>>
  BY DEF PersistEnds, Persisting, PastStats
<1>3. CASE trouble
  BY <1>2, <1>3 DEF Ordered
<1>4. CASE ~trouble
  <2>1. Unfailed
    BY <1>4 DEF Ordered
  <2>2. work.job = "persist" /\ work.metrics /\ work.stats
    BY <1>2, <2>1, FirstAttempt
  <2>3. UNCHANGED recovery
    <3>1. recovery' = [recovery EXCEPT ![v] = NoJob] /\ recovery[v] = NoJob
      BY <1>1, <2>1, <2>2, SentRecovery DEF Unfailed
    <3> QED BY <3>1 DEF Flowing, Typed
  <2>4. Doing(v, "persist") /\ Ends(v, output[v]) /\ "persist" \in FlowJobs
    BY <1>1, <1>2, <2>2, UploadingRound DEF PersistEnds, FlowJobs
  <2>5. Stored(v)
    BY <1>1, <1>2, <2>2 DEF Stored, Persisting
  <2> QED BY <1>2, <2>3, <2>4, <2>5, EndsOrdered
<1> QED BY <1>3, <1>4

LEMMA DistributeMostRecentOrdered ==
  ASSUME Flowing, Ordered, NEW v \in Rounds, DistributeMostRecent(v)
  PROVE  Ordered'
<1>1. /\ stage[v] = "distribute" /\ stage' = [stage EXCEPT ![v] = "done"]
      /\ stage \in [Rounds -> StageNames] /\ DOMAIN distributed = Rounds
      /\ distributed' = [distributed EXCEPT ![v] =
           IF docs = <<>> THEN 0 ELSE docs[Len(docs)].round]
      /\ UNCHANGED <<recovery, docs, trouble, output, work>>
  BY DEF DistributeMostRecent, Flowing, Typed, Ordered
<1>2. DOMAIN distributed' = Rounds
  BY <1>1
<1>3. SUFFICES ASSUME ~trouble' PROVE Present' /\ InOrder' /\ Unfailed' /\ Latest'
  BY <1>2 DEF Ordered
<1>4. Present /\ InOrder /\ Unfailed /\ Latest
  BY <1>1, <1>3 DEF Ordered
<1>5. stage'[v] = "done" /\ \A u \in Rounds \ {v} : stage'[u] = stage[u]
  BY <1>1
<1>6. Unfailed'
  BY <1>1, <1>4, <1>5 DEF Unfailed
<1>7. ASSUME NEW u \in Rounds, HasResults(u)'
      PROVE  /\ stage'[u] \in {"distribute", "done"} \/ Stored(u)' =>
                  docs' # <<>> /\ docs'[Len(docs')].round >= u
             /\ stage'[u] = "done" => distributed'[u] >= u
  <2>1. HasResults(u)
    BY <1>1, <1>7 DEF HasResults
  <2>4. Stored(u)' = Stored(u)
    BY <1>1 DEF Stored
  <2>2. CASE u = v
    <3>1. docs # <<>> /\ docs[Len(docs)].round >= v
      BY <1>1, <1>4, <2>1, <2>2 DEF Latest
    <3>2. distributed'[v] = docs[Len(docs)].round
      BY <1>1, <3>1
    <3> QED BY <1>1, <2>2, <3>1, <3>2
  <2>3. CASE u # v
    <3>1. stage'[u] = stage[u] /\ distributed'[u] = distributed[u]
      BY <1>1, <1>5, <2>3
    <3> QED BY <1>1, <1>4, <2>1, <2>4, <3>1 DEF Latest
  <2> QED BY <2>2, <2>3
<1> QED BY <1>4, <1>6, <1>7, DistributeInOrder DEF Latest

LEMMA NextOrdered ==
  ASSUME IInv, Flowing, Ordered, [Next]_vars
  PROVE  Ordered'
<1>1. ASSUME UNCHANGED <<waiting, stage, recovery, output, docs, distributed, work>>,
             trouble => trouble'
      PROVE  Ordered'
  <2>1. Active' = Active
    BY <1>1 DEF Active
  <2>2. Unfailed => Unfailed'
    BY <1>1 DEF Unfailed
  <2>3. \A v \in Rounds : Stored(v)' => Stored(v)
    BY <1>1 DEF Stored
  <2> QED BY <1>1, <2>1, <2>2, <2>3, SameOrdered
<1>2. CASE UNCHANGED vars
  BY <1>1, <1>2 DEF vars, flow
<1>3. ASSUME NEW v \in Rounds, NEW job \in {"verify", "families", "bonus", "confirm"},
             Doing(v, job), NEW o, Ends(v, o), UNCHANGED <<recovery, docs, distributed>>,
             trouble => trouble'
      PROVE  Ordered'
  <2>1. job \in FlowJobs /\ job # "persist"
    BY <1>3 DEF FlowJobs
  <2> QED BY <1>3, <2>1, EndsOrdered
<1>4. ASSUME NEW v \in Rounds, SetRelayFamilies(v) PROVE Ordered'
  <2>1. /\ Doing(v, "families") /\ UNCHANGED <<recovery, docs, distributed>>
        /\ (trouble => trouble') /\ \E o : Ends(v, o)
    BY <1>4, Refreshed DEF SetRelayFamilies, Doing
  <2> QED BY <1>3, <2>1
<1>12. ASSUME NEW v \in Rounds, SetRelayFamiliesFails(v) PROVE Ordered'
  BY <1>12 DEF SetRelayFamiliesFails, Ordered
<1>5. ASSUME NEW v \in Rounds, SetHardwareBonusRelays(v) PROVE Ordered'
  <2>1. /\ Doing(v, "bonus") /\ UNCHANGED <<recovery, docs, distributed>>
        /\ (trouble => trouble') /\ \E o : Ends(v, o)
    BY <1>5 DEF SetHardwareBonusRelays, Doing
  <2> QED BY <1>3, <2>1
<1>6. ASSUME NEW v \in Rounds, ConfirmVerification(v) PROVE Ordered'
  <2>1. /\ Doing(v, "confirm") /\ UNCHANGED <<recovery, docs, distributed>>
        /\ (trouble => trouble') /\ \E o : Ends(v, o)
    BY <1>6 DEF ConfirmVerification, Doing
  <2> QED BY <1>3, <2>1
<1>7. ASSUME VerifyEnds PROVE Ordered'
  <2>1. /\ Ends(work.round, Verified("OK")) /\ UNCHANGED <<recovery, docs, distributed, trouble>>
        /\ work.round \in Rounds /\ Doing(work.round, "verify")
    BY <1>7, VerifyingRound DEF VerifyEnds
  <2> QED BY <1>3, <2>1
<1>8. ASSUME NEW v \in Rounds, RecoveryAdded(v) PROVE Ordered'
  <2>1. trouble' /\ UNCHANGED distributed
    BY <1>8, RecoveryTroubled DEF RecoveryAdded
  <2> QED BY <2>1 DEF Ordered
<1>9. ASSUME Cools \/ \E r \in Relays : Claim(r) \/ Remove(r) \/ Transfer(r) PROVE Ordered'
  BY <1>1, <1>9 DEF Cools, Claim, Remove, Transfer, flow
<1>10. ASSUME Crash PROVE Ordered'
  BY <1>10 DEF Crash, Ordered
<1>11. CASE Worker
  BY <1>4, <1>5, <1>6, <1>7, <1>11, <1>12, VerifyRelaysOrdered, CheckHardwareOrdered,
     AddClaimableBatchedOrdered, PersistVerificationOrdered, RecoverPersistVerificationOrdered,
     StoreOrdered, CreateVerificationDataOrdered, StoreRelayHexMapOrdered, PersistEndsOrdered
     DEF Worker
<1> QED BY <1>2, <1>8, <1>9, <1>10, <1>11, StartRoundOrdered, DistributeMostRecentOrdered DEF Next

LEMMA InitOrdered == Init => Ordered
<1> SUFFICES ASSUME Init PROVE Ordered
  OBVIOUS
<1>1. Present /\ InOrder
  <2>1. \A v \in Rounds : stage[v] = "none" /\ stage[v] \notin FlowJobs
    BY DEF Init, FlowJobs
  <2> QED BY <2>1 DEF Present, InOrder, Rank
<1>2. Unfailed
  BY DEF Init, Unfailed
<1>3. Latest
  BY DEF Init, Latest, HasResults, Empty
<1> QED BY <1>1, <1>2, <1>3 DEF Ordered, Init

LEMMA OrderedImplies == Ordered => DistributesCurrent
BY DEF Ordered, Latest, HasResults, DistributesCurrent

LEMMA AlwaysOrdered == Spec => [](IInv /\ Flowing /\ Ordered)
BY InitIInv, NextIInv, InitFlowing, NextFlowing, InitOrdered, NextOrdered, PTL DEF Spec

\* While calls succeed, a round is distributed with its own results
\* or with those of a later round: JOB_DISTRIBUTE takes the last document, and rounds
\* are stored in the order in which they began.
THEOREM CurrentIsDistributed == Spec => []DistributesCurrent
BY AlwaysOrdered, OrderedImplies, PTL

=============================================================================
