------------------------------ MODULE FamilySync ------------------------------
(***************************************************************************)
(* setRelayFamilies of the VerificationService (the DistributionService    *)
(* has the same): the families that Onionoo lists are written to the relay *)
(* registry contract as differences to the families it has.  A reduce      *)
(* packs the differences, relay by relay and chunk by chunk, into batches; *)
(* then each batch is one interaction.                                     *)
(*                                                                         *)
(* One call is a job; jobs follow each other for ever, each with what      *)
(* Onionoo listed when its round was validated.  One step of the packing   *)
(* is one chunk.  _.chunk keeps the order of a list; here families are     *)
(* sets, and a chunk is any part of the right size.                        *)
(***************************************************************************)
EXTENDS Integers, Sequences, FiniteSets

CONSTANTS
  Relays, Members,   \* the relays, and the fingerprints in their families
  Threshold,         \* familyFingerprintThreshold, 25 in the code
  MaxChanges,        \* bound on the changes of the lists of Onionoo
  MaxFailures,       \* bound on the interactions that fail, stale reads and crashes
  NoRelay            \* no relay is being packed

Families == [Relays -> SUBSET Members]

ASSUME FamilyAssumption ==
  /\ Threshold \in Nat \ {0} /\ MaxChanges \in Nat /\ MaxFailures \in Nat
  /\ IsFiniteSet(Members) /\ NoRelay \notin Relays

\* A SetFamilyInput.
Inputs == [relay: Relays, add: SUBSET Members, remove: SUBSET Members]

VARIABLES
  listed,     \* the families Onionoo lists
  contract,   \* the families in the contract
  dreState,   \* the families as this process last read them
  phase,      \* of the job: "idle", "pack" or "write"
  incoming,   \* the families the job was given
  current,    \* currentFamilies of the job
  updates,    \* the relays with family updates not packed yet
  packing,    \* what is left of the relay being packed
  batches, currentBatch,
  errorCount,
  result,     \* relay -> its result in the last job
  changes, failures

packed == <<batches, currentBatch>>
vars == <<listed, contract, dreState, phase, incoming, current, updates, packing,
          batches, currentBatch, errorCount, result, changes, failures>>

None == [relay |-> NoRelay, add |-> {}, remove |-> {}]

Init ==
  /\ listed \in Families
  /\ contract \in Families /\ dreState = contract
  /\ phase = "idle" /\ incoming = contract /\ current = contract
  /\ updates = {} /\ packing = None
  /\ batches = <<>> /\ currentBatch = <<>>
  /\ errorCount = 0 /\ result = [r \in Relays |-> "AlreadySetFamily"]
  /\ changes = 0 /\ failures = 0

----------------------------------------------------------------------------
\* A definition marked (slip) is a mistake the code could have made and does not; no
\* action uses it.

\* Operators change a family, as Onionoo lists it.
Change ==
  /\ changes < MaxChanges /\ changes' = changes + 1
  /\ \E r \in Relays, F \in SUBSET Members : listed' = [listed EXCEPT ![r] = F]
  /\ UNCHANGED <<contract, dreState, phase, incoming, current, updates, packing,
                 packed, errorCount, result, failures>>

\* The relays whose family in the contract is not the incoming one.
NeedUpdate(in, cur) == {r \in Relays : in[r] # cur[r]}

\* The job starts with the contract as getFamilies reads it, or, when the DRE does not
\* answer or the state is not yet a minute old, as it was read before.  A process that
\* has read nothing yet reads the contract itself; when that throws the job ends.
Start ==
  /\ phase = "idle" /\ phase' = "pack"
  /\ incoming' = listed
  /\ \/ current' = contract /\ UNCHANGED failures
     \/ /\ failures < MaxFailures /\ failures' = failures + 1
        /\ current' = dreState
  /\ dreState' = current'
  /\ updates' = NeedUpdate(incoming', current')
  /\ errorCount' = 0
  /\ UNCHANGED <<listed, contract, packing, packed, result, changes>>

\* (slip: all that the contract has is removed)
Difference_Anew(r) ==
  [relay |-> r, add |-> incoming[r] \ current[r], remove |-> current[r]]

\* The map: what to add to the family of r and what to remove.
Difference(r) ==
  [relay |-> r, add |-> incoming[r] \ current[r], remove |-> current[r] \ incoming[r]]

\* The reduce comes to the next relay.
NextRelay ==
  /\ phase = "pack" /\ packing.add = {} /\ packing.remove = {}
  /\ \E r \in updates :
       /\ updates' = updates \ {r}
       /\ packing' = Difference(r)
  /\ UNCHANGED <<listed, contract, dreState, phase, incoming, current, packed,
                 errorCount, result, changes, failures>>

\* The chunks that may be next of those of D.
Chunks(D) == {C \in SUBSET D : Cardinality(C) = Threshold}
             \cup {C \in {D} : D # {} /\ Cardinality(D) < Threshold}

\* The sum of a batch: 1 and its fingerprints for each input.
Size(b) == LET sum[i \in 0..Len(b)] ==
                 IF i = 0 THEN 0
                 ELSE sum[i-1] + 1 + Cardinality(b[i].add) + Cardinality(b[i].remove)
           IN sum[Len(b)]

\* (slip: the chunk not counted)
Fits_WithoutIt(C) == Size(currentBatch) <= Threshold

Fits(C) == Size(currentBatch) + Cardinality(C) <= Threshold

\* (slip: the full batch is not kept)
Pack_NotPushed(C, input) ==
  IF Fits(C)
  THEN currentBatch' = Append(currentBatch, input) /\ UNCHANGED batches
  ELSE currentBatch' = <<>> /\ UNCHANGED batches

\* A chunk is put into the current batch; when it does not fit, the current batch is
\* done, a new one is begun, and the chunk is in neither.
Pack(C, input) ==
  IF Fits(C)
  THEN currentBatch' = Append(currentBatch, input) /\ UNCHANGED batches
  ELSE currentBatch' = <<>> /\ batches' = Append(batches, currentBatch)

\* First the chunks to add, then those to remove.
PackChunk ==
  /\ phase = "pack"
  /\ \/ \E C \in Chunks(packing.add) :
          /\ Pack(C, [relay |-> packing.relay, add |-> C, remove |-> {}])
          /\ packing' = [packing EXCEPT !.add = @ \ C]
     \/ /\ packing.add = {}
        /\ \E C \in Chunks(packing.remove) :
             /\ Pack(C, [relay |-> packing.relay, add |-> {}, remove |-> C])
             /\ packing' = [packing EXCEPT !.remove = @ \ C]
  /\ UNCHANGED <<listed, contract, dreState, phase, incoming, current, updates,
                 errorCount, result, changes, failures>>

\* The reduce is over.  What its current batch has is left behind.
Packed ==
  /\ phase = "pack" /\ updates = {} /\ packing.add = {} /\ packing.remove = {}
  /\ phase' = "write"
  /\ packing' = None /\ currentBatch' = <<>>
  /\ UNCHANGED <<listed, contract, dreState, incoming, current, updates, batches,
                 errorCount, result, changes, failures>>

\* setFamilies of the contract, for one batch.
Set(b) ==
  [r \in Relays |->
     LET of == {b[i] : i \in {j \in DOMAIN b : b[j].relay = r}} IN
       (contract[r] \cup UNION {i.add : i \in of}) \ UNION {i.remove : i \in of}]

\* One batch is written; or writeInteraction throws, perhaps after it landed; or it
\* is answered and never lands.
Write ==
  /\ phase = "write" /\ batches # <<>>
  /\ batches' = Tail(batches)
  /\ \/ contract' = Set(Head(batches)) /\ UNCHANGED <<errorCount, failures>>
     \/ /\ failures < MaxFailures /\ failures' = failures + 1
        /\ \/ /\ contract' \in {contract, Set(Head(batches))}
              /\ errorCount' = errorCount + 1
           \/ UNCHANGED <<contract, errorCount>>
  /\ UNCHANGED <<listed, dreState, phase, incoming, current, updates, packing,
                 currentBatch, result, changes>>

Done == batches = <<>>

\* The results.  After an error all of the relays are Failed.
Finish ==
  /\ phase = "write" /\ Done
  /\ phase' = "idle"
  /\ result' = [r \in Relays |->
       IF errorCount > 0 THEN "Failed"
       ELSE IF r \in NeedUpdate(incoming, current) THEN "OK" ELSE "AlreadySetFamily"]
  /\ UNCHANGED <<listed, contract, dreState, incoming, current, updates, packing,
                 packed, errorCount, changes, failures>>

\* The contract when the interaction under way has landed or has not.
Landing == {contract} \cup {Set(batches[i]) : i \in {1} \cap DOMAIN batches}

\* The process dies in a job, which is run again, with the lists that it was given, or is
\* given up.  The next process has nothing of what the last one read.
Crash ==
  /\ phase # "idle" /\ phase' \in {"idle", "pack"}
  /\ failures < MaxFailures /\ failures' = failures + 1
  /\ contract' \in IF phase = "write" THEN Landing ELSE {contract}
  /\ dreState' = contract' /\ current' = contract'
  /\ updates' = NeedUpdate(incoming, current')
  /\ packing' = None /\ batches' = <<>> /\ currentBatch' = <<>> /\ errorCount' = 0
  /\ UNCHANGED <<listed, incoming, result, changes>>

Job == Start \/ NextRelay \/ PackChunk \/ Packed \/ Write \/ Finish
Next == Change \/ Job \/ Crash
Spec == Init /\ [][Next]_vars

\* The rounds go on for ever and their jobs are run.
FairSpec == Spec /\ WF_vars(Job)

----------------------------------------------------------------------------
\* Type correctness of the families and the batches, which are there only in a job.
TypeOK ==
  /\ listed \in Families /\ contract \in Families /\ dreState \in Families
  /\ incoming \in Families /\ current \in Families
  /\ phase \in {"idle", "pack", "write"} /\ updates \subseteq Relays
  /\ packing \in Inputs \cup {None}
  /\ currentBatch \in Seq(Inputs) /\ batches \in Seq(Seq(Inputs))
  /\ (phase # "pack" => currentBatch = <<>>) /\ (phase = "idle" => batches = <<>>)
  /\ errorCount \in 0..MaxFailures
  /\ changes \in 0..MaxChanges /\ failures \in 0..MaxFailures

\* An interaction never has more than the threshold, which is exceeded by the 1 of the
\* last input and by no more; and no interaction is empty.
BatchesBounded ==
  \A i \in DOMAIN batches : Size(batches[i]) \in 1..Threshold + 1

\* What is packed may be written late, in part, or against a state of the contract
\* that was out of date: a write still never adds a fingerprint that the relay did not
\* list nor removes one that it did.
WritesOnlyListed ==
  [][\A r \in Relays : /\ contract'[r] \ contract[r] \subseteq incoming[r]
                       /\ (contract[r] \ contract'[r]) \cap incoming[r] = {}]_vars

\* The differences that are left, counted as a batch counts them.
Left(r) == LET a == Cardinality(listed[r] \ contract[r])
               d == Cardinality(contract[r] \ listed[r])
               chunks(n) == (n + Threshold - 1) \div Threshold
           IN a + d + chunks(a) + chunks(d)
LeftBehind == LET sum[S \in SUBSET Relays] ==
                    IF S = {} THEN 0
                    ELSE LET r == CHOOSE r \in S : TRUE IN Left(r) + sum[S \ {r}]
              IN sum[Relays]

\* When the lists stay the same and the calls succeed, the rounds bring the contract
\* to the lists, up to a rest that one batch has room for and that is never sent.
Converges == <>[](LeftBehind <= Threshold + 1)

\* verification.service.ts, line 595: families that need to be updated are.  A relay
\* whose update is reported OK, with no call failing, has its family.
OkIsSet ==
  phase = "idle" /\ failures = 0 =>
    \A r \in Relays : result[r] = "OK" => contract[r] = incoming[r]
===============================================================================
