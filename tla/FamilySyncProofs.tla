---------------------------- MODULE FamilySyncProofs ----------------------------
(***************************************************************************)
(* Proofs about FamilySync, for any relays, families, threshold and number *)
(* of changes and failures: whatever a job packs, it packs from the lists  *)
(* it was given, and so does what it writes; and no batch is empty, or     *)
(* larger than the threshold by more than one.                             *)
(***************************************************************************)
EXTENDS FamilySync, FiniteSetTheorems, SequenceTheorems, WellFoundedInduction, TLAPS

----------------------------------------------------------------------------
\* An input adds nothing that its relay does not list and removes nothing that it does.
\* It is about the lists that the job was given: Start may replace them because nothing
\* packed outlives a job.
Lists(input) ==
  /\ input.add \subseteq incoming[input.relay]
  /\ input.remove \cap incoming[input.relay] = {}

Typed ==
  /\ batches \in Seq(Seq(Inputs)) /\ currentBatch \in Seq(Inputs)
  /\ contract \in [Relays -> SUBSET Members]
  /\ incoming \in [Relays -> SUBSET Members] /\ current \in [Relays -> SUBSET Members]
  /\ listed \in [Relays -> SUBSET Members] /\ dreState \in [Relays -> SUBSET Members]
  /\ updates \subseteq Relays
  /\ packing \in Inputs \cup {None}

Between ==
  /\ phase # "pack" => currentBatch = <<>> /\ packing = None
  /\ phase = "idle" => batches = <<>>

PackedLists ==
  /\ Lists(packing)
  /\ \A j \in 1..Len(currentBatch) : Lists(currentBatch[j])
  /\ \A i \in 1..Len(batches) : \A j \in 1..Len(batches[i]) : Lists(batches[i][j])

IInv == Typed /\ Between /\ PackedLists

LEMMA InitIInv == Init => IInv
<1> SUFFICES ASSUME Init PROVE IInv
  OBVIOUS
<1>1. Typed
  BY DEF Init, Typed, Families
<1>2. Between /\ PackedLists
  BY DEF Init, Between, PackedLists, Lists, None
<1> QED BY <1>1, <1>2 DEF IInv

LEMMA ChangeIInv == ASSUME IInv, Change PROVE IInv'
<1>1. PICK r \in Relays, F \in SUBSET Members : listed' = [listed EXCEPT ![r] = F]
  BY DEF Change
<1>2. listed' \in [Relays -> SUBSET Members]
  BY <1>1 DEF IInv, Typed
<1>3. UNCHANGED <<contract, dreState, phase, incoming, current, updates, packing, packed>>
  BY DEF Change
<1> QED BY <1>2, <1>3 DEF packed, IInv, Typed, Between, PackedLists, Lists

LEMMA StartIInv == ASSUME IInv, Start PROVE IInv'
<1>1. /\ phase = "idle" /\ phase' = "pack"
      /\ incoming' = listed /\ dreState' = current'
      /\ current' = contract \/ current' = dreState
      /\ updates' = NeedUpdate(incoming', current')
      /\ UNCHANGED <<listed, contract, packing, batches, currentBatch>>
  BY DEF Start, packed
<1>2. batches = <<>> /\ currentBatch = <<>> /\ packing = None
  BY <1>1 DEF IInv, Between
<1>3. Typed'
  BY <1>1 DEF IInv, Typed, NeedUpdate
<1>4. Between' /\ PackedLists'
  BY <1>1, <1>2 DEF Between, PackedLists, Lists, None
<1> QED BY <1>3, <1>4 DEF IInv

LEMMA NextRelayIInv == ASSUME IInv, NextRelay PROVE IInv'
<1>1. PICK r \in updates : updates' = updates \ {r} /\ packing' = Difference(r)
  BY DEF NextRelay
<1>2. /\ phase = "pack"
      /\ UNCHANGED <<listed, contract, dreState, phase, incoming, current, batches,
                     currentBatch>>
  BY DEF NextRelay, packed
<1>3. incoming[r] \subseteq Members /\ current[r] \subseteq Members /\ r \in Relays
  BY DEF IInv, Typed
<1>4. Difference(r) \in Inputs
  BY <1>3 DEF Difference, Inputs
<1>5. Lists(Difference(r))
  BY DEF Lists, Difference
<1>6. Lists(packing)'
  BY <1>1, <1>2, <1>5 DEF Lists
<1>7. Typed' /\ Between'
  BY <1>1, <1>2, <1>4 DEF IInv, Typed, Between
<1>8. PackedLists'
  BY <1>2, <1>6 DEF IInv, PackedLists, Lists
<1> QED BY <1>7, <1>8 DEF IInv

\* A chunk goes into the current batch, or the current batch among the batches.
LEMMA PackKeeps ==
  ASSUME IInv, incoming' = incoming, NEW C, NEW input \in Inputs, Lists(input),
         Pack(C, input)
  PROVE  /\ batches' \in Seq(Seq(Inputs)) /\ currentBatch' \in Seq(Inputs)
         /\ \A j \in 1..Len(currentBatch') : Lists(currentBatch'[j])
         /\ \A i \in 1..Len(batches') : \A j \in 1..Len(batches'[i]) : Lists(batches'[i][j])
<1>1. /\ batches \in Seq(Seq(Inputs)) /\ currentBatch \in Seq(Inputs)
      /\ Len(batches) \in Nat /\ Len(currentBatch) \in Nat
  BY LenProperties DEF IInv, Typed
<1>2. /\ \A j \in 1..Len(currentBatch) : Lists(currentBatch[j])
      /\ \A i \in 1..Len(batches) : \A j \in 1..Len(batches[i]) : Lists(batches[i][j])
  BY DEF IInv, PackedLists
<1>3. CASE currentBatch' = Append(currentBatch, input) /\ batches' = batches
  <2>1. /\ currentBatch' \in Seq(Inputs) /\ Len(currentBatch') = Len(currentBatch) + 1
        /\ \A j \in 1..Len(currentBatch) : currentBatch'[j] = currentBatch[j]
        /\ currentBatch'[Len(currentBatch) + 1] = input
    BY <1>1, <1>3, AppendProperties
  <2>2. ASSUME NEW j \in 1..Len(currentBatch') PROVE Lists(currentBatch'[j])
    <3>1. j \in 1..Len(currentBatch) \/ j = Len(currentBatch) + 1
      BY <1>1, <2>1
    <3> QED BY <1>2, <2>1, <3>1
  <2> QED BY <1>1, <1>2, <1>3, <2>1, <2>2
<1>4. CASE currentBatch' = <<>> /\ batches' = Append(batches, currentBatch)
  <2>1. /\ batches' \in Seq(Seq(Inputs)) /\ Len(batches') = Len(batches) + 1
        /\ \A i \in 1..Len(batches) : batches'[i] = batches[i]
        /\ batches'[Len(batches) + 1] = currentBatch
    BY <1>1, <1>4, AppendProperties
  <2>2. ASSUME NEW i \in 1..Len(batches')
        PROVE  \A j \in 1..Len(batches'[i]) : Lists(batches'[i][j])
    <3>1. i \in 1..Len(batches) \/ i = Len(batches) + 1
      BY <1>1, <2>1
    <3> QED BY <1>2, <2>1, <3>1
  <2>3. currentBatch' \in Seq(Inputs) /\ Len(currentBatch') = 0
    BY <1>4
  <2> QED BY <2>1, <2>2, <2>3
<1> QED BY <1>3, <1>4 DEF Pack

LEMMA PackChunkIInv == ASSUME IInv, PackChunk PROVE IInv'
<1>1. /\ phase = "pack"
      /\ UNCHANGED <<listed, contract, dreState, phase, incoming, current, updates>>
  BY DEF PackChunk
<1>2. packing \in Inputs \cup {None} /\ Lists(packing)
  BY DEF IInv, Typed, PackedLists
<1>3. \A D : \A C \in Chunks(D) : C \subseteq D
  BY DEF Chunks
<1>4. PICK C, input :
        /\ Pack(C, input)
        /\ \/ /\ C \in Chunks(packing.add)
              /\ input = [relay |-> packing.relay, add |-> C, remove |-> {}]
              /\ packing' = [packing EXCEPT !.add = @ \ C]
           \/ /\ C \in Chunks(packing.remove)
              /\ input = [relay |-> packing.relay, add |-> {}, remove |-> C]
              /\ packing' = [packing EXCEPT !.remove = @ \ C]
  BY DEF PackChunk
<1>5. packing \in Inputs
  <2> SUFFICES ASSUME packing = None PROVE FALSE
    BY <1>2
  <2>1. packing.add = {} /\ packing.remove = {}
    BY DEF None
  <2>2. Chunks({}) = {}
    <3>1. Cardinality({}) = 0
      BY FS_EmptySet
    <3>2. Threshold # 0
      BY FamilyAssumption
    <3> QED BY <3>1, <3>2 DEF Chunks
  <2> QED BY <1>4, <2>1, <2>2
<1>6. input \in Inputs /\ Lists(input) /\ packing' \in Inputs /\ Lists(packing)'
  <2>1. /\ packing.relay \in Relays
        /\ packing.add \subseteq Members /\ packing.remove \subseteq Members
        /\ packing.add \subseteq incoming[packing.relay]
        /\ packing.remove \cap incoming[packing.relay] = {}
    BY <1>2, <1>5 DEF Inputs, Lists
  <2>2. CASE /\ C \subseteq packing.add
             /\ input = [relay |-> packing.relay, add |-> C, remove |-> {}]
             /\ packing' = [packing EXCEPT !.add = @ \ C]
    <3>1. /\ input.relay = packing.relay /\ input.add = C /\ input.remove = {}
          /\ packing'.relay = packing.relay /\ packing'.add = packing.add \ C
          /\ packing'.remove = packing.remove
      BY <1>5, <2>2 DEF Inputs
    <3>2. input \in Inputs /\ packing' \in Inputs
      BY <1>5, <2>1, <2>2 DEF Inputs
    <3> QED BY <1>1, <2>1, <2>2, <3>1, <3>2 DEF Lists
  <2>3. CASE /\ C \subseteq packing.remove
             /\ input = [relay |-> packing.relay, add |-> {}, remove |-> C]
             /\ packing' = [packing EXCEPT !.remove = @ \ C]
    <3>1. /\ input.relay = packing.relay /\ input.add = {} /\ input.remove = C
          /\ packing'.relay = packing.relay /\ packing'.add = packing.add
          /\ packing'.remove = packing.remove \ C
      BY <1>5, <2>3 DEF Inputs
    <3>2. input \in Inputs /\ packing' \in Inputs
      BY <1>5, <2>1, <2>3 DEF Inputs
    <3> QED BY <1>1, <2>1, <2>3, <3>1, <3>2 DEF Lists
  <2> QED BY <1>3, <1>4, <2>2, <2>3
<1>7. /\ batches' \in Seq(Seq(Inputs)) /\ currentBatch' \in Seq(Inputs)
      /\ \A j \in 1..Len(currentBatch') : Lists(currentBatch'[j])
      /\ \A i \in 1..Len(batches') : \A j \in 1..Len(batches'[i]) : Lists(batches'[i][j])
  BY <1>1, <1>4, <1>6, PackKeeps
<1>8. Typed' /\ Between'
  BY <1>1, <1>6, <1>7 DEF IInv, Typed, Between
<1>9. PackedLists'
  BY <1>1, <1>6, <1>7 DEF PackedLists, Lists
<1> QED BY <1>8, <1>9 DEF IInv

LEMMA PackedIInv == ASSUME IInv, Packed PROVE IInv'
<1>1. /\ phase' = "write" /\ packing' = None /\ currentBatch' = <<>>
      /\ UNCHANGED <<listed, contract, dreState, incoming, current, updates, batches>>
  BY DEF Packed
<1>2. Typed' /\ Between'
  BY <1>1 DEF IInv, Typed, Between
<1>3. PackedLists'
  BY <1>1 DEF IInv, PackedLists, Lists, None
<1> QED BY <1>2, <1>3 DEF IInv

\* What an interaction of such inputs does to a family in the contract.
LEMMA SetLists ==
  ASSUME NEW b \in Seq(Inputs), \A j \in 1..Len(b) : Lists(b[j]),
         contract \in [Relays -> SUBSET Members]
  PROVE  /\ Set(b) \in [Relays -> SUBSET Members]
         /\ \A r \in Relays : /\ Set(b)[r] \ contract[r] \subseteq incoming[r]
                             /\ (contract[r] \ Set(b)[r]) \cap incoming[r] = {}
<1>1. DOMAIN b = 1..Len(b) /\ \A j \in 1..Len(b) : b[j] \in Inputs
  BY LenProperties, ElementOfSeq
<1> DEFINE of(r) == {b[i] : i \in {j \in DOMAIN b : b[j].relay = r}}
           new(r) == (contract[r] \cup UNION {i.add : i \in of(r)})
                     \ UNION {i.remove : i \in of(r)}
<1>2. Set(b) = [r \in Relays |-> new(r)]
  BY DEF Set
<1>3. ASSUME NEW r \in Relays
      PROVE  /\ new(r) \subseteq Members
             /\ new(r) \ contract[r] \subseteq incoming[r]
             /\ (contract[r] \ new(r)) \cap incoming[r] = {}
  <2>1. \A i \in of(r) : i \in Inputs /\ i.relay = r /\ Lists(i)
    BY <1>1
  <2> HIDE DEF of
  <2>2. \A i \in of(r) : /\ i.add \subseteq incoming[r] /\ i.add \subseteq Members
                        /\ i.remove \cap incoming[r] = {}
    BY <2>1 DEF Lists, Inputs
  <2>3. contract[r] \subseteq Members
    OBVIOUS
  <2> QED BY <2>2, <2>3
<1> HIDE DEF new
<1> QED BY <1>2, <1>3

LEMMA WriteIInv ==
  ASSUME IInv, Write
  PROVE  /\ IInv'
         /\ \A r \in Relays : /\ contract'[r] \ contract[r] \subseteq incoming[r]
                             /\ (contract[r] \ contract'[r]) \cap incoming[r] = {}
<1>1. /\ phase = "write" /\ batches # <<>> /\ batches' = Tail(batches)
      /\ contract' = contract \/ contract' = Set(Head(batches))
      /\ UNCHANGED <<listed, dreState, phase, incoming, current, updates, packing,
                     currentBatch>>
  BY DEF Write
<1>2. batches \in Seq(Seq(Inputs)) /\ contract \in [Relays -> SUBSET Members]
  BY DEF IInv, Typed
<1>3. /\ Head(batches) = batches[1] /\ Head(batches) \in Seq(Inputs)
      /\ Len(batches) \in Nat /\ Len(batches) # 0
      /\ Tail(batches) \in Seq(Seq(Inputs)) /\ Len(Tail(batches)) = Len(batches) - 1
      /\ \A i \in 1..(Len(batches) - 1) : Tail(batches)[i] = batches[i + 1]
  BY <1>1, <1>2, HeadTailProperties, LenProperties, EmptySeq
<1>4. \A i \in 1..Len(batches) : \A j \in 1..Len(batches[i]) : Lists(batches[i][j])
  BY DEF IInv, PackedLists
<1>5. \A j \in 1..Len(Head(batches)) : Lists(Head(batches)[j])
  BY <1>3, <1>4
<1>6. /\ contract' \in [Relays -> SUBSET Members]
      /\ \A r \in Relays : /\ contract'[r] \ contract[r] \subseteq incoming[r]
                          /\ (contract[r] \ contract'[r]) \cap incoming[r] = {}
  <2>1. CASE contract' = contract
    BY <1>2, <2>1
  <2>2. CASE contract' = Set(Head(batches))
    BY <1>2, <1>3, <1>5, <2>2, SetLists
  <2> QED BY <1>1, <2>1, <2>2
<1>7. ASSUME NEW i \in 1..Len(batches')
      PROVE  \A j \in 1..Len(batches'[i]) : Lists(batches'[i][j])
  <2>1. i + 1 \in 1..Len(batches) /\ batches'[i] = batches[i + 1]
    BY <1>1, <1>3
  <2> QED BY <1>4, <2>1
<1>8. Typed' /\ Between'
  BY <1>1, <1>3, <1>6 DEF IInv, Typed, Between
<1>9. PackedLists'
  BY <1>1, <1>7 DEF IInv, PackedLists, Lists
<1> QED BY <1>6, <1>8, <1>9 DEF IInv

LEMMA FinishIInv == ASSUME IInv, Finish PROVE IInv'
<1>1. /\ batches = <<>> /\ phase = "write" /\ phase' = "idle"
      /\ UNCHANGED <<listed, contract, dreState, incoming, current, updates, packing,
                     batches, currentBatch>>
  BY DEF Finish, Done, packed
<1>2. Typed' /\ Between'
  BY <1>1 DEF IInv, Typed, Between
<1>3. PackedLists'
  BY <1>1 DEF IInv, PackedLists, Lists
<1> QED BY <1>2, <1>3 DEF IInv

\* A crash takes what was packed; what it leaves half done is part of a write.
LEMMA CrashIInv ==
  ASSUME IInv, Crash
  PROVE  /\ IInv'
         /\ \A r \in Relays : /\ contract'[r] \ contract[r] \subseteq incoming[r]
                             /\ (contract[r] \ contract'[r]) \cap incoming[r] = {}
<1>1. /\ batches \in Seq(Seq(Inputs)) /\ contract \in [Relays -> SUBSET Members]
      /\ \A i \in 1..Len(batches) : \A j \in 1..Len(batches[i]) : Lists(batches[i][j])
  BY DEF IInv, Typed, PackedLists
<1>2. /\ contract' \in [Relays -> SUBSET Members]
      /\ \A r \in Relays : /\ contract'[r] \ contract[r] \subseteq incoming[r]
                          /\ (contract[r] \ contract'[r]) \cap incoming[r] = {}
  <2>1. CASE contract' = contract
    BY <1>1, <2>1
  <2>2. CASE 1 \in DOMAIN batches /\ contract' = Set(batches[1])
    <3>1. 1 \in 1..Len(batches) /\ batches[1] \in Seq(Inputs)
      BY <1>1, <2>2
    <3> QED BY <1>1, <2>2, <3>1, SetLists
  <2>3. contract' = contract \/ (1 \in DOMAIN batches /\ contract' = Set(batches[1]))
    BY DEF Crash, Landing
  <2> QED BY <2>1, <2>2, <2>3
<1>3. /\ dreState' = contract' /\ current' = contract'
      /\ updates' = NeedUpdate(incoming, current')
      /\ packing' = None /\ batches' = <<>> /\ currentBatch' = <<>>
      /\ UNCHANGED <<listed, incoming>>
  BY DEF Crash
<1>4. updates' \subseteq Relays
  BY <1>3 DEF NeedUpdate
<1>5. Typed'
  BY <1>2, <1>3, <1>4 DEF IInv, Typed
<1>6. Between' /\ PackedLists'
  BY <1>3 DEF Between, PackedLists, Lists, None
<1> QED BY <1>2, <1>5, <1>6 DEF IInv

LEMMA NextIInv == IInv /\ [Next]_vars => IInv'
<1> SUFFICES ASSUME IInv, [Next]_vars PROVE IInv'
  OBVIOUS
<1>1. CASE UNCHANGED vars
  BY <1>1 DEF vars, IInv, Typed, Between, PackedLists, Lists
<1> QED BY <1>1, ChangeIInv, StartIInv, NextRelayIInv, PackChunkIInv, PackedIInv,
           WriteIInv, FinishIInv, CrashIInv DEF Next, Job

\* However late, in part or against whatever state of the contract a job's differences are
\* written: nothing that its relay does not list is added, and nothing that it does is
\* removed.
THEOREM OnlyListedIsWritten == Spec => WritesOnlyListed
<1> DEFINE Keeps(r) == /\ contract'[r] \ contract[r] \subseteq incoming[r]
                       /\ (contract[r] \ contract'[r]) \cap incoming[r] = {}
<1>1. ASSUME IInv, [Next]_vars PROVE [\A r \in Relays : Keeps(r)]_vars
  <2>1. CASE contract' = contract
    BY <2>1
  <2>2. CASE Write
    BY <1>1, <2>2, WriteIInv
  <2>3. CASE Crash
    BY <1>1, <2>3, CrashIInv
  <2>4. CASE UNCHANGED vars
    BY <2>4
  <2>5. contract' = contract \/ Write \/ Crash \/ UNCHANGED vars
    BY <1>1 DEF Next, Job, Change, Start, NextRelay, PackChunk, Packed, Finish
  <2> QED BY <2>1, <2>2, <2>3, <2>4, <2>5
<1>2. IInv /\ [Next]_vars => [\A r \in Relays : Keeps(r)]_vars
  BY <1>1
<1> QED BY <1>2, InitIInv, NextIInv, PTL DEF Spec, WritesOnlyListed

----------------------------------------------------------------------------
(* The size of a batch.  It is a sum along a sequence; that the sum        *)
(* exists and grows by what is appended is shown by induction over the     *)
(* length, which is the well-foundedness of Nat said of sets.              *)

LessThan == {z \in Nat \X Nat : z[1] < z[2]}

LEMMA Induction ==
  ASSUME NEW S, 0 \in S, \A n \in Nat : n \in S => n + 1 \in S
  PROVE  \A n \in Nat : n \in S
<1>1. OpToRel(<, Nat) = LessThan
  BY DEF OpToRel, LessThan
<1>2. IsWellFoundedOn(LessThan, Nat)
  BY <1>1, NatLessThanWellFounded
<1>3. ASSUME Nat \ S # {} PROVE FALSE
  <2>1. PICK n \in Nat \ S : \A m \in Nat \ S : ~ (<<m, n>> \in LessThan)
    BY <1>2, <1>3, WFMin
  <2>2. n \in Nat /\ n # 0
    BY <2>1
  <2>3. n - 1 \in Nat /\ (n - 1) + 1 = n /\ n - 1 < n
    BY <2>2
  <2>4. n - 1 \notin S
    BY <2>1, <2>3
  <2>5. <<n - 1, n>> \in Nat \X Nat /\ <<n - 1, n>>[1] = n - 1 /\ <<n - 1, n>>[2] = n
    BY <2>2, <2>3
  <2> QED BY <2>1, <2>3, <2>4, <2>5 DEF LessThan
<1> QED BY <1>3

\* What an input adds to the size, and the partial sums of the first n inputs.
Weight(x) == 1 + Cardinality(x.add) + Cardinality(x.remove)
Sums(b, n, f) ==
  f = [i \in 0..n |-> IF i = 0 THEN 0
                      ELSE f[i-1] + 1 + Cardinality(b[i].add) + Cardinality(b[i].remove)]

LEMMA WeightType ==
  ASSUME NEW x \in Inputs
  PROVE  /\ Cardinality(x.add) \in Nat /\ Cardinality(x.remove) \in Nat
         /\ Weight(x) \in Nat /\ Weight(x) > 0
<1>1. x.add \subseteq Members /\ x.remove \subseteq Members
  BY DEF Inputs
<1> QED BY <1>1, FamilyAssumption, FS_Subset, FS_CardinalityType DEF Weight

LEMMA SumsExist == ASSUME NEW b \in Seq(Inputs) PROVE \E f : Sums(b, Len(b), f)
<1> DEFINE S == {n \in Nat : \E f : Sums(b, n, f)}
<1>1. 0 \in S
  <2>1. Sums(b, 0, [i \in 0..0 |-> 0])
    BY DEF Sums
  <2> QED BY <2>1
<1>2. ASSUME NEW n \in Nat, n \in S PROVE n + 1 \in S
  <2>1. PICK f : Sums(b, n, f)
    BY <1>2
  <2>2. DOMAIN f = 0..n
    BY <2>1 DEF Sums
  <2> DEFINE g == [i \in 0..(n + 1) |-> IF i <= n THEN f[i] ELSE
                     f[n] + 1 + Cardinality(b[n + 1].add) + Cardinality(b[n + 1].remove)]
  <2>3. \A i \in 0..n : g[i] = f[i]
    OBVIOUS
  <2>4. ASSUME NEW i \in 0..(n + 1)
        PROVE  g[i] = IF i = 0 THEN 0 ELSE
                      g[i-1] + 1 + Cardinality(b[i].add) + Cardinality(b[i].remove)
    <3>1. CASE i = 0
      BY <2>1, <2>3, <3>1 DEF Sums
    <3>2. CASE i \in 1..n
      <4>1. i \in 0..n /\ i - 1 \in 0..n /\ i # 0
        BY <3>2
      <4>2. f[i] = f[i-1] + 1 + Cardinality(b[i].add) + Cardinality(b[i].remove)
        BY <2>1, <4>1 DEF Sums
      <4> QED BY <2>3, <4>1, <4>2
    <3>3. CASE i = n + 1
      <4>1. i # 0 /\ i - 1 = n /\ n \in 0..n /\ ~(i <= n)
        BY <3>3
      <4> QED BY <2>3, <3>3, <4>1
    <3> QED BY <3>1, <3>2, <3>3
  <2>5. Sums(b, n + 1, g)
    BY <2>4 DEF Sums
  <2> QED BY <2>5
<1>3. \A n \in Nat : n \in S
  <2> HIDE DEF S
  <2> QED BY <1>1, <1>2, Induction
<1> QED BY <1>3

LEMMA SizeIsSum ==
  ASSUME NEW b \in Seq(Inputs)
  PROVE  \E f : Sums(b, Len(b), f) /\ Size(b) = f[Len(b)]
<1> DEFINE sum == CHOOSE f : Sums(b, Len(b), f)
<1>1. Sums(b, Len(b), sum)
  BY SumsExist
<1>2. Size(b) = sum[Len(b)]
  BY DEF Size, Sums
<1> QED BY <1>1, <1>2

LEMMA SumsAgree ==
  ASSUME NEW b \in Seq(Inputs), NEW c, NEW n \in Nat, n <= Len(b),
         \A i \in 1..n : c[i] = b[i],
         NEW m \in Nat, n <= m, NEW f, Sums(b, n, f), NEW g, Sums(c, m, g)
  PROVE  f[n] = g[n] /\ f[n] \in Nat
<1> DEFINE S == {k \in Nat : k <= n => f[k] = g[k] /\ f[k] \in Nat}
<1>1. 0 \in S
  BY DEF Sums
<1>2. ASSUME NEW k \in Nat, k \in S PROVE k + 1 \in S
  <2>1. CASE k + 1 <= n
    <3>1. /\ k + 1 \in 0..n /\ k + 1 \in 0..m /\ k + 1 # 0 /\ (k + 1) - 1 = k
          /\ k + 1 \in 1..Len(b) /\ c[k + 1] = b[k + 1] /\ k <= n
      BY <2>1
    <3>2. f[k + 1] = f[k] + 1 + Cardinality(b[k+1].add) + Cardinality(b[k+1].remove)
      BY <3>1 DEF Sums
    <3>3. g[k + 1] = g[k] + 1 + Cardinality(b[k+1].add) + Cardinality(b[k+1].remove)
      BY <3>1 DEF Sums
    <3>4. f[k] = g[k] /\ f[k] \in Nat
      BY <1>2, <3>1
    <3>5. b[k + 1] \in Inputs
      BY <3>1
    <3>6. Cardinality(b[k+1].add) \in Nat /\ Cardinality(b[k+1].remove) \in Nat
      BY <3>5, WeightType
    <3> QED BY <3>2, <3>3, <3>4, <3>6
  <2>2. CASE ~(k + 1 <= n)
    BY <2>2
  <2> QED BY <2>1, <2>2
<1>3. \A k \in Nat : k \in S
  <2> HIDE DEF S
  <2> QED BY <1>1, <1>2, Induction
<1> QED BY <1>3

\* An empty batch has the size 0, and an input adds its weight.
LEMMA SizeOfEmpty == Size(<<>>) = 0
<1>1. <<>> \in Seq(Inputs) /\ Len(<<>>) = 0
  OBVIOUS
<1>2. PICK f : Sums(<<>>, 0, f) /\ Size(<<>>) = f[0]
  BY <1>1, SizeIsSum
<1> QED BY <1>2 DEF Sums

LEMMA SizeOfAppend ==
  ASSUME NEW b \in Seq(Inputs), NEW x \in Inputs
  PROVE  Size(b) \in Nat /\ Size(Append(b, x)) = Size(b) + Weight(x)
<1>1. PICK n \in Nat : n = Len(b)
  OBVIOUS
<1>2. PICK c \in Seq(Inputs) : c = Append(b, x)
  <2>1. Append(b, x) \in Seq(Inputs)
    OBVIOUS
  <2> QED BY <2>1, Zenon
<1>3. Len(c) = n + 1 /\ c[n + 1] = x /\ \A i \in 1..n : c[i] = b[i]
  BY <1>1, <1>2
<1>4. PICK f : Sums(b, n, f) /\ Size(b) = f[n]
  BY <1>1, SizeIsSum
<1>5. PICK g : Sums(c, n + 1, g) /\ Size(c) = g[n + 1]
  BY <1>3, SizeIsSum
<1>6. f[n] = g[n] /\ f[n] \in Nat
  BY <1>1, <1>3, <1>4, <1>5, SumsAgree
<1>7. n + 1 \in 0..(n + 1) /\ n + 1 # 0 /\ (n + 1) - 1 = n
  OBVIOUS
<1>8. g[n + 1] = g[n] + 1 + Cardinality(x.add) + Cardinality(x.remove)
  BY <1>3, <1>5, <1>7 DEF Sums
<1>9. Cardinality(x.add) \in Nat /\ Cardinality(x.remove) \in Nat
  BY WeightType
<1> QED BY <1>2, <1>4, <1>5, <1>6, <1>8, <1>9 DEF Weight

----------------------------------------------------------------------------
(* The current batch exceeds the threshold by the 1 of its last input at   *)
(* most, and one that is closed is not empty, as a chunk always fits into  *)
(* an empty one.                                                           *)

Sized ==
  /\ Size(currentBatch) \in 0..(Threshold + 1)
  /\ \A i \in 1..Len(batches) : Size(batches[i]) \in 1..(Threshold + 1)

LEMMA SizedKept ==
  ASSUME Sized, UNCHANGED batches, UNCHANGED currentBatch \/ currentBatch' = <<>>
  PROVE  Sized'
<1>1. Size(<<>>) \in 0..(Threshold + 1)
  BY SizeOfEmpty, FamilyAssumption
<1>2. Size(currentBatch') \in 0..(Threshold + 1)
  BY <1>1 DEF Sized
<1> QED BY <1>2 DEF Sized

LEMMA PackSized ==
  ASSUME IInv, Sized, NEW C, NEW D \in SUBSET Members, C \in Chunks(D),
         NEW x \in Inputs, Weight(x) = 1 + Cardinality(C), Pack(C, x)
  PROVE  Sized'
<1>1. /\ currentBatch \in Seq(Inputs) /\ batches \in Seq(Seq(Inputs))
      /\ Threshold \in Nat \ {0}
  BY FamilyAssumption DEF IInv, Typed
<1>2. C \subseteq Members /\ Cardinality(C) <= Threshold
  BY <1>1, FamilyAssumption, FS_Subset, FS_CardinalityType DEF Chunks
<1>3. Cardinality(C) \in Nat
  BY <1>2, FamilyAssumption, FS_Subset, FS_CardinalityType
<1>4. PICK s \in Nat : s = Size(currentBatch) /\ s <= Threshold + 1
  BY <1>1 DEF Sized
<1>5. CASE Fits(C)
  <2>1. s + Cardinality(C) <= Threshold
    BY <1>4, <1>5 DEF Fits
  <2>2. currentBatch' = Append(currentBatch, x) /\ batches' = batches
    BY <1>5 DEF Pack
  <2>3. Size(currentBatch') = s + (1 + Cardinality(C))
    BY <1>1, <1>4, <2>2, SizeOfAppend
  <2>4. Size(currentBatch') \in 0..(Threshold + 1)
    BY <1>1, <1>3, <2>1, <2>3
  <2> QED BY <2>2, <2>4 DEF Sized
<1>6. CASE ~Fits(C)
  <2>1. ~(s + Cardinality(C) <= Threshold)
    BY <1>4, <1>6 DEF Fits
  <2>2. s \in 1..(Threshold + 1)
    BY <1>1, <1>2, <1>3, <1>4, <2>1
  <2>3. currentBatch' = <<>> /\ batches' = Append(batches, currentBatch)
    BY <1>6 DEF Pack
  <2>4. Size(currentBatch') \in 0..(Threshold + 1)
    BY <1>1, <2>3, SizeOfEmpty
  <2>5. PICK n \in Nat : n = Len(batches)
    BY <1>1
  <2>6. /\ Len(batches') = n + 1 /\ batches'[n + 1] = currentBatch
        /\ \A i \in 1..n : batches'[i] = batches[i]
    BY <1>1, <2>3, <2>5
  <2>7. ASSUME NEW i \in 1..(n + 1) PROVE Size(batches'[i]) \in 1..(Threshold + 1)
    <3>1. CASE i = n + 1
      BY <1>4, <2>2, <2>6, <3>1
    <3>2. CASE i \in 1..n
      BY <2>5, <2>6, <3>2 DEF Sized
    <3> QED BY <3>1, <3>2
  <2> QED BY <2>4, <2>6, <2>7 DEF Sized
<1> QED BY <1>5, <1>6

LEMMA PackChunkSized == ASSUME IInv, Sized, PackChunk PROVE Sized'
<1>1. packing \in Inputs \cup {None}
  BY DEF IInv, Typed
<1>2. packing.add \subseteq Members /\ packing.remove \subseteq Members
  BY <1>1 DEF Inputs, None
<1>3. ASSUME NEW D \in SUBSET Members, NEW C \in Chunks(D), packing # None
      PROVE  /\ [relay |-> packing.relay, add |-> C, remove |-> {}] \in Inputs
             /\ [relay |-> packing.relay, add |-> {}, remove |-> C] \in Inputs
             /\ Weight([relay |-> packing.relay, add |-> C, remove |-> {}]) = 1 + Cardinality(C)
             /\ Weight([relay |-> packing.relay, add |-> {}, remove |-> C]) = 1 + Cardinality(C)
  <2>1. C \subseteq Members /\ packing \in Inputs
    BY <1>1, <1>3 DEF Chunks
  <2>2. Cardinality(C) \in Nat
    BY <2>1, FamilyAssumption, FS_Subset, FS_CardinalityType
  <2>3. Cardinality({}) = 0
    BY FS_EmptySet
  <2> QED BY <2>1, <2>2, <2>3 DEF Inputs, Weight
<1>4. ASSUME packing = None, NEW C PROVE C \notin Chunks(packing.add) /\ C \notin Chunks(packing.remove)
  <2>1. packing.add = {} /\ packing.remove = {}
    BY <1>4 DEF None
  <2>2. \A D : D \subseteq {} => Cardinality(D) = 0
    BY FS_EmptySet
  <2> QED BY <2>1, <2>2, FamilyAssumption DEF Chunks
<1>5. CASE \E C \in Chunks(packing.add) :
             Pack(C, [relay |-> packing.relay, add |-> C, remove |-> {}])
  <2>1. PICK C \in Chunks(packing.add) :
               Pack(C, [relay |-> packing.relay, add |-> C, remove |-> {}])
    BY <1>5
  <2>2. packing # None
    BY <1>4
  <2> QED BY <1>2, <1>3, <2>1, <2>2, PackSized
<1>6. CASE \E C \in Chunks(packing.remove) :
             Pack(C, [relay |-> packing.relay, add |-> {}, remove |-> C])
  <2>1. PICK C \in Chunks(packing.remove) :
               Pack(C, [relay |-> packing.relay, add |-> {}, remove |-> C])
    BY <1>6
  <2>2. packing # None
    BY <1>4
  <2> QED BY <1>2, <1>3, <2>1, <2>2, PackSized
<1> QED BY <1>5, <1>6 DEF PackChunk

LEMMA WriteSized == ASSUME IInv, Sized, Write PROVE Sized'
<1>1. /\ batches # <<>> /\ batches \in Seq(Seq(Inputs)) /\ batches' = Tail(batches)
      /\ currentBatch' = currentBatch
  BY DEF Write, IInv, Typed
<1>2. \A i \in 1..Len(batches') : i + 1 \in 1..Len(batches) /\ batches'[i] = batches[i + 1]
  BY <1>1
<1> QED BY <1>1, <1>2 DEF Sized

LEMMA NextSized == ASSUME IInv, Sized, [Next]_vars PROVE Sized'
<1>1. CASE UNCHANGED vars
  BY <1>1, SizedKept DEF vars
<1>2. CASE Change \/ Start \/ NextRelay \/ Packed \/ Finish
  <2>1. UNCHANGED batches /\ (UNCHANGED currentBatch \/ currentBatch' = <<>>)
    BY <1>2 DEF Change, Start, NextRelay, Packed, Finish, packed
  <2> QED BY <2>1, SizedKept
<1>3. CASE Crash
  <2>1. batches' = <<>> /\ currentBatch' = <<>>
    BY <1>3 DEF Crash
  <2> QED BY <2>1, SizeOfEmpty, FamilyAssumption DEF Sized
<1> QED BY <1>1, <1>2, <1>3, PackChunkSized, WriteSized DEF Next, Job

\* Whatever the lists, no interaction is empty, and none has more than the threshold but
\* for the 1 of its last input.
THEOREM BatchesStayBounded == Spec => []BatchesBounded
<1>1. Init => Sized
  BY SizeOfEmpty, FamilyAssumption DEF Init, Sized
<1>2. IInv /\ Sized => BatchesBounded
  <2> SUFFICES ASSUME IInv, Sized PROVE BatchesBounded
    OBVIOUS
  <2>1. DOMAIN batches = 1..Len(batches)
    BY DEF IInv, Typed
  <2> QED BY <2>1 DEF Sized, BatchesBounded
<1> QED BY <1>1, <1>2, InitIInv, NextIInv, NextSized, PTL DEF Spec
=================================================================================
