-------------------------- MODULE EventsServiceProofs --------------------------
(***************************************************************************)
(* Proofs about EventsService, for any events, addresses and bounds: what  *)
(* the composition does is what each of its components may do, a lock is   *)
(* credited once for itself and once for a crash, allocations grow, and    *)
(* the jobs of a request form one chain whose transactions are bounded.    *)
(***************************************************************************)
EXTENDS EventsService, SequenceTheorems, FiniteSetTheorems, FunctionTheorems, TLAPS

-----------------------------------------------------------------------------
(* The components in the composition.  One of them acts and the other does *)
(* not, or the process goes down or comes back and both do.                *)

LEMMA UpdatesStep ==
  ASSUME Updates, UNCHANGED registrations
  PROVE  Next /\ UNCHANGED <<up, lockJob, credits, lockStalled, crashes>>
<1>1. Next
  BY DEF Updates, Next
<1>2. UNCHANGED <<up, crashes>>
  BY DEF Updates, Earn, RequestingUpdate, JobAdded, Worker, Dequeue,
         GetCurrentRewards, HandleUpdateAllocation, HandleRecoverUpdateAllocation, Return
<1> QED BY <1>1, <1>2 DEF registrations

LEMMA RegistrationsStep ==
  ASSUME NEW l \in Locks, Registrations(l)
  PROVE  R!Next /\ UNCHANGED vars
<1>1. R!Next
  BY DEF Registrations, R!Next
<1>2. UNCHANGED <<up, crashes>>
  BY DEF Registrations, R!Registered, R!FlowAdded, R!Dequeue, R!AddRegistrationCredit
<1> QED BY <1>1, <1>2 DEF Registrations, requests, vars

\* The process as a whole refines each of the two specifications it is made of: nothing
\* that the handlers of one contract's events do, and no death of the process between
\* them, is unknown to the model of the other.
THEOREM Composed == EventsSpec => Spec /\ R!Spec
<1>1. EventsInit => Init /\ R!Init
  BY DEF EventsInit
<1>2. ASSUME [EventsNext]_allVars PROVE [Next]_vars /\ [R!Next]_(R!vars)
  <2>1. CASE Facilitator(Updates)
    BY <2>1, UpdatesStep DEF Facilitator, R!vars
  <2>2. ASSUME NEW l \in Locks, Registrations(l) PROVE [Next]_vars /\ [R!Next]_(R!vars)
    BY <2>2, RegistrationsStep
  <2>3. CASE ProcessCrash
    BY <2>3 DEF ProcessCrash, Next, R!Next
  <2>4. CASE ProcessBoot
    BY <2>4 DEF ProcessBoot, Next, R!Next
  <2>5. CASE UNCHANGED allVars
    BY <2>5 DEF allVars, registrations, vars, R!vars
  <2> QED BY <1>2, <2>1, <2>2, <2>3, <2>4, <2>5 DEF EventsNext
<1> QED BY <1>1, <1>2, PTL DEF EventsSpec, Spec, R!Spec

-----------------------------------------------------------------------------
(* A credit is owed for the job that has not ended, and for its second     *)
(* run.                                                                    *)

Owed(l) == lockJob[l] \in {"none", "adding", "missed", "waiting", "active"}
Again(l) == IF l \in lockStalled THEN 1 ELSE 0

CInv ==
  /\ lockJob \in [Locks -> {"none", "adding", "missed", "waiting", "active", "done"}]
  /\ credits \in [Locks -> Nat]
  /\ \A l \in Locks : /\ credits[l] <= 1 + Again(l)
                      /\ Owed(l) => credits[l] <= Again(l)

LEMMA CreditsInit == R!Init => CInv
BY DEF R!Init, CInv, Again, Owed

LEMMA CreditsNext ==
  ASSUME CInv, [R!Next]_(R!vars)
  PROVE  CInv'
<1> USE DEF CInv, Again, Owed
<1>1. ASSUME NEW l \in Locks, R!Registered(l) PROVE CInv'
  BY <1>1 DEF R!Registered
<1>2. ASSUME NEW l \in Locks, R!FlowAdded(l) PROVE CInv'
  BY <1>2 DEF R!FlowAdded
<1>3. ASSUME NEW l \in Locks, R!Dequeue(l) PROVE CInv'
  BY <1>3 DEF R!Dequeue
<1>4. ASSUME NEW l \in Locks, R!AddRegistrationCredit(l) PROVE CInv'
  BY <1>4 DEF R!AddRegistrationCredit, R!Sends
<1>5. CASE R!Crash
  <2> DEFINE active == {l \in Locks : lockJob[l] = "active"}
  <2>1. lockStalled' = lockStalled \cup active
    BY <1>5 DEF R!Crash
  <2>2. \A l \in Locks : lockJob'[l] =
          CASE l \in active \ lockStalled -> "waiting"
            [] l \in active \cap lockStalled -> "done"
            [] lockJob[l] = "adding" -> "done"
            [] OTHER -> lockJob[l]
    BY <1>5, Zenon DEF R!Crash
  <2>3. lockJob' \in [Locks -> {"none", "adding", "missed", "waiting", "active", "done"}]
    <3>1. lockJob' = [l \in Locks |-> lockJob'[l]]
      BY <1>5, Zenon DEF R!Crash
    <3> HIDE DEF active
    <3>2. \A l \in Locks :
            lockJob'[l] \in {"none", "adding", "missed", "waiting", "active", "done"}
      BY <2>2
    <3> QED BY <3>1, <3>2, Zenon
  <2>4. /\ credits' \in [Locks -> Nat]
        /\ \A l \in Locks : /\ credits'[l] <= credits[l] + 1
                            /\ l \notin active => credits'[l] = credits[l]
    <3>1. CASE UNCHANGED credits
      BY <3>1
    <3>2. ASSUME NEW k \in active, credits' = [credits EXCEPT ![k] = @ + 1]
          PROVE  <2>4!1 /\ <2>4!2
      BY <3>2
    <3> QED BY <1>5, <3>1, <3>2 DEF R!Crash
  <2>5. ASSUME NEW l \in Locks
        PROVE  /\ credits'[l] <= 1 + Again(l)'
               /\ Owed(l)' => credits'[l] <= Again(l)'
    <3>1. CASE l \in active
      BY <2>1, <2>2, <2>4, <3>1
    <3>2. CASE l \notin active
      BY <2>1, <2>2, <2>4, <3>2
    <3> QED BY <3>1, <3>2
  <2> QED BY <2>3, <2>4, <2>5
<1>6. CASE R!Boot
  BY <1>6 DEF R!Boot
<1>7. CASE UNCHANGED R!vars
  BY <1>7 DEF R!vars
<1> QED BY <1>1, <1>2, <1>3, <1>4, <1>5, <1>6, <1>7 DEF R!Next

LEMMA CreditsImplied == CInv => CreditsBounded
BY DEF CInv, Again, CreditsBounded, R!CreditsBounded

\* However the process dies around a job, the relay of a lock gets one credit for it and
\* at most one more, for the job that ran again.
THEOREM CreditsStayBounded == EventsSpec => []CreditsBounded
<1>1. R!Spec => []CInv
  BY CreditsInit, CreditsNext, PTL DEF R!Spec
<1> QED BY <1>1, Composed, CreditsImplied, PTL

----------------------------------------------------------------------------
(* Allocations that grow.                                                  *)

\* An amount of the address a that the process has read: the contract has no less by now,
\* nor has the state that later jobs may read.
Read(n, a) ==
  /\ n \in Int /\ n <= claimable[a]
  /\ dreState # Missing => n <= dreState[a]

\* The jobs, as they are while nothing failed: none is a recovery, and an amount comes with
\* the handler of get-current-rewards.
JobsOK ==
  /\ waiting \in Seq(Jobs) /\ work \in Jobs \cup {NoJob} /\ adding \subseteq Jobs
  /\ \A j \in adding : /\ j.kind = "get" /\ j.amount = Missing
                       /\ account[j.request] \in Address
  /\ \A i \in 1..Len(waiting) : /\ account[waiting[i].request] \in Address
                                /\ waiting[i].kind # "recover"
                                /\ waiting[i].kind = "get" => waiting[i].amount = Missing
  /\ work # NoJob => /\ account[work.request] \in Address
                     /\ work.kind # "recover"
                     /\ work.kind = "get" /\ ~returned => work.amount = Missing

StatesOK ==
  /\ account \in [Requests -> Address \cup {Nobody}]
  /\ claimable \in [Address -> Amounts] /\ allocated \in [Address -> Int]
  /\ dreState # Missing => dreState \in [Address -> Amounts]
  /\ dreState # Missing => \A a \in Address : dreState[a] <= claimable[a]
  /\ \A a \in Address : Read(allocated[a], a)

\* The amounts that wait for an address stand in their order, after what it was
\* allocated.
InOrder(i, k) ==
  LET a == account[waiting[i].request] IN
    i < k /\ waiting[i].amount # Missing /\ waiting[k].amount # Missing
          /\ account[waiting[k].request] = a
      => waiting[i].amount <= waiting[k].amount

WaitingOK ==
  /\ \A i \in 1..Len(waiting) : waiting[i].amount # Missing =>
       LET a == account[waiting[i].request] IN
         Read(waiting[i].amount, a) /\ allocated[a] <= waiting[i].amount
  /\ \A i, k \in 1..Len(waiting) : InOrder(i, k)

\* What get-current-rewards has read comes after all of them, what update-allocation has
\* before.
WorkOK ==
  work # NoJob /\ work.amount # Missing =>
    LET a == account[work.request] IN
      /\ Read(work.amount, a) /\ allocated[a] <= work.amount
      /\ \A i \in 1..Len(waiting) :
           waiting[i].amount # Missing /\ account[waiting[i].request] = a =>
             IF work.kind = "get" THEN waiting[i].amount <= work.amount
                                  ELSE work.amount <= waiting[i].amount

Grows == ~trouble => JobsOK /\ StatesOK /\ WaitingOK /\ WorkOK

GrowsNow == \A a \in Address : allocated'[a] >= allocated[a]

LEMMA AmountsInt == Amounts \subseteq Int /\ 0 \in Amounts
BY FacilityAssumption DEF Amounts

LEMMA InitGrows == Init => Grows
<1> SUFFICES ASSUME Init PROVE Grows
  OBVIOUS
<1>1. JobsOK /\ WaitingOK /\ WorkOK
  BY DEF Init, JobsOK, WaitingOK, WorkOK
<1>2. StatesOK
  BY AmountsInt DEF Init, StatesOK, Read
<1> QED BY <1>1, <1>2 DEF Grows

LEMMA EarnGrows == ASSUME Grows, ~trouble', NEW a \in Address, Earn(a) PROVE Grows' /\ GrowsNow
<1>1. /\ claimable' = [claimable EXCEPT ![a] = @ + 1]
      /\ UNCHANGED <<account, dreState, waiting, work, returned, adding, allocated, trouble>>
  BY DEF Earn
<1>2. JobsOK /\ StatesOK /\ WaitingOK /\ WorkOK
  BY <1>1 DEF Grows
<1>3. /\ claimable' \in [Address -> Amounts]
      /\ \A b \in Address : /\ claimable[b] \in Int /\ claimable'[b] \in Int
                            /\ claimable'[b] >= claimable[b]
  <2>1. claimable \in [Address -> Amounts] /\ \A b \in Address : claimable[b] \in Int
    BY <1>2, AmountsInt DEF StatesOK
  <2>2. claimable[a] + 1 \in Amounts /\ claimable[a] + 1 \in Int
    BY <2>1, FacilityAssumption DEF Earn, Amounts
  <2> QED BY <1>1, <2>1, <2>2
<1>5. JobsOK'
  BY <1>1, <1>2 DEF JobsOK
<1>6. StatesOK'
  <2>1. \A b \in Address : Read(allocated[b], b)'
    <3> SUFFICES ASSUME NEW b \in Address PROVE Read(allocated[b], b)'
      OBVIOUS
    <3>1. Read(allocated[b], b)
      BY <1>2 DEF StatesOK
    <3> QED BY <1>1, <1>3, <3>1 DEF Read
  <2>2. dreState # Missing => \A b \in Address : dreState[b] <= claimable'[b]
    <3> SUFFICES ASSUME dreState # Missing, NEW b \in Address
                 PROVE  dreState[b] <= claimable'[b]
      OBVIOUS
    <3>1. dreState[b] \in Int /\ dreState[b] <= claimable[b]
      BY <1>2, AmountsInt DEF StatesOK
    <3> QED BY <1>3, <3>1
  <2> QED BY <1>1, <1>2, <1>3, <2>1, <2>2 DEF StatesOK
<1>7. WaitingOK'
  <2>1. ASSUME NEW i \in 1..Len(waiting), waiting[i].amount # Missing
        PROVE  /\ Read(waiting[i].amount, account[waiting[i].request])'
               /\ allocated[account[waiting[i].request]] <= waiting[i].amount
    <3>1. account[waiting[i].request] \in Address
      BY <1>2 DEF JobsOK
    <3> QED BY <1>1, <1>2, <1>3, <2>1, <3>1 DEF WaitingOK, Read
  <2> QED BY <1>1, <1>2, <2>1 DEF WaitingOK, InOrder
<1>8. WorkOK'
  <2>1. ASSUME work # NoJob, work.amount # Missing
        PROVE  /\ Read(work.amount, account[work.request])'
               /\ allocated[account[work.request]] <= work.amount
    <3>1. account[work.request] \in Address
      BY <1>2, <2>1 DEF JobsOK
    <3> QED BY <1>1, <1>2, <1>3, <2>1, <3>1 DEF WorkOK, Read
  <2> QED BY <1>1, <1>2, <2>1 DEF WorkOK
<1> QED BY <1>1, <1>2, <1>5, <1>6, <1>7, <1>8 DEF Grows, GrowsNow, StatesOK

LEMMA GetJobTyped ==
  ASSUME NEW q \in Requests
  PROVE  /\ GetJob(q) \in Jobs /\ GetJob(q).kind = "get" /\ GetJob(q).amount = Missing
         /\ GetJob(q).request = q
BY FacilityAssumption DEF GetJob, Jobs

LEMMA RequestingUpdateGrows ==
  ASSUME Grows, ~trouble', NEW q \in Requests, NEW a \in Address, RequestingUpdate(q, a)
  PROVE  Grows' /\ GrowsNow
<1>1. /\ account[q] = Nobody /\ account' = [account EXCEPT ![q] = a]
      /\ adding' \subseteq adding \cup {GetJob(q)}
      /\ UNCHANGED <<claimable, dreState, waiting, work, returned, allocated, trouble>>
  BY DEF RequestingUpdate, chain
<1>2. JobsOK /\ StatesOK /\ WaitingOK /\ WorkOK
  BY <1>1 DEF Grows
<1>3. account \in [Requests -> Address \cup {Nobody}] /\ account' \in [Requests -> Address \cup {Nobody}]
  BY <1>1, <1>2 DEF StatesOK
<1>4. account'[q] = a
  BY <1>1, <1>3
<1>5. \A r \in Requests : account[r] \in Address => account'[r] = account[r]
  BY <1>1, <1>3, FacilityAssumption
<1>6. ASSUME NEW i \in 1..Len(waiting)
      PROVE  account'[waiting[i].request] = account[waiting[i].request]
  <2>1. waiting[i] \in Jobs
    BY <1>2, ElementOfSeq DEF JobsOK
  <2>2. waiting[i].request \in Requests
    BY <2>1 DEF Jobs
  <2> QED BY <1>2, <1>5, <2>2 DEF JobsOK
<1>7. work # NoJob => account'[work.request] = account[work.request]
  <2> SUFFICES ASSUME work # NoJob PROVE account'[work.request] = account[work.request]
    OBVIOUS
  <2>1. work \in Jobs
    BY <1>2 DEF JobsOK
  <2>2. work.request \in Requests
    BY <2>1 DEF Jobs
  <2> QED BY <1>2, <1>5, <2>2 DEF JobsOK
<1>8. ASSUME NEW j \in adding'
      PROVE  /\ j \in Jobs /\ j.kind = "get" /\ j.amount = Missing
             /\ account'[j.request] \in Address
  <2>1. CASE j \in adding
    <3>1. j \in Jobs /\ account[j.request] \in Address
      BY <1>2, <2>1 DEF JobsOK
    <3>2. j.request \in Requests
      BY <3>1 DEF Jobs
    <3> QED BY <1>2, <1>5, <2>1, <3>1, <3>2 DEF JobsOK
  <2>2. CASE j = GetJob(q)
    BY <1>4, <2>2, GetJobTyped
  <2> QED BY <1>1, <2>1, <2>2
<1>9. JobsOK'
  BY <1>1, <1>2, <1>6, <1>7, <1>8 DEF JobsOK
<1>10. StatesOK'
  BY <1>1, <1>2, <1>3 DEF StatesOK, Read
<1>11. WaitingOK'
  BY <1>1, <1>2, <1>6 DEF WaitingOK, InOrder, Read
<1>12. WorkOK'
  BY <1>1, <1>2, <1>6, <1>7 DEF WorkOK, Read
<1> QED BY <1>1, <1>2, <1>9, <1>10, <1>11, <1>12 DEF Grows, GrowsNow, StatesOK

LEMMA JobAddedGrows == ASSUME Grows, ~trouble', JobAdded PROVE Grows' /\ GrowsNow
<1>1. PICK j \in adding : adding' = adding \ {j} /\ waiting' = Append(waiting, j)
  BY DEF JobAdded
<1>2. UNCHANGED <<account, claimable, dreState, work, returned, allocated, trouble>>
  BY DEF JobAdded, chain
<1>3. JobsOK /\ StatesOK /\ WaitingOK /\ WorkOK
  BY <1>2 DEF Grows
<1>4. /\ j \in Jobs /\ j.kind = "get" /\ j.amount = Missing /\ account[j.request] \in Address
      /\ waiting \in Seq(Jobs) /\ Len(waiting) \in Nat
  BY <1>3, LenProperties DEF JobsOK
<1>5. /\ waiting' \in Seq(Jobs) /\ Len(waiting') = Len(waiting) + 1
      /\ \A i \in 1..Len(waiting) : waiting'[i] = waiting[i]
      /\ waiting'[Len(waiting) + 1] = j
  BY <1>1, <1>4, AppendProperties
<1>6. \A i \in 1..Len(waiting') : i \in 1..Len(waiting) \/ waiting'[i] = j
  BY <1>4, <1>5
<1>7. JobsOK'
  <2>1. ASSUME NEW i \in 1..Len(waiting')
        PROVE  /\ account[waiting'[i].request] \in Address /\ waiting'[i].kind # "recover"
               /\ waiting'[i].kind = "get" => waiting'[i].amount = Missing
    BY <1>3, <1>4, <1>5, <1>6 DEF JobsOK
  <2> QED BY <1>1, <1>2, <1>3, <1>5, <2>1 DEF JobsOK
<1>8. StatesOK'
  BY <1>2, <1>3 DEF StatesOK, Read
<1>9. \A i \in 1..Len(waiting') : waiting'[i].amount # Missing =>
        i \in 1..Len(waiting) /\ waiting'[i] = waiting[i]
  BY <1>4, <1>5, <1>6
<1>10. WaitingOK'
  BY <1>2, <1>3, <1>9 DEF WaitingOK, InOrder, Read
<1>11. WorkOK'
  BY <1>2, <1>3, <1>9 DEF WorkOK, Read
<1> QED BY <1>2, <1>3, <1>7, <1>8, <1>10, <1>11 DEF Grows, GrowsNow, StatesOK

LEMMA DequeueGrows == ASSUME Grows, ~trouble', Dequeue PROVE Grows' /\ GrowsNow
<1>1. /\ work = NoJob /\ waiting # <<>> /\ work' = Head(waiting) /\ waiting' = Tail(waiting)
      /\ UNCHANGED <<account, claimable, dreState, returned, adding, allocated, trouble>>
  BY DEF Dequeue, chain
<1>2. JobsOK /\ StatesOK /\ WaitingOK /\ WorkOK
  BY <1>1 DEF Grows
<1>3. waiting \in Seq(Jobs)
  BY <1>2 DEF JobsOK
<1>4. /\ work' = waiting[1] /\ work' \in Jobs /\ Len(waiting) \in Nat /\ Len(waiting) # 0
      /\ waiting' \in Seq(Jobs) /\ Len(waiting') = Len(waiting) - 1
      /\ \A i \in 1..(Len(waiting) - 1) : waiting'[i] = waiting[i + 1]
  BY <1>1, <1>3, HeadTailProperties, LenProperties, EmptySeq
<1>5. \A i \in 1..Len(waiting') : /\ waiting'[i] = waiting[i + 1]
                                  /\ i + 1 \in 1..Len(waiting) /\ 1 < i + 1
  BY <1>4
<1>6. 1 \in 1..Len(waiting)
  BY <1>4
<1>7. JobsOK'
  BY <1>1, <1>2, <1>4, <1>5, <1>6 DEF JobsOK
<1>8. StatesOK'
  BY <1>1, <1>2 DEF StatesOK, Read
<1>9. WaitingOK'
  <2>1. ASSUME NEW i \in 1..Len(waiting'), NEW k \in 1..Len(waiting') PROVE InOrder(i, k)'
    <3>1. i < k => i + 1 < k + 1
      BY <1>4
    <3>2. InOrder(i + 1, k + 1)
      BY <1>2, <1>5 DEF WaitingOK
    <3> QED BY <1>1, <1>5, <3>1, <3>2 DEF InOrder
  <2>2. ASSUME NEW i \in 1..Len(waiting'), waiting'[i].amount # Missing
        PROVE  LET a == account[waiting'[i].request] IN
                 Read(waiting'[i].amount, a) /\ allocated[a] <= waiting'[i].amount
    BY <1>1, <1>2, <1>5, <2>2 DEF WaitingOK, Read
  <2> QED BY <1>1, <2>1, <2>2 DEF WaitingOK, Read
<1>10. WorkOK'
  <2> SUFFICES ASSUME work'.amount # Missing
               PROVE  LET a == account[work'.request] IN
                        /\ Read(work'.amount, a) /\ allocated[a] <= work'.amount
                        /\ \A i \in 1..Len(waiting') :
                             waiting'[i].amount # Missing /\ account[waiting'[i].request] = a =>
                               IF work'.kind = "get" THEN waiting'[i].amount <= work'.amount
                                                     ELSE work'.amount <= waiting'[i].amount
    BY <1>1 DEF WorkOK, Read
  <2>1. work'.kind # "get"
    BY <1>2, <1>4, <1>6 DEF JobsOK
  <2>2. LET a == account[work'.request] IN
          Read(work'.amount, a) /\ allocated[a] <= work'.amount
    BY <1>1, <1>2, <1>4, <1>6 DEF WaitingOK, Read
  <2>3. \A i \in 1..Len(waiting') : InOrder(1, i + 1)
    BY <1>2, <1>5, <1>6 DEF WaitingOK
  <2> QED BY <1>4, <1>5, <2>1, <2>2, <2>3 DEF InOrder
<1> QED BY <1>1, <1>2, <1>7, <1>8, <1>9, <1>10 DEF Grows, GrowsNow, StatesOK

\* What a job reads is no less than what others have read before.
LEMMA GetCurrentRewardsGrows ==
  ASSUME Grows, ~trouble', GetCurrentRewards
  PROVE  Grows' /\ GrowsNow
<1>1. /\ work # NoJob /\ ~returned /\ work.kind = "get" /\ returned' = TRUE
      /\ dreState' \in {dreState, claimable}
      /\ work' = [work EXCEPT !.amount = Rewards]
      /\ UNCHANGED <<account, claimable, waiting, adding, allocated, trouble>>
  BY DEF GetCurrentRewards, Runs, chain
<1>2. JobsOK /\ StatesOK /\ WaitingOK /\ WorkOK
  BY <1>1 DEF Grows
<1> DEFINE a == account[work.request]
<1>3. work \in Jobs /\ a \in Address
  BY <1>1, <1>2 DEF JobsOK
<1>4. /\ dreState' # Missing => dreState' \in [Address -> Amounts]
      /\ dreState' # Missing => \A b \in Address : dreState'[b] <= claimable[b]
      /\ \A b \in Address : claimable[b] \in Int
  BY <1>1, <1>2, AmountsInt DEF StatesOK
<1>5. ASSUME NEW n, NEW b \in Address, Read(n, b)
      PROVE  n \in Int /\ n <= claimable[b] /\ (dreState' # Missing => n <= dreState'[b])
  BY <1>1, <1>5 DEF Read
<1>6. PICK m : m = Rewards
  OBVIOUS
<1>7. m = Missing \/ (m = dreState'[a] /\ dreState' # Missing)
  BY <1>6 DEF Rewards
<1>8. /\ work'.request = work.request /\ work'.kind = "get" /\ work'.amount = m
  BY <1>1, <1>3, <1>6 DEF Jobs
<1>9. dreState' # Missing => dreState'[a] \in Int /\ dreState'[a] \in Amounts
  BY <1>3, <1>4, AmountsInt
<1>10. JobsOK'
  <2>1. m \in Amounts \cup {Missing}
    BY <1>7, <1>9
  <2>2. work' \in Jobs
    BY <1>1, <1>3, <1>6, <2>1 DEF Jobs
  <2> QED BY <1>1, <1>2, <1>8, <2>2 DEF JobsOK
<1>11. StatesOK'
  BY <1>1, <1>2, <1>4, <1>5 DEF StatesOK, Read
<1>12. \A i \in 1..Len(waiting) : account[waiting[i].request] \in Address
  BY <1>2 DEF JobsOK
<1>13. WaitingOK'
  BY <1>1, <1>2, <1>5, <1>12 DEF WaitingOK, InOrder, Read
<1>14. ASSUME m # Missing
       PROVE  /\ m \in Int /\ m <= claimable[a] /\ allocated[a] <= m
              /\ dreState' # Missing => m <= dreState'[a]
              /\ \A i \in 1..Len(waiting) :
                   waiting[i].amount # Missing /\ account[waiting[i].request] = a =>
                     waiting[i].amount <= m
  <2>1. m = dreState'[a] /\ dreState' # Missing /\ m \in Int
    BY <1>7, <1>9, <1>14
  <2>2. m <= claimable[a] /\ m <= dreState'[a]
    BY <1>3, <1>4, <2>1
  <2>3. allocated[a] <= m
    BY <1>2, <1>3, <1>5, <2>1 DEF StatesOK
  <2>4. ASSUME NEW i \in 1..Len(waiting),
               waiting[i].amount # Missing, account[waiting[i].request] = a
        PROVE  waiting[i].amount <= m
    <3>1. Read(waiting[i].amount, a)
      BY <1>2, <2>4 DEF WaitingOK
    <3> QED BY <1>3, <1>5, <2>1, <3>1
  <2> QED BY <2>1, <2>2, <2>3, <2>4
<1>15. WorkOK'
  BY <1>1, <1>8, <1>14 DEF WorkOK, Read
<1> QED BY <1>1, <1>2, <1>10, <1>11, <1>13, <1>15 DEF Grows, GrowsNow, StatesOK

\* A job that allocates its amount has the least of those that wait for the address.
LEMMA HandleUpdateAllocationGrows ==
  ASSUME Grows, ~trouble', HandleUpdateAllocation
  PROVE  Grows' /\ GrowsNow
<1>1. /\ work # NoJob /\ ~returned /\ work.kind = "update" /\ returned' = TRUE
      /\ UNCHANGED <<account, claimable, dreState, waiting, work>>
  BY DEF HandleUpdateAllocation, Runs
<1>2. /\ ~trouble
      /\ adding' = adding
      /\ allocated' = allocated \/ (Lands /\ work.amount # Missing)
  <2>1. CASE /\ work.amount = Missing
             /\ UNCHANGED <<allocated, sent, adding, trouble>>
    BY <2>1
  <2>2. CASE /\ work.amount # Missing
             /\ \E passed \in BOOLEAN :
                  /\ UpdateAllocation(passed)
                  /\ adding' = adding \cup {Recovery(MaxRetries) : p \in {passed} \ {TRUE}}
    <3>1. PICK passed \in BOOLEAN :
                  /\ UpdateAllocation(passed)
                  /\ adding' = adding \cup {Recovery(MaxRetries) : p \in {passed} \ {TRUE}}
      BY <2>2
    <3>2. passed = TRUE /\ ~trouble
      BY <3>1 DEF UpdateAllocation
    <3>3. adding' = adding
      BY <3>1, <3>2
    <3> QED BY <2>2, <3>1, <3>2, <3>3 DEF UpdateAllocation
  <2> QED BY <2>1, <2>2 DEF HandleUpdateAllocation
<1>3. JobsOK /\ StatesOK /\ WaitingOK /\ WorkOK
  BY <1>2 DEF Grows
<1> DEFINE a == account[work.request]
<1>4. a \in Address /\ allocated \in [Address -> Int]
  BY <1>1, <1>3 DEF JobsOK, StatesOK
<1>5. JobsOK'
  BY <1>1, <1>2, <1>3 DEF JobsOK
<1>6. CASE allocated' = allocated
  <2>1. StatesOK' /\ WaitingOK' /\ WorkOK'
    BY <1>1, <1>3, <1>6 DEF StatesOK, WaitingOK, WorkOK, InOrder, Read
  <2> QED BY <1>3, <1>5, <1>6, <2>1 DEF Grows, GrowsNow, StatesOK
<1>7. CASE Lands /\ work.amount # Missing
  <2>1. Read(work.amount, a) /\ allocated[a] <= work.amount /\ work.amount \in Int
    BY <1>1, <1>3, <1>7 DEF WorkOK, Read
  <2>2. /\ allocated' \in [Address -> Int] /\ allocated'[a] = work.amount
        /\ \A b \in Address \ {a} : allocated'[b] = allocated[b]
    BY <1>4, <1>7, <2>1 DEF Lands
  <2>3. StatesOK'
    BY <1>1, <1>3, <2>1, <2>2 DEF StatesOK, Read
  <2>4. WaitingOK'
    <3>1. ASSUME NEW i \in 1..Len(waiting), waiting[i].amount # Missing
          PROVE  allocated'[account[waiting[i].request]] <= waiting[i].amount
      <4>1. account[waiting[i].request] \in Address
        BY <1>3 DEF JobsOK
      <4>2. CASE account[waiting[i].request] = a
        BY <1>1, <1>3, <1>7, <2>2, <3>1, <4>2 DEF WorkOK
      <4>3. CASE account[waiting[i].request] # a
        BY <1>3, <2>2, <3>1, <4>1, <4>3 DEF WaitingOK
      <4> QED BY <4>2, <4>3
    <3> QED BY <1>1, <1>3, <3>1 DEF WaitingOK, InOrder, Read
  <2>5. WorkOK'
    BY <1>1, <1>3, <1>7, <2>1, <2>2 DEF WorkOK, Read
  <2>6. GrowsNow
    BY <1>3, <2>1, <2>2 DEF GrowsNow, StatesOK
  <2> QED BY <1>5, <2>3, <2>4, <2>5, <2>6 DEF Grows
<1> QED BY <1>2, <1>6, <1>7

LEMMA ReturnGrows == ASSUME Grows, ~trouble', Return PROVE Grows' /\ GrowsNow
<1>1. /\ work # NoJob /\ returned /\ work' = NoJob /\ returned' = FALSE
      /\ UNCHANGED <<account, claimable, dreState, adding, allocated, trouble>>
  BY DEF Return, chain
<1>2. JobsOK /\ StatesOK /\ WaitingOK /\ WorkOK
  BY <1>1 DEF Grows
<1>3. StatesOK' /\ WorkOK'
  BY <1>1, <1>2 DEF StatesOK, WorkOK, Read
<1>4. CASE waiting' = waiting
  <2>1. JobsOK' /\ WaitingOK'
    BY <1>1, <1>2, <1>4 DEF JobsOK, WaitingOK, InOrder, Read
  <2> QED BY <1>1, <1>2, <1>3, <2>1 DEF Grows, GrowsNow, StatesOK
<1>5. CASE work.kind = "get" /\ waiting' = Append(waiting, [work EXCEPT !.kind = "update"])
  <2> DEFINE j == [work EXCEPT !.kind = "update"]
  <2>1. work \in Jobs
    BY <1>1, <1>2 DEF JobsOK
  <2>2. j \in Jobs /\ j.kind = "update" /\ j.amount = work.amount /\ j.request = work.request
    BY <2>1 DEF Jobs
  <2> HIDE DEF j
  <2>3. waiting \in Seq(Jobs) /\ Len(waiting) \in Nat
    BY <1>2, LenProperties DEF JobsOK
  <2>4. /\ waiting' \in Seq(Jobs) /\ Len(waiting') = Len(waiting) + 1
        /\ \A i \in 1..Len(waiting) : waiting'[i] = waiting[i]
        /\ waiting'[Len(waiting) + 1] = j
    <3>1. waiting' = Append(waiting, j)
      BY <1>5 DEF j
    <3> QED BY <2>2, <2>3, <3>1, AppendProperties
  <2>5. ASSUME NEW i \in 1..Len(waiting')
        PROVE  \/ i \in 1..Len(waiting) /\ waiting'[i] = waiting[i]
               \/ i = Len(waiting) + 1 /\ waiting'[i] = j
    BY <2>3, <2>4
  <2>6. JobsOK'
    BY <1>1, <1>2, <2>2, <2>4, <2>5 DEF JobsOK
  <2>7. ASSUME NEW i \in 1..Len(waiting'), waiting'[i].amount # Missing
        PROVE  LET a == account[waiting'[i].request] IN
                 Read(waiting'[i].amount, a) /\ allocated[a] <= waiting'[i].amount
    BY <1>1, <1>2, <2>2, <2>5, <2>7 DEF WaitingOK, WorkOK
  <2>8. ASSUME NEW i \in 1..Len(waiting'), NEW k \in 1..Len(waiting') PROVE InOrder(i, k)'
    <3>1. CASE i \in 1..Len(waiting) /\ k \in 1..Len(waiting)
      <4>1. InOrder(i, k)
        BY <1>2, <3>1 DEF WaitingOK
      <4> QED BY <1>1, <2>4, <3>1, <4>1 DEF InOrder
    <3>2. CASE i \in 1..Len(waiting) /\ k = Len(waiting) + 1
      BY <1>1, <1>2, <1>5, <2>2, <2>4, <3>2 DEF InOrder, WorkOK
    <3>3. CASE i = Len(waiting) + 1
      <4>1. ~(i < k)
        BY <2>3, <2>4, <3>3
      <4> QED BY <4>1 DEF InOrder
    <3> QED BY <2>5, <3>1, <3>2, <3>3
  <2>9. WaitingOK'
    BY <1>1, <2>7, <2>8 DEF WaitingOK, Read
  <2> QED BY <1>1, <1>2, <1>3, <2>6, <2>9 DEF Grows, GrowsNow, StatesOK
<1> QED BY <1>4, <1>5 DEF Return

\* A crash with no job under way is no trouble: what was read is lost with it.
LEMMA CrashGrows == ASSUME Grows, ~trouble', Crash PROVE Grows' /\ GrowsNow
<1>1. /\ dreState' = Missing /\ adding' = {} /\ work' = NoJob
      /\ UNCHANGED <<account, claimable>>
  BY DEF Crash
<1>2. work = NoJob /\ UNCHANGED <<waiting, allocated, trouble>>
  BY DEF Crash
<1>3. JobsOK /\ StatesOK /\ WaitingOK /\ WorkOK
  BY <1>2 DEF Grows
<1>4. JobsOK' /\ StatesOK' /\ WorkOK'
  BY <1>1, <1>2, <1>3 DEF JobsOK, StatesOK, WorkOK, Read
<1>5. WaitingOK'
  BY <1>1, <1>2, <1>3 DEF WaitingOK, InOrder, Read
<1> QED BY <1>2, <1>3, <1>4, <1>5 DEF Grows, GrowsNow, StatesOK

LEMMA NextGrows == Grows /\ [Next]_vars => Grows' /\ (~trouble' => GrowsNow)
<1> SUFFICES ASSUME Grows, [Next]_vars, ~trouble' PROVE Grows' /\ GrowsNow
  BY DEF Grows
<1>1. ASSUME UNCHANGED <<account, claimable, dreState, waiting, work, returned, adding,
                         allocated, trouble>>
      PROVE  Grows' /\ GrowsNow
  <2>1. JobsOK /\ StatesOK /\ WaitingOK /\ WorkOK
    BY <1>1 DEF Grows
  <2>2. JobsOK' /\ StatesOK'
    BY <1>1, <2>1 DEF JobsOK, StatesOK, Read
  <2>3. WaitingOK' /\ WorkOK'
    BY <1>1, <2>1 DEF WaitingOK, InOrder, WorkOK, Read
  <2> QED BY <1>1, <2>1, <2>2, <2>3 DEF Grows, GrowsNow, StatesOK
<1>2. CASE HandleRecoverUpdateAllocation
  <2>1. work # NoJob /\ work.kind = "recover"
    BY <1>2 DEF HandleRecoverUpdateAllocation, Runs
  <2>2. ~trouble
    BY <1>2 DEF HandleRecoverUpdateAllocation, UpdateAllocation
  <2> QED BY <2>1, <2>2 DEF Grows, JobsOK
<1>3. CASE Boot
  BY <1>1, <1>3 DEF Boot, chain
<1>4. CASE UNCHANGED vars
  BY <1>1, <1>4 DEF vars
<1> QED BY <1>2, <1>3, <1>4, EarnGrows, RequestingUpdateGrows, JobAddedGrows, DequeueGrows,
           GetCurrentRewardsGrows, HandleUpdateAllocationGrows, ReturnGrows, CrashGrows
        DEF Next, Worker

\* While no transaction fails, a later request never brings an earlier amount, whatever the age
\* of the state it was read from and whatever the process does with registrations.
THEOREM AllocationsOnlyGrow == EventsSpec => AllocationsGrow
<1>1. Grows /\ [Next]_vars => [~trouble' => \A a \in Address : allocated'[a] >= allocated[a]]_vars
  BY NextGrows DEF GrowsNow
<1>2. Grows /\ [Next]_vars => Grows'
  BY NextGrows
<1>3. Spec => AllocationsGrow
  BY <1>1, <1>2, InitGrows, PTL DEF Spec, AllocationsGrow
<1> QED BY <1>3, Composed, PTL

----------------------------------------------------------------------------
(* The work that a request still has.  A weight says how much a job of     *)
(* each kind is worth; the jobs of the queue, those given to Redis and the *)
(* one that runs are counted as tokens, a job of weight n with n of them,  *)
(* so that a sum over a sequence is the cardinality of a set.              *)

\* The jobs the queue may hold: their event was emitted, and a recovery has retries left.
Known == {j \in Jobs : /\ account[j.request] # Nobody
                       /\ j.kind = "recover" => j.retries > 0}

\* The transactions of a request without a crash.
Cap == 1 + MaxRetries
Weights == [Jobs -> 0..Cap]

\* n tokens of x; the tokens of a set of jobs; those of a sequence, at their places.
Block(x, n) == {x} \X (1..n)
Held(Q, A) == {x \in A \X (1..Cap) : x[2] <= Q[x[1]]}
Tokens(Q, s) == {x \in (1..Len(s)) \X (1..Cap) : x[2] <= Q[s[x[1]]]}

LEMMA BlockCount ==
  ASSUME NEW x, NEW n \in Nat
  PROVE  IsFiniteSet(Block(x, n)) /\ Cardinality(Block(x, n)) = n
<1>1. IsFiniteSet(1..n) /\ Cardinality(1..n) = n
  BY FS_Interval
<1>2. IsFiniteSet({x}) /\ Cardinality({x}) = 1
  BY FS_Singleton
<1>3. IsFiniteSet({x} \X (1..n)) /\ Cardinality({x} \X (1..n)) = 1 * n
  BY <1>1, <1>2, FS_Product
<1> QED BY <1>3 DEF Block

LEMMA CapNat == Cap \in Nat /\ MaxRetries \in Nat /\ MaxRetries > 0
BY FacilityAssumption DEF Cap

LEMMA HeldFinite ==
  ASSUME NEW Q \in Weights, NEW A, IsFiniteSet(A)
  PROVE  IsFiniteSet(Held(Q, A)) /\ Cardinality(Held(Q, A)) \in Nat
<1>1. IsFiniteSet(A \X (1..Cap))
  <2>1. Cap \in Int /\ IsFiniteSet(1..Cap)
    BY CapNat, FS_Interval
  <2> QED BY <2>1, FS_Product
<1>2. Held(Q, A) \in SUBSET (A \X (1..Cap))
  BY DEF Held
<1> QED BY <1>1, <1>2, FS_Subset, FS_CardinalityType

LEMMA TokensFinite ==
  ASSUME NEW Q \in Weights, NEW s \in Seq(Jobs)
  PROVE  IsFiniteSet(Tokens(Q, s)) /\ Cardinality(Tokens(Q, s)) \in Nat
<1>1. Len(s) \in Nat
  BY LenProperties
<1>2. IsFiniteSet((1..Len(s)) \X (1..Cap))
  <2>1. IsFiniteSet(1..Cap) /\ IsFiniteSet(1..Len(s))
    BY <1>1, CapNat, FS_Interval
  <2> QED BY <2>1, FS_Product
<1>3. Tokens(Q, s) \in SUBSET ((1..Len(s)) \X (1..Cap))
  BY DEF Tokens
<1> QED BY <1>2, <1>3, FS_Subset, FS_CardinalityType

LEMMA BlockOf ==
  ASSUME NEW Q \in Weights, NEW j \in Jobs
  PROVE  Q[j] \in Nat /\ Q[j] <= Cap
BY CapNat DEF Weights

LEMMA DisjointCount ==
  ASSUME NEW S, NEW T, IsFiniteSet(S), IsFiniteSet(T), S \cap T = {}
  PROVE  Cardinality(S \cup T) = Cardinality(S) + Cardinality(T)
<1>1. Cardinality(S) \in Nat /\ Cardinality(T) \in Nat
  BY FS_CardinalityType
<1>2. Cardinality(S \cup T) = Cardinality(S) + Cardinality(T) - Cardinality(S \cap T)
  BY FS_Union
<1> QED BY <1>1, <1>2, FS_EmptySet

LEMMA HeldLess ==
  ASSUME NEW Q \in Weights, NEW A \in SUBSET Jobs, IsFiniteSet(A), NEW j \in A
  PROVE  /\ IsFiniteSet(A \ {j})
         /\ Cardinality(Held(Q, A \ {j})) + Q[j] = Cardinality(Held(Q, A))
<1>1. Q[j] \in Nat /\ Q[j] <= Cap
  BY BlockOf
<1>2. Held(Q, A) = Held(Q, A \ {j}) \cup Block(j, Q[j])
  BY <1>1, CapNat DEF Held, Block
<1>3. Held(Q, A \ {j}) \cap Block(j, Q[j]) = {}
  BY DEF Held, Block
<1>4. IsFiniteSet(A \ {j})
  BY FS_RemoveElement
<1>5. IsFiniteSet(Held(Q, A \ {j})) /\ Cardinality(Held(Q, A \ {j})) \in Nat
  BY <1>4, HeldFinite
<1>6. IsFiniteSet(Block(j, Q[j])) /\ Cardinality(Block(j, Q[j])) = Q[j]
  BY <1>1, BlockCount
<1> QED BY <1>2, <1>3, <1>4, <1>5, <1>6, DisjointCount

LEMMA HeldMore ==
  ASSUME NEW Q \in Weights, NEW A \in SUBSET Jobs, IsFiniteSet(A), NEW j \in Jobs
  PROVE  /\ IsFiniteSet(A \cup {j})
         /\ Cardinality(Held(Q, A \cup {j})) <= Cardinality(Held(Q, A)) + Q[j]
<1>1. IsFiniteSet(A \cup {j})
  BY FS_AddElement
<1>2. CASE j \in A
  <2>1. A \cup {j} = A
    BY <1>2
  <2> QED BY <1>1, <2>1, HeldFinite, BlockOf
<1>3. CASE j \notin A
  <2>1. (A \cup {j}) \ {j} = A /\ A \cup {j} \in SUBSET Jobs
    BY <1>3
  <2>2. j \in A \cup {j}
    OBVIOUS
  <2> HIDE DEF Weights
  <2>3. Cardinality(Held(Q, A)) + Q[j] = Cardinality(Held(Q, A \cup {j}))
    BY <1>1, <2>1, <2>2, HeldLess
  <2> QED BY <1>1, <2>3, HeldFinite, BlockOf
<1> QED BY <1>2, <1>3

LEMMA TokensAppend ==
  ASSUME NEW Q \in Weights, NEW s \in Seq(Jobs), NEW j \in Jobs
  PROVE  Cardinality(Tokens(Q, Append(s, j))) = Cardinality(Tokens(Q, s)) + Q[j]
<1>1. Q[j] \in Nat /\ Q[j] <= Cap
  BY BlockOf
<1> DEFINE t == Append(s, j)
           n == Len(s) + 1
<1>2. /\ Len(s) \in Nat /\ Len(t) = n
      /\ \A i \in 1..Len(s) : t[i] = s[i]
      /\ t[n] = j
  BY AppendProperties, LenProperties
<1> HIDE DEF t
<1>3. Tokens(Q, t) = Tokens(Q, s) \cup Block(n, Q[j])
  <2>1. ASSUME NEW x \in Tokens(Q, t) PROVE x \in Tokens(Q, s) \cup Block(n, Q[j])
    <3>1. PICK i \in 1..n, k \in 1..Cap : x = <<i, k>> /\ k <= Q[t[i]]
      BY <1>2, <2>1 DEF Tokens
    <3>2. CASE i = n
      BY <1>1, <1>2, <3>1, <3>2, CapNat DEF Block
    <3>3. CASE i \in 1..Len(s)
      BY <1>2, <3>1, <3>3 DEF Tokens
    <3> QED BY <1>2, <3>1, <3>2, <3>3
  <2>2. Tokens(Q, s) \subseteq Tokens(Q, t)
    BY <1>2 DEF Tokens
  <2>3. Block(n, Q[j]) \subseteq Tokens(Q, t)
    BY <1>1, <1>2, CapNat DEF Tokens, Block
  <2> QED BY <2>1, <2>2, <2>3
<1>4. Tokens(Q, s) \cap Block(n, Q[j]) = {}
  BY <1>2 DEF Tokens, Block
<1>5. IsFiniteSet(Tokens(Q, s))
  BY TokensFinite
<1>6. IsFiniteSet(Block(n, Q[j])) /\ Cardinality(Block(n, Q[j])) = Q[j]
  BY <1>1, BlockCount
<1> QED BY <1>3, <1>4, <1>5, <1>6, DisjointCount DEF t

LEMMA TokensShift ==
  ASSUME NEW Q \in Weights, NEW s \in Seq(Jobs), NEW t \in Seq(Jobs),
         Len(s) = Len(t) + 1, \A i \in 1..Len(t) : s[i + 1] = t[i]
  PROVE  Cardinality(Tokens(Q, s)) = Cardinality(Tokens(Q, t)) + Q[s[1]]
<1>1. Len(t) \in Nat /\ Len(s) \in Nat
  BY LenProperties
<1>2. s[1] \in Jobs
  BY <1>1, ElementOfSeq
<1>3. Q[s[1]] \in Nat /\ Q[s[1]] <= Cap
  BY <1>2, BlockOf
<1> DEFINE Rest == {x \in Tokens(Q, s) : x[1] # 1}
           f == [x \in Tokens(Q, t) |-> <<x[1] + 1, x[2]>>]
<1>4. Tokens(Q, s) = Rest \cup Block(1, Q[s[1]])
  <2>1. ASSUME NEW x \in Tokens(Q, s), x[1] = 1 PROVE x \in Block(1, Q[s[1]])
    BY <1>3, <2>1, CapNat DEF Tokens, Block
  <2>2. Block(1, Q[s[1]]) \subseteq Tokens(Q, s)
    BY <1>1, <1>3, CapNat DEF Tokens, Block
  <2> QED BY <2>1, <2>2
<1>5. Rest \cap Block(1, Q[s[1]]) = {}
  BY DEF Block
<1>6. f \in Bijection(Tokens(Q, t), Rest)
  <2>1. ASSUME NEW x \in Tokens(Q, t) PROVE f[x] \in Rest
    <3>1. PICK i \in 1..Len(t), k \in 1..Cap : x = <<i, k>> /\ k <= Q[t[i]]
      BY <2>1 DEF Tokens
    <3>2. f[x] = <<i + 1, k>> /\ i + 1 \in 1..Len(s) /\ i + 1 # 1 /\ s[i + 1] = t[i]
      BY <1>1, <2>1, <3>1
    <3>3. <<i + 1, k>> \in Tokens(Q, s)
      BY <3>1, <3>2 DEF Tokens
    <3> QED BY <3>2, <3>3
  <2>2. ASSUME NEW x \in Tokens(Q, t), NEW y \in Tokens(Q, t), f[x] = f[y] PROVE x = y
    BY <1>1, <2>2 DEF Tokens
  <2>3. ASSUME NEW y \in Rest PROVE \E x \in Tokens(Q, t) : f[x] = y
    <3>1. PICK i \in 1..Len(s), k \in 1..Cap : y = <<i, k>> /\ k <= Q[s[i]] /\ i # 1
      BY <2>3 DEF Tokens
    <3>2. i - 1 \in 1..Len(t) /\ s[i] = t[i - 1]
      BY <1>1, <3>1
    <3>3. <<i - 1, k>> \in Tokens(Q, t)
      BY <3>1, <3>2 DEF Tokens
    <3>4. f[<<i - 1, k>>] = <<(i - 1) + 1, k>>
      BY <3>3
    <3> QED BY <1>1, <3>1, <3>3, <3>4
  <2> HIDE DEF f, Rest
  <2>4. f \in [Tokens(Q, t) -> Rest]
    BY <2>1 DEF f
  <2> QED BY <2>2, <2>3, <2>4, Fun_IsBij
<1> HIDE DEF f, Rest
<1>7. IsFiniteSet(Tokens(Q, t)) /\ Cardinality(Tokens(Q, t)) \in Nat
  BY TokensFinite
<1>8. IsFiniteSet(Rest) /\ Cardinality(Rest) = Cardinality(Tokens(Q, t))
  BY <1>6, <1>7, FS_Bijection DEF ExistsBijection
<1>9. IsFiniteSet(Block(1, Q[s[1]])) /\ Cardinality(Block(1, Q[s[1]])) = Q[s[1]]
  BY <1>3, BlockCount
<1> QED BY <1>4, <1>5, <1>8, <1>9, DisjointCount

\* Nothing weighs what no job weighs.
LEMMA NoTokens ==
  ASSUME NEW Q \in Weights, NEW S \in SUBSET Jobs, \A j \in S : Q[j] = 0
  PROVE  /\ \A A \in SUBSET S : Cardinality(Held(Q, A)) = 0
         /\ \A s \in Seq(S) : Cardinality(Tokens(Q, s)) = 0
<1>1. ASSUME NEW A \in SUBSET S PROVE Held(Q, A) = {}
  BY <1>1 DEF Held
<1>2. ASSUME NEW s \in Seq(S) PROVE Tokens(Q, s) = {}
  <2>1. \A i \in 1..Len(s) : s[i] \in S
    BY ElementOfSeq
  <2> QED BY <2>1 DEF Tokens
<1> QED BY <1>1, <1>2, FS_EmptySet

----------------------------------------------------------------------------
\* What the job that runs is worth until it is handed on, and all there is.
Running(Q) == IF work = NoJob \/ (returned /\ work.kind # "get") THEN 0 ELSE Q[work]
Pot(Q) == Cardinality(Tokens(Q, waiting)) + Cardinality(Held(Q, adding)) + Running(Q)

\* Where the jobs are.
Handed ==
  /\ waiting \in Seq(Known) /\ work \in Known \cup {NoJob}
  /\ adding \in SUBSET Known /\ IsFiniteSet(adding)
  /\ returned \in BOOLEAN /\ (work = NoJob => ~returned)

\* A weight that reading the rewards and starting the update do not change.
Steady(Q) ==
  \A j, k \in Jobs :
    j.request = k.request /\ j.kind # "recover" /\ k.kind # "recover" => Q[j] = Q[k]

LEMMA KnownJobs ==
  /\ Known \subseteq Jobs /\ Seq(Known) \subseteq Seq(Jobs)
  /\ NoJob \notin Known
BY FacilityAssumption DEF Known

LEMMA PotNat ==
  ASSUME NEW Q \in Weights, Handed
  PROVE  /\ Cardinality(Tokens(Q, waiting)) \in Nat /\ Cardinality(Held(Q, adding)) \in Nat
         /\ Running(Q) \in Nat /\ Pot(Q) \in Nat
<1>1. waiting \in Seq(Jobs) /\ (work # NoJob => work \in Jobs)
  BY KnownJobs DEF Handed
<1>2. Cardinality(Tokens(Q, waiting)) \in Nat
  BY <1>1, TokensFinite
<1>3. Cardinality(Held(Q, adding)) \in Nat
  BY HeldFinite DEF Handed
<1>4. Running(Q) \in Nat
  BY <1>1, BlockOf DEF Running
<1> QED BY <1>2, <1>3, <1>4 DEF Pot

LEMMA PotIsNat == \A Q \in Weights : Handed => Pot(Q) \in Nat
BY PotNat

LEMMA PotNatNext == \A Q \in Weights : Handed' => Pot(Q)' \in Nat
<1>1. (\A Q \in Weights : Handed => Pot(Q) \in Nat)'
  BY PotIsNat, PTL
<1> QED BY <1>1

LEMMA JobAddedPot ==
  ASSUME NEW Q \in Weights, Handed, JobAdded
  PROVE  Pot(Q)' = Pot(Q)
<1>1. PICK j \in adding : adding' = adding \ {j} /\ waiting' = Append(waiting, j)
  BY DEF JobAdded
<1>2. UNCHANGED <<work, returned>>
  BY DEF JobAdded
<1>3. j \in Jobs /\ waiting \in Seq(Jobs) /\ adding \in SUBSET Jobs /\ IsFiniteSet(adding)
  BY KnownJobs DEF Handed
<1>4. Cardinality(Tokens(Q, waiting')) = Cardinality(Tokens(Q, waiting)) + Q[j]
  BY <1>1, <1>3, TokensAppend
<1>5. Cardinality(Held(Q, adding')) + Q[j] = Cardinality(Held(Q, adding))
  BY <1>1, <1>3, HeldLess
<1>6. Running(Q)' = Running(Q)
  BY <1>2 DEF Running
<1>7. /\ Cardinality(Held(Q, adding)) \in Nat /\ Cardinality(Tokens(Q, waiting)) \in Nat
      /\ Running(Q) \in Nat
  BY PotNat
<1>8. Cardinality(Held(Q, adding')) \in Nat
  BY <1>1, <1>3, FS_RemoveElement, HeldFinite
<1>9. Q[j] \in Nat
  BY <1>3, BlockOf
<1> QED BY <1>4, <1>5, <1>6, <1>7, <1>8, <1>9 DEF Pot

LEMMA DequeuePot ==
  ASSUME NEW Q \in Weights, Handed, Dequeue
  PROVE  Pot(Q)' = Pot(Q)
<1>1. /\ work = NoJob /\ waiting # <<>> /\ work' = Head(waiting) /\ waiting' = Tail(waiting)
      /\ UNCHANGED <<returned, adding>> /\ ~returned
  BY DEF Dequeue, Handed
<1>2. /\ waiting' \in Seq(Known) /\ work' \in Known /\ work' = waiting[1]
      /\ Len(waiting) = Len(waiting') + 1
      /\ \A i \in 1..Len(waiting') : waiting[i + 1] = waiting'[i]
  <2>1. waiting \in Seq(Known)
    BY DEF Handed
  <2> QED BY <1>1, <2>1, HeadTailProperties, LenProperties
<1>3. waiting \in Seq(Jobs) /\ waiting' \in Seq(Jobs) /\ work' # NoJob /\ work' \in Jobs
  BY <1>2, KnownJobs DEF Handed
<1>4. Cardinality(Tokens(Q, waiting)) = Cardinality(Tokens(Q, waiting')) + Q[work']
  BY <1>2, <1>3, TokensShift
<1>5. Running(Q) = 0 /\ Running(Q)' = Q[work']
  BY <1>1, <1>3 DEF Running
<1>6. /\ Cardinality(Held(Q, adding)) \in Nat /\ Cardinality(Tokens(Q, waiting')) \in Nat
      /\ Q[work'] \in Nat
  BY <1>3, PotNat, TokensFinite, BlockOf
<1> QED BY <1>1, <1>4, <1>5, <1>6 DEF Pot

LEMMA ReturnPot ==
  ASSUME NEW Q \in Weights, Steady(Q), Handed, Return
  PROVE  Pot(Q)' = Pot(Q)
<1>1. /\ work # NoJob /\ returned /\ work' = NoJob /\ returned' = FALSE
      /\ adding' = adding
  BY DEF Return
<1>2. work \in Jobs /\ waiting \in Seq(Jobs)
  BY <1>1, KnownJobs DEF Handed
<1>3. Running(Q)' = 0
  BY <1>1 DEF Running
<1>4. /\ Cardinality(Held(Q, adding)) \in Nat /\ Cardinality(Tokens(Q, waiting)) \in Nat
  BY PotNat
<1>5. CASE work.kind = "get"
  <2> DEFINE j == [work EXCEPT !.kind = "update"]
  <2>1. j \in Jobs /\ j.request = work.request /\ j.kind = "update"
    BY <1>2 DEF Jobs
  <2>2. waiting' = Append(waiting, j)
    BY <1>5 DEF Return
  <2> HIDE DEF j
  <2>3. Q[j] = Q[work] /\ Q[j] \in Nat
    BY <1>2, <1>5, <2>1, BlockOf DEF Steady
  <2>4. Cardinality(Tokens(Q, waiting')) = Cardinality(Tokens(Q, waiting)) + Q[work]
    BY <1>2, <2>1, <2>2, <2>3, TokensAppend
  <2>5. Running(Q) = Q[work]
    BY <1>1, <1>5 DEF Running
  <2> QED BY <1>1, <1>3, <1>4, <2>3, <2>4, <2>5 DEF Pot
<1>6. CASE work.kind # "get"
  <2>1. waiting' = waiting /\ Running(Q) = 0
    BY <1>1, <1>6 DEF Return, Running
  <2> QED BY <1>1, <1>3, <1>4, <2>1 DEF Pot
<1> QED BY <1>5, <1>6

\* A handler that returns gives up its job, for a recovery or for none.
LEMMA HandlerPot ==
  ASSUME NEW Q \in Weights, NEW j \in Jobs, Handed,
         work # NoJob, ~returned, work.kind # "get", returned' = TRUE,
         UNCHANGED <<waiting, work>>
  PROVE  /\ adding' = adding => Pot(Q)' + Q[work] = Pot(Q)
         /\ adding' = adding \cup {j} => Pot(Q)' + Q[work] <= Pot(Q) + Q[j]
<1>1. work \in Jobs /\ adding \in SUBSET Jobs /\ IsFiniteSet(adding)
  BY KnownJobs DEF Handed
<1>2. Running(Q) = Q[work] /\ Running(Q)' = 0
  BY DEF Running
<1>3. /\ Cardinality(Held(Q, adding)) \in Nat /\ Cardinality(Tokens(Q, waiting)) \in Nat
      /\ Q[work] \in Nat /\ Q[j] \in Nat
  BY <1>1, PotNat, BlockOf
<1>4. ASSUME adding' = adding PROVE Pot(Q)' + Q[work] = Pot(Q)
  BY <1>2, <1>3, <1>4 DEF Pot
<1>5. ASSUME adding' = adding \cup {j} PROVE Pot(Q)' + Q[work] <= Pot(Q) + Q[j]
  <2>1. IsFiniteSet(adding') /\ Cardinality(Held(Q, adding')) <= Cardinality(Held(Q, adding)) + Q[j]
    BY <1>1, <1>5, HeldMore
  <2>2. Cardinality(Held(Q, adding')) \in Nat
    BY <2>1, HeldFinite
  <2> QED BY <1>2, <1>3, <1>5, <2>1, <2>2 DEF Pot
<1> QED BY <1>4, <1>5

\* What a crash puts back.
LEMMA CrashPot ==
  ASSUME NEW Q \in Weights, Steady(Q), Handed, Crash
  PROVE  /\ work = NoJob => Pot(Q)' <= Pot(Q)
         /\ work # NoJob => Pot(Q)' <= Pot(Q) + Q[work]
         /\ work # NoJob /\ Running(Q) = Q[work] => Pot(Q)' <= Pot(Q)
<1>1. adding' = {} /\ work' = NoJob
  BY DEF Crash
<1>2. Running(Q)' = 0 /\ Cardinality(Held(Q, adding')) = 0
  <2>1. Held(Q, adding') = {}
    BY <1>1 DEF Held
  <2> QED BY <1>1, <2>1, FS_EmptySet DEF Running
<1>3. waiting \in Seq(Jobs) /\ (work # NoJob => work \in Jobs)
  BY KnownJobs DEF Handed
<1>4. /\ Cardinality(Held(Q, adding)) \in Nat /\ Cardinality(Tokens(Q, waiting)) \in Nat
      /\ Running(Q) \in Nat
  BY PotNat
<1>5. CASE waiting' = waiting
  <2>1. work # NoJob => Q[work] \in Nat
    BY <1>3, BlockOf
  <2> QED BY <1>2, <1>4, <1>5, <2>1 DEF Pot
<1>6. ASSUME work # NoJob, NEW j \in Jobs, Q[j] = Q[work], waiting' = <<j>> \o waiting
      PROVE  Cardinality(Tokens(Q, waiting')) = Cardinality(Tokens(Q, waiting)) + Q[work]
  <2>1. <<j>> \in Seq(Jobs) /\ Len(<<j>>) = 1 /\ <<j>>[1] = j
    OBVIOUS
  <2>2. Len(waiting) \in Nat
    BY <1>3, LenProperties
  <2>3. /\ waiting' \in Seq(Jobs) /\ Len(waiting') = 1 + Len(waiting)
        /\ \A i \in 1..1 + Len(waiting) : waiting'[i] = IF i <= 1 THEN <<j>>[i] ELSE waiting[i - 1]
    BY <1>3, <1>6, <2>1, ConcatProperties
  <2>4. /\ Len(waiting') = Len(waiting) + 1 /\ waiting'[1] = j
        /\ \A i \in 1..Len(waiting) : waiting'[i + 1] = waiting[i]
    <3>1. 1 \in 1..1 + Len(waiting)
      BY <2>2
    <3>2. ASSUME NEW i \in 1..Len(waiting) PROVE waiting'[i + 1] = waiting[i]
      <4>1. i + 1 \in 1..1 + Len(waiting) /\ ~(i + 1 <= 1) /\ (i + 1) - 1 = i
        BY <2>2
      <4> QED BY <2>3, <4>1
    <3> QED BY <2>1, <2>2, <2>3, <3>1, <3>2
  <2> QED BY <1>3, <1>6, <2>3, <2>4, TokensShift
<1>7. CASE work # NoJob /\ waiting' # waiting
  <2> DEFINE j == IF work.kind = "get" THEN GetJob(work.request) ELSE work
  <2>1. waiting' = <<j>> \o waiting
    BY <1>7 DEF Crash
  <2>2. j \in Jobs /\ Q[j] = Q[work]
    <3>1. work \in Jobs /\ work.request \in Requests
      BY <1>3, <1>7 DEF Jobs
    <3>2. /\ GetJob(work.request) \in Jobs /\ GetJob(work.request).kind = "get"
          /\ GetJob(work.request).request = work.request
      BY <3>1, FacilityAssumption DEF GetJob, Jobs
    <3> QED BY <3>1, <3>2 DEF Steady
  <2> HIDE DEF j
  <2>3. Cardinality(Tokens(Q, waiting')) = Cardinality(Tokens(Q, waiting)) + Q[work]
    BY <1>6, <1>7, <2>1, <2>2
  <2>4. Q[work] \in Nat
    BY <1>3, <1>7, BlockOf
  <2> QED BY <1>2, <1>4, <1>7, <2>3, <2>4 DEF Pot
<1>8. CASE work = NoJob /\ waiting' # waiting
  BY <1>8 DEF Crash
<1> QED BY <1>5, <1>7, <1>8

----------------------------------------------------------------------------
\* The weights of the two bounds: a job of the request q counts one, or as many as the
\* transactions it may still send.
OneOf(q) == [j \in Jobs |-> IF j.request = q THEN 1 ELSE 0]
DueOf(q) == [j \in Jobs |-> IF j.request # q THEN 0
                            ELSE IF j.kind = "recover" THEN j.retries ELSE Cap]

LEMMA WeightsOf ==
  ASSUME NEW q \in Requests
  PROVE  /\ OneOf(q) \in Weights /\ Steady(OneOf(q))
         /\ DueOf(q) \in Weights /\ Steady(DueOf(q))
<1>1. \A j \in Jobs : j.retries \in 0..Cap
  BY CapNat DEF Jobs, Cap
<1>2. OneOf(q) \in Weights /\ DueOf(q) \in Weights
  BY <1>1, CapNat DEF OneOf, DueOf, Weights, Cap
<1>3. Steady(OneOf(q)) /\ Steady(DueOf(q))
  BY DEF OneOf, DueOf, Steady
<1> QED BY <1>2, <1>3

Types ==
  /\ account \in [Requests -> Address \cup {Nobody}]
  /\ claimable \in [Address -> Amounts]
  /\ dreState \in [Address -> Amounts] \cup {Missing}
  /\ sent \in [Requests -> Nat] /\ crashes \in Nat
  /\ \A q \in Requests : account[q] = Nobody => sent[q] = 0

Bound(q) ==
  /\ Pot(OneOf(q)) <= 1 + crashes
  /\ sent[q] + Pot(DueOf(q)) <= Cap * (1 + crashes)

\* The inductive invariant: what was sent and what may still be sent stay within the bound.
Chains == Types /\ Handed /\ \A q \in Requests : Bound(q)

LEMMA CapTimes == \A n \in Nat : /\ Cap * (1 + n) \in Nat /\ Cap <= Cap * (1 + n)
                                  /\ Cap * (1 + (n + 1)) = Cap * (1 + n) + Cap
<1>1. \A c, n \in Nat : /\ c * (1 + n) \in Nat /\ c <= c * (1 + n)
                         /\ c * (1 + (n + 1)) = c * (1 + n) + c
  <2> SUFFICES ASSUME NEW c \in Nat, NEW n \in Nat
               PROVE  /\ c * (1 + n) \in Nat /\ c <= c * (1 + n)
                      /\ c * (1 + (n + 1)) = c * (1 + n) + c
    OBVIOUS
  <2>1. c * n \in Nat /\ c * (1 + n) = c + c * n
    OBVIOUS
  <2>2. c * (1 + (n + 1)) = c * (1 + n) + c
    OBVIOUS
  <2> QED BY <2>1, <2>2
<1> QED BY <1>1, CapNat

\* Work that only changes hands.
LEMMA BoundKept ==
  ASSUME Types, Handed, NEW q \in Requests, Bound(q),
         UNCHANGED <<sent, crashes>>,
         \A Q \in Weights : Steady(Q) => Pot(Q)' <= Pot(Q), Handed'
  PROVE  Bound(q)'
<1>1. PICK one, due \in Weights : /\ one = OneOf(q) /\ due = DueOf(q)
                                  /\ Steady(one) /\ Steady(due)
  BY WeightsOf
<1>2. Pot(one)' <= Pot(one) /\ Pot(due)' <= Pot(due)
  BY <1>1
<1>3. Pot(one) \in Nat /\ Pot(due) \in Nat
  BY PotNat
<1>4. Pot(one)' \in Nat /\ Pot(due)' \in Nat
  BY PotNatNext
<1>5. sent[q] \in Nat /\ crashes \in Nat /\ Cap * (1 + crashes) \in Nat
  BY CapTimes DEF Types
<1>6. Pot(one) <= 1 + crashes /\ sent[q] + Pot(due) <= Cap * (1 + crashes)
  BY <1>1 DEF Bound
<1>7. Pot(one)' <= 1 + crashes' /\ sent'[q] + Pot(due)' <= Cap * (1 + crashes')
  BY <1>2, <1>3, <1>4, <1>5, <1>6
<1> QED BY <1>1, <1>7 DEF Bound

LEMMA KnownKept == account' = account => Known' = Known
BY DEF Known

LEMMA KnownGrows == ASSUME Types, NEW q \in Requests, NEW a \in Address, RequestingUpdate(q, a)
                    PROVE  Known \subseteq Known' /\ Seq(Known) \subseteq Seq(Known')
<1>1. account' = [account EXCEPT ![q] = a]
  BY DEF RequestingUpdate
<1>2. \A r \in Requests : account[r] # Nobody => account'[r] # Nobody
  BY <1>1, FacilityAssumption DEF Types
<1>3. Known \subseteq Known'
  BY <1>2 DEF Known, Jobs
<1> QED BY <1>3

LEMMA RequestingUpdateChains ==
  ASSUME Chains, NEW r \in Requests, NEW a \in Address, RequestingUpdate(r, a)
  PROVE  Chains'
<1>1. /\ account[r] = Nobody /\ account' = [account EXCEPT ![r] = a]
      /\ adding' = adding \/ adding' = adding \cup {GetJob(r)}
      /\ UNCHANGED <<claimable, dreState, sent, crashes, waiting, work, returned>>
  <2>1. adding' = adding \cup {GetJob(p) : p \in {r} \cap {q \in Requests : up}}
    BY DEF RequestingUpdate
  <2>2. adding' = adding \/ adding' = adding \cup {GetJob(r)}
    BY <2>1
  <2> QED BY <2>2 DEF RequestingUpdate, chain
<1>2. Types /\ Handed /\ Known \subseteq Known' /\ Seq(Known) \subseteq Seq(Known')
  BY KnownGrows DEF Chains
<1>3. Types'
  BY <1>1, <1>2, FacilityAssumption DEF Types
<1>4. account'[r] = a /\ account'[r] # Nobody
  BY <1>1, <1>2, FacilityAssumption DEF Types
<1>5. GetJob(r) \in Jobs /\ GetJob(r).kind = "get" /\ GetJob(r).request = r
  BY FacilityAssumption DEF GetJob, Jobs
<1>6. GetJob(r) \in Known'
  BY <1>4, <1>5 DEF Known
<1>7. adding \in SUBSET Jobs /\ IsFiniteSet(adding)
  BY <1>2, KnownJobs DEF Handed
<1>8. Handed'
  <2>1. IsFiniteSet(adding')
    BY <1>1, <1>7, FS_AddElement
  <2>2. adding' \in SUBSET Known'
    BY <1>1, <1>2, <1>6 DEF Handed
  <2> QED BY <1>1, <1>2, <2>1, <2>2 DEF Handed
<1>9. ASSUME NEW Q \in Weights
      PROVE  Pot(Q)' <= Pot(Q) + Q[GetJob(r)]
  <2>1. Cardinality(Held(Q, adding')) <= Cardinality(Held(Q, adding)) + Q[GetJob(r)]
    <3>1. Cardinality(Held(Q, adding)) \in Nat /\ Q[GetJob(r)] \in Nat
      BY <1>2, <1>5, PotNat, BlockOf
    <3>2. CASE adding' = adding
      BY <3>1, <3>2
    <3>3. CASE adding' = adding \cup {GetJob(r)}
      BY <1>5, <1>7, <3>3, HeldMore
    <3> QED BY <1>1, <3>2, <3>3
  <2>2. Running(Q)' = Running(Q)
    BY <1>1 DEF Running
  <2>3. Cardinality(Held(Q, adding')) \in Nat
    BY <1>8, HeldFinite DEF Handed
  <2>4. /\ Cardinality(Held(Q, adding)) \in Nat /\ Cardinality(Tokens(Q, waiting)) \in Nat
        /\ Running(Q) \in Nat /\ Q[GetJob(r)] \in Nat
    BY <1>2, <1>5, PotNat, BlockOf
  <2> QED BY <1>1, <2>1, <2>2, <2>3, <2>4 DEF Pot
<1>10. ASSUME NEW q \in Requests PROVE Bound(q)'
  <2>1. PICK one, due \in Weights : one = OneOf(q) /\ due = DueOf(q)
    BY WeightsOf
  <2>2. /\ Pot(one) \in Nat /\ Pot(due) \in Nat /\ Pot(one)' \in Nat /\ Pot(due)' \in Nat
        /\ sent[q] \in Nat /\ crashes \in Nat /\ Cap * (1 + crashes) \in Nat
        /\ Cap <= Cap * (1 + crashes) /\ Cap \in Nat
    BY <1>2, <1>8, PotNat, PotNatNext, CapTimes, CapNat DEF Types
  <2>3. /\ Pot(one) <= 1 + crashes /\ sent[q] + Pot(due) <= Cap * (1 + crashes)
    BY <2>1 DEF Chains, Bound
  <2>4. Pot(one)' <= Pot(one) + one[GetJob(r)] /\ Pot(due)' <= Pot(due) + due[GetJob(r)]
    BY <1>9
  <2>5. CASE q = r
    <3>1. one[GetJob(r)] = 1 /\ due[GetJob(r)] = Cap
      BY <1>5, <2>1, <2>5 DEF OneOf, DueOf
    <3>2. \A j \in Known : one[j] = 0 /\ due[j] = 0
      BY <1>1, <2>1, <2>5 DEF Known, OneOf, DueOf
    <3>3. Pot(one) = 0 /\ Pot(due) = 0
      <4>1. Known \in SUBSET Jobs
        BY KnownJobs
      <4>2. /\ Cardinality(Tokens(one, waiting)) = 0 /\ Cardinality(Held(one, adding)) = 0
            /\ Cardinality(Tokens(due, waiting)) = 0 /\ Cardinality(Held(due, adding)) = 0
        BY <1>2, <3>2, <4>1, NoTokens DEF Handed
      <4>3. Running(one) = 0 /\ Running(due) = 0
        BY <1>2, <3>2 DEF Running, Handed
      <4> QED BY <4>2, <4>3 DEF Pot
    <3>4. sent[q] = 0
      BY <1>1, <1>2, <2>5 DEF Types
    <3>5. Pot(one)' <= 1 + crashes' /\ sent'[q] + Pot(due)' <= Cap * (1 + crashes')
      BY <1>1, <2>2, <2>4, <3>1, <3>3, <3>4
    <3> QED BY <2>1, <3>5 DEF Bound
  <2>6. CASE q # r
    <3>1. one[GetJob(r)] = 0 /\ due[GetJob(r)] = 0
      BY <1>5, <2>1, <2>6 DEF OneOf, DueOf
    <3>2. Pot(one)' <= 1 + crashes' /\ sent'[q] + Pot(due)' <= Cap * (1 + crashes')
      BY <1>1, <2>2, <2>3, <2>4, <3>1
    <3> QED BY <2>1, <3>2 DEF Bound
  <2> QED BY <2>5, <2>6
<1> QED BY <1>3, <1>8, <1>10 DEF Chains

LEMMA MoveChains ==
  ASSUME Chains, Types', Handed', UNCHANGED <<sent, crashes>>,
         \A Q \in Weights : Steady(Q) => Pot(Q)' <= Pot(Q)
  PROVE  Chains'
BY BoundKept DEF Chains

LEMMA JobAddedChains == ASSUME Chains, JobAdded PROVE Chains'
<1>1. PICK j \in adding : adding' = adding \ {j} /\ waiting' = Append(waiting, j)
  BY DEF JobAdded
<1>2. UNCHANGED <<account, claimable, dreState, sent, crashes, work, returned>>
  BY DEF JobAdded, chain
<1>3. Types /\ Handed /\ Known' = Known
  BY <1>2, KnownKept DEF Chains
<1>4. Types'
  BY <1>2, <1>3 DEF Types
<1>5. Handed'
  <2>1. waiting' \in Seq(Known)
    BY <1>1, <1>3, AppendProperties DEF Handed
  <2>2. IsFiniteSet(adding')
    BY <1>1, <1>3, FS_RemoveElement DEF Handed
  <2> QED BY <1>1, <1>2, <1>3, <2>1, <2>2 DEF Handed
<1>6. \A Q \in Weights : Pot(Q)' <= Pot(Q)
  BY <1>3, JobAddedPot, PotNat
<1> QED BY <1>2, <1>4, <1>5, <1>6, MoveChains

LEMMA DequeueChains == ASSUME Chains, Dequeue PROVE Chains'
<1>1. /\ work = NoJob /\ waiting # <<>> /\ work' = Head(waiting) /\ waiting' = Tail(waiting)
      /\ UNCHANGED <<account, claimable, dreState, sent, crashes, adding, returned>>
  BY DEF Dequeue, chain
<1>2. Types /\ Handed /\ Known' = Known
  BY <1>1, KnownKept DEF Chains
<1>3. Types'
  BY <1>1, <1>2 DEF Types
<1>4. waiting' \in Seq(Known) /\ work' \in Known
  BY <1>1, <1>2, HeadTailProperties DEF Handed
<1>5. Handed'
  BY <1>1, <1>2, <1>4, KnownJobs DEF Handed
<1>6. \A Q \in Weights : Pot(Q)' <= Pot(Q)
  BY <1>2, DequeuePot, PotNat
<1> QED BY <1>1, <1>3, <1>5, <1>6, MoveChains

LEMMA GetCurrentRewardsChains == ASSUME Chains, GetCurrentRewards PROVE Chains'
<1>1. /\ work # NoJob /\ ~returned /\ work.kind = "get" /\ returned' = TRUE
      /\ dreState' \in {dreState, claimable}
      /\ work' = [work EXCEPT !.amount = Rewards]
      /\ UNCHANGED <<account, claimable, sent, crashes, waiting, adding>>
  BY DEF GetCurrentRewards, Runs, chain
<1>2. Types /\ Handed /\ Known' = Known
  BY <1>1, KnownKept DEF Chains
<1>3. Types'
  BY <1>1, <1>2 DEF Types
<1>4. work \in Known /\ work \in Jobs /\ account[work.request] \in Address
  BY <1>1, <1>2 DEF Handed, Known, Types, Jobs
<1>5. Rewards \in Amounts \cup {Missing}
  BY <1>3, <1>4 DEF Rewards, Types
<1>6. /\ work' \in Jobs /\ work'.kind = "get" /\ work'.request = work.request
  BY <1>1, <1>4, <1>5 DEF Jobs
<1>7. work' \in Known /\ work' # NoJob
  BY <1>4, <1>6, KnownJobs DEF Known
<1>8. Handed'
  BY <1>1, <1>2, <1>7 DEF Handed
<1>9. ASSUME NEW Q \in Weights, Steady(Q) PROVE Pot(Q)' <= Pot(Q)
  <2>1. Q[work'] = Q[work]
    BY <1>1, <1>4, <1>6, <1>9 DEF Steady
  <2>2. Running(Q)' = Running(Q)
    BY <1>1, <1>6, <1>7, <2>1 DEF Running
  <2>3. Pot(Q)' = Pot(Q) /\ Pot(Q) \in Nat
    BY <1>1, <1>2, <2>2, PotNat DEF Pot
  <2> QED BY <2>3
<1> QED BY <1>1, <1>3, <1>8, <1>9, MoveChains

LEMMA ReturnChains == ASSUME Chains, Return PROVE Chains'
<1>1. /\ work # NoJob /\ returned /\ work' = NoJob /\ returned' = FALSE
      /\ UNCHANGED <<account, claimable, dreState, sent, crashes, adding>>
  BY DEF Return, chain
<1>2. Types /\ Handed /\ Known' = Known
  BY <1>1, KnownKept DEF Chains
<1>3. Types'
  BY <1>1, <1>2 DEF Types
<1>4. waiting' \in Seq(Known)
  <2>1. work \in Known /\ waiting \in Seq(Known)
    BY <1>1, <1>2 DEF Handed
  <2>2. [work EXCEPT !.kind = "update"] \in Known
    BY <2>1 DEF Known, Jobs
  <2> QED BY <2>1, <2>2, AppendProperties DEF Return
<1>5. Handed'
  BY <1>1, <1>2, <1>4 DEF Handed
<1>6. \A Q \in Weights : Steady(Q) => Pot(Q)' <= Pot(Q)
  BY <1>2, ReturnPot, PotNat
<1> QED BY <1>1, <1>3, <1>5, <1>6, MoveChains

\* A handler that sends a transaction, and what it hands the job on to.
LEMMA SendChains ==
  ASSUME Chains, work # NoJob, ~returned, work.kind # "get", returned' = TRUE,
         NEW j \in Jobs, j.kind = "recover", j.request = work.request,
         j.retries + 1 <= (IF work.kind = "recover" THEN work.retries ELSE Cap),
         adding' = adding \/ (adding' = adding \cup {j} /\ j.retries > 0),
         UNCHANGED <<account, claimable, dreState, waiting, work, crashes>>,
         sent' = [sent EXCEPT ![work.request] = @ + 1]
  PROVE  Chains'
<1>1. Types /\ Handed /\ Known' = Known
  BY KnownKept DEF Chains
<1>2. work \in Known /\ work \in Jobs /\ work.request \in Requests
      /\ account[work.request] # Nobody
  BY <1>1 DEF Handed, Known, Jobs
<1>3. Types'
  BY <1>1, <1>2 DEF Types
<1>4. j.retries > 0 => j \in Known
  BY <1>2 DEF Known
<1>5. Handed'
  <2>1. IsFiniteSet(adding') /\ adding' \in SUBSET Known
    BY <1>1, <1>4, FS_AddElement DEF Handed
  <2> QED BY <1>1, <2>1 DEF Handed
<1>6. ASSUME NEW Q \in Weights, Q[j] <= Q[work] PROVE Pot(Q)' <= Pot(Q)
  <2>1. /\ Pot(Q) \in Nat /\ Pot(Q)' \in Nat /\ Q[j] \in Nat /\ Q[work] \in Nat
    BY <1>1, <1>2, <1>5, PotNat, PotNatNext, BlockOf
  <2>2. \/ Pot(Q)' + Q[work] = Pot(Q)
        \/ Pot(Q)' + Q[work] <= Pot(Q) + Q[j]
    BY <1>1, HandlerPot
  <2> QED BY <1>6, <2>1, <2>2
<1>7. ASSUME NEW Q \in Weights, Q[j] + 1 <= Q[work] PROVE Pot(Q)' + 1 <= Pot(Q)
  <2>1. /\ Pot(Q) \in Nat /\ Pot(Q)' \in Nat /\ Q[j] \in Nat /\ Q[work] \in Nat
    BY <1>1, <1>2, <1>5, PotNat, PotNatNext, BlockOf
  <2>2. \/ Pot(Q)' + Q[work] = Pot(Q)
        \/ Pot(Q)' + Q[work] <= Pot(Q) + Q[j]
    BY <1>1, HandlerPot
  <2> QED BY <1>7, <2>1, <2>2
<1>8. ASSUME NEW q \in Requests PROVE Bound(q)'
  <2>1. PICK one, due \in Weights : one = OneOf(q) /\ due = DueOf(q)
    BY WeightsOf
  <2>2. /\ Pot(one) \in Nat /\ Pot(due) \in Nat /\ Pot(one)' \in Nat /\ Pot(due)' \in Nat
        /\ sent[q] \in Nat /\ sent'[q] \in Nat /\ crashes \in Nat
        /\ Cap * (1 + crashes) \in Nat
    BY <1>1, <1>3, <1>5, PotNat, PotNatNext, CapTimes DEF Types
  <2>3. /\ Pot(one) <= 1 + crashes /\ sent[q] + Pot(due) <= Cap * (1 + crashes)
    BY <2>1 DEF Chains, Bound
  <2>4. Pot(one)' <= Pot(one)
    <3>1. one[j] = one[work] /\ one[j] \in Nat
      BY <1>2, <2>1 DEF OneOf
    <3> QED BY <1>6, <3>1
  <2>5. sent'[q] + Pot(due)' <= sent[q] + Pot(due)
    <3>1. CASE q = work.request
      <4>1. /\ due[j] = j.retries
            /\ due[work] = IF work.kind = "recover" THEN work.retries ELSE Cap
        BY <1>2, <2>1, <3>1 DEF DueOf
      <4>2. Pot(due)' + 1 <= Pot(due)
        BY <1>7, <4>1
      <4>3. sent'[q] = sent[q] + 1
        BY <1>1, <3>1 DEF Types
      <4> QED BY <2>2, <4>2, <4>3
    <3>2. CASE q # work.request
      <4>1. due[j] = 0 /\ due[work] = 0
        BY <1>2, <2>1, <3>2 DEF DueOf
      <4>2. Pot(due)' <= Pot(due)
        BY <1>6, <4>1
      <4>3. sent'[q] = sent[q]
        BY <1>1, <3>2 DEF Types
      <4> QED BY <2>2, <4>2, <4>3
    <3> QED BY <3>1, <3>2
  <2>6. Pot(one)' <= 1 + crashes' /\ sent'[q] + Pot(due)' <= Cap * (1 + crashes')
    BY <2>2, <2>3, <2>4, <2>5
  <2> QED BY <2>1, <2>6 DEF Bound
<1> QED BY <1>3, <1>5, <1>8 DEF Chains

\* A handler that ends the request sends nothing.
LEMMA DropChains ==
  ASSUME Chains, work # NoJob, ~returned, work.kind # "get", returned' = TRUE,
         UNCHANGED <<account, claimable, dreState, waiting, work, adding, crashes, sent>>
  PROVE  Chains'
<1>1. Types /\ Handed /\ Known' = Known
  BY KnownKept DEF Chains
<1>2. Types' /\ Handed'
  BY <1>1 DEF Types, Handed
<1>3. work \in Jobs
  BY <1>1, KnownJobs DEF Handed
<1>4. ASSUME NEW Q \in Weights PROVE Pot(Q)' <= Pot(Q)
  <2>1. /\ Pot(Q) \in Nat /\ Pot(Q)' \in Nat /\ Q[work] \in Nat
    BY <1>1, <1>2, <1>3, PotNat, PotNatNext, BlockOf
  <2>2. Pot(Q)' + Q[work] = Pot(Q)
    BY <1>1, <1>3, HandlerPot
  <2> QED BY <2>1, <2>2
<1> QED BY <1>2, <1>4, MoveChains

LEMMA RecoveryTyped ==
  ASSUME work \in Jobs, NEW n \in 0..MaxRetries
  PROVE  /\ Recovery(n) \in Jobs /\ Recovery(n).kind = "recover"
         /\ Recovery(n).request = work.request /\ Recovery(n).retries = n
BY DEF Recovery, Jobs

LEMMA HandleUpdateAllocationChains == ASSUME Chains, HandleUpdateAllocation PROVE Chains'
<1>1. /\ work # NoJob /\ ~returned /\ work.kind = "update" /\ returned' = TRUE
      /\ UNCHANGED <<account, claimable, dreState, waiting, work, crashes>>
  BY DEF HandleUpdateAllocation, Runs
<1>2. CASE UNCHANGED <<allocated, sent, adding, trouble>>
  BY <1>1, <1>2, DropChains
<1>3. CASE \E passed \in BOOLEAN :
             /\ UpdateAllocation(passed)
             /\ adding' = adding \cup {Recovery(MaxRetries) : p \in {passed} \ {TRUE}}
  <2>1. PICK passed \in BOOLEAN :
             /\ UpdateAllocation(passed)
             /\ adding' = adding \cup {Recovery(MaxRetries) : p \in {passed} \ {TRUE}}
    BY <1>3
  <2>2. adding' \in {adding, adding \cup {Recovery(MaxRetries)}}
    BY <2>1
  <2>3. sent' = [sent EXCEPT ![work.request] = @ + 1]
    BY <2>1 DEF UpdateAllocation
  <2>4. work \in Jobs
    BY <1>1, KnownJobs DEF Chains, Handed
  <2>5. MaxRetries \in 0..MaxRetries
    BY CapNat
  <2>6. PICK j : j = Recovery(MaxRetries)
    OBVIOUS
  <2>7. /\ j \in Jobs /\ j.kind = "recover" /\ j.request = work.request
        /\ j.retries = MaxRetries
    BY <2>4, <2>5, <2>6, RecoveryTyped
  <2>8. j.retries > 0 /\ j.retries + 1 <= (IF work.kind = "recover" THEN work.retries ELSE Cap)
    BY <1>1, <2>7, CapNat DEF Cap
  <2> QED BY <1>1, <2>2, <2>3, <2>6, <2>7, <2>8, SendChains
<1> QED BY <1>2, <1>3 DEF HandleUpdateAllocation

LEMMA HandleRecoverUpdateAllocationChains ==
  ASSUME Chains, HandleRecoverUpdateAllocation PROVE Chains'
<1>1. /\ work # NoJob /\ ~returned /\ work.kind = "recover" /\ returned' = TRUE
      /\ UNCHANGED <<account, claimable, dreState, waiting, work, crashes>>
  BY DEF HandleRecoverUpdateAllocation, Runs
<1>2. PICK passed \in BOOLEAN :
        /\ UpdateAllocation(passed)
        /\ adding' = adding \cup {Recovery(n) : n \in {m \in RetriesLeft : ~passed}}
  BY DEF HandleRecoverUpdateAllocation
<1>3. sent' = [sent EXCEPT ![work.request] = @ + 1]
  BY <1>2 DEF UpdateAllocation
<1>4. work \in Jobs /\ work.retries \in 0..MaxRetries /\ work.retries > 0
  BY <1>1, KnownJobs DEF Chains, Handed, Known, Jobs
<1> DEFINE n == work.retries - 1
<1>5. n \in 0..MaxRetries /\ n + 1 = work.retries
  BY <1>4, CapNat
<1>6. PICK j : j = Recovery(n)
  OBVIOUS
<1>7. j \in Jobs /\ j.kind = "recover" /\ j.request = work.request /\ j.retries = n
  BY <1>4, <1>5, <1>6, RecoveryTyped
<1>8. adding' = adding \/ (adding' = adding \cup {j} /\ j.retries > 0)
  <2>1. CASE n > 0
    <3>1. RetriesLeft = {n}
      BY <1>5, <2>1 DEF RetriesLeft
    <3> QED BY <1>2, <1>6, <1>7, <2>1, <3>1
  <2>2. CASE ~(n > 0)
    <3>1. RetriesLeft = {}
      BY <1>5, <2>2 DEF RetriesLeft
    <3> QED BY <1>2, <3>1
  <2> QED BY <2>1, <2>2
<1>9. j.retries + 1 <= (IF work.kind = "recover" THEN work.retries ELSE Cap)
  BY <1>1, <1>4, <1>5, <1>7
<1> HIDE DEF n
<1> QED BY <1>1, <1>3, <1>7, <1>8, <1>9, SendChains

LEMMA CrashChains == ASSUME Chains, Crash PROVE Chains'
<1>1. /\ adding' = {} /\ dreState' = Missing /\ work' = NoJob /\ returned' = FALSE
      /\ crashes' = crashes + 1
      /\ UNCHANGED <<account, claimable>>
  BY DEF Crash
<1>2. Types /\ Handed /\ Known' = Known
  BY <1>1, KnownKept DEF Chains
<1>3. work # NoJob => /\ work \in Known /\ work \in Jobs /\ work.request \in Requests
                      /\ account[work.request] # Nobody
  BY <1>2 DEF Handed, Known, Jobs
<1>4. \/ sent' = sent
      \/ /\ work # NoJob /\ ~returned
         /\ sent' = [sent EXCEPT ![work.request] = @ + 1]
  BY DEF Crash
<1>5. Types'
  BY <1>1, <1>2, <1>3, <1>4 DEF Types
<1>6. waiting' \in Seq(Known)
  <2>1. CASE waiting' = waiting
    BY <1>2, <2>1 DEF Handed
  <2>2. CASE waiting' # waiting
    <3> DEFINE j == IF work.kind = "get" THEN GetJob(work.request) ELSE work
    <3>1. work # NoJob /\ waiting' = <<j>> \o waiting
      BY <2>2 DEF Crash
    <3>2. j \in Known
      <4>1. /\ GetJob(work.request) \in Jobs /\ GetJob(work.request).kind = "get"
            /\ GetJob(work.request).request = work.request
        BY <1>3, <3>1, FacilityAssumption DEF GetJob, Jobs
      <4> QED BY <1>3, <3>1, <4>1 DEF Known
    <3> HIDE DEF j
    <3>3. <<j>> \in Seq(Known) /\ waiting \in Seq(Known)
      BY <1>2, <3>2 DEF Handed
    <3> QED BY <3>1, <3>3, ConcatProperties
  <2> QED BY <2>1, <2>2
<1>7. Handed'
  BY <1>1, <1>2, <1>6, FS_EmptySet DEF Handed
<1>8. ASSUME NEW q \in Requests PROVE Bound(q)'
  <2>1. PICK one, due \in Weights : /\ one = OneOf(q) /\ due = DueOf(q)
                                    /\ Steady(one) /\ Steady(due)
    BY WeightsOf
  <2>2. /\ Pot(one) \in Nat /\ Pot(due) \in Nat /\ Pot(one)' \in Nat /\ Pot(due)' \in Nat
        /\ sent[q] \in Nat /\ sent'[q] \in Nat /\ crashes \in Nat /\ Cap \in Nat
    BY <1>2, <1>5, <1>7, PotNat, PotNatNext, CapNat DEF Types
  <2>3. /\ Cap * (1 + crashes) \in Nat /\ Cap * (1 + crashes') \in Nat
        /\ Cap * (1 + crashes') = Cap * (1 + crashes) + Cap
    BY <1>1, <2>2, CapTimes
  <2>4. /\ Pot(one) <= 1 + crashes /\ sent[q] + Pot(due) <= Cap * (1 + crashes)
    BY <2>1 DEF Chains, Bound
  <2>5. Pot(one)' <= Pot(one) + 1
    <3>1. work # NoJob => one[work] \in 0..1
      BY <1>3, <2>1 DEF OneOf
    <3> QED BY <1>2, <2>1, <2>2, <3>1, CrashPot
  <2>6. sent'[q] + Pot(due)' <= sent[q] + Pot(due) + Cap
    <3>1. work # NoJob => due[work] \in Nat /\ due[work] <= Cap
      BY <1>3, BlockOf
    <3>2. CASE sent' = sent
      <4>1. Pot(due)' <= Pot(due) + Cap
        BY <1>2, <2>1, <2>2, <3>1, CrashPot
      <4> QED BY <2>2, <3>2, <4>1
    <3>3. CASE /\ work # NoJob /\ ~returned
               /\ sent' = [sent EXCEPT ![work.request] = @ + 1]
      <4>1. Running(due) = due[work]
        BY <3>3 DEF Running
      <4>2. Pot(due)' <= Pot(due)
        BY <1>2, <2>1, <3>3, <4>1, CrashPot
      <4>3. sent'[q] <= sent[q] + 1
        BY <1>2, <1>3, <2>2, <3>3 DEF Types
      <4>4. 1 <= Cap
        BY CapNat DEF Cap
      <4> QED BY <2>2, <4>2, <4>3, <4>4
    <3> QED BY <1>4, <3>2, <3>3
  <2>7. Pot(one)' <= 1 + crashes' /\ sent'[q] + Pot(due)' <= Cap * (1 + crashes')
    BY <1>1, <2>2, <2>3, <2>4, <2>5, <2>6
  <2> QED BY <2>1, <2>7 DEF Bound
<1> QED BY <1>5, <1>7, <1>8 DEF Chains

LEMMA InitChains == Init => Chains
<1> SUFFICES ASSUME Init PROVE Chains
  OBVIOUS
<1>1. Types
  BY AmountsInt DEF Init, Types
<1>2. Handed
  <2>1. adding = {} /\ waiting = <<>> /\ work = NoJob /\ returned = FALSE
    BY DEF Init
  <2>2. IsFiniteSet({})
    BY FS_EmptySet
  <2>3. IsFiniteSet(adding)
    BY <2>1, <2>2, Zenon
  <2>4. waiting \in Seq(Known) /\ adding \in SUBSET Known /\ returned \in BOOLEAN
    BY <2>1, EmptySeq
  <2> QED BY <2>1, <2>3, <2>4, Zenon DEF Handed
<1>3. ASSUME NEW q \in Requests PROVE Bound(q)
  <2>1. PICK one, due \in Weights : one = OneOf(q) /\ due = DueOf(q)
    BY WeightsOf
  <2>2. ASSUME NEW Q \in Weights PROVE Pot(Q) = 0
    <3>1. Tokens(Q, waiting) = {} /\ Held(Q, adding) = {}
      BY DEF Init, Tokens, Held
    <3>2. Cardinality(Tokens(Q, waiting)) = 0 /\ Cardinality(Held(Q, adding)) = 0
      BY <3>1, FS_EmptySet
    <3>3. Running(Q) = 0
      BY DEF Init, Running
    <3> QED BY <3>2, <3>3 DEF Pot
  <2>3. /\ sent[q] = 0 /\ crashes = 0 /\ Cap * (1 + crashes) \in Nat
    BY CapTimes DEF Init
  <2> QED BY <2>1, <2>2, <2>3 DEF Bound
<1> QED BY <1>1, <1>2, <1>3 DEF Chains

LEMMA NextChains == Chains /\ [Next]_vars => Chains'
<1> SUFFICES ASSUME Chains, [Next]_vars PROVE Chains'
  OBVIOUS
<1>1. ASSUME UNCHANGED <<account, claimable, dreState, waiting, work, returned, adding,
                         sent, crashes>>, Types'
      PROVE  Chains'
  <2>1. Handed'
    BY <1>1, KnownKept DEF Chains, Handed
  <2>2. ASSUME NEW Q \in Weights PROVE Pot(Q)' <= Pot(Q)
    <3>1. Pot(Q)' = Pot(Q)
      BY <1>1 DEF Pot, Running
    <3>2. Pot(Q) \in Nat
      BY PotNat DEF Chains
    <3> QED BY <3>1, <3>2
  <2> QED BY <1>1, <2>1, <2>2, MoveChains
<1>2. ASSUME NEW a \in Address, Earn(a) PROVE Chains'
  <2>1. UNCHANGED <<account, dreState, waiting, work, returned, adding, sent, crashes>>
    BY <1>2 DEF Earn
  <2>2. claimable' \in [Address -> Amounts]
    <3>1. claimable[a] + 1 \in Amounts
      BY <1>2, FacilityAssumption DEF Earn, Chains, Types, Amounts
    <3> QED BY <1>2, <3>1 DEF Earn, Chains, Types
  <2>3. Types'
    BY <2>1, <2>2 DEF Chains, Types
  <2>4. Handed'
    BY <2>1, KnownKept DEF Chains, Handed
  <2>5. ASSUME NEW Q \in Weights PROVE Pot(Q)' <= Pot(Q)
    <3>1. Pot(Q)' = Pot(Q)
      BY <2>1 DEF Pot, Running
    <3>2. Pot(Q) \in Nat
      BY PotNat DEF Chains
    <3> QED BY <3>1, <3>2
  <2> QED BY <2>1, <2>3, <2>4, <2>5, MoveChains
<1>3. CASE Boot
  <2>1. Types'
    BY <1>3 DEF Boot, chain, Chains, Types
  <2> QED BY <1>1, <1>3, <2>1 DEF Boot, chain
<1>4. CASE UNCHANGED vars
  <2>1. Types'
    BY <1>4 DEF vars, Chains, Types
  <2> QED BY <1>1, <1>4, <2>1 DEF vars
<1> QED BY <1>2, <1>3, <1>4, RequestingUpdateChains, JobAddedChains, DequeueChains,
           GetCurrentRewardsChains, HandleUpdateAllocationChains,
           HandleRecoverUpdateAllocationChains, ReturnChains, CrashChains
        DEF Next, Worker

LEMMA TransactionsImplied == Chains => TransactionsBounded
<1> SUFFICES ASSUME Chains, NEW q \in Requests
             PROVE  sent[q] <= (1 + MaxRetries) * (1 + crashes)
  BY DEF TransactionsBounded
<1>1. PICK due \in Weights : due = DueOf(q)
  BY WeightsOf
<1>2. Pot(due) \in Nat /\ sent[q] \in Nat /\ Cap * (1 + crashes) \in Nat
  BY PotNat, CapTimes DEF Chains, Types
<1>3. sent[q] + Pot(due) <= Cap * (1 + crashes)
  BY <1>1 DEF Chains, Bound
<1> QED BY <1>2, <1>3 DEF Cap

LEMMA ChainImplied == Chains => OneChain
<1> SUFFICES ASSUME Chains, NEW q \in Requests PROVE Of(q) <= 1 + crashes
  BY DEF OneChain
<1>1. PICK one \in Weights : one = OneOf(q)
  BY WeightsOf
<1>2. Pot(one) <= 1 + crashes /\ crashes \in Nat /\ Handed
  BY <1>1 DEF Chains, Bound, Types
<1>3. /\ Cardinality(Tokens(one, waiting)) \in Nat /\ Cardinality(Held(one, adding)) \in Nat
      /\ Running(one) \in Nat
  BY <1>2, PotNat
<1>4. waiting \in Seq(Jobs) /\ adding \in SUBSET Jobs /\ (work # NoJob => work \in Jobs)
  BY <1>2, KnownJobs DEF Handed
<1>5. /\ IsFiniteSet({i \in DOMAIN waiting : waiting[i].request = q})
      /\ Cardinality({i \in DOMAIN waiting : waiting[i].request = q})
           <= Cardinality(Tokens(one, waiting))
  <2> DEFINE S == {i \in DOMAIN waiting : waiting[i].request = q}
             f == [i \in S |-> <<i, 1>>]
  <2>1. ASSUME NEW i \in S PROVE <<i, 1>> \in Tokens(one, waiting)
    <3>1. i \in 1..Len(waiting) /\ waiting[i] \in Jobs /\ waiting[i].request = q
      BY <1>4, LenProperties, ElementOfSeq
    <3>2. one[waiting[i]] = 1
      BY <1>1, <3>1 DEF OneOf
    <3>3. 1 \in 1..Cap
      BY CapNat DEF Cap
    <3> QED BY <3>1, <3>2, <3>3 DEF Tokens
  <2>2. f \in [S -> Tokens(one, waiting)]
    BY <2>1
  <2>3. \A a, b \in S : f[a] = f[b] => a = b
    OBVIOUS
  <2>4. IsFiniteSet(Tokens(one, waiting))
    BY <1>4, TokensFinite
  <2> HIDE DEF f, S
  <2>5. f \in Injection(S, Tokens(one, waiting))
    BY <2>2, <2>3, Fun_IsInj
  <2>6. IsFiniteSet(S) /\ Cardinality(S) <= Cardinality(Tokens(one, waiting))
    BY <2>4, <2>5, FS_Injection
  <2> QED BY <2>6 DEF S
<1>6. /\ IsFiniteSet({j \in adding : j.request = q})
      /\ Cardinality({j \in adding : j.request = q}) <= Cardinality(Held(one, adding))
  <2> DEFINE S == {j \in adding : j.request = q}
             f == [j \in S |-> <<j, 1>>]
  <2>1. ASSUME NEW j \in S PROVE <<j, 1>> \in Held(one, adding)
    <3>1. one[j] = 1
      BY <1>1, <1>4 DEF OneOf
    <3>2. 1 \in 1..Cap
      BY CapNat DEF Cap
    <3> QED BY <3>1, <3>2 DEF Held
  <2>2. f \in [S -> Held(one, adding)]
    BY <2>1
  <2>3. \A a, b \in S : f[a] = f[b] => a = b
    OBVIOUS
  <2>4. IsFiniteSet(Held(one, adding))
    BY <1>2, HeldFinite DEF Handed
  <2> HIDE DEF f, S
  <2>5. f \in Injection(S, Held(one, adding))
    BY <2>2, <2>3, Fun_IsInj
  <2>6. IsFiniteSet(S) /\ Cardinality(S) <= Cardinality(Held(one, adding))
    BY <2>4, <2>5, FS_Injection
  <2> QED BY <2>6 DEF S
<1>7. PICK n : n = (IF work # NoJob /\ work.request = q /\ ~(returned /\ work.kind # "get")
                   THEN 1 ELSE 0)
  OBVIOUS
<1>8. n \in Nat /\ n <= Running(one)
  <2>1. CASE n = 1
    <3>1. work # NoJob /\ work.request = q /\ ~(returned /\ work.kind # "get")
      BY <1>7, <2>1
    <3>2. one[work] = 1
      BY <1>1, <1>4, <3>1 DEF OneOf
    <3> QED BY <2>1, <3>1, <3>2 DEF Running
  <2>2. CASE n = 0
    BY <1>3, <2>2
  <2> QED BY <1>7, <2>1, <2>2
<1>9. /\ Cardinality({i \in DOMAIN waiting : waiting[i].request = q}) \in Nat
      /\ Cardinality({j \in adding : j.request = q}) \in Nat
  BY <1>5, <1>6, FS_CardinalityType
<1>10. Of(q) = Cardinality({i \in DOMAIN waiting : waiting[i].request = q})
               + Cardinality({j \in adding : j.request = q}) + n
  BY <1>7 DEF Of
<1>11. Of(q) <= Pot(one)
  BY <1>3, <1>5, <1>6, <1>8, <1>9, <1>10 DEF Pot
<1>12. Of(q) \in Nat /\ Pot(one) \in Nat
  BY <1>2, <1>8, <1>9, <1>10, PotNat
<1> QED BY <1>2, <1>11, <1>12

\* However its transactions fail and however the process dies around them, a request sends
\* one transaction and one for each retry, and at most as many again for each crash.
THEOREM TransactionsStayBounded == EventsSpec => []TransactionsBounded
<1>1. Spec => []Chains
  BY InitChains, NextChains, PTL DEF Spec
<1> QED BY <1>1, Composed, TransactionsImplied, PTL

\* A request has one job, in whatever queue and of whatever kind, and at most one more for
\* each crash.
THEOREM RequestsFormChains == EventsSpec => []OneChain
<1>1. Spec => []Chains
  BY InitChains, NextChains, PTL DEF Spec
<1> QED BY <1>1, Composed, ChainImplied, PTL
===============================================================================
