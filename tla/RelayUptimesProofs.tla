--------------------------- MODULE RelayUptimesProofs ---------------------------
(***************************************************************************)
(* Proofs about RelayUptimes, for any relays, contacts, dates, rounds and  *)
(* troubles: a validation is never given an uptime, and the distribution   *)
(* contract keeps the uptimes of the relays that were marked as pushed, or *)
(* those of a later date; the uptimes of a date count the days in a row on *)
(* which a relay was seen often enough; and no record is repeated but by a *)
(* crash or an error that hid a write.                                     *)
(***************************************************************************)
EXTENDS RelayUptimes, SequenceTheorems, FiniteSetTheorems, WellFoundedInduction, TLAPS

----------------------------------------------------------------------------
(* Uptimes that a validation reads.                                        *)

\* The command computes the uptimes of dates that are over, and the date that a validation
\* asks for is not: it finds no documents.
Early ==
  /\ today \in Int /\ date \in Int /\ last \in Int
  /\ DOMAIN relayUptimes = Days
  /\ \A d \in Days : d >= today => relayUptimes[d] = <<>>
  /\ pc # NoRun => last < today
  /\ \A r \in Relays : validated # Undefined /\ r \in DOMAIN validated => validated[r] = 0
  /\ handed \subseteq {0}

\* The dates are integers.
LEMMA DaysInt == LastDay \in Int /\ Days \subseteq Int /\ \A d \in Days : d > 0
BY ValidationAssumption DEF Days

LEMMA InitEarly == Init => Early
<1> SUFFICES ASSUME Init PROVE Early
  OBVIOUS
<1>1. validated = Undefined
  BY DEF Init, ValidationInit
<1> QED BY <1>1 DEF Init, ValidationInit, Early

LEMMA ValidateRelaysEarly == ASSUME Early, ValidateRelays, UNCHANGED command PROVE Early'
<1>1. today \in Days /\ relayUptimes[today] = <<>>
  BY DEF ValidateRelays, Early
<1>2. \A r : UptimeDays(r) = {0}
  BY <1>1 DEF UptimeDays, DocsOf
<1>3. ASSUME NEW r \in Relays, validated' # Undefined, r \in DOMAIN validated'
      PROVE  validated'[r] = 0
  <2>1. CASE validated' = [q \in {} |-> 0]
    BY <1>3, <2>1
  <2>2. CASE \E u \in [Listed({"key"}) -> UNION {UptimeDays(q) : q \in Relays}] :
               /\ \A q \in DOMAIN u : u[q] \in UptimeDays(q)
               /\ validated' = u
    BY <1>2, <1>3, <2>2
  <2> QED BY <1>3, <2>1, <2>2 DEF ValidateRelays
<1>4. UNCHANGED <<today, relayUptimes, handed, date, last, pc>>
  BY DEF ValidateRelays, command, run
<1> QED BY <1>3, <1>4 DEF Early

LEMMA VerifyJobEarly == ASSUME Early, VerifyJob, UNCHANGED command PROVE Early'
<1>1. /\ handed' \subseteq {0}
      /\ validated' = Undefined
      /\ UNCHANGED <<today, relayUptimes, date, last, pc>>
  BY DEF VerifyJob, Over, command, run, Early
<1> QED BY <1>1 DEF Early

LEMMA ValidationEarly == ASSUME Early, ValidationNext, UNCHANGED command PROVE Early'
<1>1. UNCHANGED <<date, last, pc>>
  BY DEF command, run
<1>2. CASE Midnight
  <2>1. today' = today + 1 /\ UNCHANGED <<relayUptimes, validated, handed>>
    BY <1>2 DEF Midnight, flow
  <2> QED BY <1>1, <2>1, DaysInt DEF Early
<1>3. CASE ValidateJob \/ FetchRelays \/ FilterRelays \/ StoreRelayData
  BY <1>1, <1>3 DEF ValidateJob, FetchRelays, FilterRelays, StoreRelayData, Early
<1>4. CASE Crash
  <2>1. UNCHANGED <<today, relayUptimes, handed>>
        /\ (validated' = validated \/ validated' = Undefined)
    BY <1>4 DEF Crash, Over
  <2> QED BY <1>1, <2>1 DEF Early
<1> QED BY <1>2, <1>3, <1>4, ValidateRelaysEarly, VerifyJobEarly DEF ValidationNext, Jobs

\* The command writes uptimes of dates up to its last only.
LEMMA InsertEarly ==
  ASSUME Early, NEW d \in Int, d <= last, pc # NoRun, Insert(d)
  PROVE  /\ DOMAIN relayUptimes' = Days
         /\ \A e \in Days : e >= today => relayUptimes'[e] = <<>>
<1>1. d < today
  BY DEF Early
<1>2. ASSUME NEW e \in Days, e >= today PROVE e # d
  BY <1>1, <1>2, DaysInt DEF Early
<1> QED BY <1>2 DEF Insert, Early

LEMMA CommandEarly ==
  ASSUME Early, StartRun \/ Command \/ RunCrash
  PROVE  Early'
<1>1. UNCHANGED <<today, validated, handed>>
  BY DEF StartRun, Command, RunCrash, PopulateRelayUptimes, SaveJob, ChooseLatest,
         SetRelayUptimes, MarkPushed, service
<1>2. CASE StartRun
  <2>1. LastJobRun \subseteq Int
    BY DaysInt DEF LastJobRun, Succeeded
  <2>2. StartDates \subseteq Int
    <3>1. ASSUME NEW d \in StartDates PROVE d \in Int
      <4>1. (\E e \in LastJobRun : d = e + 1) \/ d \in Days
        BY <3>1 DEF StartDates
      <4>2. CASE d \in Days
        BY <4>2, DaysInt
      <4>3. CASE \E e \in LastJobRun : d = e + 1
        <5>1. PICK e \in LastJobRun : d = e + 1
          BY <4>3
        <5>2. e \in Int
          BY <2>1
        <5> QED BY <5>1, <5>2
      <4> QED BY <4>1, <4>2, <4>3
    <3> QED BY <3>1
  <2>3. date' \in Int /\ last' = today - 1 /\ relayUptimes' = relayUptimes
    BY <1>2, <2>2 DEF StartRun, EndDate
  <2>4. last' \in Int /\ last' < today
    BY <2>3 DEF Early
  <2> QED BY <1>1, <2>3, <2>4 DEF Early
<1>3. CASE PopulateRelayUptimes
  <2>1. /\ pc # NoRun /\ date <= last
        /\ relayUptimes' = relayUptimes \/ Insert(date)
    BY <1>3, UptimeAssumption DEF PopulateRelayUptimes
  <2>2. \/ date' = 0 /\ last' = 0 /\ pc' = NoRun
        \/ date' \in {date, date + 1} /\ last' = last
    BY <1>3 DEF PopulateRelayUptimes, Exit
  <2>3. /\ DOMAIN relayUptimes' = Days
        /\ \A e \in Days : e >= today => relayUptimes'[e] = <<>>
    BY <2>1, InsertEarly DEF Early
  <2> QED BY <1>1, <2>1, <2>2, <2>3 DEF Early
<1>4. CASE SaveJob
  <2>1. pc # NoRun /\ date' = date + 1 /\ UNCHANGED <<last, relayUptimes>>
    BY <1>4, UptimeAssumption DEF SaveJob
  <2> QED BY <1>1, <2>1 DEF Early
<1>5. CASE ChooseLatest \/ SetRelayUptimes \/ MarkPushed
  <2>1. pc # NoRun /\ relayUptimes' = relayUptimes
    BY <1>5, UptimeAssumption DEF ChooseLatest, SetRelayUptimes, MarkPushed
  <2>2. \/ date' = 0 /\ last' = 0 /\ pc' = NoRun
        \/ date' = date /\ last' = last
    BY <1>5 DEF ChooseLatest, SetRelayUptimes, MarkPushed, Exit, Answered, Onward
  <2> QED BY <1>1, <2>1, <2>2 DEF Early
<1>6. CASE RunCrash
  <2>1. /\ pc # NoRun /\ date' = 0 /\ last' = 0 /\ pc' = NoRun
        /\ relayUptimes' = relayUptimes \/ (date <= last /\ Insert(date))
    BY <1>6 DEF RunCrash, Exit
  <2>2. /\ DOMAIN relayUptimes' = Days
        /\ \A e \in Days : e >= today => relayUptimes'[e] = <<>>
    BY <2>1, InsertEarly DEF Early
  <2> QED BY <1>1, <2>1, <2>2 DEF Early
<1> QED BY <1>2, <1>3, <1>4, <1>5, <1>6 DEF Command

\* The validation is over before the command has anything for it: it reads the uptime of a
\* date whose uptimes are computed later.
THEOREM NoUptimeIsSeen == Spec => []NoUptimeSeen
<1>1. ASSUME Early, [Next]_vars PROVE Early'
  <2>1. CASE UNCHANGED vars
    <3>1. UNCHANGED <<today, date, last, relayUptimes, pc, validated, handed>>
      BY <2>1 DEF vars, service, command, run
    <3> QED BY <1>1, <3>1 DEF Early
  <2> QED BY <1>1, <2>1, ValidationEarly, CommandEarly DEF Next
<1>2. Early => NoUptimeSeen
  BY DEF Early, NoUptimeSeen
<1> QED BY <1>1, <1>2, InitEarly, PTL DEF Spec

----------------------------------------------------------------------------
(* Uptimes that the contract has.                                          *)

\* Every job that succeeded is of date d or an earlier one.
UpTo(d) == \A e \in Succeeded : e <= d

\* There is a latest job.
HasLatest == Succeeded # {} => \E d \in Succeeded : UpTo(d)

\* The dates of a run come after all that succeeded; what it pushes is of the latest job
\* there is.
RunOK ==
  /\ pc \in {NoRun, "dates", "save", "push", "mark"}
  /\ date \in Int
  /\ pc = NoRun => latest = 0
  /\ pc \in {"dates", "save"} =>
       /\ \A e \in Succeeded : e < date
       /\ latest # 0 => latest = date - 1
  /\ pc \in {"push", "mark"} => latest \in Succeeded /\ UpTo(latest)

\* An answered batch is in the contract, unless it did not land.
BatchOK ==
  pc = "mark" => \A r \in batch \ unlanded : /\ contract[r].date = latest
                                            /\ contract[r].days = uptimes[latest][r]

DocsOK ==
  /\ left \subseteq Relays /\ batch \subseteq Relays
  /\ computed # Undefined => DOMAIN computed \subseteq Relays
  /\ job \in [Days -> {"none", "failed", "success"}]
  /\ DOMAIN uptimes = Days /\ \A d \in Days : DOMAIN uptimes[d] \subseteq Relays
  /\ pushed \in [Days -> SUBSET Relays]
  /\ \A d \in Days \ Succeeded : pushed[d] = {}

ContractOK == \A r \in Relays : contract[r].date \in Succeeded \cup {0}

Reaches == HasLatest /\ RunOK /\ BatchOK /\ DocsOK /\ ContractOK /\ PushedReached

LEMMA SucceededInt == Succeeded \subseteq Days /\ Succeeded \subseteq Int /\ 0 \notin Succeeded
<1>1. \A d \in Succeeded : d \in Days
  BY DEF Succeeded
<1>2. \A d \in Succeeded : d \in Int /\ d > 0
  BY <1>1, DaysInt
<1>3. ~(0 > 0)
  OBVIOUS
<1> QED BY <1>1, <1>2, <1>3

LEMMA InitReaches == Init => Reaches
<1> SUFFICES ASSUME Init PROVE Reaches
  OBVIOUS
<1>1. Succeeded = {} /\ pc = NoRun
  BY DEF Init, Succeeded
<1>2. DocsOK
  BY DEF Init, DocsOK, NoUptimes
<1>3. HasLatest /\ RunOK /\ BatchOK
  BY <1>1, UptimeAssumption DEF Init, HasLatest, RunOK, BatchOK
<1>4. ContractOK /\ PushedReached
  BY DEF Init, ContractOK, PushedReached
<1> QED BY <1>2, <1>3, <1>4 DEF Reaches

\* A run that ends, for whatever reason, forgets only what it was doing.
LEMMA ExitReaches ==
  ASSUME Reaches, Exit, UNCHANGED <<jobs, contract, unlanded>>
  PROVE  Reaches'
<1>1. /\ pc' = NoRun /\ date' = 0 /\ latest' = 0 /\ left' = {} /\ batch' = {}
      /\ DOMAIN computed' \subseteq Relays
      /\ UNCHANGED <<job, uptimes, pushed, contract, unlanded>>
  BY DEF Exit, NoUptimes, jobs
<1>2. Succeeded' = Succeeded
  BY <1>1 DEF Succeeded
<1>3. (HasLatest /\ ContractOK /\ PushedReached)'
  BY <1>1, <1>2 DEF Reaches, HasLatest, UpTo, ContractOK, PushedReached
<1>4. (RunOK /\ BatchOK)'
  BY <1>1, UptimeAssumption DEF RunOK, BatchOK
<1>5. DocsOK'
  BY <1>1, <1>2 DEF Reaches, DocsOK
<1> QED BY <1>3, <1>4, <1>5 DEF Reaches

LEMMA ValidationReaches == ASSUME Reaches, UNCHANGED command PROVE Reaches'
<1>1. UNCHANGED <<pc, date, latest, computed, left, batch, job, uptimes, pushed, contract,
                  unlanded>>
  BY DEF command, run, jobs
<1>2. Succeeded' = Succeeded
  BY <1>1 DEF Succeeded
<1> QED BY <1>1, <1>2 DEF Reaches, HasLatest, UpTo, RunOK, BatchOK, DocsOK, ContractOK,
                          PushedReached

LEMMA StartRunReaches == ASSUME Reaches, StartRun PROVE Reaches'
<1>1. /\ pc = NoRun /\ pc' = "dates" /\ date' \in StartDates
      /\ UNCHANGED <<latest, computed, left, batch, job, uptimes, pushed, contract, unlanded>>
  BY DEF StartRun, jobs
<1>2. Succeeded' = Succeeded
  BY <1>1 DEF Succeeded
<1>3. date' \in Int /\ \A e \in Succeeded : e < date'
  <2>1. CASE LastJobRun # {}
    <3>1. PICK d \in LastJobRun : date' = d + 1
      BY <1>1, <2>1 DEF StartDates
    <3>2. d \in Succeeded /\ \A e \in Succeeded : e <= d
      BY DEF LastJobRun
    <3> QED BY <3>1, <3>2, SucceededInt
  <2>2. CASE LastJobRun = {}
    <3>1. Succeeded = {}
      BY <2>2 DEF LastJobRun, Reaches, HasLatest, UpTo
    <3>2. date' \in Days
      BY <1>1, <2>2 DEF StartDates
    <3> QED BY <3>1, <3>2, DaysInt
  <2> QED BY <2>1, <2>2
<1>4. latest = 0
  BY <1>1 DEF Reaches, RunOK
<1>5. RunOK' /\ BatchOK'
  BY <1>1, <1>2, <1>3, <1>4 DEF RunOK, BatchOK
<1>6. (HasLatest /\ ContractOK /\ PushedReached)'
  BY <1>1, <1>2 DEF Reaches, HasLatest, UpTo, ContractOK, PushedReached
<1>7. DocsOK'
  BY <1>1, <1>2 DEF Reaches, DocsOK
<1> QED BY <1>5, <1>6, <1>7 DEF Reaches

LEMMA PopulateReaches == ASSUME Reaches, PopulateRelayUptimes PROVE Reaches'
<1>1. pc = "dates"
  BY DEF PopulateRelayUptimes
<1>2. date \notin Succeeded
  BY <1>1, SucceededInt DEF Reaches, RunOK
<1>3. CASE minimum = NaN
  <2>1. Exit /\ UNCHANGED <<jobs, contract, unlanded>>
    BY <1>2, <1>3 DEF PopulateRelayUptimes, jobs
  <2> QED BY <2>1, ExitReaches
<1>4. CASE minimum # NaN
  <2>1. /\ pc' = "save"
        /\ UNCHANGED <<date, latest, left, batch, job, uptimes, pushed, contract, unlanded>>
        /\ computed' = Computed(date) \/ computed' = Undefined
    BY <1>2, <1>4 DEF PopulateRelayUptimes
  <2>2. Succeeded' = Succeeded
    BY <2>1 DEF Succeeded
  <2>3. computed' # Undefined => DOMAIN computed' \subseteq Relays
    BY <2>1 DEF Computed, SeenOn
  <2>4. (RunOK /\ BatchOK)'
    BY <1>1, <2>1, <2>2, UptimeAssumption DEF Reaches, RunOK, BatchOK
  <2>5. (HasLatest /\ ContractOK /\ PushedReached)'
    BY <2>1, <2>2 DEF Reaches, HasLatest, UpTo, ContractOK, PushedReached
  <2>6. DocsOK'
    BY <2>1, <2>2, <2>3 DEF Reaches, DocsOK
  <2> QED BY <2>4, <2>5, <2>6 DEF Reaches
<1> QED BY <1>3, <1>4

LEMMA SaveJobReaches == ASSUME Reaches, SaveJob PROVE Reaches'
<1>1. /\ pc = "save" /\ pc' = "dates" /\ date' = date + 1 /\ latest' = date
      /\ computed' = NoUptimes
      /\ UNCHANGED <<left, batch, pushed, contract, unlanded>>
  BY DEF SaveJob
<1>2. \/ /\ job' = [job EXCEPT ![date] = "failed"] /\ uptimes' = uptimes
      \/ /\ computed # Undefined
         /\ job' = [job EXCEPT ![date] = "success"]
         /\ uptimes' = [uptimes EXCEPT ![date] = computed]
  BY DEF SaveJob
<1>3. date \in Int /\ \A e \in Succeeded : e < date
  BY <1>1 DEF Reaches, RunOK
<1>4. job \in [Days -> {"none", "failed", "success"}] /\ DOMAIN uptimes = Days
  BY DEF Reaches, DocsOK
<1>5. Succeeded' = Succeeded \/ (date \in Days /\ Succeeded' = Succeeded \cup {date})
  <2>1. date \notin Succeeded
    BY <1>3, SucceededInt
  <2>2. \A d \in Days \ {date} : job'[d] = job[d]
    BY <1>2, <1>4
  <2>3. CASE date \notin Days
    BY <2>2, <2>3 DEF Succeeded
  <2>4. CASE date \in Days
    <3>1. job'[date] \in {"failed", "success"}
      BY <1>2, <1>4, <2>4
    <3> QED BY <2>1, <2>2, <2>4, <3>1 DEF Succeeded
  <2> QED BY <2>3, <2>4
<1>6. \A e \in Succeeded : e \in Succeeded' /\ uptimes'[e] = uptimes[e]
  BY <1>2, <1>3, <1>4, <1>5, SucceededInt
<1>7. \A e \in Succeeded' : e <= date /\ e < date + 1
  <2> SUFFICES ASSUME NEW e \in Succeeded' PROVE e <= date /\ e < date + 1
    OBVIOUS
  <2>1. e \in Succeeded \/ e = date
    BY <1>5
  <2>2. e \in Int /\ (e < date \/ e = date)
    BY <1>3, <2>1, SucceededInt
  <2> QED BY <1>3, <2>2
<1>8. RunOK' /\ BatchOK'
  BY <1>1, <1>3, <1>7, UptimeAssumption DEF RunOK, BatchOK
<1>9. HasLatest'
  <2>1. CASE Succeeded' = Succeeded
    BY <2>1 DEF Reaches, HasLatest, UpTo
  <2>2. CASE Succeeded' = Succeeded \cup {date}
    BY <1>7, <2>2 DEF HasLatest, UpTo
  <2> QED BY <1>5, <2>1, <2>2
<1>10. ContractOK'
  BY <1>1, <1>6 DEF Reaches, ContractOK
<1>11. PushedReached'
  <2> SUFFICES ASSUME NEW d \in Days, NEW r \in pushed[d] \ unlanded
               PROVE  /\ contract[r].date >= d
                      /\ contract[r].days = uptimes'[contract[r].date][r]
    BY <1>1 DEF PushedReached
  <2>1. r \in Relays
    BY DEF Reaches, DocsOK
  <2>2. contract[r].date >= d /\ contract[r].days = uptimes[contract[r].date][r]
    BY DEF Reaches, PushedReached
  <2>3. contract[r].date \in Succeeded
    BY <2>1, <2>2, DaysInt DEF Reaches, ContractOK
  <2> QED BY <1>6, <2>2, <2>3
<1>12. DocsOK'
  <2>1. job' \in [Days -> {"none", "failed", "success"}]
    BY <1>2, <1>4
  <2>2. DOMAIN uptimes' = Days /\ \A d \in Days : DOMAIN uptimes'[d] \subseteq Relays
    BY <1>2, <1>4 DEF Reaches, DocsOK
  <2>3. \A d \in Days \ Succeeded' : pushed[d] = {}
    BY <1>6 DEF Reaches, DocsOK
  <2> QED BY <1>1, <2>1, <2>2, <2>3 DEF Reaches, DocsOK, NoUptimes
<1> QED BY <1>8, <1>9, <1>10, <1>11, <1>12 DEF Reaches

LEMMA ChooseLatestReaches == ASSUME Reaches, ChooseLatest PROVE Reaches'
<1>1. /\ pc = "dates" /\ UNCHANGED <<jobs, contract, unlanded>>
  BY DEF ChooseLatest
<1>2. PICK d \in IF latest = 0 /\ LastJobRun # {} THEN LastJobRun ELSE {latest} :
        IF ToPush(d) = {} THEN Exit
        ELSE /\ pc' = "push" /\ latest' = d /\ left' = ToPush(d)
             /\ UNCHANGED <<date, last, computed, batch>>
  BY DEF ChooseLatest
<1>3. CASE ToPush(d) = {}
  BY <1>1, <1>2, <1>3, ExitReaches
<1>4. CASE ToPush(d) # {}
  <2>1. /\ pc' = "push" /\ latest' = d /\ left' = ToPush(d)
        /\ UNCHANGED <<date, computed, batch, job, uptimes, pushed, contract, unlanded>>
    BY <1>1, <1>2, <1>4 DEF jobs
  <2>2. Succeeded' = Succeeded
    BY <2>1 DEF Succeeded
  <2>3. d \in Succeeded /\ ToPush(d) \subseteq DOMAIN uptimes[d]
    BY <1>4 DEF ToPush
  <2>4. UpTo(d)
    <3>1. CASE d \in LastJobRun
      BY <3>1 DEF LastJobRun, UpTo
    <3>2. CASE d = latest
      <4>1. latest = date - 1 /\ date \in Int /\ \A e \in Succeeded : e < date
        BY <1>1, <2>3, <3>2, SucceededInt DEF Reaches, RunOK
      <4> QED BY <3>2, <4>1, SucceededInt DEF UpTo
    <3> QED BY <1>2, <3>1, <3>2
  <2>5. (RunOK /\ BatchOK)'
    BY <2>1, <2>2, <2>3, <2>4, UptimeAssumption DEF Reaches, RunOK, BatchOK, UpTo
  <2>6. (HasLatest /\ ContractOK /\ PushedReached)'
    BY <2>1, <2>2 DEF Reaches, HasLatest, UpTo, ContractOK, PushedReached
  <2>7. DocsOK'
    BY <2>1, <2>2, <2>3, SucceededInt DEF Reaches, DocsOK
  <2> QED BY <2>5, <2>6, <2>7 DEF Reaches
<1> QED BY <1>3, <1>4

\* A batch that lands brings the relays in it to the latest job that there is, from the same
\* or an earlier one.
LEMMA LandReaches ==
  ASSUME Reaches, pc = "push", NEW B \in SUBSET left, Land(B),
         UNCHANGED <<job, uptimes, pushed>>, unlanded \subseteq unlanded'
  PROVE  /\ ContractOK' /\ PushedReached'
         /\ \A r \in B : /\ contract'[r].date = latest
                         /\ contract'[r].days = uptimes[latest][r]
<1>1. latest \in Succeeded /\ UpTo(latest)
  BY DEF Reaches, RunOK
<1>2. Succeeded' = Succeeded
  BY DEF Succeeded
<1>3. \A r \in Relays : contract'[r] = IF r \in B
                                      THEN [date |-> latest, days |-> uptimes[latest][r]]
                                      ELSE contract[r]
  BY DEF Land
<1>4. \A r \in B : /\ contract'[r].date = latest
                  /\ contract'[r].days = uptimes[latest][r]
  <2> SUFFICES ASSUME NEW r \in B
               PROVE  /\ contract'[r].date = latest
                      /\ contract'[r].days = uptimes[latest][r]
    OBVIOUS
  <2>1. r \in Relays
    BY DEF Reaches, DocsOK
  <2>2. contract'[r] = [date |-> latest, days |-> uptimes[latest][r]]
    BY <1>3, <2>1
  <2> QED BY <2>2
<1>5. ContractOK'
  BY <1>1, <1>2, <1>3, <1>4 DEF Reaches, ContractOK
<1>6. PushedReached'
  <2> SUFFICES ASSUME NEW d \in Days, NEW r \in pushed[d] \ unlanded
               PROVE  /\ contract'[r].date >= d
                      /\ contract'[r].days = uptimes[contract'[r].date][r]
    BY DEF PushedReached
  <2>1. r \in Relays /\ d \in Succeeded
    BY DEF Reaches, DocsOK
  <2>2. CASE r \in B
    BY <1>1, <1>4, <2>1, <2>2, SucceededInt DEF UpTo
  <2>3. CASE r \notin B
    BY <1>3, <2>1, <2>3 DEF Reaches, PushedReached
  <2> QED BY <2>2, <2>3
<1> QED BY <1>4, <1>5, <1>6

LEMMA BatchesOfLeft == \A B \in Batches : B \subseteq left
BY DEF Batches

LEMMA SetReaches == ASSUME Reaches, SetRelayUptimes PROVE Reaches'
<1>1. /\ pc = "push" /\ UNCHANGED <<job, uptimes, pushed>>
  <2>1. pc = "push" /\ UNCHANGED jobs
    BY DEF SetRelayUptimes
  <2> QED BY <2>1 DEF jobs
<1>2. Succeeded' = Succeeded
  BY <1>1 DEF Succeeded
<1>3. HasLatest'
  BY <1>2 DEF Reaches, HasLatest, UpTo
<1>4. latest \in Succeeded /\ UpTo(latest) /\ date \in Int
  BY <1>1 DEF Reaches, RunOK
<1>5. PICK B \in Batches :
        \/ Answered(B) /\ Land(B) /\ unlanded' = unlanded
        \/ Answered(B) /\ unlanded' = unlanded \cup B /\ contract' = contract
        \/ /\ Onward(left \ B)
           /\ Land(B) \/ contract' = contract
           /\ unlanded' = unlanded
  BY DEF SetRelayUptimes
<1>6. B \subseteq left /\ left \subseteq Relays
  BY BatchesOfLeft DEF Reaches, DocsOK
<1>7. unlanded \subseteq unlanded' /\ (Land(B) \/ contract' = contract)
  BY <1>5
<1>8. ContractOK' /\ PushedReached'
  <2>1. CASE Land(B)
    BY <1>1, <1>6, <1>7, <2>1, LandReaches
  <2>2. CASE contract' = contract
    BY <1>1, <1>2, <1>7, <2>2 DEF Reaches, ContractOK, PushedReached
  <2> QED BY <1>7, <2>1, <2>2
<1>9. CASE Answered(B)
  <2>1. /\ pc' = "mark" /\ left' = left \ B /\ batch' = B
        /\ date' = date /\ latest' = latest /\ computed' = computed
    BY <1>9 DEF Answered
  <2>2. RunOK'
    BY <1>2, <1>4, <2>1, UptimeAssumption DEF RunOK, UpTo
  <2>3. DocsOK'
    BY <1>1, <1>2, <1>6, <2>1 DEF Reaches, DocsOK
  <2>4. BatchOK'
    <3>1. CASE Land(B) /\ unlanded' = unlanded
      <4>1. \A r \in B : /\ contract'[r].date = latest
                        /\ contract'[r].days = uptimes[latest][r]
        BY <1>1, <1>6, <1>7, <3>1, LandReaches
      <4> QED BY <1>1, <2>1, <4>1 DEF BatchOK
    <3>2. CASE unlanded' = unlanded \cup B
      BY <2>1, <3>2 DEF BatchOK
    <3>3. CASE Onward(left \ B)
      BY <1>9, <3>3, UptimeAssumption DEF Onward, Answered, Exit
    <3> QED BY <1>5, <3>1, <3>2, <3>3
  <2> QED BY <1>3, <1>8, <2>2, <2>3, <2>4 DEF Reaches
<1>10. CASE Onward(left \ B)
  <2>1. CASE Exit
    <3>1. /\ pc' = NoRun /\ date' = 0 /\ latest' = 0 /\ left' = {} /\ batch' = {}
          /\ DOMAIN computed' \subseteq Relays
      BY <2>1 DEF Exit, NoUptimes
    <3>2. (RunOK /\ BatchOK)'
      BY <3>1, UptimeAssumption DEF RunOK, BatchOK
    <3>3. DocsOK'
      BY <1>1, <1>2, <3>1 DEF Reaches, DocsOK
    <3> QED BY <1>3, <1>8, <3>2, <3>3 DEF Reaches
  <2>2. CASE ~Exit
    <3>1. /\ pc' = "push" /\ left' = left \ B /\ batch' = {}
          /\ date' = date /\ latest' = latest /\ computed' = computed
      BY <1>10, <2>2 DEF Onward
    <3>2. (RunOK /\ BatchOK)'
      BY <1>2, <1>4, <3>1, UptimeAssumption DEF RunOK, BatchOK, UpTo
    <3>3. DocsOK'
      BY <1>1, <1>2, <1>6, <3>1 DEF Reaches, DocsOK
    <3> QED BY <1>3, <1>8, <3>2, <3>3 DEF Reaches
  <2> QED BY <2>1, <2>2
<1> QED BY <1>5, <1>9, <1>10

LEMMA MarkReaches == ASSUME Reaches, MarkPushed PROVE Reaches'
<1>1. /\ pc = "mark" /\ pushed' = [pushed EXCEPT ![latest] = @ \cup batch]
      /\ Onward(left)
      /\ UNCHANGED <<job, uptimes, contract, unlanded>>
  BY DEF MarkPushed, Marked
<1>2. Succeeded' = Succeeded
  BY <1>1 DEF Succeeded
<1>3. latest \in Succeeded /\ UpTo(latest) /\ date \in Int /\ latest \in Days
  BY <1>1, SucceededInt DEF Reaches, RunOK
<1>4. /\ pushed \in [Days -> SUBSET Relays] /\ batch \subseteq Relays
  BY DEF Reaches, DocsOK
<1>5. /\ pushed' \in [Days -> SUBSET Relays]
      /\ pushed'[latest] = pushed[latest] \cup batch
      /\ \A d \in Days \ {latest} : pushed'[d] = pushed[d]
  BY <1>1, <1>3, <1>4
<1>6. PushedReached'
  <2> SUFFICES ASSUME NEW d \in Days, NEW r \in pushed'[d] \ unlanded
               PROVE  /\ contract[r].date >= d
                      /\ contract[r].days = uptimes[contract[r].date][r]
    BY <1>1 DEF PushedReached
  <2>1. CASE r \in pushed[d]
    BY <2>1 DEF Reaches, PushedReached
  <2>2. CASE r \notin pushed[d]
    <3>1. d = latest /\ r \in batch
      BY <1>5, <2>2
    <3>2. contract[r].date = d /\ contract[r].days = uptimes[d][r]
      BY <1>1, <3>1 DEF Reaches, BatchOK
    <3> QED BY <3>2, DaysInt
  <2> QED BY <2>1, <2>2
<1>7. HasLatest' /\ ContractOK'
  BY <1>1, <1>2 DEF Reaches, HasLatest, UpTo, ContractOK
<1>8. \A d \in Days \ Succeeded' : pushed'[d] = {}
  BY <1>2, <1>3, <1>5 DEF Reaches, DocsOK
<1>9. CASE Exit
  <2>1. /\ pc' = NoRun /\ date' = 0 /\ latest' = 0 /\ left' = {} /\ batch' = {}
        /\ DOMAIN computed' \subseteq Relays
    BY <1>9 DEF Exit, NoUptimes
  <2>2. (RunOK /\ BatchOK)'
    BY <2>1, UptimeAssumption DEF RunOK, BatchOK
  <2>3. DocsOK'
    BY <1>1, <1>5, <1>8, <2>1 DEF Reaches, DocsOK
  <2> QED BY <1>6, <1>7, <2>2, <2>3 DEF Reaches
<1>10. CASE ~Exit
  <2>1. /\ pc' = "push" /\ left' = left /\ batch' = {}
        /\ date' = date /\ latest' = latest /\ computed' = computed
    BY <1>1, <1>10 DEF Onward
  <2>2. (RunOK /\ BatchOK)'
    BY <1>2, <1>3, <2>1, UptimeAssumption DEF RunOK, BatchOK, UpTo
  <2>3. DocsOK'
    BY <1>1, <1>5, <1>8, <2>1 DEF Reaches, DocsOK
  <2> QED BY <1>6, <1>7, <2>2, <2>3 DEF Reaches
<1> QED BY <1>9, <1>10

LEMMA RunCrashReaches == ASSUME Reaches, RunCrash PROVE Reaches'
<1>1. Exit /\ UNCHANGED <<job, uptimes, pushed, unlanded>>
  BY DEF RunCrash, jobs
<1>2. CASE contract' = contract
  BY <1>1, <1>2, ExitReaches DEF RunCrash
<1>3. CASE pc = "push" /\ \E B \in Batches : Land(B)
  <2>1. PICK B \in Batches : Land(B)
    BY <1>3
  <2>2. ContractOK' /\ PushedReached'
    BY <1>1, <1>3, <2>1, BatchesOfLeft, LandReaches
  <2>3. Succeeded' = Succeeded
    BY <1>1 DEF Succeeded
  <2>4. /\ pc' = NoRun /\ date' = 0 /\ latest' = 0 /\ left' = {} /\ batch' = {}
        /\ DOMAIN computed' \subseteq Relays
    BY <1>1 DEF Exit, NoUptimes
  <2>5. (RunOK /\ BatchOK)'
    BY <2>4, UptimeAssumption DEF RunOK, BatchOK
  <2>6. DocsOK' /\ HasLatest'
    BY <1>1, <2>3, <2>4 DEF Reaches, DocsOK, HasLatest, UpTo
  <2> QED BY <2>2, <2>5, <2>6 DEF Reaches
<1> QED BY <1>2, <1>3 DEF RunCrash

\* What the command marked as pushed stays in the contract or makes way for a later date, over
\* any number of dates and runs, wherever they die.
THEOREM PushedStays == Spec => []PushedReached
<1>1. ASSUME Reaches, [Next]_vars PROVE Reaches'
  <2>1. CASE UNCHANGED vars
    BY <1>1, <2>1, ValidationReaches DEF vars
  <2>2. CASE ValidationNext /\ UNCHANGED command
    BY <1>1, <2>2, ValidationReaches
  <2> QED BY <1>1, <2>1, <2>2, StartRunReaches, PopulateReaches, SaveJobReaches,
             ChooseLatestReaches, SetReaches, MarkReaches, RunCrashReaches
          DEF Next, Command
<1>2. Reaches => PushedReached
  BY DEF Reaches
<1> QED BY <1>1, <1>2, InitReaches, PTL DEF Spec

----------------------------------------------------------------------------
(* Streaks.  A date that is over has its RelayData, and what is computed   *)
(* from it stays exact.                                                    *)

\* The relays with RelayData of a date, and those seen often enough.
Seen(data, d) == {r \in Relays : data[d][r].running + data[d][r].not > 0}
Enough(data, r, d) == d > 0 /\ data[d][r].running >= MinimumCount
StreakIn(data, r, d, n) == /\ \A e \in (d - n + 1)..d : Enough(data, r, e)
                           /\ ~Enough(data, r, d - n)
ExactIn(data, d, u) ==
  /\ DOMAIN u = Seen(data, d)
  /\ \A r \in Seen(data, d) : u[r] \in Nat /\ u[r] <= d /\ StreakIn(data, r, d, u[r])

\* No validation writes RelayData of the date or of an earlier one any more.
Closed(d) == d < today /\ (stage = "store" => stamp > d)
Clean(d) == failed \cap 1..d = {}
Complete(d) == relayUptimes[d] # <<>> \/ Seen(relayData, d) = {}

ServiceOK ==
  /\ today \in Int /\ today <= LastDay + 1 /\ stamp \in Int
  /\ relayData \in [Days -> [Relays -> [running : Nat, not : Nat]]]
DatesOK ==
  /\ minimum \in {MinimumCount, NaN} /\ pc \in {NoRun, "dates", "save", "push", "mark"}
  /\ pc # NoRun => date \in Nat \ {0} /\ last \in Int /\ Closed(last)
  /\ pc = "save" => /\ date <= last
                    /\ computed = Undefined => date \in failed
                    /\ computed # Undefined /\ Clean(date) => ExactIn(relayData, date, computed)
Past == \A d \in Days : d \in Succeeded \/ relayUptimes[d] # <<>> => Closed(d)
Stored ==
  /\ job \in [Days -> {"none", "failed", "success"}] /\ DOMAIN uptimes = Days
  /\ DOMAIN relayUptimes = Days
  /\ \A d \in Days : relayUptimes[d] \in Seq([Seen(relayData, d) -> Nat])
  /\ \A d \in Days : Clean(d) =>
       \A i \in 1..Len(relayUptimes[d]) : ExactIn(relayData, d, relayUptimes[d][i])
  /\ \A d \in Succeeded : Clean(d) => ExactIn(relayData, d, uptimes[d])
Reached(e) == \/ pc \in {"dates", "save"} /\ e < date /\ e <= last
              \/ pc = "save" /\ e = date
              \/ \E d \in Succeeded : e <= d
Filled == \A e \in Days : Clean(e) /\ Reached(e) => Complete(e)
Counted == ServiceOK /\ DatesOK /\ Past /\ Stored /\ Filled

LEMMA DayBounds == \A d \in Days : d \in Nat /\ d > 0 /\ 1..d \subseteq Days /\ d <= LastDay
BY ValidationAssumption DEF Days

LEMMA SeenOnData == \A d : SeenOn(d) = Seen(relayData, d)
BY DEF SeenOn, Seen

LEMMA ClosedBefore ==
  ASSUME ServiceOK, NEW d \in Int, NEW e \in Int, e <= d, Closed(d)
  PROVE  Closed(e)
BY DEF ServiceOK, Closed

\* What was exact stays so while the RelayData up to the date is the same.
LEMMA ExactSame ==
  ASSUME NEW data, NEW new, NEW d \in Days, \A e \in 1..d : new[e] = data[e]
  PROVE  Seen(new, d) = Seen(data, d) /\ \A u : ExactIn(data, d, u) => ExactIn(new, d, u)
<1>1. d \in Nat /\ d \in 1..d
  BY DayBounds
<1>2. Seen(new, d) = Seen(data, d)
  BY <1>1 DEF Seen
<1>3. ASSUME NEW u, ExactIn(data, d, u) PROVE ExactIn(new, d, u)
  <2> SUFFICES ASSUME NEW r \in Seen(data, d)
               PROVE  u[r] \in Nat /\ u[r] <= d /\ StreakIn(new, r, d, u[r])
    BY <1>2, <1>3 DEF ExactIn
  <2>1. PICK n \in Nat : n = u[r]
    BY <1>3 DEF ExactIn
  <2>2. n <= d /\ StreakIn(data, r, d, n)
    BY <1>3, <2>1 DEF ExactIn
  <2>3. \A e \in (d - n)..d : Enough(data, r, e) = Enough(new, r, e)
    <3> SUFFICES ASSUME NEW e \in (d - n)..d PROVE Enough(data, r, e) = Enough(new, r, e)
      OBVIOUS
    <3>1. e \in Int /\ e <= d
      BY <1>1, <2>1
    <3>2. CASE e > 0
      <4>1. e \in 1..d
        BY <1>1, <3>1, <3>2
      <4> QED BY <4>1 DEF Enough
    <3>3. CASE ~(e > 0)
      BY <3>3 DEF Enough
    <3> QED BY <3>2, <3>3
  <2>4. (d - n + 1)..d \subseteq (d - n)..d /\ d - n \in (d - n)..d
    BY <1>1, <2>1
  <2>5. StreakIn(new, r, d, n)
    BY <2>2, <2>3, <2>4 DEF StreakIn
  <2> QED BY <2>1, <2>2, <2>5
<1> QED BY <1>2, <1>3

\* A streak goes on, or is over.
LEMMA StreakNext ==
  ASSUME NEW data, NEW r, NEW d \in Days, NEW p \in Nat, p <= d - 1, StreakIn(data, r, d - 1, p),
         NEW n, n = IF Enough(data, r, d) THEN p + 1 ELSE 0
  PROVE  n \in Nat /\ n <= d /\ StreakIn(data, r, d, n)
<1>1. d \in Nat /\ d > 0
  BY DayBounds
<1>2. CASE Enough(data, r, d)
  <2>1. n = p + 1 /\ d - n = d - 1 - p /\ d - n + 1 = d - 1 - p + 1
    BY <1>1, <1>2
  <2>2. \A e \in (d - 1 - p + 1)..(d - 1) : Enough(data, r, e)
    BY DEF StreakIn
  <2>3. \A e \in (d - n + 1)..d : e = d \/ e \in (d - 1 - p + 1)..(d - 1)
    BY <1>1, <2>1
  <2>4. \A e \in (d - n + 1)..d : Enough(data, r, e)
    BY <1>2, <2>2, <2>3
  <2>5. ~Enough(data, r, d - n)
    BY <2>1 DEF StreakIn
  <2> QED BY <1>1, <2>1, <2>4, <2>5 DEF StreakIn
<1>3. CASE ~Enough(data, r, d)
  <2>1. n = 0 /\ d - n = d /\ (d - n + 1)..d = {}
    BY <1>1, <1>3
  <2> QED BY <1>1, <1>3, <2>1 DEF StreakIn
<1> QED BY <1>2, <1>3

\* The days before, as the documents of the day before have them.
LEMMA PreviousExact ==
  ASSUME ServiceOK, Stored, NEW d \in Days, NEW r \in Relays
  PROVE  /\ PreviousDays(r, d - 1) \in Nat
         /\ Clean(d) /\ (d - 1 \in Days => Complete(d - 1)) =>
              /\ PreviousDays(r, d - 1) <= d - 1
              /\ StreakIn(relayData, r, d - 1, PreviousDays(r, d - 1))
<1>1. d \in Nat /\ d > 0 /\ d <= LastDay /\ LastDay \in Nat
  BY DayBounds, ValidationAssumption
<1>2. PICK c : c = d - 1
  OBVIOUS
<1>3. CASE c = 0
  <2>1. PreviousDays(r, c) = 0
    BY <1>3 DEF PreviousDays
  <2>2. StreakIn(relayData, r, c, 0)
    BY <1>3 DEF StreakIn, Enough
  <2> QED BY <1>1, <1>2, <1>3, <2>1, <2>2
<1>4. CASE c # 0
  <2>1. c \in Days /\ c \in Nat /\ c <= d
    BY <1>1, <1>2, <1>4 DEF Days
  <2>2. PICK ups : ups = relayUptimes[c]
    OBVIOUS
  <2>3. PICK S : S = Seen(relayData, c)
    OBVIOUS
  <2>4. ups \in Seq([S -> Nat]) /\ Len(ups) \in Nat /\ DOMAIN ups = 1..Len(ups)
        /\ \A i \in 1..Len(ups) : ups[i] \in [S -> Nat]
    BY <2>1, <2>2, <2>3 DEF Stored
  <2>5. DocsOf(r, c) = IF r \in S THEN 1..Len(ups) ELSE {}
    BY <2>2, <2>4 DEF DocsOf
  <2>6. CASE r \in S /\ ups # <<>>
    <3>1. 1 \in 1..Len(ups)
      BY <2>4, <2>6
    <3>2. (CHOOSE i \in 1..Len(ups) : \A k \in 1..Len(ups) : i <= k) = 1
      <4>1. \A k \in 1..Len(ups) : 1 <= k
        BY <2>4
      <4>2. \A i \in 1..Len(ups) : (\A k \in 1..Len(ups) : i <= k) => i = 1
        <5> SUFFICES ASSUME NEW i \in 1..Len(ups), \A k \in 1..Len(ups) : i <= k PROVE i = 1
          OBVIOUS
        <5>1. i <= 1 /\ i >= 1 /\ i \in Int
          BY <2>4, <3>1
        <5> QED BY <5>1
      <4> QED BY <3>1, <4>1, <4>2
    <3>3. PreviousDays(r, c) = ups[1][r]
      <4>1. DocsOf(r, c) = 1..Len(ups) /\ DocsOf(r, c) # {}
        BY <2>5, <2>6, <3>1
      <4> QED BY <1>4, <2>2, <3>2, <4>1 DEF PreviousDays
    <3>4. ups[1][r] \in Nat
      BY <2>4, <2>6, <3>1
    <3>5. ASSUME Clean(d) PROVE ups[1][r] <= c /\ StreakIn(relayData, r, c, ups[1][r])
      <4>1. Clean(c)
        BY <1>1, <2>1, <3>5 DEF Clean
      <4>2. ExactIn(relayData, c, ups[1])
        BY <2>1, <2>2, <3>1, <4>1 DEF Stored
      <4> QED BY <2>3, <2>6, <4>2 DEF ExactIn
    <3> QED BY <1>2, <3>3, <3>4, <3>5
  <2>7. CASE ~(r \in S /\ ups # <<>>)
    <3>1. DocsOf(r, c) = {}
      BY <2>4, <2>5, <2>7
    <3>2. PreviousDays(r, c) = 0
      BY <1>4, <3>1 DEF PreviousDays
    <3>3. ASSUME Complete(c) PROVE StreakIn(relayData, r, c, 0)
      <4>1. r \notin S
        BY <2>2, <2>3, <2>7, <3>3 DEF Complete
      <4>2. relayData[c][r].running \in Nat /\ relayData[c][r].not \in Nat
        BY <2>1 DEF ServiceOK
      <4>3. ~(relayData[c][r].running >= MinimumCount)
        BY <2>3, <4>1, <4>2, UptimeAssumption DEF Seen
      <4>4. (c - 0 + 1)..c = {} /\ c - 0 = c
        BY <2>1
      <4> QED BY <4>3, <4>4 DEF StreakIn, Enough
    <3> QED BY <1>2, <2>1, <3>2, <3>3
  <2> QED BY <2>6, <2>7
<1> QED BY <1>3, <1>4

\* What populateRelayUptimesForDate computes.
LEMMA ComputedExact ==
  ASSUME Counted, pc = "dates", date <= last, minimum # NaN
  PROVE  /\ date \in Days /\ Closed(date)
         /\ Computed(date) \in [Seen(relayData, date) -> Nat]
         /\ Clean(date) => ExactIn(relayData, date, Computed(date))
<1>1. /\ date \in Nat \ {0} /\ last \in Int /\ Closed(last) /\ minimum = MinimumCount
      /\ ServiceOK /\ Stored
  BY UptimeAssumption DEF Counted, DatesOK
<1>2. date \in Days /\ Closed(date)
  <2>1. Closed(date)
    BY <1>1, ClosedBefore
  <2>2. date < today /\ today <= LastDay + 1 /\ today \in Int
    BY <1>1, <2>1 DEF Closed, ServiceOK
  <2>3. date <= LastDay
    BY <1>1, <2>2, ValidationAssumption
  <2> QED BY <1>1, <2>1, <2>3, ValidationAssumption DEF Days
<1>3. PICK d \in Days : d = date
  BY <1>2
<1>4. Computed(d) = [r \in Seen(relayData, d) |-> Uptime(r, d)]
  BY SeenOnData DEF Computed
<1>5. d > 0 /\ d \in Nat
  BY DayBounds
<1>6. \A r \in Relays : Uptime(r, d) = IF Enough(relayData, r, d) THEN PreviousDays(r, d - 1) + 1 ELSE 0
  BY <1>1, <1>5 DEF Uptime, UptimeValid, Enough
<1>7. \A r \in Relays : Uptime(r, d) \in Nat
  BY <1>1, <1>6, PreviousExact
<1>8. Computed(d) \in [Seen(relayData, d) -> Nat]
  BY <1>4, <1>7 DEF Seen
<1>9. ASSUME Clean(d) PROVE ExactIn(relayData, d, Computed(d))
  <2>1. d - 1 \in Days => Complete(d - 1)
    <3> SUFFICES ASSUME d - 1 \in Days PROVE Complete(d - 1)
      OBVIOUS
    <3>1. Clean(d - 1)
      BY <1>5, <1>9 DEF Clean
    <3>2. Reached(d - 1)
      BY <1>1, <1>3, <1>5 DEF Reached
    <3> QED BY <3>1, <3>2 DEF Counted, Filled
  <2>2. ASSUME NEW r \in Seen(relayData, d)
        PROVE  /\ Uptime(r, d) \in Nat /\ Uptime(r, d) <= d
               /\ StreakIn(relayData, r, d, Uptime(r, d))
    <3>1. r \in Relays
      BY DEF Seen
    <3>2. PICK p \in Nat : p = PreviousDays(r, d - 1)
      BY <1>1, <3>1, PreviousExact
    <3>3. p <= d - 1 /\ StreakIn(relayData, r, d - 1, p)
      BY <1>1, <1>9, <2>1, <3>1, <3>2, PreviousExact
    <3>4. Uptime(r, d) = IF Enough(relayData, r, d) THEN p + 1 ELSE 0
      BY <1>6, <3>1, <3>2
    <3> QED BY <3>3, <3>4, StreakNext
  <2> QED BY <1>4, <2>2 DEF ExactIn
<1> QED BY <1>2, <1>3, <1>8, <1>9

\* Steps that leave the data alone and go no further in the dates.
LEMMA IdleCounted ==
  ASSUME Counted, UNCHANGED <<service, relayUptimes, minimum, job, uptimes, failed>>,
         \/ pc' = NoRun
         \/ /\ pc # NoRun /\ pc' \in {"push", "mark"} /\ date' = date /\ last' = last
  PROVE  Counted'
<1>1. UNCHANGED <<today, stamp, stage, relayData>>
  BY DEF service
<1>2. /\ Succeeded' = Succeeded /\ \A d : Closed(d)' = Closed(d) /\ Clean(d)' = Clean(d)
      /\ \A d : Complete(d)' = Complete(d)
  BY <1>1 DEF Succeeded, Closed, Clean, Complete
<1>3. ServiceOK' /\ Past' /\ Stored'
  BY <1>1, <1>2 DEF Counted, ServiceOK, Past, Stored, Closed, Clean
<1>4. pc' \notin {"dates", "save"}
  BY UptimeAssumption
<1>5. DatesOK'
  <2>1. pc' # NoRun => date' \in Nat \ {0} /\ last' \in Int /\ Closed(last)'
    BY <1>1 DEF Counted, DatesOK, Closed
  <2>2. minimum' \in {MinimumCount, NaN} /\ pc' \in {NoRun, "dates", "save", "push", "mark"}
    BY DEF Counted, DatesOK
  <2> QED BY <1>4, <2>1, <2>2 DEF DatesOK, Closed
<1>6. \A e \in Days : Reached(e)' => Reached(e)
  BY <1>2, <1>4 DEF Reached
<1>7. Filled'
  BY <1>2, <1>6 DEF Counted, Filled
<1> QED BY <1>3, <1>5, <1>7 DEF Counted

\* The validation writes RelayData of dates that are not closed.
LEMMA ValidationCloses ==
  ASSUME ServiceOK, ValidationNext
  PROVE  /\ ServiceOK' /\ relayUptimes' = relayUptimes
         /\ \A d \in Int : Closed(d) => Closed(d)'
         /\ \A d \in Days : Closed(d) => relayData'[d] = relayData[d]
<1>1. CASE Midnight
  <2>1. /\ today \in Int /\ today <= LastDay /\ today' = today + 1
        /\ UNCHANGED <<relayData, relayUptimes, stage, stamp>>
    BY <1>1 DEF Midnight, flow, ServiceOK
  <2> QED BY <2>1, ValidationAssumption DEF ServiceOK, Closed
<1>2. ASSUME UNCHANGED <<today, relayData, relayUptimes>>, stamp' \in {stamp, 1, today},
             stage' = "store" => (stage = "store" /\ stamp' = stamp) \/ stamp' = today
      PROVE  /\ ServiceOK' /\ relayUptimes' = relayUptimes
             /\ \A d \in Int : Closed(d) => Closed(d)'
             /\ \A d \in Days : Closed(d) => relayData'[d] = relayData[d]
  BY <1>2 DEF ServiceOK, Closed
<1>3. ASSUME ValidateJob \/ FetchRelays \/ FilterRelays \/ VerifyJob
      PROVE  /\ ServiceOK' /\ relayUptimes' = relayUptimes
             /\ \A d \in Int : Closed(d) => Closed(d)'
             /\ \A d \in Days : Closed(d) => relayData'[d] = relayData[d]
  <2>1. UNCHANGED <<today, relayData, relayUptimes>> /\ stamp' \in {stamp, 1} /\ stage' # "store"
    BY <1>3 DEF ValidateJob, FetchRelays, FilterRelays, VerifyJob, Over, Ends
  <2> QED BY <1>2, <2>1
<1>4. ASSUME ValidateRelays
      PROVE  /\ ServiceOK' /\ relayUptimes' = relayUptimes
             /\ \A d \in Int : Closed(d) => Closed(d)'
             /\ \A d \in Days : Closed(d) => relayData'[d] = relayData[d]
  <2>1. UNCHANGED <<today, relayData, relayUptimes>> /\ stamp' = today
    BY <1>4 DEF ValidateRelays
  <2> QED BY <1>2, <2>1
<1>5. ASSUME NEW n \in Nat, stage = "store", InsertRelayData(n)
      PROVE  /\ relayData' \in [Days -> [Relays -> [running : Nat, not : Nat]]]
             /\ \A d \in Days : Closed(d) => relayData'[d] = relayData[d]
  <2>1. PICK new : relayData' = [relayData EXCEPT ![stamp] = new]
                   /\ (stamp \in Days => new \in [Relays -> [running : Nat, not : Nat]])
    <3>1. PICK new : new = [r \in Relays |->
             [running |-> relayData[stamp][r].running
                            + IF r \in DOMAIN validated /\ listed[r] = TRUE THEN n ELSE 0,
              not |-> relayData[stamp][r].not
                        + IF r \in DOMAIN validated /\ listed[r] = FALSE THEN n ELSE 0]]
      OBVIOUS
    <3>2. relayData' = [relayData EXCEPT ![stamp] = new]
      BY <1>5, <3>1 DEF InsertRelayData
    <3>3. ASSUME stamp \in Days PROVE new \in [Relays -> [running : Nat, not : Nat]]
      <4>1. \A r \in Relays : relayData[stamp][r] \in [running : Nat, not : Nat]
        BY <3>3 DEF ServiceOK
      <4> QED BY <1>5, <3>1, <4>1
    <3> QED BY <3>2, <3>3
  <2>2. relayData' \in [Days -> [Relays -> [running : Nat, not : Nat]]]
    BY <2>1 DEF ServiceOK
  <2>3. ASSUME NEW d \in Days, Closed(d) PROVE relayData'[d] = relayData[d]
    <3>1. d # stamp
      BY <1>5, <2>3, DayBounds DEF Closed, ServiceOK
    <3> QED BY <2>1, <3>1 DEF ServiceOK
  <2> QED BY <2>2, <2>3
<1>6. ASSUME StoreRelayData
      PROVE  /\ ServiceOK' /\ relayUptimes' = relayUptimes
             /\ \A d \in Int : Closed(d) => Closed(d)'
             /\ \A d \in Days : Closed(d) => relayData'[d] = relayData[d]
  <2>1. /\ UNCHANGED <<today, stamp, relayUptimes>> /\ stage = "store" /\ stage' # "store"
        /\ \E n \in Nat : InsertRelayData(n)
    BY <1>6 DEF StoreRelayData, Ends, Copies
  <2> QED BY <1>5, <2>1 DEF ServiceOK, Closed
<1>7. ASSUME Crash
      PROVE  /\ ServiceOK' /\ relayUptimes' = relayUptimes
             /\ \A d \in Int : Closed(d) => Closed(d)'
             /\ \A d \in Days : Closed(d) => relayData'[d] = relayData[d]
  <2>1. /\ UNCHANGED <<today, relayUptimes>> /\ stamp' \in {stamp, 1} /\ stage' # "store"
        /\ relayData' = relayData \/ (stage = "store" /\ InsertRelayData(1))
    BY <1>7 DEF Crash, Over
  <2>2. /\ relayData' \in [Days -> [Relays -> [running : Nat, not : Nat]]]
        /\ \A d \in Days : Closed(d) => relayData'[d] = relayData[d]
    BY <1>5, <2>1 DEF ServiceOK
  <2> QED BY <2>1, <2>2 DEF ServiceOK, Closed
<1> QED BY <1>1, <1>3, <1>4, <1>6, <1>7 DEF ValidationNext, Jobs

LEMMA ValidationCounted ==
  ASSUME Counted, ValidationNext, UNCHANGED command
  PROVE  Counted'
<1>1. /\ ServiceOK' /\ relayUptimes' = relayUptimes
      /\ \A d \in Int : Closed(d) => Closed(d)'
      /\ \A d \in Days : Closed(d) => relayData'[d] = relayData[d]
  BY ValidationCloses DEF Counted
<1>2. UNCHANGED <<minimum, pc, date, last, computed, job, uptimes, failed>>
  BY DEF command, run, jobs
<1>3. Succeeded' = Succeeded /\ \A d : Clean(d)' = Clean(d)
  BY <1>2 DEF Succeeded, Clean
<1>4. ASSUME NEW d \in Days, Closed(d)
      PROVE  /\ Seen(relayData', d) = Seen(relayData, d)
             /\ \A u : ExactIn(relayData, d, u) => ExactIn(relayData', d, u)
  <2>1. ASSUME NEW e \in 1..d PROVE relayData'[e] = relayData[e]
    <3>1. e \in Days /\ e \in Int /\ d \in Int /\ e <= d
      BY DayBounds
    <3>2. Closed(e)
      BY <1>4, <3>1, ClosedBefore DEF Counted
    <3> QED BY <1>1, <3>1, <3>2
  <2> QED BY <2>1, ExactSame
<1>5. Days \subseteq Int
  BY DaysInt
<1>6. Past'
  BY <1>1, <1>3, <1>5 DEF Counted, Past
<1>7. Stored'
  <2>1. \A d \in Days : relayUptimes[d] \in Seq([Seen(relayData', d) -> Nat])
    <3> SUFFICES ASSUME NEW d \in Days PROVE relayUptimes[d] \in Seq([Seen(relayData', d) -> Nat])
      OBVIOUS
    <3>1. CASE relayUptimes[d] = <<>>
      BY <3>1
    <3>2. CASE relayUptimes[d] # <<>>
      <4>1. Closed(d)
        BY <3>2 DEF Counted, Past
      <4> QED BY <1>4, <4>1 DEF Counted, Stored
    <3> QED BY <3>1, <3>2
  <2>2. ASSUME NEW d \in Days, Clean(d), NEW i \in 1..Len(relayUptimes[d])
        PROVE  ExactIn(relayData', d, relayUptimes[d][i])
    <3>1. relayUptimes[d] # <<>>
      BY <2>2
    <3>2. Closed(d)
      BY <3>1 DEF Counted, Past
    <3>3. ExactIn(relayData, d, relayUptimes[d][i])
      BY <2>2 DEF Counted, Stored
    <3> QED BY <1>4, <3>2, <3>3
  <2>3. ASSUME NEW d \in Succeeded, Clean(d) PROVE ExactIn(relayData', d, uptimes[d])
    <3>1. d \in Days
      BY SucceededInt
    <3>2. Closed(d) /\ ExactIn(relayData, d, uptimes[d])
      BY <2>3, <3>1 DEF Counted, Past, Stored
    <3> QED BY <1>4, <3>1, <3>2
  <2> QED BY <1>1, <1>2, <1>3, <2>1, <2>2, <2>3 DEF Counted, Stored
<1>8. DatesOK'
  <2>1. pc # NoRun => date \in Nat \ {0} /\ last \in Int /\ Closed(last) /\ Closed(last)'
    BY <1>1, <1>2 DEF Counted, DatesOK, Closed
  <2>2. ASSUME pc = "save", computed # Undefined, Clean(date)
        PROVE  ExactIn(relayData', date, computed)
    <3>1. /\ date <= last /\ date \in Nat \ {0} /\ last \in Int /\ Closed(last)
          /\ ExactIn(relayData, date, computed)
      BY <2>2, UptimeAssumption DEF Counted, DatesOK
    <3>2. Closed(date)
      BY <3>1, ClosedBefore DEF Counted
    <3>3. date \in Days
      BY <3>1, <3>2, ValidationAssumption DEF Counted, ServiceOK, Closed, Days
    <3> QED BY <1>4, <3>1, <3>2, <3>3
  <2>3. /\ minimum' \in {MinimumCount, NaN} /\ pc' \in {NoRun, "dates", "save", "push", "mark"}
        /\ pc' = "save" => /\ date' <= last'
                           /\ computed' = Undefined => date' \in failed'
    BY <1>2 DEF Counted, DatesOK
  <2>4. pc' = "save" /\ computed' # Undefined /\ Clean(date)' => ExactIn(relayData', date', computed')
    BY <1>2, <2>2 DEF Clean
  <2>5. pc' # NoRun => date' \in Nat \ {0} /\ last' \in Int /\ Closed(last)'
    BY <1>2, <2>1
  <2> QED BY <2>3, <2>4, <2>5 DEF DatesOK
<1>9. Filled'
  <2> SUFFICES ASSUME NEW e \in Days, Clean(e), Reached(e)' PROVE Complete(e)'
    BY <1>3 DEF Filled
  <2>1. Reached(e)
    BY <1>2, <1>3 DEF Reached
  <2>2. Complete(e)
    BY <2>1 DEF Counted, Filled
  <2>3. Closed(e)
    <3>1. e \in Int
      BY <1>5
    <3>2. CASE \E d \in Succeeded : e <= d
      <4>1. PICK d \in Succeeded : e <= d
        BY <3>2
      <4>2. d \in Days /\ d \in Int /\ Closed(d)
        BY <1>5, SucceededInt DEF Counted, Past
      <4> QED BY <3>1, <4>1, <4>2, ClosedBefore DEF Counted
    <3>3. CASE pc \in {"dates", "save"} /\ e <= last
      <4>1. last \in Int /\ Closed(last)
        BY <3>3, UptimeAssumption DEF Counted, DatesOK
      <4> QED BY <3>1, <3>3, <4>1, ClosedBefore DEF Counted
    <3>4. pc = "save" /\ e = date => e <= last
      BY DEF Counted, DatesOK
    <3> QED BY <2>1, <3>2, <3>3, <3>4 DEF Reached
  <2>4. Seen(relayData', e) = Seen(relayData, e)
    BY <1>4, <2>3
  <2> QED BY <1>1, <2>2, <2>4 DEF Complete
<1> QED BY <1>1, <1>6, <1>7, <1>8, <1>9 DEF Counted

LEMMA StartRunCounted == ASSUME Counted, StartRun PROVE Counted'
<1>1. /\ pc = NoRun /\ pc' = "dates" /\ last' = today - 1 /\ date' \in StartDates
      /\ ~(stage = "store" /\ stamp < today)
      /\ UNCHANGED <<today, stamp, stage, relayData, relayUptimes, minimum, computed, job, uptimes,
                     failed>>
  BY DEF StartRun, EndDate, service, jobs
<1>2. /\ Succeeded' = Succeeded /\ \A d : Closed(d)' = Closed(d) /\ Clean(d)' = Clean(d)
      /\ \A d : Complete(d)' = Complete(d)
  BY <1>1 DEF Succeeded, Closed, Clean, Complete
<1>3. ServiceOK' /\ Past' /\ Stored'
  BY <1>1, <1>2 DEF Counted, ServiceOK, Past, Stored, Closed, Clean
<1>4. last' \in Int /\ Closed(last)'
  <2>1. PICK l : l = today - 1
    OBVIOUS
  <2>2. l \in Int /\ Closed(l)
    BY <1>1, <2>1 DEF Counted, ServiceOK, Closed
  <2> QED BY <1>1, <2>1, <2>2 DEF Closed
<1>5. /\ date' \in Nat \ {0}
      /\ \A e \in Days : e < date' => (\E d \in Succeeded : e <= d) \/ Seen(relayData, e) = {}
  <2>1. CASE LastJobRun # {}
    <3>1. PICK d \in LastJobRun : date' = d + 1
      BY <1>1, <2>1 DEF StartDates
    <3>2. d \in Succeeded /\ d \in Days /\ d \in Nat
      BY SucceededInt, DayBounds DEF LastJobRun
    <3>3. \A e \in Days : e < d + 1 => e <= d
      BY <3>2, DayBounds
    <3> QED BY <3>1, <3>2, <3>3
  <2>2. CASE LastJobRun = {}
    <3>1. PICK d \in Days : date' = d /\ \A e \in 1..(d - 1) : SeenOn(e) = {}
      BY <1>1, <2>2 DEF StartDates
    <3>2. d \in Nat \ {0}
      BY DayBounds
    <3>3. ASSUME NEW e \in Days, e < d PROVE Seen(relayData, e) = {}
      <4>1. e \in 1..(d - 1)
        BY <3>2, <3>3, DayBounds
      <4> QED BY <3>1, <4>1, SeenOnData
    <3> QED BY <3>1, <3>2, <3>3
  <2> QED BY <2>1, <2>2
<1>6. DatesOK'
  BY <1>1, <1>4, <1>5 DEF Counted, DatesOK, Closed
<1>7. Filled'
  <2> SUFFICES ASSUME NEW e \in Days, Clean(e), Reached(e)' PROVE Complete(e)
    BY <1>2 DEF Filled
  <2>1. CASE \E d \in Succeeded : e <= d
    BY <2>1 DEF Counted, Filled, Reached
  <2>2. CASE e < date'
    BY <1>5, <2>1, <2>2 DEF Complete
  <2> QED BY <1>1, <1>2, <2>1, <2>2 DEF Reached
<1> QED BY <1>3, <1>6, <1>7 DEF Counted

\* The documents of a date.
LEMMA InsertStored ==
  ASSUME Counted, pc = "dates", date <= last, minimum # NaN, Insert(date),
         UNCHANGED <<service, job, uptimes>>, failed \subseteq failed', NEW d, d = date
  PROVE  /\ Stored' /\ Past' /\ Complete(d)'
         /\ \A e \in Days : Complete(e) => Complete(e)'
<1>1. d = date
  OBVIOUS
<1>2. PICK u : u = Computed(d)
  OBVIOUS
<1>3. PICK S : S = Seen(relayData, d)
  OBVIOUS
<1>4. /\ d \in Days /\ Closed(d) /\ u \in [S -> Nat]
      /\ Clean(d) => ExactIn(relayData, d, u)
  BY <1>1, <1>2, <1>3, ComputedExact
<1>5. UNCHANGED <<today, stamp, stage, relayData>>
  BY DEF service
<1>6. /\ Succeeded' = Succeeded /\ \A e : Closed(e)' = Closed(e)
      /\ \A e : Clean(e)' => Clean(e)
  BY <1>5 DEF Succeeded, Closed, Clean
<1>7. Stored /\ relayUptimes[d] \in Seq([S -> Nat]) /\ DOMAIN relayUptimes = Days
  BY <1>3, <1>4 DEF Counted, Stored
<1>8. CASE S = {}
  <2>1. relayUptimes' = relayUptimes
    BY <1>1, <1>3, <1>8, SeenOnData DEF Insert
  <2>2. Stored' /\ Past'
    BY <1>5, <1>6, <2>1 DEF Counted, Stored, Past
  <2>3. Complete(d)' /\ \A e \in Days : Complete(e) => Complete(e)'
    BY <1>3, <1>5, <1>8, <2>1 DEF Complete
  <2> QED BY <2>2, <2>3
<1>9. CASE S # {}
  <2>1. PICK ups : ups = relayUptimes[d]
    OBVIOUS
  <2>2. PICK t : t = Append(ups, u)
    OBVIOUS
  <2>3. relayUptimes' = [relayUptimes EXCEPT ![d] = t]
    BY <1>1, <1>2, <1>3, <1>9, <2>1, <2>2, SeenOnData DEF Insert
  <2>4. /\ t \in Seq([S -> Nat]) /\ t # <<>> /\ Len(ups) \in Nat /\ Len(t) = Len(ups) + 1
        /\ t[Len(ups) + 1] = u /\ \A i \in 1..Len(ups) : t[i] = ups[i]
    <3>1. ups \in Seq([S -> Nat])
      BY <1>7, <2>1
    <3>2. /\ t \in Seq([S -> Nat]) /\ Len(ups) \in Nat /\ Len(t) = Len(ups) + 1
          /\ t[Len(ups) + 1] = u /\ \A i \in 1..Len(ups) : t[i] = ups[i]
      BY <1>4, <2>2, <3>1, AppendProperties, LenProperties
    <3> QED BY <3>2
  <2>5. /\ relayUptimes'[d] = t /\ DOMAIN relayUptimes' = Days
        /\ \A e \in Days \ {d} : relayUptimes'[e] = relayUptimes[e]
    BY <1>4, <1>7, <2>3
  <2>6. \A e \in Days : relayUptimes'[e] \in Seq([Seen(relayData', e) -> Nat])
    BY <1>3, <1>5, <1>7, <2>4, <2>5 DEF Stored
  <2>7. ASSUME NEW e \in Days, Clean(e), NEW i \in 1..Len(relayUptimes'[e])
        PROVE  ExactIn(relayData', e, relayUptimes'[e][i])
    <3>1. CASE e # d
      BY <1>5, <1>7, <2>5, <2>7, <3>1 DEF Stored
    <3>2. CASE e = d /\ i = Len(ups) + 1
      BY <1>4, <1>5, <2>4, <2>5, <2>7, <3>2
    <3>3. CASE e = d /\ i \in 1..Len(ups)
      <4>1. relayUptimes'[e][i] = relayUptimes[d][i] /\ i \in 1..Len(relayUptimes[d])
        BY <2>1, <2>4, <2>5, <3>3
      <4> QED BY <1>4, <1>5, <1>7, <2>7, <3>3, <4>1 DEF Stored
    <3> QED BY <2>4, <2>5, <2>7, <3>1, <3>2, <3>3
  <2>8. \A e \in Succeeded : Clean(e) => ExactIn(relayData', e, uptimes[e])
    BY <1>5, <1>7 DEF Stored
  <2>9. Stored'
    BY <1>6, <1>7, <2>5, <2>6, <2>7, <2>8 DEF Stored
  <2>10. Past'
    BY <1>4, <1>6, <2>5 DEF Counted, Past
  <2>11. Complete(d)' /\ \A e \in Days : Complete(e) => Complete(e)'
    BY <1>5, <2>4, <2>5 DEF Complete
  <2> QED BY <2>9, <2>10, <2>11
<1> QED BY <1>8, <1>9

LEMMA PopulateCounted == ASSUME Counted, PopulateRelayUptimes PROVE Counted'
<1>1. /\ pc = "dates" /\ date <= last /\ UNCHANGED <<service, minimum, job, uptimes>>
  BY DEF PopulateRelayUptimes
<1>2. UNCHANGED <<today, stamp, stage, relayData>> /\ pc # NoRun
  BY <1>1, UptimeAssumption DEF service
<1>3. Succeeded' = Succeeded /\ \A d : Closed(d)' = Closed(d)
  BY <1>1, <1>2 DEF Succeeded, Closed
<1>4. /\ date \in Nat \ {0} /\ last \in Int /\ Closed(last)
      /\ minimum' \in {MinimumCount, NaN} /\ ServiceOK'
  BY <1>1, <1>2 DEF Counted, DatesOK, ServiceOK
<1>5. CASE date \in Succeeded
  <2>1. /\ date' = date + 1
        /\ UNCHANGED <<pc, last, computed, relayUptimes, failed>>
    BY <1>5 DEF PopulateRelayUptimes
  <2>2. \A d : Clean(d)' = Clean(d) /\ Complete(d)' = Complete(d)
    BY <1>2, <2>1 DEF Clean, Complete
  <2>3. Past' /\ Stored'
    BY <1>1, <1>2, <1>3, <2>1, <2>2 DEF Counted, Past, Stored, Closed, Clean
  <2>4. DatesOK'
    <3>1. date' \in Nat \ {0} /\ last' \in Int /\ Closed(last)' /\ pc' = "dates"
      BY <1>1, <1>2, <1>4, <2>1 DEF Closed
    <3> QED BY <1>4, <3>1 DEF DatesOK
  <2>5. Filled'
    <3> SUFFICES ASSUME NEW e \in Days, Clean(e), Reached(e)' PROVE Complete(e)
      BY <2>2 DEF Filled
    <3>1. CASE \E d \in Succeeded : e <= d
      BY <3>1 DEF Counted, Filled, Reached
    <3>2. CASE e < date + 1 /\ e <= last
      <4>1. e < date \/ e <= date
        BY <1>4, <3>2, DayBounds
      <4> QED BY <1>1, <1>5, <3>1, <3>2, <4>1 DEF Counted, Filled, Reached
    <3> QED BY <1>1, <1>3, <2>1, <3>1, <3>2 DEF Reached
  <2> QED BY <1>4, <2>3, <2>4, <2>5 DEF Counted
<1>6. CASE minimum = NaN /\ date \notin Succeeded
  <2>1. pc' = NoRun /\ UNCHANGED <<relayUptimes, failed>>
    BY <1>6 DEF PopulateRelayUptimes, Exit
  <2> QED BY <1>1, <2>1, IdleCounted
<1>7. CASE minimum # NaN /\ date \notin Succeeded
  <2>1. /\ pc' = "save" /\ UNCHANGED <<date, last>> /\ failed \subseteq failed'
        /\ Insert(date) \/ relayUptimes' = relayUptimes
        /\ \/ Insert(date) /\ computed' = Computed(date) /\ failed' = failed
           \/ computed' = Undefined /\ date \in failed'
    BY <1>7 DEF PopulateRelayUptimes
  <2>2. PICK d : d = date
    OBVIOUS
  <2>3. /\ d \in Days /\ Closed(d) /\ Computed(d) \in [Seen(relayData, d) -> Nat]
        /\ Clean(d) => ExactIn(relayData, d, Computed(d))
    BY <1>1, <1>7, <2>2, ComputedExact
  <2>4. \A e \in Days : Clean(e)' => Clean(e)
    BY <2>1 DEF Clean
  <2>5. /\ Stored' /\ Past' /\ \A e \in Days : Complete(e) => Complete(e)'
        /\ Insert(d) => Complete(d)'
    <3>1. CASE Insert(date)
      BY <1>1, <1>7, <2>1, <2>2, <3>1, InsertStored
    <3>2. CASE relayUptimes' = relayUptimes /\ ~Insert(date)
      <4>1. Past'
        BY <1>3, <3>2 DEF Counted, Past
      <4>2. Stored'
        <5>1. Stored
          BY DEF Counted
        <5>2. /\ job' \in [Days -> {"none", "failed", "success"}] /\ DOMAIN uptimes' = Days
              /\ DOMAIN relayUptimes' = Days
          BY <1>1, <3>2, <5>1 DEF Stored
        <5>3. \A e \in Days : relayUptimes'[e] \in Seq([Seen(relayData', e) -> Nat])
          BY <1>2, <3>2, <5>1 DEF Stored
        <5>4. ASSUME NEW e \in Days, Clean(e)', NEW i \in 1..Len(relayUptimes[e])
              PROVE  ExactIn(relayData', e, relayUptimes[e][i])
          BY <1>2, <2>4, <5>1, <5>4 DEF Stored
        <5>5. ASSUME NEW e \in Succeeded, Clean(e)' PROVE ExactIn(relayData', e, uptimes[e])
          BY <1>2, <2>4, <5>1, <5>5, SucceededInt DEF Stored
        <5> QED BY <1>1, <1>3, <3>2, <5>2, <5>3, <5>4, <5>5 DEF Stored
      <4> QED BY <1>2, <2>2, <3>2, <4>1, <4>2 DEF Complete
    <3> QED BY <2>1, <3>1, <3>2
  <2>6. DatesOK'
    <3>1. date' \in Nat \ {0} /\ last' \in Int /\ Closed(last)' /\ date' <= last'
      BY <1>1, <1>2, <1>4, <2>1 DEF Closed
    <3>2. computed' = Undefined => date' \in failed'
      <4>1. Computed(d) # Undefined
        BY <2>3, ValidationAssumption DEF Seen
      <4> QED BY <2>1, <2>2, <4>1
    <3>3. computed' # Undefined /\ Clean(date)' => ExactIn(relayData', date', computed')
      <4> SUFFICES ASSUME computed' # Undefined, Clean(date)' PROVE ExactIn(relayData', date', computed')
        OBVIOUS
      <4>1. Clean(d)
        BY <2>1, <2>2 DEF Clean
      <4>2. computed' = Computed(d) /\ date' = d
        BY <2>1, <2>2
      <4> QED BY <1>2, <2>3, <4>1, <4>2
    <3> QED BY <1>4, <2>1, <3>1, <3>2, <3>3 DEF DatesOK
  <2>7. Filled'
    <3> SUFFICES ASSUME NEW e \in Days, Clean(e)', Reached(e)' PROVE Complete(e)'
      BY DEF Filled
    <3>1. CASE e # d
      <4>1. Reached(e)
        BY <1>1, <1>3, <2>1, <2>2, <3>1 DEF Reached
      <4>2. Complete(e)
        BY <2>4, <4>1 DEF Counted, Filled
      <4> QED BY <2>5, <4>2
    <3>2. CASE e = d
      <4>1. Insert(d)
        <5>1. d \notin failed'
          BY <2>3, <3>2, DayBounds DEF Clean
        <5> QED BY <2>1, <2>2, <5>1
      <4> QED BY <2>5, <3>2, <4>1
    <3> QED BY <3>1, <3>2
  <2> QED BY <1>4, <2>5, <2>6, <2>7 DEF Counted
<1> QED BY <1>5, <1>6, <1>7

LEMMA SaveCounted == ASSUME Counted, SaveJob PROVE Counted'
<1>1. /\ pc = "save" /\ pc' = "dates" /\ date' = date + 1
      /\ UNCHANGED <<service, relayUptimes, minimum, last, failed>>
      /\ UNCHANGED <<today, stamp, stage, relayData>>
  BY DEF SaveJob, service
<1>2. /\ date \in Nat \ {0} /\ last \in Int /\ Closed(last) /\ date <= last
      /\ computed = Undefined => date \in failed
      /\ computed # Undefined /\ Clean(date) => ExactIn(relayData, date, computed)
      /\ minimum \in {MinimumCount, NaN} /\ ServiceOK
      /\ job \in [Days -> {"none", "failed", "success"}] /\ DOMAIN uptimes = Days
  BY <1>1, UptimeAssumption DEF Counted, DatesOK, Stored
<1>3. PICK d : d = date
  OBVIOUS
<1>4. d \in Days /\ Closed(d)
  <2>1. Closed(d)
    BY <1>2, <1>3, ClosedBefore
  <2> QED BY <1>2, <1>3, <2>1, ValidationAssumption DEF ServiceOK, Closed, Days
<1>5. /\ \A e : Closed(e)' = Closed(e) /\ Clean(e)' = Clean(e) /\ Complete(e)' = Complete(e)
      /\ ServiceOK'
  BY <1>1, <1>2 DEF Closed, Clean, Complete, ServiceOK
<1>6. /\ job' \in [Days -> {"none", "failed", "success"}] /\ DOMAIN uptimes' = Days
      /\ \A e \in Days \ {d} : job'[e] = job[e] /\ uptimes'[e] = uptimes[e]
      /\ Clean(d) /\ job'[d] = "success" => ExactIn(relayData, d, uptimes'[d])
  <2>1. CASE computed = Undefined
    <3>1. job' = [job EXCEPT ![d] = "failed"] /\ uptimes' = uptimes
      BY <1>3, <2>1 DEF SaveJob
    <3> QED BY <1>2, <1>4, <3>1
  <2>2. CASE computed # Undefined
    <3>1. job' = [job EXCEPT ![d] = "success"] /\ uptimes' = [uptimes EXCEPT ![d] = computed]
      BY <1>3, <2>2 DEF SaveJob
    <3> QED BY <1>2, <1>3, <1>4, <2>2, <3>1
  <2> QED BY <2>1, <2>2
<1>7. Succeeded' \subseteq Succeeded \cup {d}
  BY <1>6 DEF Succeeded
<1>8. Past'
  BY <1>1, <1>4, <1>5, <1>7 DEF Counted, Past
<1>9. Stored'
  <2>1. ASSUME NEW e \in Succeeded', Clean(e) PROVE ExactIn(relayData, e, uptimes'[e])
    <3>1. CASE e = d
      BY <1>6, <2>1, <3>1 DEF Succeeded
    <3>2. CASE e # d
      <4>1. e \in Succeeded /\ e \in Days
        BY <1>7, <3>2, SucceededInt
      <4> QED BY <1>6, <2>1, <3>2, <4>1 DEF Counted, Stored
    <3> QED BY <3>1, <3>2
  <2> QED BY <1>1, <1>5, <1>6, <2>1 DEF Counted, Stored
<1>10. DatesOK'
  <2>1. date' \in Nat \ {0} /\ last' \in Int /\ Closed(last)' /\ pc' = "dates"
    BY <1>1, <1>2 DEF Closed
  <2> QED BY <1>1, <1>2, <2>1 DEF DatesOK
<1>11. Filled'
  <2> SUFFICES ASSUME NEW e \in Days, Clean(e), Reached(e)' PROVE Complete(e)
    BY <1>5 DEF Filled
  <2>1. Reached(e)
    <3>1. CASE \E c \in Succeeded : e <= c
      BY <3>1 DEF Reached
    <3>2. CASE e <= d
      <4>1. e = d \/ (e < d /\ e <= last)
        BY <1>2, <1>3, <3>2, DayBounds
      <4> QED BY <1>1, <1>3, <4>1 DEF Reached
    <3>3. e < date + 1 => e <= d
      BY <1>2, <1>3, DayBounds
    <3> QED BY <1>1, <1>7, <3>1, <3>2, <3>3 DEF Reached
  <2> QED BY <2>1 DEF Counted, Filled
<1> QED BY <1>5, <1>8, <1>9, <1>10, <1>11 DEF Counted

LEMMA RunCrashCounted == ASSUME Counted, RunCrash PROVE Counted'
<1>1. /\ pc # NoRun /\ pc' = NoRun /\ UNCHANGED <<service, minimum, job, uptimes, failed>>
      /\ UNCHANGED <<today, stamp, stage, relayData>>
  BY DEF RunCrash, Exit, jobs, service
<1>2. CASE relayUptimes' = relayUptimes
  BY <1>1, <1>2, IdleCounted
<1>3. CASE pc = "dates" /\ date <= last /\ minimum # NaN /\ Insert(date)
  <2>1. Stored' /\ Past' /\ \A e \in Days : Complete(e) => Complete(e)'
    BY <1>1, <1>3, InsertStored
  <2>2. ServiceOK' /\ DatesOK'
    BY <1>1, UptimeAssumption DEF Counted, ServiceOK, DatesOK
  <2>3. Succeeded' = Succeeded /\ \A e : Clean(e)' = Clean(e)
    BY <1>1 DEF Succeeded, Clean
  <2>4. Filled'
    <3> SUFFICES ASSUME NEW e \in Days, Clean(e), Reached(e)' PROVE Complete(e)'
      BY <2>3 DEF Filled
    <3>1. Reached(e)
      BY <1>1, <2>3, UptimeAssumption DEF Reached
    <3> QED BY <2>1, <3>1 DEF Counted, Filled
  <2> QED BY <2>1, <2>2, <2>4 DEF Counted
<1> QED BY <1>2, <1>3 DEF RunCrash

LEMMA NextCounted == ASSUME Counted, [Next]_vars PROVE Counted'
<1>1. CASE UNCHANGED vars
  <2>1. UNCHANGED <<today, stamp, stage, relayData, relayUptimes, minimum, pc, date, last, computed,
                    job, uptimes, failed>>
    BY <1>1 DEF vars, service, command, run, jobs
  <2>2. /\ Succeeded' = Succeeded
        /\ \A e : /\ Closed(e)' = Closed(e) /\ Clean(e)' = Clean(e) /\ Complete(e)' = Complete(e)
                  /\ Reached(e)' = Reached(e)
    BY <2>1 DEF Succeeded, Closed, Clean, Complete, Reached
  <2>3. ServiceOK' /\ Past' /\ Stored' /\ Filled'
    BY <2>1, <2>2 DEF Counted, ServiceOK, Past, Stored, Filled
  <2>4. DatesOK'
    BY <2>1 DEF Counted, DatesOK, Closed, Clean
  <2> QED BY <2>3, <2>4 DEF Counted
<1>2. CASE ChooseLatest
  <2>1. /\ pc # NoRun /\ UNCHANGED <<service, relayUptimes, minimum, job, uptimes, failed>>
        /\ pc' = NoRun \/ (pc' = "push" /\ date' = date /\ last' = last)
    BY <1>2, UptimeAssumption DEF ChooseLatest, Exit, jobs
  <2> QED BY <2>1, IdleCounted
<1>3. CASE SetRelayUptimes
  <2>1. /\ pc # NoRun /\ UNCHANGED <<service, relayUptimes, minimum, job, uptimes, failed>>
        /\ pc' = NoRun \/ (pc' \in {"push", "mark"} /\ date' = date /\ last' = last)
    BY <1>3, UptimeAssumption DEF SetRelayUptimes, Answered, Onward, Exit, jobs
  <2> QED BY <2>1, IdleCounted
<1>4. CASE MarkPushed
  <2>1. /\ pc # NoRun /\ UNCHANGED <<service, relayUptimes, minimum, job, uptimes, failed>>
        /\ pc' = NoRun \/ (pc' = "push" /\ date' = date /\ last' = last)
    BY <1>4, UptimeAssumption DEF MarkPushed, Onward, Exit
  <2> QED BY <2>1, IdleCounted
<1> QED BY <1>1, <1>2, <1>3, <1>4, ValidationCounted, StartRunCounted, PopulateCounted, SaveCounted,
           RunCrashCounted DEF Next, Command

LEMMA InitCounted == Init => Counted
<1> SUFFICES ASSUME Init PROVE Counted
  OBVIOUS
<1>1. ServiceOK
  BY ValidationAssumption DEF Init, ValidationInit, ServiceOK
<1>2. DatesOK
  BY UptimeAssumption DEF Init, DatesOK
<1>3. Succeeded = {} /\ \A d \in Days : relayUptimes[d] = <<>>
  BY DEF Init, ValidationInit, Succeeded
<1>4. Past /\ Filled
  BY <1>3, UptimeAssumption DEF Init, Past, Filled, Reached
<1>5. Stored
  <2>1. \A d \in Days : relayUptimes[d] = <<>> /\ Len(relayUptimes[d]) = 0
    BY <1>3
  <2>2. \A d \in Days : relayUptimes[d] \in Seq([Seen(relayData, d) -> Nat])
    <3>1. \A S : <<>> \in Seq(S)
      OBVIOUS
    <3> QED BY <2>1, <3>1
  <2> QED BY <1>3, <2>1, <2>2 DEF Init, ValidationInit, Stored
<1> QED BY <1>1, <1>2, <1>4, <1>5 DEF Counted

LEMMA CountedExact == Counted => StreaksExact
<1> SUFFICES ASSUME Counted, NEW d \in Succeeded, failed \cap 1..d = {}
             PROVE  /\ DOMAIN uptimes[d] = SeenOn(d)
                    /\ \A r \in SeenOn(d) : uptimes[d][r] <= d /\ Streak(r, d, uptimes[d][r])
  BY DEF StreaksExact
<1>1. ExactIn(relayData, d, uptimes[d])
  BY DEF Counted, Stored, Clean
<1> QED BY <1>1, SeenOnData DEF ExactIn, StreakIn, Enough, Streak, Often

\* An uptime is the number of days in a row on which its relay was seen running often
\* enough, however often validations and the command died and dates were computed again,
\* as long as no computation threw.
THEOREM StreaksAreExact == Spec => []StreaksExact
BY InitCounted, NextCounted, CountedExact, PTL DEF Spec

----------------------------------------------------------------------------
(* Sums over the dates, by induction: the well-foundedness of Nat said of  *)
(* sets.                                                                   *)

LessThan == {z \in Nat \X Nat : z[1] < z[2]}

LEMMA Induction ==
  ASSUME NEW S, 0 \in S, \A n \in Nat : n \in S => n + 1 \in S
  PROVE  \A n \in Nat : n \in S
<1>1. OpToRel(<, Nat) = LessThan
  BY DEF OpToRel, LessThan
<1>2. IsWellFoundedOn(LessThan, Nat)
  BY <1>1, NatLessThanWellFounded
<1>3. ASSUME Nat \ S # {} PROVE FALSE
  <2>1. PICK n \in Nat \ S : \A m \in Nat \ S : ~ (<<m, n>> \in LessThan)
    BY <1>2, <1>3, WFMin
  <2>2. n \in Nat /\ n # 0
    BY <2>1
  <2>3. n - 1 \in Nat /\ (n - 1) + 1 = n /\ n - 1 < n
    BY <2>2
  <2>4. n - 1 \notin S
    BY <2>1, <2>3
  <2>5. <<n - 1, n>> \in Nat \X Nat /\ <<n - 1, n>>[1] = n - 1 /\ <<n - 1, n>>[2] = n
    BY <2>2, <2>3
  <2> QED BY <2>1, <2>3, <2>4, <2>5 DEF LessThan
<1> QED BY <1>3

\* The partial sums of the observations of a relay up to the date n.
Sums(data, r, n, f) ==
  f = [d \in 0..n |-> IF d = 0 THEN 0 ELSE f[d - 1] + data[d][r].running + data[d][r].not]

LEMMA SumsExist == ASSUME NEW data, NEW r, NEW m \in Nat PROVE \E f : Sums(data, r, m, f)
<1> DEFINE S == {n \in Nat : \E f : Sums(data, r, n, f)}
<1>1. 0 \in S
  <2>1. Sums(data, r, 0, [i \in 0..0 |-> 0])
    BY DEF Sums
  <2> QED BY <2>1
<1>2. ASSUME NEW n \in Nat, n \in S PROVE n + 1 \in S
  <2>1. PICK f : Sums(data, r, n, f)
    BY <1>2
  <2> DEFINE g == [i \in 0..(n + 1) |-> IF i <= n THEN f[i] ELSE
                     f[n] + data[n + 1][r].running + data[n + 1][r].not]
  <2>2. \A i \in 0..n : g[i] = f[i]
    OBVIOUS
  <2>3. ASSUME NEW i \in 0..(n + 1)
        PROVE  g[i] = IF i = 0 THEN 0 ELSE g[i - 1] + data[i][r].running + data[i][r].not
    <3>1. CASE i = 0
      BY <2>1, <2>2, <3>1 DEF Sums
    <3>2. CASE i \in 1..n
      <4>1. i \in 0..n /\ i - 1 \in 0..n /\ i # 0
        BY <3>2
      <4>2. f[i] = f[i - 1] + data[i][r].running + data[i][r].not
        BY <2>1, <4>1 DEF Sums
      <4> QED BY <2>2, <4>1, <4>2
    <3>3. CASE i = n + 1
      <4>1. i # 0 /\ i - 1 = n /\ n \in 0..n /\ ~(i <= n)
        BY <3>3
      <4> QED BY <2>2, <3>3, <4>1
    <3> QED BY <3>1, <3>2, <3>3
  <2>4. Sums(data, r, n + 1, g)
    BY <2>3 DEF Sums
  <2> QED BY <2>4
<1>3. \A n \in Nat : n \in S
  <2> HIDE DEF S
  <2> QED BY <1>1, <1>2, Induction
<1> QED BY <1>3

Total(data, r) == (CHOOSE f : Sums(data, r, LastDay, f))[LastDay]

LEMMA TotalIsSum ==
  ASSUME NEW data, NEW r PROVE \E f : Sums(data, r, LastDay, f) /\ Total(data, r) = f[LastDay]
<1> DEFINE sum == CHOOSE f : Sums(data, r, LastDay, f)
<1>1. Sums(data, r, LastDay, sum)
  BY SumsExist, ValidationAssumption
<1> QED BY <1>1 DEF Total

LEMMA ObservationsAreTotal ==
  \A r : Observations(r) = Total(relayData, r) /\ Observations(r)' = Total(relayData', r)
BY DEF Observations, Total, Sums

\* A date that gets at most x more observations adds at most x to the sum.
Counts == [Days -> [Relays -> [running : Nat, not : Nat]]]
More(data, new, r, e, x) ==
  /\ \A d \in Days \ {e} : new[d][r] = data[d][r]
  /\ e \in Days => new[e][r].running + new[e][r].not
                     <= data[e][r].running + data[e][r].not + x

LEMMA SumsGrow ==
  ASSUME NEW r \in Relays, NEW data \in Counts, NEW new \in Counts,
         NEW e, NEW x \in Nat, More(data, new, r, e, x),
         NEW f, Sums(data, r, LastDay, f), NEW g, Sums(new, r, LastDay, g)
  PROVE  f[LastDay] \in Nat /\ g[LastDay] \in Nat /\ g[LastDay] <= f[LastDay] + x
<1> DEFINE S == {k \in Nat : k <= LastDay =>
                   /\ f[k] \in Nat /\ g[k] \in Nat /\ g[k] <= f[k] + x
                   /\ (e \in Days => k < e) => g[k] <= f[k]}
<1>1. 0 \in S
  BY ValidationAssumption DEF Sums
<1>2. ASSUME NEW k \in Nat, k \in S PROVE k + 1 \in S
  <2>1. CASE k + 1 <= LastDay
    <3>1. PICK d \in Days : d = k + 1
      BY <2>1, ValidationAssumption DEF Days
    <3>2. d \in 0..LastDay /\ d # 0 /\ d - 1 = k /\ k <= LastDay /\ d \in Nat
      BY <2>1, <3>1, ValidationAssumption
    <3>3. /\ f[d] = f[k] + data[d][r].running + data[d][r].not
          /\ g[d] = g[k] + new[d][r].running + new[d][r].not
      BY <3>2 DEF Sums
    <3>4. /\ data[d][r].running \in Nat /\ data[d][r].not \in Nat
          /\ new[d][r].running \in Nat /\ new[d][r].not \in Nat
      BY DEF Counts
    <3>5. f[k] \in Nat /\ g[k] \in Nat /\ g[k] <= f[k] + x /\ ((e \in Days => k < e) => g[k] <= f[k])
      BY <1>2, <3>2
    <3>6. CASE d = e
      <4>1. e \in Days /\ k < e
        BY <3>1, <3>2, <3>6
      <4>2. new[d][r].running + new[d][r].not <= data[d][r].running + data[d][r].not + x
        BY <3>6, <4>1 DEF More
      <4>3. g[k] <= f[k]
        BY <3>5, <4>1
      <4>4. f[d] \in Nat /\ g[d] \in Nat /\ g[d] <= f[d] + x
        BY <3>3, <3>4, <3>5, <4>2, <4>3
      <4>5. ~(e \in Days => d < e)
        BY <3>2, <3>6, <4>1
      <4> QED BY <3>1, <4>4, <4>5
    <3>7. CASE d # e
      <4>1. new[d][r] = data[d][r]
        BY <3>7 DEF More
      <4>2. f[d] \in Nat /\ g[d] \in Nat /\ g[d] <= f[d] + x /\ (g[k] <= f[k] => g[d] <= f[d])
        BY <3>3, <3>4, <3>5, <4>1
      <4>3. (e \in Days => d < e) => (e \in Days => k < e)
        BY <3>2 DEF Days
      <4> QED BY <3>1, <3>5, <4>2, <4>3
    <3> QED BY <3>6, <3>7
  <2>2. CASE ~(k + 1 <= LastDay)
    BY <2>2
  <2> QED BY <2>1, <2>2
<1>3. \A k \in Nat : k \in S
  <2> HIDE DEF S
  <2> QED BY <1>1, <1>2, Induction
<1> QED BY <1>3, ValidationAssumption

LEMMA TotalGrows ==
  ASSUME NEW data \in Counts, NEW new \in Counts, NEW r \in Relays,
         NEW e, NEW x \in Nat, More(data, new, r, e, x)
  PROVE  /\ Total(data, r) \in Nat /\ Total(new, r) \in Nat
         /\ Total(new, r) <= Total(data, r) + x
<1>1. PICK f : Sums(data, r, LastDay, f) /\ Total(data, r) = f[LastDay]
  BY TotalIsSum
<1>2. PICK g : Sums(new, r, LastDay, g) /\ Total(new, r) = g[LastDay]
  BY TotalIsSum
<1> QED BY <1>1, <1>2, SumsGrow

----------------------------------------------------------------------------
(* A round observes a relay once, and once more for each crash.            *)

\* The round under way may still write its RelayData.
Pending == IF stage \in {"fetch", "filter", "validate", "store"} THEN 1 ELSE 0
Observed ==
  /\ rounds \in Nat /\ troubles \in Nat
  /\ \A r \in Relays : Total(relayData, r) + Pending <= rounds + troubles

LEMMA TotalNat == ServiceOK => \A r \in Relays : Total(relayData, r) \in Nat
<1> SUFFICES ASSUME ServiceOK, NEW r \in Relays PROVE Total(relayData, r) \in Nat
  OBVIOUS
<1>1. relayData \in Counts
  BY DEF ServiceOK, Counts
<1>2. 0 \notin Days
  BY DEF Days
<1>3. More(relayData, relayData, r, 0, 0)
  BY <1>2 DEF More
<1> QED BY <1>1, <1>3, TotalGrows

\* No RelayData is written, and what may still be is allowed for.
LEMMA SameObserved ==
  ASSUME ServiceOK, Observed, UNCHANGED relayData, rounds' \in Nat, troubles' \in Nat,
         rounds <= rounds', troubles <= troubles',
         Pending' <= Pending \/ rounds' = rounds + 1 \/ troubles' = troubles + 1
  PROVE  Observed'
<1>1. \A r \in Relays : Total(relayData, r) \in Nat
  BY TotalNat
<1>2. Pending \in 0..1 /\ Pending' \in 0..1
  BY DEF Pending
<1>3. \A r \in Relays : Total(relayData', r) = Total(relayData, r)
  OBVIOUS
<1>4. ASSUME NEW r \in Relays PROVE Total(relayData', r) + Pending' <= rounds' + troubles'
  BY <1>1, <1>2, <1>3, <1>4 DEF Observed
<1> QED BY <1>4 DEF Observed

LEMMA InsertMore ==
  ASSUME ServiceOK, NEW n \in Nat, InsertRelayData(n), NEW r \in Relays
  PROVE  More(relayData, relayData', r, stamp, n)
<1> DEFINE new(running) == IF r \in DOMAIN validated /\ listed[r] = running THEN n ELSE 0
<1>1. \A d \in Days \ {stamp} : relayData'[d] = relayData[d]
  BY DEF InsertRelayData, ServiceOK
<1>2. ASSUME stamp \in Days
      PROVE  relayData'[stamp][r] = [running |-> relayData[stamp][r].running + new(TRUE),
                                     not |-> relayData[stamp][r].not + new(FALSE)]
  BY <1>2 DEF InsertRelayData, ServiceOK
<1>3. new(TRUE) \in Nat /\ new(FALSE) \in Nat /\ new(TRUE) + new(FALSE) <= n
  OBVIOUS
<1>4. ASSUME stamp \in Days
      PROVE  relayData'[stamp][r].running + relayData'[stamp][r].not
             <= relayData[stamp][r].running + relayData[stamp][r].not + n
  <2>1. PICK a, b : a = relayData[stamp][r].running /\ b = relayData[stamp][r].not
    OBVIOUS
  <2>2. PICK c, d : c = new(TRUE) /\ d = new(FALSE)
    OBVIOUS
  <2>3. a \in Nat /\ b \in Nat
    BY <1>4, <2>1 DEF ServiceOK
  <2>4. relayData'[stamp][r].running = a + c /\ relayData'[stamp][r].not = b + d
    <3> HIDE DEF new
    <3>1. PICK rec : rec = relayData'[stamp][r]
      OBVIOUS
    <3>2. rec = [running |-> a + c, not |-> b + d]
      BY <1>2, <1>4, <2>1, <2>2, <3>1
    <3> QED BY <3>1, <3>2
  <2>5. c \in Nat /\ d \in Nat /\ c + d <= n
    BY <1>3, <2>2
  <2>6. (a + c) + (b + d) <= a + b + n
    BY <2>3, <2>5
  <2> QED BY <2>1, <2>4, <2>6
<1> QED BY <1>1, <1>4 DEF More

\* A step that writes the RelayData of the round pays for it with what was allowed for, or
\* with the crash that it is.
LEMMA InsertObserved ==
  ASSUME ServiceOK, ServiceOK', Observed, NEW n \in 0..1, InsertRelayData(n), stage = "store",
         rounds' = rounds, troubles' \in Nat,
         \/ Pending' = 0 /\ troubles' = troubles
         \/ troubles' = troubles + 1
  PROVE  Observed'
<1>1. relayData \in Counts /\ relayData' \in Counts
  BY DEF ServiceOK, Counts
<1>2. Pending = 1 /\ Pending' \in 0..1
  BY DEF Pending
<1>3. ASSUME NEW r \in Relays PROVE Total(relayData', r) + Pending' <= rounds' + troubles'
  <2>1. n \in Nat /\ n <= 1
    OBVIOUS
  <2>2. More(relayData, relayData', r, stamp, n)
    BY <1>3, <2>1, InsertMore
  <2>3. /\ Total(relayData, r) \in Nat /\ Total(relayData', r) \in Nat
        /\ Total(relayData', r) <= Total(relayData, r) + n
    BY <1>1, <1>3, <2>1, <2>2, TotalGrows
  <2>4. Total(relayData, r) + 1 <= rounds + troubles /\ rounds \in Nat /\ troubles \in Nat
    BY <1>2, <1>3 DEF Observed
  <2> QED BY <1>2, <2>1, <2>3, <2>4
<1> QED BY <1>3 DEF Observed

LEMMA ValidationObserved == ASSUME Counted, Observed, ValidationNext PROVE Observed'
<1>1. ServiceOK /\ ServiceOK' /\ rounds \in Nat /\ troubles \in Nat
  BY ValidationCloses DEF Counted, Observed
<1>2. CASE Midnight
  BY <1>1, <1>2, SameObserved DEF Midnight, flow, Pending
<1>3. CASE ValidateJob
  <2>1. rounds' = rounds + 1 /\ troubles' = troubles /\ relayData' = relayData
    BY <1>3 DEF ValidateJob
  <2> QED BY <1>1, <2>1, SameObserved
<1>4. CASE FetchRelays \/ FilterRelays \/ ValidateRelays \/ VerifyJob
  <2>1. UNCHANGED <<rounds, troubles, relayData>> /\ Pending' <= Pending
    BY <1>4 DEF FetchRelays, FilterRelays, ValidateRelays, VerifyJob, Ends, Over, Pending
  <2> QED BY <1>1, <2>1, SameObserved
<1>5. CASE StoreRelayData
  <2>1. /\ UNCHANGED <<rounds, troubles>> /\ Pending' = 0 /\ stage = "store"
        /\ \E n \in 0..1 : InsertRelayData(n)
    BY <1>5 DEF StoreRelayData, Ends, Pending, Copies
  <2> QED BY <1>1, <2>1, InsertObserved
<1>6. CASE Crash
  <2>1. rounds' = rounds /\ troubles' = troubles + 1
    BY <1>6 DEF Crash, Trouble
  <2>2. relayData' = relayData \/ (stage = "store" /\ InsertRelayData(1))
    BY <1>6 DEF Crash
  <2>3. CASE relayData' = relayData
    BY <1>1, <2>1, <2>3, SameObserved
  <2>4. CASE stage = "store" /\ InsertRelayData(1)
    <3>1. 1 \in 0..1 /\ troubles' \in Nat
      BY <1>1, <2>1
    <3> QED BY <1>1, <2>1, <2>4, <3>1, InsertObserved
  <2> QED BY <2>2, <2>3, <2>4
<1> QED BY <1>2, <1>3, <1>4, <1>5, <1>6 DEF ValidationNext, Jobs

LEMMA NextObserved == ASSUME Counted, Observed, [Next]_vars PROVE Observed'
<1>1. ServiceOK /\ rounds \in Nat /\ troubles \in Nat
  BY DEF Counted, Observed
<1>2. CASE ValidationNext
  BY <1>2, ValidationObserved
<1>3. ASSUME UNCHANGED service, troubles' \in {troubles, troubles + 1} PROVE Observed'
  BY <1>1, <1>3, SameObserved DEF service, Pending
<1>4. CASE UNCHANGED vars
  BY <1>3, <1>4 DEF vars
<1>5. CASE StartRun \/ Command \/ RunCrash
  <2>1. UNCHANGED service /\ troubles' \in {troubles, troubles + 1}
    BY <1>5 DEF StartRun, Command, RunCrash, PopulateRelayUptimes, SaveJob, ChooseLatest,
                SetRelayUptimes, MarkPushed, Trouble
  <2> QED BY <1>3, <2>1
<1> QED BY <1>2, <1>4, <1>5 DEF Next

LEMMA InitObserved == Init => Observed
<1> SUFFICES ASSUME Init PROVE Observed
  OBVIOUS
<1>1. /\ relayData = [d \in Days |-> [r \in Relays |-> [running |-> 0, not |-> 0]]]
      /\ rounds = 0 /\ troubles = 0 /\ Pending = 0
  BY DEF Init, ValidationInit, Pending
<1>2. ASSUME NEW r \in Relays PROVE Total(relayData, r) = 0
  <2>1. PICK f : Sums(relayData, r, LastDay, f) /\ Total(relayData, r) = f[LastDay]
    BY TotalIsSum
  <2> DEFINE S == {k \in Nat : k <= LastDay => f[k] = 0}
  <2>2. 0 \in S
    BY <2>1, ValidationAssumption DEF Sums
  <2>3. ASSUME NEW k \in Nat, k \in S PROVE k + 1 \in S
    <3>1. CASE k + 1 <= LastDay
      <4>1. k + 1 \in 0..LastDay /\ k + 1 \in Days /\ k + 1 # 0 /\ (k + 1) - 1 = k /\ k <= LastDay
        BY <3>1, ValidationAssumption DEF Days
      <4>2. f[k + 1] = f[k] + relayData[k + 1][r].running + relayData[k + 1][r].not
        BY <2>1, <4>1 DEF Sums
      <4> QED BY <1>1, <1>2, <2>3, <4>1, <4>2
    <3>2. CASE ~(k + 1 <= LastDay)
      BY <3>2
    <3> QED BY <3>1, <3>2
  <2>4. \A k \in Nat : k \in S
    <3> HIDE DEF S
    <3> QED BY <2>2, <2>3, Induction
  <2> QED BY <2>1, <2>4, ValidationAssumption
<1> QED BY <1>1, <1>2 DEF Observed

----------------------------------------------------------------------------
(* A date has the documents of its success, and those of its troubles.     *)

\* The documents of the date are those of a success, or about to be.
Committed(d) == d \in Succeeded \/ (pc = "save" /\ computed # Undefined /\ date = d)
Documents ==
  /\ pc = "save" => date \notin Succeeded
  /\ \A d \in Days : Len(relayUptimes[d]) <= troubles + IF Committed(d) THEN 1 ELSE 0

LEMMA Lengths == Counted => \A d \in Days : Len(relayUptimes[d]) \in Nat
<1> SUFFICES ASSUME Counted, NEW d \in Days PROVE Len(relayUptimes[d]) \in Nat
  OBVIOUS
<1>1. relayUptimes[d] \in Seq([Seen(relayData, d) -> Nat])
  BY DEF Counted, Stored
<1> QED BY <1>1, LenProperties

\* A step that adds no documents and loses no success, or is a trouble.
LEMMA SameDocuments ==
  ASSUME Counted, Documents, relayUptimes' = relayUptimes, troubles \in Nat,
         pc' = "save" => date' \notin Succeeded',
         \/ troubles' = troubles + 1
         \/ troubles' = troubles /\ \A d \in Days : Committed(d) => Committed(d)'
  PROVE  Documents'
<1>1. ASSUME NEW d \in Days
      PROVE  Len(relayUptimes[d]) <= troubles' + IF Committed(d)' THEN 1 ELSE 0
  <2>1. PICK k \in Nat : k = Len(relayUptimes[d])
    BY Lengths
  <2>2. k <= troubles + IF Committed(d) THEN 1 ELSE 0
    BY <2>1 DEF Documents
  <2>3. CASE troubles' = troubles + 1
    <3>1. k <= troubles + 1
      BY <2>1, <2>2
    <3> QED BY <2>1, <2>3, <3>1
  <2>4. CASE troubles' = troubles /\ (Committed(d) => Committed(d)')
    BY <2>1, <2>2, <2>4
  <2> QED BY <2>3, <2>4
<1> QED BY <1>1 DEF Documents

\* The documents of a date are its next ones, once.
LEMMA InsertLengths ==
  ASSUME Counted, pc = "dates", date <= last, minimum # NaN, Insert(date)
  PROVE  \A d \in Days : /\ Len(relayUptimes'[d]) <= Len(relayUptimes[d]) + 1
                         /\ d # date => relayUptimes'[d] = relayUptimes[d]
<1> SUFFICES ASSUME NEW d \in Days
             PROVE  /\ Len(relayUptimes'[d]) <= Len(relayUptimes[d]) + 1
                    /\ d # date => relayUptimes'[d] = relayUptimes[d]
  OBVIOUS
<1>1. PICK u : u = Computed(date)
  OBVIOUS
<1>2. PICK ups : ups = relayUptimes[d]
  OBVIOUS
<1>3. PICK S : S = [Seen(relayData, d) -> Nat]
  OBVIOUS
<1>4. ups \in Seq(S) /\ DOMAIN relayUptimes = Days /\ Len(ups) \in Nat
  BY <1>2, <1>3, Lengths DEF Counted, Stored
<1>5. date = d => u \in S
  BY <1>1, <1>3, ComputedExact
<1>6. CASE relayUptimes' = relayUptimes
  BY <1>2, <1>4, <1>6
<1>7. CASE relayUptimes' = [relayUptimes EXCEPT ![date] = Append(@, u)] /\ date = d
  <2>1. relayUptimes'[d] = Append(ups, u)
    BY <1>2, <1>4, <1>7
  <2>2. Len(Append(ups, u)) = Len(ups) + 1
    BY <1>4, <1>5, <1>7, AppendProperties
  <2> QED BY <1>2, <1>4, <1>7, <2>1, <2>2
<1>8. CASE relayUptimes' = [relayUptimes EXCEPT ![date] = Append(@, u)] /\ date # d
  <2>1. relayUptimes'[d] = ups
    BY <1>2, <1>4, <1>8
  <2> QED BY <1>2, <1>4, <2>1
<1> QED BY <1>1, <1>6, <1>7, <1>8 DEF Insert

LEMMA InsertDocuments ==
  ASSUME Counted, Documents, pc = "dates", date <= last, minimum # NaN, Insert(date), troubles \in Nat, Succeeded' = Succeeded,
         NEW e, e = date,
         pc' = "save" => date' = date /\ date \notin Succeeded,
         \/ troubles' = troubles + 1
         \/ troubles' = troubles /\ date \notin Succeeded /\ Committed(e)'
  PROVE  Documents'
<1>1. e = date
  OBVIOUS
<1>2. \A d \in Days : Committed(d) => d \in Succeeded
  BY DEF Committed
<1>3. troubles \in Nat /\ (troubles' = troubles => Committed(e)' /\ e \notin Succeeded)
  BY <1>1
<1>4. \A d \in Succeeded : Committed(d)'
  <2>1. \A d \in Succeeded' : Committed(d)'
    BY DEF Committed
  <2> QED BY <2>1
<1>5. ASSUME NEW d \in Days
      PROVE  Len(relayUptimes'[d]) <= troubles' + IF Committed(d)' THEN 1 ELSE 0
  <2>1. PICK k \in Nat : k = Len(relayUptimes[d])
    BY Lengths
  <2>2. k <= troubles + IF d \in Succeeded THEN 1 ELSE 0
    BY <1>2, <2>1 DEF Documents
  <2>3. \E l : l = Len(relayUptimes'[d]) /\ l \in Nat
    <3>1. CASE relayUptimes'[d] = relayUptimes[d]
      BY <2>1, <3>1
    <3>2. CASE relayUptimes'[d] # relayUptimes[d]
      <4>1. d = date /\ d = e
        BY <1>1, <3>2, InsertLengths
      <4>2. PICK u : u = Computed(d)
        OBVIOUS
      <4>3. u \in [Seen(relayData, d) -> Nat] /\ relayUptimes[d] \in Seq([Seen(relayData, d) -> Nat])
            /\ DOMAIN relayUptimes = Days
        BY <4>1, <4>2, ComputedExact DEF Counted, Stored
      <4>4. relayUptimes'[d] = Append(relayUptimes[d], u)
        BY <3>2, <4>1, <4>2, <4>3 DEF Insert
      <4>5. Append(relayUptimes[d], u) \in Seq([Seen(relayData, d) -> Nat])
        BY <4>3, AppendProperties
      <4> QED BY <4>4, <4>5, LenProperties
    <3> QED BY <3>1, <3>2
  <2>4. PICK l \in Nat : l = Len(relayUptimes'[d])
    BY <2>3
  <2>5. l <= k + 1 /\ (d # e => l = k)
    BY <1>1, <2>1, <2>4, InsertLengths
  <2>6. CASE d = e
    <3>1. CASE troubles' = troubles
      BY <1>3, <2>1, <2>2, <2>4, <2>5, <2>6, <3>1
    <3>2. CASE troubles' = troubles + 1 /\ d \in Succeeded
      BY <1>3, <1>4, <2>1, <2>2, <2>4, <2>5, <3>2
    <3>3. CASE troubles' = troubles + 1 /\ d \notin Succeeded
      BY <1>3, <2>1, <2>2, <2>4, <2>5, <3>3
    <3> QED BY <3>1, <3>2, <3>3
  <2>7. CASE d # e
    <3>1. l = k
      BY <2>5, <2>7
    <3>2. CASE d \in Succeeded
      BY <1>4, <2>1, <2>2, <2>4, <3>1, <3>2
    <3>3. CASE d \notin Succeeded
      BY <2>1, <2>2, <2>4, <3>1, <3>3
    <3> QED BY <3>2, <3>3
  <2> QED BY <2>6, <2>7
<1> QED BY <1>5 DEF Documents

LEMMA NextDocuments ==
  ASSUME Counted, Documents, troubles \in Nat, [Next]_vars
  PROVE  Documents'
<1>1. ASSUME relayUptimes' = relayUptimes, UNCHANGED <<job, computed, date>>,
             pc' \notin {"save"}, pc # "save", troubles' \in {troubles, troubles + 1}
      PROVE  Documents'
  <2>1. Succeeded' = Succeeded
    BY <1>1 DEF Succeeded
  <2>2. \A d \in Days : Committed(d) => Committed(d)'
    BY <1>1, <2>1 DEF Committed
  <2> QED BY <1>1, <2>2, SameDocuments
<1>2. CASE UNCHANGED vars \/ (ValidationNext /\ UNCHANGED command)
  <2>1. UNCHANGED <<relayUptimes, job, computed, date, pc>> /\ troubles' \in {troubles, troubles + 1}
    BY <1>2 DEF vars, command, run, jobs, ValidationNext, Midnight, ValidateJob, Jobs, FetchRelays,
                FilterRelays, ValidateRelays, StoreRelayData, VerifyJob, Crash, Trouble, flow
  <2>2. Succeeded' = Succeeded
    BY <2>1 DEF Succeeded
  <2>3. \A d \in Days : Committed(d) => Committed(d)'
    BY <2>1, <2>2 DEF Committed
  <2>4. pc' = "save" => date' \notin Succeeded'
    BY <2>1, <2>2 DEF Documents
  <2> QED BY <2>1, <2>3, <2>4, SameDocuments
<1>3. ASSUME relayUptimes' = relayUptimes, job' = job, pc' # "save", pc # "save",
             troubles' \in {troubles, troubles + 1}
      PROVE  Documents'
  <2>1. Succeeded' = Succeeded
    BY <1>3 DEF Succeeded
  <2>2. \A d \in Days : Committed(d) => Committed(d)'
    BY <1>3, <2>1 DEF Committed
  <2> QED BY <1>3, <2>2, SameDocuments
<1>4. CASE StartRun
  BY <1>3, <1>4, UptimeAssumption DEF StartRun, jobs
<1>5. CASE ChooseLatest \/ SetRelayUptimes \/ MarkPushed
  <2>1. /\ relayUptimes' = relayUptimes /\ job' = job /\ pc # "save"
        /\ troubles' \in {troubles, troubles + 1}
    BY <1>5 DEF ChooseLatest, SetRelayUptimes, MarkPushed, jobs, Trouble
  <2>2. pc' # "save"
    BY <1>5, UptimeAssumption DEF ChooseLatest, SetRelayUptimes, MarkPushed, Exit, Answered, Onward
  <2> QED BY <1>3, <2>1, <2>2
<1>6. CASE SaveJob
  <2>1. /\ pc = "save" /\ pc' = "dates" /\ UNCHANGED <<relayUptimes, troubles>>
    BY <1>6 DEF SaveJob
  <2>2. PICK e : e = date
    OBVIOUS
  <2>3. e \notin Succeeded /\ job \in [Days -> {"none", "failed", "success"}]
    BY <2>1, <2>2 DEF Documents, Counted, Stored
  <2>4. \A d \in Succeeded : d \in Succeeded'
    BY <1>6, <2>2, <2>3 DEF SaveJob, Succeeded
  <2>5. computed # Undefined /\ e \in Days => e \in Succeeded'
    BY <1>6, <2>2, <2>3 DEF SaveJob, Succeeded
  <2>6. \A d \in Days : Committed(d) => Committed(d)'
    BY <2>2, <2>4, <2>5 DEF Committed
  <2> QED BY <2>1, <2>6, SameDocuments
<1>7. CASE PopulateRelayUptimes
  <2>1. /\ pc = "dates" /\ date <= last /\ Succeeded' = Succeeded
    BY <1>7 DEF PopulateRelayUptimes, Succeeded
  <2>2. CASE date \in Succeeded \/ minimum = NaN
    <3>1. /\ relayUptimes' = relayUptimes /\ job' = job /\ pc' # "save" /\ troubles' = troubles
      BY <1>7, <2>1, <2>2, UptimeAssumption DEF PopulateRelayUptimes, Exit
    <3> QED BY <1>3, <2>1, <3>1
  <2>3. CASE date \notin Succeeded /\ minimum # NaN
    <3>1. /\ pc' = "save" /\ date' = date
          /\ \/ Insert(date) /\ computed' = Computed(date) /\ troubles' = troubles
             \/ /\ Insert(date) \/ relayUptimes' = relayUptimes
                /\ troubles' = troubles + 1
      BY <1>7, <2>3 DEF PopulateRelayUptimes, Trouble
    <3>2. CASE Insert(date) /\ troubles' = troubles + 1
      BY <2>1, <2>3, <3>1, <3>2, InsertDocuments
    <3>3. CASE relayUptimes' = relayUptimes /\ troubles' = troubles + 1
      <4>1. pc' = "save" => date' \notin Succeeded'
        BY <2>1, <2>3, <3>1
      <4> QED BY <3>3, <4>1, SameDocuments
    <3>4. CASE Insert(date) /\ computed' = Computed(date) /\ troubles' = troubles
      <4>1. Computed(date) # Undefined
        <5>1. Computed(date) \in [Seen(relayData, date) -> Nat]
          BY <2>1, <2>3, ComputedExact
        <5>2. Seen(relayData, date) \in SUBSET Relays
          BY DEF Seen
        <5> QED BY <5>1, <5>2, ValidationAssumption
      <4>2. PICK e : e = date
        OBVIOUS
      <4>3. Committed(e)'
        BY <3>1, <3>4, <4>1, <4>2 DEF Committed
      <4> QED BY <2>1, <2>3, <3>1, <3>4, <4>2, <4>3, InsertDocuments
    <3> QED BY <3>1, <3>2, <3>3, <3>4
  <2> QED BY <2>2, <2>3
<1>8. CASE RunCrash
  <2>1. /\ pc' = NoRun /\ pc' # "save" /\ troubles' = troubles + 1 /\ Succeeded' = Succeeded
        /\ relayUptimes' = relayUptimes \/ (pc = "dates" /\ date <= last /\ minimum # NaN /\ Insert(date))
    BY <1>8, UptimeAssumption DEF RunCrash, Exit, Trouble, jobs, Succeeded
  <2>2. CASE relayUptimes' = relayUptimes
    BY <2>1, <2>2, SameDocuments
  <2>3. CASE pc = "dates" /\ date <= last /\ minimum # NaN /\ Insert(date)
    BY <2>1, <2>3, InsertDocuments
  <2> QED BY <2>1, <2>2, <2>3
<1> QED BY <1>2, <1>4, <1>5, <1>6, <1>7, <1>8 DEF Next, Command

LEMMA RecordsKept ==
  ASSUME Counted, Observed, Documents
  PROVE  RecordsBounded
<1>1. rounds \in Nat /\ troubles \in Nat
  BY DEF Observed
<1>2. ASSUME NEW r \in Relays PROVE Observations(r) <= rounds + troubles
  <2>1. PICK t \in Nat : t = Total(relayData, r)
    BY TotalNat DEF Counted
  <2>2. t + Pending <= rounds + troubles /\ Pending \in 0..1
    BY <2>1 DEF Observed, Pending
  <2>3. Observations(r) = t
    BY <2>1, ObservationsAreTotal
  <2> QED BY <1>1, <2>2, <2>3
<1>3. ASSUME NEW d \in Days, NEW r \in Relays PROVE Cardinality(DocsOf(r, d)) <= 1 + troubles
  <2>1. PICK k \in Nat : k = Len(relayUptimes[d])
    BY Lengths
  <2>2. relayUptimes[d] \in Seq([Seen(relayData, d) -> Nat])
    BY DEF Counted, Stored
  <2>3. DocsOf(r, d) \subseteq 1..k
    BY <2>1, <2>2 DEF DocsOf
  <2>4. IsFiniteSet(1..k) /\ Cardinality(1..k) = k
    <3>1. IsFiniteSet(1..k) /\ Cardinality(1..k) = IF 1 > k THEN 0 ELSE k - 1 + 1
      BY FS_Interval
    <3> QED BY <3>1
  <2>5. Cardinality(DocsOf(r, d)) <= k /\ Cardinality(DocsOf(r, d)) \in Nat
    <3>1. IsFiniteSet(DocsOf(r, d)) /\ Cardinality(DocsOf(r, d)) <= Cardinality(1..k)
      BY <2>3, <2>4, FS_Subset
    <3> QED BY <2>4, <3>1, FS_CardinalityType
  <2>6. k <= troubles + IF Committed(d) THEN 1 ELSE 0
    BY <2>1 DEF Documents
  <2> QED BY <1>1, <2>5, <2>6
<1> QED BY <1>2, <1>3 DEF RecordsBounded

LEMMA InitDocuments == Init => Documents
<1> SUFFICES ASSUME Init PROVE Documents
  OBVIOUS
<1>1. \A d \in Days : relayUptimes[d] = <<>> /\ Len(relayUptimes[d]) = 0
  BY DEF Init, ValidationInit
<1>2. pc = NoRun /\ troubles = 0
  BY DEF Init, ValidationInit
<1> QED BY <1>1, <1>2, UptimeAssumption DEF Documents

\* A relay has at most a RelayData for each round and trouble, and at most a RelayUptime of a
\* date for its one success and each trouble, whatever crashed between a write and what follows it
\* and was done again.
THEOREM RecordsStayBounded == Spec => []RecordsBounded
<1>1. ASSUME Counted, Observed, Documents, [Next]_vars PROVE Counted' /\ Observed' /\ Documents'
  <2>1. troubles \in Nat
    BY <1>1 DEF Observed
  <2> QED BY <1>1, <2>1, NextCounted, NextObserved, NextDocuments
<1> QED BY <1>1, InitCounted, InitObserved, InitDocuments, RecordsKept, PTL DEF Spec
=================================================================================
