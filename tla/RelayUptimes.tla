------------------------------ MODULE RelayUptimes ------------------------------
(***************************************************************************)
(* The populate-relay-uptime command, beside the validations that it       *)
(* reads. Once a day, at one in the morning, it takes the dates after its  *)
(* latest successful job up to yesterday; for each it computes how many    *)
(* days in a row each relay was seen running often enough, stores that as  *)
(* RelayUptime documents and in the document of a job, and then writes the *)
(* uptimes of the latest job to the distribution contract, in batches, of  *)
(* which it marks those that were answered.  Another run takes up what     *)
(* one left.                                                               *)
(***************************************************************************)
EXTENDS Validation

CONSTANTS
  MinimumCount,    \* UPTIME_MINIMUM_RUNNING_COUNT, 4 in the deployment
  BatchSize,       \* setUptimesBatchSize, 12 in the code
  NoRun, NaN

ASSUME UptimeAssumption ==
  /\ MinimumCount \in Nat \ {0} /\ BatchSize \in Nat \ {0}
  /\ NaN \notin Nat
  /\ NoRun \notin {"dates", "save", "push", "mark"}

VARIABLES
  minimum,      \* uptimeMinimumRunningCount, NaN when the environment has none
  pc,           \* what the command does, NoRun when it does not run
  date,         \* the date it is at
  last,         \* the last of its validation_dates
  latest,       \* the date of its latestJobRun, 0 for none
  computed,     \* the uptimes computed for date, Undefined when that threw
  left,         \* relays still to be pushed
  batch,        \* the relays of an answered write, not marked yet
  job,          \* date -> "none", "failed", "success": its last job document
  uptimes,      \* date -> the uptimes of its successful job
  pushed,       \* date -> the relays of that job marked as pushed
  contract,     \* relay -> date and days last written to the distribution contract
  unlanded,     \* relays in writes that were answered and did not land
  failed        \* dates of which a computation threw

run == <<pc, date, last, latest, computed, left, batch>>
jobs == <<job, uptimes, pushed, failed>>
service == <<today, relayData, stage, listed, stamp, validated, again, handed, rounds>>
command == <<minimum, run, jobs, contract, unlanded>>
vars == <<service, relayUptimes, troubles, command>>

NoUptimes == [r \in {} |-> 0]

Init ==
  /\ ValidationInit
  /\ minimum \in {MinimumCount, NaN}
  /\ pc = NoRun /\ date = 0 /\ last = 0 /\ latest = 0 /\ computed = NoUptimes
  /\ left = {} /\ batch = {}
  /\ job = [d \in Days |-> "none"]
  /\ uptimes = [d \in Days |-> NoUptimes] /\ pushed = [d \in Days |-> {}]
  /\ contract = [r \in Relays |-> [date |-> 0, days |-> 0]]
  /\ unlanded = {} /\ failed = {}

----------------------------------------------------------------------------
(* A definition marked (slip) is a mistake the code could have made and    *)
(* does not; no action uses it.                                            *)

\* The relays that have RelayData of a date, and its documents of a relay.
SeenOn(d) == {r \in Relays : relayData[d][r].running + relayData[d][r].not > 0}

Succeeded == {d \in Days : job[d] = "success"}

\* (slip: the job that failed last counts too)
LastJobRun_Any == {d \in Days : job[d] # "none" /\ \A e \in Days : job[e] # "none" => e <= d}

\* The latest success.
LastJobRun == {d \in Succeeded : \A e \in Succeeded : e <= d}

\* determineStartDate: the day after it, or the first day with RelayData.
StartDates ==
  IF LastJobRun # {} THEN {d + 1 : d \in LastJobRun}
  ELSE {d \in Days : SeenOn(d) # {} /\ \A e \in 1..(d - 1) : SeenOn(e) = {}}

\* determineValidationDates: up to yesterday.
EndDate == today - 1

\* The command is over; what it knew goes with it.
Exit == /\ pc' = NoRun /\ date' = 0 /\ last' = 0 /\ latest' = 0
        /\ computed' = NoUptimes /\ left' = {} /\ batch' = {}

\* The command starts.  At one in the morning no validation of the day before is under
\* way.
StartRun ==
  /\ pc = NoRun
  /\ ~(stage = "store" /\ stamp < today)
  /\ date' \in StartDates
  /\ last' = EndDate
  /\ pc' = "dates"
  /\ UNCHANGED <<service, relayUptimes, minimum, latest, computed, left, batch, jobs,
                 contract, unlanded, troubles>>

\* The first document of a relay and date; find returns them in the order of insertion.
PreviousDays(r, d) ==
  IF d = 0 THEN 0
  ELSE IF DocsOf(r, d) = {} THEN 0
  ELSE relayUptimes[d][CHOOSE i \in DocsOf(r, d) : \A k \in DocsOf(r, d) : i <= k][r]

\* No count reaches NaN.
UptimeValid(r, d) == minimum # NaN /\ relayData[d][r].running >= minimum

\* (slip: a day that is not valid keeps the streak)
Uptime_Kept(r, d) == PreviousDays(r, d - 1) + IF UptimeValid(r, d) THEN 1 ELSE 0

\* The streak of a relay ends or goes on.
Uptime(r, d) == IF UptimeValid(r, d) THEN PreviousDays(r, d - 1) + 1 ELSE 0

Computed(d) == [r \in SeenOn(d) |-> Uptime(r, d)]

Insert(d) ==
  relayUptimes' = IF SeenOn(d) = {} THEN relayUptimes
                  ELSE [relayUptimes EXCEPT ![d] = Append(@, Computed(d))]

\* A date with a successful job is passed over (from the start date on there is none).
\* Otherwise its job is created, which throws for a minimum of NaN and ends the run,
\* and populateRelayUptimesForDate computes and inserts the uptimes; it throws, perhaps
\* after they were inserted.
PopulateRelayUptimes ==
  /\ pc = "dates" /\ date <= last
  /\ CASE date \in Succeeded ->
            /\ latest' = date /\ date' = date + 1
            /\ UNCHANGED <<pc, last, computed, left, batch, relayUptimes, failed, troubles>>
       [] date \notin Succeeded /\ minimum = NaN ->
            Exit /\ UNCHANGED <<relayUptimes, failed, troubles>>
       [] OTHER ->
            /\ pc' = "save" /\ UNCHANGED <<date, last, latest, left, batch>>
            /\ \/ /\ Insert(date) /\ computed' = Computed(date)
                  /\ UNCHANGED <<failed, troubles>>
               \/ /\ Insert(date) \/ UNCHANGED relayUptimes
                  /\ computed' = Undefined
                  /\ failed' = failed \cup {date} /\ Trouble
  /\ UNCHANGED <<service, minimum, job, uptimes, pushed, contract, unlanded>>

\* The job is saved, with the uptimes or as a failure, and is the latest.
SaveJob ==
  /\ pc = "save" /\ pc' = "dates"
  /\ date' = date + 1
  /\ IF computed = Undefined
     THEN job' = [job EXCEPT ![date] = "failed"] /\ UNCHANGED uptimes
     ELSE /\ job' = [job EXCEPT ![date] = "success"]
          /\ uptimes' = [uptimes EXCEPT ![date] = computed]
  /\ latest' = date /\ computed' = NoUptimes
  /\ UNCHANGED <<service, relayUptimes, minimum, last, left, batch, pushed, failed,
                 contract, unlanded, troubles>>

\* A job that failed has no uptimes.
ToPush(d) == IF d \in Succeeded THEN DOMAIN uptimes[d] \ pushed[d] ELSE {}

\* latestJobRun is that of the last of the dates, whatever it came to; without dates, the
\* latest success, if there is one.
ChooseLatest ==
  /\ pc = "dates" /\ date > last
  /\ \E d \in IF latest = 0 /\ LastJobRun # {} THEN LastJobRun ELSE {latest} :
       IF ToPush(d) = {} THEN Exit
       ELSE /\ pc' = "push" /\ latest' = d /\ left' = ToPush(d)
            /\ UNCHANGED <<date, last, computed, batch>>
  /\ UNCHANGED <<service, relayUptimes, minimum, jobs, contract, unlanded, troubles>>

\* The contract takes the uptimes of the relays of B.
Land(B) ==
  contract' = [r \in Relays |->
    IF r \in B THEN [date |-> latest, days |-> uptimes[latest][r]] ELSE contract[r]]

\* Batches of the uptimes that are left; their order is that of the document.
Batches == {B \in SUBSET left : \/ Cardinality(B) = BatchSize
                                \/ B = left /\ Cardinality(B) < BatchSize}

Answered(B) == /\ pc' = "mark" /\ left' = left \ B /\ batch' = B
               /\ UNCHANGED <<date, last, latest, computed>>

\* The next batch of L follows, or the command is over.
Onward(L) ==
  IF L = {} THEN Exit
  ELSE /\ pc' = "push" /\ left' = L /\ batch' = {}
       /\ UNCHANGED <<date, last, latest, computed>>

\* setRelayUptimes for one batch.  The interaction is answered, which does not mean that
\* it landed, or throws, perhaps after it landed, and the next batch follows.
SetRelayUptimes ==
  /\ pc = "push"
  /\ \E B \in Batches :
       \/ /\ Answered(B)
          /\ Land(B) /\ UNCHANGED <<unlanded, troubles>>
       \/ /\ Answered(B)
          /\ unlanded' = unlanded \cup B /\ Trouble /\ UNCHANGED contract
       \/ /\ Onward(left \ B)
          /\ Land(B) \/ UNCHANGED contract
          /\ Trouble /\ UNCHANGED unlanded
  /\ UNCHANGED <<service, relayUptimes, minimum, jobs>>

\* (slip: every relay of the job is marked)
Marked_All == DOMAIN uptimes[latest]

Marked == batch

\* The relays of the batch are marked and the job is saved.
MarkPushed ==
  /\ pc = "mark"
  /\ pushed' = [pushed EXCEPT ![latest] = @ \cup Marked]
  /\ Onward(left)
  /\ UNCHANGED <<service, relayUptimes, minimum, job, uptimes, failed, contract, unlanded,
                 troubles>>

\* The command dies, or throws out of a call to Mongo.  What it was writing may have
\* landed.
RunCrash ==
  /\ pc # NoRun /\ Trouble
  /\ Exit
  /\ \/ UNCHANGED <<relayUptimes, contract>>
     \/ /\ pc = "dates" /\ date <= last /\ minimum # NaN
        /\ Insert(date) /\ UNCHANGED contract
     \/ /\ pc = "push"
        /\ \E B \in Batches : Land(B)
        /\ UNCHANGED relayUptimes
  /\ UNCHANGED <<service, minimum, jobs, unlanded>>

Command == \/ PopulateRelayUptimes \/ SaveJob \/ ChooseLatest \/ SetRelayUptimes
           \/ MarkPushed

Next ==
  \/ ValidationNext /\ UNCHANGED command
  \/ StartRun
  \/ Command
  \/ RunCrash

Spec == Init /\ [][Next]_vars

\* The jobs of the service run, the command is started every night and goes on.
FairSpec ==
  Spec /\ WF_vars(Jobs /\ UNCHANGED command) /\ WF_vars(StartRun) /\ WF_vars(Command)

----------------------------------------------------------------------------
\* Type correctness of the documents, the run and the contract.
TypeOK ==
  /\ today \in 1..(LastDay + 1)
  /\ relayData \in [Days -> [Relays -> [running: Nat, not: Nat]]]
  /\ DOMAIN relayUptimes = Days
  /\ \A d \in Days : /\ relayUptimes[d] = SubSeq(relayUptimes[d], 1, Len(relayUptimes[d]))
                     /\ \A i \in DOMAIN relayUptimes[d] : IsUptimes(relayUptimes[d][i])
  /\ stage \in Stages /\ listed \in Lists /\ stamp \in Days
  /\ validated = Undefined \/ IsUptimes(validated)
  /\ handed \subseteq Nat
  /\ again \in BOOLEAN /\ rounds \in 0..MaxRounds /\ troubles \in 0..MaxTroubles
  /\ minimum \in {MinimumCount, NaN}
  /\ pc \in {NoRun, "dates", "save", "push", "mark"}
  /\ date \in 0..(LastDay + 1) /\ last \in 0..LastDay /\ latest \in 0..LastDay
  /\ computed = Undefined \/ IsUptimes(computed)
  /\ left \subseteq Relays /\ batch \subseteq Relays
  /\ job \in [Days -> {"none", "failed", "success"}]
  /\ DOMAIN uptimes = Days /\ \A d \in Days : IsUptimes(uptimes[d])
  /\ pushed \in [Days -> SUBSET Relays]
  /\ contract \in [Relays -> [date: 0..LastDay, days: Nat]]
  /\ unlanded \subseteq Relays /\ failed \subseteq Days

\* The uptime of a relay is the number of days in a row, up to the date, on which it was
\* seen running often enough, whatever crashes had dates computed twice: unless the
\* computation of an earlier date threw, from which streaks may start over.
Often(r, d) == d > 0 /\ relayData[d][r].running >= MinimumCount
Streak(r, d, n) == /\ \A e \in (d - n + 1)..d : Often(r, e)
                   /\ ~Often(r, d - n)
StreaksExact ==
  \A d \in Succeeded :
    failed \cap 1..d = {} =>
      /\ DOMAIN uptimes[d] = SeenOn(d)
      /\ \A r \in SeenOn(d) : uptimes[d][r] <= d /\ Streak(r, d, uptimes[d][r])

\* A relay marked as pushed has its uptime of that date or of a later one in the
\* contract, unless an answered write of it did not land: no crash, failed batch or later
\* run takes the contract back.
PushedReached ==
  \A d \in Days : \A r \in pushed[d] \ unlanded :
    /\ contract[r].date >= d
    /\ contract[r].days = uptimes[contract[r].date][r]

\* A validation never sees an uptime: it asks for the date it is made at, of which the
\* command computes the uptimes when it is over.  The uptime_days that the
\* verification is given are 0 for every relay.
NoUptimeSeen == handed \subseteq {0}

\* No record is repeated but by a crash or an error that hid a write: a relay has RelayData
\* of each round once, and RelayUptime of each date once.
Observations(r) ==
  LET sum[d \in 0..LastDay] ==
        IF d = 0 THEN 0 ELSE sum[d - 1] + relayData[d][r].running + relayData[d][r].not
  IN sum[LastDay]
RecordsBounded ==
  /\ \A r \in Relays : Observations(r) <= rounds + troubles
  /\ \A d \in Days, r \in Relays :
       Cardinality(DocsOf(r, d)) <= 1 + troubles

\* Every date with RelayData has its uptimes in the end, once it is over: or its
\* computation threw and a later date succeeded, from which runs start.
CaughtUp ==
  \A d \in Days :
    today > d /\ SeenOn(d) # {} ~>
      \/ minimum = NaN
      \/ d \in Succeeded
      \/ d \in failed /\ \E e \in Succeeded : e > d

\* The uptimes of the last date reach the contract in the end, all of them.
LatestPushed ==
  today > LastDay ~>
    \/ minimum = NaN
    \/ \A d \in LastJobRun : DOMAIN uptimes[d] = pushed[d]

----------------------------------------------------------------------------
\* uptime-validation.service.ts, line 39: without the variable "using default value".  The
\* uptimes of a date are computed then too.
DefaultIsUsed ==
  \A d \in Days :
    today > d /\ SeenOn(d) # {} ~>
      d \in Succeeded \/ (d \in failed /\ \E e \in Succeeded : e > d)
===============================================================================
