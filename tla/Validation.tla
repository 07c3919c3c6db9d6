------------------------------ MODULE Validation ------------------------------
(***************************************************************************)
(* The validation flow of the Validator.  Every four hours the tasks-queue *)
(* adds                                                                    *)
(*                                                                         *)
(*   fetch-relays -> filter-relays -> validate-relays -> verify            *)
(*                                                                         *)
(* fetch-relays asks Onionoo for the relays of the network, filter-relays  *)
(* keeps those whose contact has the ator pattern, validate-relays those   *)
(* with a key in it, of which it stores a RelayData for each, and verify   *)
(* sends the round on to the verification.  Each of the first three turns  *)
(* an exception into an empty result or into none.                         *)
(*                                                                         *)
(* The RelayUptime documents that validate-relays reads are written by the *)
(* command of RelayUptimes, which extends this module.  ValidationData is  *)
(* stored as RelayData is, and read by nothing: it is not kept.            *)
(***************************************************************************)
EXTENDS Integers, Sequences, FiniteSets

CONSTANTS
  Relays,
  Contact,      \* relay -> what its contact has: "nothing", "pattern", "key"
  LastDay,      \* bound on the dates, which are 1, 2, ...
  MaxRounds,    \* bound on the flows of a behaviour
  MaxTroubles,  \* bound on the crashes, and the failed calls of the command
  Undefined     \* the result of a validate-relays that threw

Days == 1..LastDay

\* What a job of the flow returns: the relays listed, and whether each runs.
Lists == UNION {[S -> BOOLEAN] : S \in SUBSET Relays}
Nothing == [r \in {} |-> FALSE]

\* u has uptime days of some relays: of the validated relays, or of the documents of one
\* insertMany.
IsUptimes(u) == DOMAIN u \subseteq Relays /\ u \in [DOMAIN u -> Nat]

ASSUME ValidationAssumption ==
  /\ LastDay \in Nat /\ MaxRounds \in Nat /\ MaxTroubles \in Nat
  /\ Contact \in [Relays -> {"nothing", "pattern", "key"}]
  /\ \A S \in SUBSET Relays : Undefined \notin [S -> Nat]

VARIABLES
  today,         \* the date
  relayData,     \* date -> relay -> RelayData documents by their running
  relayUptimes,  \* date -> the documents of each insertMany, oldest first
  stage,         \* the job of the flow that runs, "none" without a flow; "store" is the
                 \*   part of validate-relays that writes
  listed,        \* what the job before returned
  stamp,         \* the date of validated_at
  validated,     \* the relays validated, with the uptime_days read
  again,         \* the job stalled once
  handed,        \* the uptime_days in the rounds that the verification got
  rounds,        \* flows so far
  troubles       \* crashes, and failed calls of the command, so far

flow == <<stage, listed, stamp, validated, again, handed, rounds, troubles>>

Stages == {"none", "fetch", "filter", "validate", "store", "verify"}

ValidationInit ==
  /\ today = 1
  /\ relayData = [d \in Days |-> [r \in Relays |-> [running |-> 0, not |-> 0]]]
  /\ relayUptimes = [d \in Days |-> <<>>]
  /\ stage = "none" /\ listed = Nothing /\ stamp = 1
  /\ validated = Undefined /\ again = FALSE
  /\ handed = {}
  /\ rounds = 0 /\ troubles = 0

----------------------------------------------------------------------------
\* The date changes; the behaviour ends with the day after the last.
Midnight ==
  /\ today <= LastDay /\ today' = today + 1
  /\ UNCHANGED <<relayData, relayUptimes, flow>>

\* JOB_VALIDATE of the tasks-queue adds the flow.  Rounds are four hours apart, and the
\* queue has one worker.
ValidateJob ==
  /\ stage = "none" /\ rounds < MaxRounds /\ today \in Days
  /\ stage' = "fetch"
  /\ rounds' = rounds + 1
  /\ UNCHANGED <<today, relayData, relayUptimes, listed, stamp, validated, again, handed,
                 troubles>>

\* The job ends and the next one runs.
Ends(job) == stage' = job /\ again' = FALSE

\* The flow is over, its jobs are removed.
Over == /\ stage' = "none" /\ again' = FALSE
        /\ listed' = Nothing /\ stamp' = 1 /\ validated' = Undefined

\* fetchNewRelays: any list; nothing when Onionoo fails or has nothing new.
FetchRelays ==
  /\ stage = "fetch" /\ Ends("filter")
  /\ listed' \in Lists
  /\ UNCHANGED <<today, relayData, relayUptimes, stamp, validated, handed, rounds,
                 troubles>>

Listed(kinds) == {r \in DOMAIN listed : Contact[r] \in kinds}

\* filterRelays, or nothing when it throws.
FilterRelays ==
  /\ stage = "filter" /\ Ends("validate")
  /\ \/ listed' = [r \in Listed({"pattern", "key"}) |-> listed[r]]
     \/ listed' = Nothing
  /\ UNCHANGED <<today, relayData, relayUptimes, stamp, validated, handed, rounds,
                 troubles>>

\* The documents of a relay and date; the query takes any of them.
DocsOf(r, d) == {i \in DOMAIN relayUptimes[d] : r \in DOMAIN relayUptimes[d][i]}

\* A definition marked (slip) is a mistake the code could have made and does not; no
\* action uses it.
\* (slip: the uptime of the day before, which the command may have computed)
UptimeDays_Yesterday(r) ==
  LET d == today - 1 IN
  IF d = 0 THEN {0}
  ELSE IF DocsOf(r, d) = {} THEN {0}
  ELSE {relayUptimes[d][i][r] : i \in DocsOf(r, d)}

\* uptime_days of a validated relay: of its RelayUptime of the date of validated_at.
UptimeDays(r) ==
  IF DocsOf(r, today) = {} THEN {0}
  ELSE {relayUptimes[today][i][r] : i \in DocsOf(r, today)}

\* validateRelays up to its writes: nothing is written for an empty list, and a query
\* that throws leaves the job without a result.
ValidateRelays ==
  /\ stage = "validate" /\ today \in Days
  /\ stamp' = today
  /\ \/ /\ DOMAIN listed = {}
        /\ Ends("verify") /\ validated' = [r \in {} |-> 0]
     \/ /\ DOMAIN listed # {}
        /\ stage' = "store" /\ UNCHANGED again
        /\ \E u \in [Listed({"key"}) -> UNION {UptimeDays(r) : r \in Relays}] :
             /\ \A r \in DOMAIN u : u[r] \in UptimeDays(r)
             /\ validated' = u
     \/ /\ DOMAIN listed # {}
        /\ Ends("verify") /\ validated' = Undefined
  /\ UNCHANGED <<today, relayData, relayUptimes, listed, handed, rounds, troubles>>

\* insertMany of the RelayData of the round, n times.
InsertRelayData(n) ==
  LET new(r, running) == IF r \in DOMAIN validated /\ listed[r] = running THEN n ELSE 0
  IN  relayData' = [relayData EXCEPT ![stamp] = [r \in Relays |->
        [running |-> @[r].running + new(r, TRUE), not |-> @[r].not + new(r, FALSE)]]]

\* (slip: an insertMany that throws is tried once more)
Copies_Retried == 0..2

\* That it throws is only logged.
Copies == 0..1

\* The writes of validateRelays.
StoreRelayData ==
  /\ stage = "store" /\ Ends("verify") /\ listed' = Nothing
  /\ \E n \in Copies : InsertRelayData(n)
  /\ UNCHANGED <<today, relayUptimes, stamp, validated, handed, rounds, troubles>>

\* JOB_VERIFY sends the round to the verification; without a result it throws.
VerifyJob ==
  /\ stage = "verify" /\ Over
  /\ handed' = handed \cup {validated[r] : r \in {q \in Relays :
                    validated # Undefined /\ q \in DOMAIN validated}}
  /\ UNCHANGED <<today, relayData, relayUptimes, rounds, troubles>>

Trouble == troubles < MaxTroubles /\ troubles' = troubles + 1

\* The service dies in a job; the writes of the round may have landed.  BullMQ runs a job
\* again once; one that failed leaves its flow hanging.
Crash ==
  /\ Trouble
  /\ stage # "none"
  /\ IF ~again
     THEN /\ again' = TRUE /\ stage' = IF stage = "store" THEN "validate" ELSE stage
          /\ UNCHANGED <<listed, stamp, validated>>
     ELSE Over
  /\ \/ stage = "store" /\ InsertRelayData(1)
     \/ UNCHANGED relayData
  /\ UNCHANGED <<today, relayUptimes, handed, rounds>>

Jobs == \/ FetchRelays \/ FilterRelays \/ ValidateRelays \/ StoreRelayData \/ VerifyJob

ValidationNext == Midnight \/ ValidateJob \/ Jobs \/ Crash
===============================================================================
