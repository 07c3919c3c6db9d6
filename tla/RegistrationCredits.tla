-------------------------- MODULE RegistrationCredits --------------------------
(***************************************************************************)
(* The registration locks.  The Registrator, an EVM contract, emits        *)
(* Registered when somebody locks tokens for a relay; the EventsService    *)
(* adds an add-registration-credit job to the registrator-updates-queue,   *)
(* and its worker adds a credit to the relay registry contract.  Nothing   *)
(* retries a credit that could not be added.                               *)
(***************************************************************************)
EXTENDS Integers

CONSTANTS
  Locks,        \* the events
  MaxCrashes    \* bound on the crashes of a behaviour

VARIABLES
  up,        \* the process runs and is subscribed
  job,       \* lock -> "none", "adding" (not awaited), "waiting", "active", "done", or
             \*   "missed" by a process that was down
  credits,   \* lock -> credits added for it to the contract
  stalled,   \* locks whose job stalled once
  crashes

vars == <<up, job, credits, stalled, crashes>>

Init ==
  /\ up = TRUE
  /\ job = [l \in Locks |-> "none"]
  /\ credits = [l \in Locks |-> 0]
  /\ stalled = {} /\ crashes = 0

\* An event of the Registrator.
Registered(l) ==
  /\ job[l] = "none"
  /\ job' = [job EXCEPT ![l] = IF up THEN "adding" ELSE "missed"]
  /\ UNCHANGED <<up, credits, stalled, crashes>>

\* Redis takes the flow.
FlowAdded(l) ==
  /\ job[l] = "adding" /\ job' = [job EXCEPT ![l] = "waiting"]
  /\ UNCHANGED <<up, credits, stalled, crashes>>

\* The worker, one job at a time.
Dequeue(l) ==
  /\ up /\ job[l] = "waiting" /\ \A m \in Locks : job[m] # "active"
  /\ job' = [job EXCEPT ![l] = "active"]
  /\ UNCHANGED <<up, credits, stalled, crashes>>

\* A definition marked (slip) is a mistake the code could have made and does not; no
\* action uses it.
\* (slip: a failed interaction sent once more before the job ends)
Sends_Again == 0..2

\* The credits of one addRegistrationCredits interaction: it lands or it does not.
Sends == 0..1

\* add-registration-credit and addRegistrationCredit: the interaction is answered, or
\* throws, perhaps after it landed; nothing looks at what the job then returns, and it
\* is done.
AddRegistrationCredit(l) ==
  /\ job[l] = "active"
  /\ job' = [job EXCEPT ![l] = "done"]
  /\ \E n \in Sends : credits' = [credits EXCEPT ![l] = @ + n]
  /\ UNCHANGED <<up, stalled, crashes>>

\* The process dies: what Redis has not taken is lost, the active job runs again,
\* once, whether its credit landed or not.
Crash ==
  /\ up /\ up' = FALSE /\ crashes < MaxCrashes /\ crashes' = crashes + 1
  /\ LET active == {l \in Locks : job[l] = "active"} IN
       /\ stalled' = stalled \cup active
       /\ job' = [l \in Locks |->
            CASE l \in active \ stalled -> "waiting"
              [] l \in active \cap stalled -> "done"
              [] job[l] = "adding" -> "done"
              [] OTHER -> job[l]]
       /\ \/ UNCHANGED credits
          \/ \E l \in active : credits' = [credits EXCEPT ![l] = @ + 1]

Boot ==
  /\ ~up /\ up' = TRUE
  /\ UNCHANGED <<job, credits, stalled, crashes>>

Next ==
  \/ \E l \in Locks : \/ Registered(l) \/ FlowAdded(l) \/ Dequeue(l)
                      \/ AddRegistrationCredit(l)
  \/ Crash
  \/ Boot

Spec == Init /\ [][Next]_vars

----------------------------------------------------------------------------
\* A lock is credited once, and once more for a crash that caught its job: the credit
\* of a lock is never repeated otherwise.
CreditsBounded ==
  \A l \in Locks : credits[l] <= IF l \in stalled THEN 2 ELSE 1

\* events.service.spec.ts, line 43: "should store registration locks in
\* relay-registry".  A lock whose job is over has a credit.
LocksStored == \A l \in Locks : job[l] = "done" => credits[l] > 0
===============================================================================
