----------------------------- MODULE EventsService -----------------------------
(***************************************************************************)
(* The EventsService of a process: it listens to the Facility and to the   *)
(* Registrator, and the two queues that it feeds have a worker each in the *)
(* same process.  FacilityUpdates and RegistrationCredits compose: they    *)
(* run side by side and go down and come back together.                    *)
(***************************************************************************)
EXTENDS FacilityUpdates

CONSTANT Locks

VARIABLES
  lockJob,        \* the variables of RegistrationCredits that are its own
  credits, lockStalled

R == INSTANCE RegistrationCredits
       WITH job <- lockJob, stalled <- lockStalled

registrations == <<lockJob, credits, lockStalled>>
requests == <<account, claimable, dreState, waiting, work, returned, adding, allocated,
              sent, ended, stalled, trouble>>
allVars == <<vars, registrations>>

EventsInit == Init /\ R!Init

----------------------------------------------------------------------------
\* One of the two at work.
Facilitator(A) == A /\ UNCHANGED registrations

Registrations(l) ==
  /\ \/ R!Registered(l) \/ R!FlowAdded(l) \/ R!Dequeue(l)
     \/ R!AddRegistrationCredit(l)
  /\ UNCHANGED requests

Updates == \/ \E a \in Address : Earn(a)
           \/ \E q \in Requests, a \in Address : RequestingUpdate(q, a)
           \/ JobAdded
           \/ Worker

\* The process dies, and with it the listeners, both workers and what either queue was
\* about to be given.
ProcessCrash == Crash /\ R!Crash

\* onApplicationBootstrap subscribes to both contracts.
ProcessBoot == Boot /\ R!Boot

EventsNext ==
  \/ Facilitator(Updates)
  \/ \E l \in Locks : Registrations(l)
  \/ ProcessCrash
  \/ ProcessBoot

EventsSpec == EventsInit /\ [][EventsNext]_allVars

\* The worker of the Facility's queue takes the jobs, Redis what it is given.
EventsFairSpec ==
  /\ EventsSpec
  /\ WF_allVars(Facilitator(Worker)) /\ WF_allVars(Facilitator(JobAdded))
  /\ WF_allVars(ProcessBoot)

----------------------------------------------------------------------------
\* A lock is credited once, and once more for a crash that caught its job: the credit
\* of a lock is never repeated otherwise.
CreditsBounded == R!CreditsBounded

\* events.service.spec.ts, line 43: "should store registration locks in
\* relay-registry".  A lock whose job is over has a credit.
LocksStored == R!LocksStored
===============================================================================
