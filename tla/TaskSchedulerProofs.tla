------------------------ MODULE TaskSchedulerProofs ------------------------
(***************************************************************************)
(* Proofs about TaskScheduler, for any number of balance checks at once,   *)
(* jobs added, reboots and crashes: what one chain is worth in links, and  *)
(* what a step may do to it.                                               *)
(***************************************************************************)
EXTENDS TaskScheduler, FiniteSetTheorems, TLAPS

AllSet == [c \in Chains |-> TRUE]

\* The callers that have a call of the chain under way.
Calling(c) == {p \in Callers : call[p] # NoCall /\ call[p].chain = c}

\* A call is of the chain that its caller is at: the bootstrap goes on when its call is
\* over, the worker keeps the job that the call is for.
CallsOK ==
  /\ \A c \in Chains : IsFiniteSet(Calling(c))
  /\ call["bootstrap"] # NoCall => boot = call["bootstrap"].chain /\ state[boot]
  /\ call["worker"] # NoCall =>
       /\ call["worker"].chain = "validate"
       /\ current # NoJob /\ current.chain = "validate" /\ current.step = "done"
  /\ \A p \in Slots : call[p] # NoCall => call[p].chain = "check-balances"

\* A service that has been running keeps its document, and a process that has read it has
\* both flags.
Running ==
  ~fresh =>
    /\ doc = AllSet
    /\ dataId = "first" => state = AllSet
    /\ \A p \in Callers : call[p] # NoCall /\ call[p].id = "first" => call[p].update = NoDoc
    /\ upsets = 0 => /\ creating = NoDoc /\ call["bootstrap"] = NoCall
                     /\ boot \notin {"down", "exists"} => dataId = "first"

\* Before its bootstrap a service that never ran has nothing.
FirstRun ==
  fresh /\ reboots = 0 =>
    /\ upsets = 0 /\ boot # "down"
    /\ boot = "exists" =>
         /\ doc = NoDoc /\ creating = NoDoc /\ current = NoJob
         /\ \A p \in Callers : call[p] = NoCall
         /\ \A c \in Chains : queued[c].first = 0 /\ queued[c].again = 0

\* Without a crash in the middle of a job none stalled.
Stalled == upsets = 0 => /\ \A c \in Chains : queued[c].again = 0
                         /\ current # NoJob => ~current.again

\* The bootstrap of this process is yet to queue the chain.
Owed(c) == IF ~state[c] /\ (boot \in {"validate", c} \/ (fresh /\ boot = "exists"))
           THEN 1 ELSE 0
Exact == upsets = 0 /\ (fresh => reboots = 0) =>
           \A c \in Chains : /\ Links(c) + Owed(c) <= 1
                             /\ c = "check-balances" \/ failures = 0 => Links(c) + Owed(c) = 1
AtMost == ~fresh => \A c \in Chains : Links(c) + Owed(c) <= 1 + upsets

Kept == CallsOK /\ Running /\ FirstRun /\ Stalled
Counted == Exact /\ AtMost /\ ValidationSurvivesOneCrash
IInv == TypeOK /\ Kept /\ Counted

----------------------------------------------------------------------------
(* Links                                                                   *)

LEMMA CallersAre ==
  /\ "bootstrap" \in Callers /\ "worker" \in Callers /\ Slots \subseteq Callers
  /\ "bootstrap" \notin Slots /\ "worker" \notin Slots
  /\ \A p \in Callers : p \in {"bootstrap", "worker"} \/ p \in Slots
BY SchedulerAssumption DEF Callers

LEMMA LinksAre ==
  ASSUME TypeOK, CallsOK, NEW c \in Chains
  PROVE  /\ queued[c].first \in Nat /\ queued[c].again \in Nat /\ Cardinality(Calling(c)) \in Nat
         /\ Links(c) = queued[c].first + queued[c].again + Cardinality(Calling(c))
                         + IF Handling(c) THEN 1 ELSE 0
         /\ Links(c) \in Nat /\ Owed(c) \in 0..1
<1>1. queued[c].first \in Nat /\ queued[c].again \in Nat
  BY DEF TypeOK
<1>2. Cardinality(Calling(c)) \in Nat
  BY FS_CardinalityType DEF CallsOK
<1>3. Links(c) = queued[c].first + queued[c].again + Cardinality(Calling(c))
                         + IF Handling(c) THEN 1 ELSE 0
  BY DEF Links, Calling
<1> QED BY <1>1, <1>2, <1>3 DEF Owed

LEMMA LinksNext ==
  \A c : Links(c)' = queued'[c].first + queued'[c].again + Cardinality(Calling(c)')
                       + IF Handling(c)' THEN 1 ELSE 0
BY DEF Links, Calling

\* A call begins.
LEMMA CallStarts ==
  ASSUME TypeOK, CallsOK, NEW p \in Callers, NEW c \in Chains, Call(p, c)
  PROVE  /\ state' \in Flags /\ state'[c] /\ \A d \in Chains \ {c} : state'[d] = state[d]
         /\ call' \in [Callers -> Calls \cup {NoCall}]
         /\ call[p] = NoCall /\ call'[p] # NoCall /\ call'[p].chain = c /\ call'[p].id = dataId
         /\ state[c] => call'[p].update = NoDoc
         /\ \A q \in Callers \ {p} : call'[q] = call[q]
         /\ Cardinality(Calling(c)') = Cardinality(Calling(c)) + 1
         /\ \A d \in Chains \ {c} : Calling(d)' = Calling(d)
         /\ \A d \in Chains : IsFiniteSet(Calling(d)')
<1>1. call[p] = NoCall /\ state' = [state EXCEPT ![c] = TRUE]
  BY DEF Call
<1>2. PICK k : k = [chain |-> c, update |-> IF state[c] THEN NoDoc ELSE state', id |-> dataId]
  OBVIOUS
<1>3. call' = [call EXCEPT ![p] = k]
  BY <1>2 DEF Call
<1>4. state' \in Flags /\ state'[c] /\ \A d \in Chains \ {c} : state'[d] = state[d]
  BY <1>1 DEF TypeOK, Flags
<1>5. k \in Calls /\ k # NoCall
  <2>1. k \in Calls
    BY <1>2, <1>4 DEF TypeOK, Calls
  <2> QED BY <2>1, SchedulerAssumption
<1>6. k.chain = c /\ k.id = dataId /\ (state[c] => k.update = NoDoc)
  BY <1>2
<1>7. call \in [Callers -> Calls \cup {NoCall}]
  BY DEF TypeOK
<1>8. call' \in [Callers -> Calls \cup {NoCall}] /\ call'[p] = k
      /\ \A q \in Callers \ {p} : call'[q] = call[q]
  BY <1>3, <1>5, <1>7
<1>9. Calling(c)' = Calling(c) \cup {p} /\ p \notin Calling(c)
  BY <1>1, <1>5, <1>6, <1>8 DEF Calling
<1>10. \A d \in Chains \ {c} : Calling(d)' = Calling(d)
  BY <1>1, <1>6, <1>8 DEF Calling
<1>11. IsFiniteSet(Calling(c)') /\ Cardinality(Calling(c)') = Cardinality(Calling(c)) + 1
  BY <1>9, FS_AddElement DEF CallsOK
<1>12. \A d \in Chains : IsFiniteSet(Calling(d)')
  BY <1>10, <1>11 DEF CallsOK
<1> QED BY <1>1, <1>4, <1>5, <1>6, <1>8, <1>10, <1>11, <1>12

\* A call is over.
LEMMA CallEnds ==
  ASSUME TypeOK, CallsOK, NEW p \in Callers, call[p] # NoCall, NEW c, c = call[p].chain,
         call' = [call EXCEPT ![p] = NoCall]
  PROVE  /\ c \in Chains
         /\ call' \in [Callers -> Calls \cup {NoCall}]
         /\ call'[p] = NoCall /\ \A q \in Callers \ {p} : call'[q] = call[q]
         /\ Cardinality(Calling(c)') = Cardinality(Calling(c)) - 1
         /\ \A d \in Chains \ {c} : Calling(d)' = Calling(d)
         /\ \A d \in Chains : IsFiniteSet(Calling(d)')
<1>1. call \in [Callers -> Calls \cup {NoCall}]
  BY DEF TypeOK
<1>2. call[p] \in Calls /\ c \in Chains
  BY <1>1 DEF Calls
<1>3. /\ call' \in [Callers -> Calls \cup {NoCall}]
      /\ call'[p] = NoCall /\ \A q \in Callers \ {p} : call'[q] = call[q]
  BY <1>1
<1>4. Calling(c)' = Calling(c) \ {p} /\ p \in Calling(c)
  BY <1>3 DEF Calling
<1>5. \A d \in Chains \ {c} : Calling(d)' = Calling(d)
  BY <1>3 DEF Calling
<1>6. IsFiniteSet(Calling(c)') /\ Cardinality(Calling(c)') = Cardinality(Calling(c)) - 1
  BY <1>2, <1>4, FS_RemoveElement DEF CallsOK
<1>7. \A d \in Chains : IsFiniteSet(Calling(d)')
  BY <1>5, <1>6 DEF CallsOK
<1> QED BY <1>2, <1>3, <1>5, <1>6, <1>7

\* What a step in a process that goes on does to the chain: it links it only once it owed it.
Steady(c) == /\ Links(c)' \in Nat /\ Links(c)' >= Links(c)
             /\ Links(c)' + Owed(c)' <= Links(c) + Owed(c)
             /\ Links(c) = 0 \/ Owed(c) = 0 => Links(c)' + Owed(c)' = Links(c) + Owed(c)

LEMMA SteadyCounted ==
  ASSUME TypeOK, CallsOK, Counted, UNCHANGED ends, \A c \in Chains : Steady(c)
  PROVE  Counted'
<1>1. UNCHANGED <<fresh, reboots, upsets, failures>> /\ upsets \in Nat
  BY DEF ends, TypeOK
<1>2. \A c \in Chains : Links(c) \in Nat /\ Owed(c) \in 0..1 /\ Owed(c)' \in 0..1
  BY LinksAre DEF Owed
<1>3. Exact'
  <2> SUFFICES ASSUME upsets = 0 /\ (fresh => reboots = 0), NEW c \in Chains
               PROVE  /\ Links(c)' + Owed(c)' <= 1
                      /\ c = "check-balances" \/ failures = 0 => Links(c)' + Owed(c)' = 1
    BY <1>1 DEF Exact
  <2>1. /\ Links(c) + Owed(c) <= 1
        /\ c = "check-balances" \/ failures = 0 => Links(c) + Owed(c) = 1
    BY DEF Counted, Exact
  <2>2. Links(c) = 0 \/ Owed(c) = 0
    BY <1>2, <2>1
  <2>3. Links(c)' + Owed(c)' = Links(c) + Owed(c)
    BY <2>2 DEF Steady
  <2> QED BY <2>1, <2>3
<1>4. AtMost'
  <2> SUFFICES ASSUME ~fresh, NEW c \in Chains PROVE Links(c)' + Owed(c)' <= 1 + upsets
    BY <1>1 DEF AtMost
  <2>1. Links(c) + Owed(c) <= 1 + upsets
    BY DEF Counted, AtMost
  <2> QED BY <1>1, <1>2, <2>1 DEF Steady
<1>5. ValidationSurvivesOneCrash'
  <2> SUFFICES ASSUME ~fresh, upsets <= 1, failures = 0 PROVE Links("validate")' >= 1
    BY <1>1 DEF ValidationSurvivesOneCrash
  <2>1. "validate" \in Chains
    BY DEF Chains
  <2>2. Links("validate") >= 1
    BY DEF Counted, ValidationSurvivesOneCrash
  <2> QED BY <1>2, <2>1, <2>2 DEF Steady
<1> QED BY <1>3, <1>4, <1>5 DEF Counted

\* Steps that leave the chains alone.
LEMMA SameLinks ==
  ASSUME TypeOK, CallsOK, NEW c \in Chains, UNCHANGED queued, Calling(c)' = Calling(c),
         Handling(c)' = Handling(c), Owed(c)' = Owed(c)
  PROVE  Steady(c)
<1>1. Links(c)' = Links(c)
  BY LinksAre, LinksNext
<1> QED BY <1>1, LinksAre DEF Steady
----------------------------------------------------------------------------
(* The calls and the bootstrap                                             *)

LEMMA UpdateKeeps ==
  ASSUME IInv, NEW p \in Callers, UpdateServiceState(p)
  PROVE  IInv'
<1>1. /\ call[p] # NoCall /\ call[p].update # NoDoc
      /\ doc' = IF call[p].id = "first" THEN call[p].update ELSE doc
      /\ call' = [call EXCEPT ![p].update = NoDoc]
      /\ UNCHANGED <<dataId, creating, state, boot, queued, current, flows, fresh, reboots, upsets, failures>>
  BY DEF UpdateServiceState, Updated, worker, ends
<1>2. TypeOK /\ CallsOK /\ Running /\ FirstRun /\ Stalled /\ Counted
  BY DEF IInv, Kept
<1>3. call[p] \in Calls /\ call[p].update \in Flags
  BY <1>1, <1>2 DEF TypeOK, Calls
<1>4. PICK k : k = [call[p] EXCEPT !.update = NoDoc]
  OBVIOUS
<1>5. k \in Calls /\ k.chain = call[p].chain /\ k.id = call[p].id /\ k.update = NoDoc /\ k # NoCall
  <2>1. k \in Calls /\ k.chain = call[p].chain /\ k.id = call[p].id /\ k.update = NoDoc
    BY <1>3, <1>4 DEF Calls
  <2> QED BY <2>1, SchedulerAssumption
<1>6. /\ call' \in [Callers -> Calls \cup {NoCall}] /\ call'[p] = k
      /\ \A q \in Callers \ {p} : call'[q] = call[q]
  BY <1>1, <1>2, <1>4, <1>5 DEF TypeOK
<1>7. \A q \in Callers : /\ (call'[q] # NoCall) = (call[q] # NoCall)
                         /\ call[q] # NoCall => call'[q].chain = call[q].chain /\ call'[q].id = call[q].id
                         /\ call'[q] = call[q] \/ call'[q].update = NoDoc
  BY <1>1, <1>5, <1>6
<1>8. \A c : Calling(c)' = Calling(c)
  BY <1>7 DEF Calling
<1>9. TypeOK'
  <2>1. doc' \in Flags \cup {NoDoc} /\ (dataId' = "first" => doc' # NoDoc)
    BY <1>1, <1>2, <1>3 DEF TypeOK
  <2> QED BY <1>1, <1>2, <1>6, <2>1 DEF TypeOK
<1>10. CallsOK'
  BY <1>1, <1>2, <1>7, <1>8, CallersAre DEF CallsOK
<1>11. Running'
  <2>1. ~fresh => doc' = doc
    BY <1>1, <1>2 DEF Running
  <2>2. ~fresh => \A q \in Callers : call'[q] # NoCall /\ call'[q].id = "first" => call'[q].update = NoDoc
    BY <1>2, <1>7 DEF Running
  <2>3. call["bootstrap"] = NoCall => call'["bootstrap"] = NoCall
    BY <1>7, CallersAre
  <2> QED BY <1>1, <1>2, <2>1, <2>2, <2>3 DEF Running
<1>12. FirstRun' /\ Stalled'
  BY <1>1, <1>2 DEF FirstRun, Stalled
<1>13. Counted'
  <2>1. ASSUME NEW c \in Chains PROVE Steady(c)
    <3>1. Handling(c)' = Handling(c) /\ Owed(c)' = Owed(c)
      BY <1>1 DEF Handling, Owed
    <3> QED BY <1>1, <1>2, <1>8, <3>1, SameLinks
  <2> QED BY <1>1, <1>2, <2>1, SteadyCounted DEF ends
<1> QED BY <1>9, <1>10, <1>11, <1>12, <1>13 DEF IInv, Kept

\* What the bootstrap leaves behind it.
LEMMA AfterOwes ==
  ASSUME NEW c \in Chains, boot = c, state[c], UNCHANGED <<fresh, state>>, boot' = After(c)
  PROVE  \A d \in Chains : Owed(d)' = Owed(d)
<1>1. /\ c \in {"validate", "check-balances"} /\ boot' \in {"check-balances", "up"}
      /\ c = "check-balances" => boot' = "up"
      /\ c = "validate" => boot' = "check-balances"
  BY DEF After, Chains
<1> QED BY <1>1 DEF Owed, Chains

LEMMA AddKeeps ==
  ASSUME IInv, NEW p \in Callers, AddJob(p)
  PROVE  IInv'
<1>1. PICK c : c = call[p].chain
  OBVIOUS
<1>2. /\ call[p] # NoCall /\ call' = [call EXCEPT ![p] = NoCall]
      /\ queued' = [queued EXCEPT ![c].first = @ + 1]
      /\ boot' = IF p = "bootstrap" THEN After(c) ELSE boot
      /\ UNCHANGED <<doc, dataId, creating, state, current, flows, fresh, reboots, upsets, failures>>
  BY <1>1 DEF AddJob, mongo, worker, ends
<1>3. TypeOK /\ CallsOK /\ Running /\ FirstRun /\ Stalled /\ Counted
  BY DEF IInv, Kept
<1>4. /\ c \in Chains
      /\ call' \in [Callers -> Calls \cup {NoCall}]
      /\ call'[p] = NoCall /\ \A q \in Callers \ {p} : call'[q] = call[q]
      /\ Cardinality(Calling(c)') = Cardinality(Calling(c)) - 1
      /\ \A d \in Chains \ {c} : Calling(d)' = Calling(d)
      /\ \A d \in Chains : IsFiniteSet(Calling(d)')
  BY <1>1, <1>2, <1>3, CallEnds
<1>5. /\ queued' \in [Chains -> [first: Nat, again: Nat]]
      /\ queued'[c].first = queued[c].first + 1 /\ queued'[c].again = queued[c].again
      /\ \A d \in Chains \ {c} : queued'[d] = queued[d]
  BY <1>2, <1>3, <1>4 DEF TypeOK
<1>6. p = "bootstrap" => boot = c /\ state[c]
  BY <1>1, <1>2, <1>3 DEF CallsOK
<1>7. /\ boot' \in {"down", "exists", "up"} \cup Chains
      /\ boot = "exists" <=> boot' = "exists"
      /\ boot = "down" <=> boot' = "down"
  BY <1>2, <1>3, <1>4, <1>6 DEF TypeOK, After, Chains
<1>8. TypeOK'
  BY <1>2, <1>3, <1>4, <1>5, <1>7 DEF TypeOK
<1>9. CallsOK'
  <2>1. call'["bootstrap"] # NoCall => boot' = boot /\ call'["bootstrap"] = call["bootstrap"]
    BY <1>2, <1>4, CallersAre
  <2>2. \A q \in Callers : call'[q] # NoCall => call'[q] = call[q]
    BY <1>4
  <2> QED BY <1>2, <1>3, <1>4, <2>1, <2>2, CallersAre DEF CallsOK
<1>10. Running'
  <2>1. \A q \in Callers : call'[q] # NoCall => call'[q] = call[q]
    BY <1>4
  <2> QED BY <1>2, <1>3, <1>4, <1>7, <2>1, CallersAre DEF Running
<1>11. FirstRun'
  <2>1. fresh /\ reboots = 0 => boot # "exists"
    BY <1>2, <1>3 DEF FirstRun
  <2> QED BY <1>2, <1>3, <1>7, <2>1 DEF FirstRun
<1>12. Stalled'
  BY <1>2, <1>3, <1>5 DEF Stalled
<1>13. \A d \in Chains : Owed(d)' = Owed(d)
  <2>1. CASE p = "bootstrap"
    BY <1>2, <1>4, <1>6, <2>1, AfterOwes
  <2>2. CASE p # "bootstrap"
    BY <1>2, <2>2 DEF Owed
  <2> QED BY <2>1, <2>2
<1>14. ASSUME NEW d \in Chains PROVE Steady(d)
  <2>1. Handling(d)' = Handling(d)
    BY <1>2 DEF Handling
  <2>2. Links(d)' = Links(d)
    <3>1. CASE d = c
      <4>1. PICK n \in Nat : n = Cardinality(Calling(c))
        BY <1>3, <1>4, LinksAre
      <4>2. Cardinality(Calling(c)') = n - 1
        BY <1>4, <4>1
      <4>3. Links(c) = queued[c].first + queued[c].again + n + IF Handling(c) THEN 1 ELSE 0
        BY <1>3, <1>4, <4>1, LinksAre
      <4>4. Links(c)' = queued'[c].first + queued'[c].again + (n - 1) + IF Handling(c)' THEN 1 ELSE 0
        BY <4>2, LinksNext
      <4>5. queued[c].first \in Nat /\ queued[c].again \in Nat
        BY <1>3, <1>4, LinksAre
      <4> QED BY <1>5, <2>1, <3>1, <4>3, <4>4, <4>5
    <3>2. CASE d # c
      BY <1>3, <1>4, <1>5, <2>1, <3>2, LinksAre, LinksNext
    <3> QED BY <3>1, <3>2
  <2> QED BY <1>3, <1>13, <2>2, LinksAre DEF Steady
<1>15. Counted'
  BY <1>2, <1>3, <1>14, SteadyCounted DEF ends
<1> QED BY <1>8, <1>9, <1>10, <1>11, <1>12, <1>15 DEF IInv, Kept

LEMMA FindKeeps == ASSUME IInv, FindServiceData PROVE IInv'
<1>1. /\ boot = "exists" /\ boot' = "validate"
      /\ UNCHANGED <<doc, call, queued, current, flows, fresh, reboots, failures>>
  BY DEF FindServiceData, worker
<1>2. \/ doc # NoDoc /\ dataId' = "first" /\ state' = doc /\ UNCHANGED <<creating, upsets>>
      \/ /\ creating' = state /\ UNCHANGED <<dataId, state>>
         /\ upsets' = IF doc = NoDoc THEN upsets ELSE upsets + 1
  BY DEF FindServiceData
<1>3. TypeOK /\ CallsOK /\ Running /\ FirstRun /\ Stalled /\ Counted
  BY DEF IInv, Kept
<1>4. upsets \in Nat /\ upsets' \in {upsets, upsets + 1}
  BY <1>2, <1>3 DEF TypeOK
<1>5. \A c : Calling(c)' = Calling(c) /\ Handling(c)' = Handling(c)
  BY <1>1 DEF Calling, Handling
<1>6. \A c \in Chains : Links(c)' = Links(c) /\ Links(c) \in Nat
  BY <1>1, <1>3, <1>5, LinksAre, LinksNext
<1>7. call["bootstrap"] = NoCall
  <2>1. "exists" \notin Chains
    BY DEF Chains
  <2>2. call["bootstrap"] # NoCall => call["bootstrap"].chain \in Chains
    BY <1>3, CallersAre DEF TypeOK, Calls
  <2> QED BY <1>1, <1>3, <2>1, <2>2 DEF CallsOK
<1>8. TypeOK'
  <2>1. /\ creating' \in Flags \cup {NoDoc} /\ state' \in Flags /\ upsets' \in Nat
        /\ dataId' \in {"none", "first", "other"} /\ (dataId' = "first" => doc' # NoDoc)
    BY <1>1, <1>2, <1>3, <1>4 DEF TypeOK
  <2>2. boot' \in Chains
    BY <1>1 DEF Chains
  <2> QED BY <1>1, <1>3, <2>1, <2>2 DEF TypeOK
<1>9. CallsOK'
  BY <1>1, <1>3, <1>5, <1>7 DEF CallsOK
<1>10. AllSet # NoDoc
  BY SchedulerAssumption DEF AllSet, Flags
<1>11. Running'
  BY <1>1, <1>2, <1>3, <1>4, <1>7, <1>10 DEF Running
<1>12. Stalled'
  BY <1>1, <1>2, <1>3, <1>4 DEF Stalled
<1>13. FirstRun'
  BY <1>1, <1>2, <1>3 DEF FirstRun
<1>14. ASSUME NEW c \in Chains
       PROVE  /\ Owed(c)' \in 0..1
              /\ ~fresh => Owed(c) = 0
              /\ fresh /\ reboots = 0 => Owed(c)' = Owed(c)
              /\ ~fresh /\ upsets' = upsets => Owed(c)' = 0
  <2>1. fresh /\ reboots = 0 => state' = state
    BY <1>1, <1>2, <1>3 DEF FirstRun
  <2>2. ~fresh /\ upsets' = upsets => state'[c]
    BY <1>2, <1>3, <1>4, <1>10 DEF Running, AllSet
  <2>3. boot # "validate" /\ boot # c
    BY <1>1 DEF Chains
  <2> QED BY <1>1, <2>1, <2>2, <2>3 DEF Owed
<1>15. Exact'
  <2> SUFFICES ASSUME upsets' = 0, fresh => reboots = 0, NEW c \in Chains
               PROVE  /\ Links(c)' + Owed(c)' <= 1
                      /\ c = "check-balances" \/ failures = 0 => Links(c)' + Owed(c)' = 1
    BY <1>1 DEF Exact
  <2>1. upsets = 0 /\ upsets' = upsets
    BY <1>4
  <2>2. /\ Links(c) + Owed(c) <= 1
        /\ c = "check-balances" \/ failures = 0 => Links(c) + Owed(c) = 1
    BY <1>3, <2>1 DEF Counted, Exact
  <2>3. Owed(c)' = Owed(c)
    <3>1. CASE fresh
      BY <1>14, <3>1
    <3>2. CASE ~fresh
      BY <1>14, <2>1, <3>2
    <3> QED BY <3>1, <3>2
  <2> QED BY <1>6, <2>2, <2>3
<1>16. AtMost'
  <2> SUFFICES ASSUME ~fresh, NEW c \in Chains PROVE Links(c)' + Owed(c)' <= 1 + upsets'
    BY <1>1 DEF AtMost
  <2>1. Links(c) + Owed(c) <= 1 + upsets
    BY <1>3 DEF Counted, AtMost
  <2>2. Owed(c) = 0 /\ Owed(c)' \in 0..1 /\ (upsets' = upsets => Owed(c)' = 0)
    BY <1>14
  <2>3. Links(c)' = Links(c) /\ Links(c) \in Nat
    BY <1>6
  <2> QED BY <1>4, <2>1, <2>2, <2>3
<1>17. ValidationSurvivesOneCrash'
  BY <1>1, <1>3, <1>4, <1>6 DEF Counted, ValidationSurvivesOneCrash, Chains
<1> QED BY <1>8, <1>9, <1>11, <1>12, <1>13, <1>15, <1>16, <1>17 DEF IInv, Kept, Counted
LEMMA CreateKeeps == ASSUME IInv, CreateServiceState PROVE IInv'
<1>1. /\ creating # NoDoc /\ creating' = NoDoc
      /\ IF doc = NoDoc THEN doc' = creating /\ dataId' = "first" ELSE dataId' = "other" /\ doc' = doc
      /\ UNCHANGED <<state, boot, call, queued, current, flows, fresh, reboots, upsets, failures>>
  BY DEF CreateServiceState, worker, ends
<1>2. TypeOK /\ CallsOK /\ Running /\ FirstRun /\ Stalled /\ Counted
  BY DEF IInv, Kept
<1>3. TypeOK'
  <2>1. doc' \in Flags \cup {NoDoc} /\ dataId' \in {"none", "first", "other"} /\ doc' # NoDoc
    BY <1>1, <1>2 DEF TypeOK
  <2> QED BY <1>1, <1>2, <2>1 DEF TypeOK
<1>4. \A c : /\ Calling(c)' = Calling(c) /\ Handling(c)' = Handling(c) /\ Owed(c)' = Owed(c)
  BY <1>1 DEF Calling, Handling, Owed
<1>5. CallsOK'
  BY <1>1, <1>2, <1>4 DEF CallsOK
<1>6. AllSet # NoDoc
  BY SchedulerAssumption DEF AllSet, Flags
<1>7. Running' /\ FirstRun' /\ Stalled'
  BY <1>1, <1>2, <1>6 DEF Running, FirstRun, Stalled
<1>8. Counted'
  <2>1. \A c \in Chains : Steady(c)
    BY <1>1, <1>2, <1>4, SameLinks
  <2> QED BY <1>1, <1>2, <2>1, SteadyCounted DEF ends
<1> QED BY <1>3, <1>5, <1>7, <1>8 DEF IInv, Kept

LEMMA QueueKeeps == ASSUME IInv, NEW c \in Chains, QueueFirst(c) PROVE IInv'
<1>1. /\ boot = c /\ ~state[c] /\ Call("bootstrap", c)
      /\ UNCHANGED <<doc, dataId, creating, boot, queued, current, flows, fresh, reboots, upsets, failures>>
  BY DEF QueueFirst, mongo, worker, ends
<1>2. TypeOK /\ CallsOK /\ Running /\ FirstRun /\ Stalled /\ Counted
  BY DEF IInv, Kept
<1>3. "bootstrap" \in Callers
  BY CallersAre
<1>4. /\ state' \in Flags /\ state'[c] /\ \A d \in Chains \ {c} : state'[d] = state[d]
      /\ call' \in [Callers -> Calls \cup {NoCall}]
      /\ call["bootstrap"] = NoCall /\ call'["bootstrap"] # NoCall
      /\ call'["bootstrap"].chain = c /\ call'["bootstrap"].id = dataId
      /\ \A q \in Callers \ {"bootstrap"} : call'[q] = call[q]
      /\ Cardinality(Calling(c)') = Cardinality(Calling(c)) + 1
      /\ \A d \in Chains \ {c} : Calling(d)' = Calling(d)
      /\ \A d \in Chains : IsFiniteSet(Calling(d)')
  BY <1>1, <1>2, <1>3, CallStarts
<1>5. c \notin {"down", "exists"}
  BY DEF Chains
<1>6. TypeOK'
  BY <1>1, <1>2, <1>4 DEF TypeOK
<1>7. CallsOK'
  BY <1>1, <1>2, <1>4, CallersAre DEF CallsOK
<1>8. ~fresh => dataId # "first" /\ upsets # 0
  BY <1>1, <1>2, <1>5 DEF Running, AllSet
<1>9. Running'
  <2>1. \A q \in Callers : call'[q] # NoCall /\ call'[q].id = "first" /\ ~fresh => call'[q] = call[q]
    BY <1>4, <1>8
  <2> QED BY <1>1, <1>2, <1>8, <2>1 DEF Running
<1>10. FirstRun' /\ Stalled'
  BY <1>1, <1>2, <1>5 DEF FirstRun, Stalled
<1>11. Counted'
  <2>1. \A d \in Chains : Handling(d)' = Handling(d)
    BY <1>1 DEF Handling
  <2>2. ASSUME NEW d \in Chains, d # c PROVE Steady(d)
    <3>1. Owed(d)' = Owed(d)
      BY <1>1, <1>4, <2>2 DEF Owed
    <3> QED BY <1>1, <1>2, <1>4, <2>1, <2>2, <3>1, SameLinks
  <2>3. Steady(c)
    <3>1. Owed(c) = 1 /\ Owed(c)' = 0
      BY <1>1, <1>4 DEF Owed
    <3>2. Links(c)' = Links(c) + 1 /\ Links(c) \in Nat
      <4>1. PICK n \in Nat : n = Cardinality(Calling(c))
        BY <1>2, LinksAre
      <4>2. Links(c) = queued[c].first + queued[c].again + n + IF Handling(c) THEN 1 ELSE 0
        BY <1>2, <4>1, LinksAre
      <4>3. Links(c)' = queued[c].first + queued[c].again + (n + 1) + IF Handling(c) THEN 1 ELSE 0
        BY <1>1, <1>4, <2>1, <4>1, LinksNext
      <4>4. queued[c].first \in Nat /\ queued[c].again \in Nat
        BY <1>2, LinksAre
      <4> QED BY <4>2, <4>3, <4>4
    <3> QED BY <3>1, <3>2 DEF Steady
  <2> QED BY <1>1, <1>2, <2>2, <2>3, SteadyCounted DEF ends
<1> QED BY <1>6, <1>7, <1>9, <1>10, <1>11 DEF IInv, Kept

LEMMA SkipKeeps == ASSUME IInv, NEW c \in Chains, SkipQueued(c) PROVE IInv'
<1>1. /\ boot = c /\ state[c] /\ call["bootstrap"] = NoCall /\ boot' = After(c)
      /\ UNCHANGED <<doc, dataId, creating, state, call, queued, current, flows, fresh, reboots, upsets, failures>>
  BY DEF SkipQueued, AlreadyQueued, mongo, worker, ends
<1>2. TypeOK /\ CallsOK /\ Running /\ FirstRun /\ Stalled /\ Counted
  BY DEF IInv, Kept
<1>3. boot \notin {"down", "exists"} /\ boot' \in {"check-balances", "up"}
  BY <1>1 DEF Chains, After
<1>4. TypeOK'
  BY <1>1, <1>2, <1>3 DEF TypeOK, Chains
<1>5. \A d : Calling(d)' = Calling(d) /\ Handling(d)' = Handling(d)
  BY <1>1 DEF Calling, Handling
<1>6. CallsOK'
  BY <1>1, <1>2, <1>5 DEF CallsOK
<1>7. Running' /\ FirstRun' /\ Stalled'
  BY <1>1, <1>2, <1>3 DEF Running, FirstRun, Stalled
<1>8. Counted'
  <2>1. \A d \in Chains : Owed(d)' = Owed(d)
    BY <1>1, AfterOwes
  <2>2. \A d \in Chains : Steady(d)
    BY <1>1, <1>2, <1>5, <2>1, SameLinks
  <2> QED BY <1>1, <1>2, <2>2, SteadyCounted DEF ends
<1> QED BY <1>4, <1>6, <1>7, <1>8 DEF IInv, Kept

----------------------------------------------------------------------------
(* The worker                                                              *)

LEMMA DequeueKeeps ==
  ASSUME IInv, NEW c \in Chains, NEW kind \in {"first", "again"}, Dequeue(c, kind)
  PROVE  IInv'
<1>1. /\ boot # "down" /\ current = NoJob /\ queued[c][kind] > 0
      /\ queued' = [queued EXCEPT ![c][kind] = @ - 1]
      /\ UNCHANGED <<doc, dataId, creating, state, boot, call, flows, fresh, reboots, upsets, failures>>
  BY DEF Dequeue, mongo, ends
<1>2. PICK j : j = [chain |-> c, again |-> kind = "again", step |-> "new"]
  OBVIOUS
<1>3. current' = j
  BY <1>2 DEF Dequeue
<1>4. TypeOK /\ CallsOK /\ Running /\ FirstRun /\ Stalled /\ Counted
  BY DEF IInv, Kept
<1>5. j \in Jobs /\ j # NoJob /\ j.chain = c /\ j.step = "new" /\ j.again = (kind = "again")
  <2>1. j \in Jobs /\ j.chain = c /\ j.step = "new" /\ j.again = (kind = "again")
    BY <1>2 DEF Jobs
  <2> QED BY <2>1, SchedulerAssumption
<1>6. /\ queued' \in [Chains -> [first: Nat, again: Nat]]
      /\ \A d \in Chains \ {c} : queued'[d] = queued[d]
      /\ queued'[c].first + queued'[c].again + 1 = queued[c].first + queued[c].again
      /\ queued[c].again = 0 => kind # "again" /\ queued'[c].again = 0
      /\ queued[c].first # 0 \/ queued[c].again # 0
  <2>1. queued[c].first \in Nat /\ queued[c].again \in Nat
        /\ queued \in [Chains -> [first: Nat, again: Nat]]
    BY <1>4 DEF TypeOK
  <2>2. CASE kind = "first"
    <3>1. queued' = [queued EXCEPT ![c].first = @ - 1] /\ queued[c].first > 0
      BY <1>1, <2>2
    <3>2. /\ queued'[c].first = queued[c].first - 1 /\ queued'[c].again = queued[c].again
          /\ \A d \in Chains \ {c} : queued'[d] = queued[d]
          /\ queued' \in [Chains -> [first: Nat, again: Nat]]
      BY <2>1, <3>1
    <3> QED BY <2>1, <2>2, <3>1, <3>2
  <2>3. CASE kind = "again"
    <3>1. queued' = [queued EXCEPT ![c].again = @ - 1] /\ queued[c].again > 0
      BY <1>1, <2>3
    <3>2. /\ queued'[c].again = queued[c].again - 1 /\ queued'[c].first = queued[c].first
          /\ \A d \in Chains \ {c} : queued'[d] = queued[d]
          /\ queued' \in [Chains -> [first: Nat, again: Nat]]
      BY <2>1, <3>1
    <3> QED BY <2>1, <2>3, <3>1, <3>2
  <2> QED BY <2>2, <2>3
<1>7. TypeOK'
  BY <1>1, <1>3, <1>4, <1>5, <1>6 DEF TypeOK
<1>8. \A d : Calling(d)' = Calling(d) /\ Owed(d)' = Owed(d)
  BY <1>1 DEF Calling, Owed
<1>9. CallsOK'
  BY <1>1, <1>4, <1>8 DEF CallsOK
<1>10. Running'
  BY <1>1, <1>4 DEF Running
<1>11. FirstRun'
  BY <1>1, <1>4, <1>6 DEF FirstRun
<1>12. Stalled'
  BY <1>1, <1>3, <1>4, <1>5, <1>6 DEF Stalled
<1>13. ASSUME NEW d \in Chains PROVE Steady(d)
  <2>1. ~Handling(d) /\ (Handling(d)' <=> d = c)
    BY <1>1, <1>3, <1>5 DEF Handling
  <2>2. Links(d)' = Links(d)
    <3>1. PICK n \in Nat : n = Cardinality(Calling(d))
      BY <1>4, LinksAre
    <3>2. Links(d) = queued[d].first + queued[d].again + n
      BY <1>4, <2>1, <3>1, LinksAre
    <3>3. Links(d)' = queued'[d].first + queued'[d].again + n + IF d = c THEN 1 ELSE 0
      BY <1>8, <2>1, <3>1, LinksNext
    <3>4. /\ queued[d].first \in Nat /\ queued[d].again \in Nat
          /\ queued'[d].first \in Nat /\ queued'[d].again \in Nat
      BY <1>4, <1>6 DEF TypeOK
    <3> QED BY <1>6, <3>2, <3>3, <3>4
  <2> QED BY <1>4, <1>8, <2>2, LinksAre DEF Steady
<1>14. Counted'
  BY <1>1, <1>4, <1>13, SteadyCounted DEF ends
<1> QED BY <1>7, <1>9, <1>10, <1>11, <1>12, <1>14 DEF IInv, Kept

\* A job goes on to ask for the next of its chain.
LEMMA HandleKeeps ==
  ASSUME IInv, NEW c \in Chains, NEW p \in Callers, Handling(c), Call(p, c), SendFlow(c),
         UNCHANGED <<mongo, boot, queued, ends>>,
         (p = "worker" /\ c = "validate") \/ (p \in Slots /\ c = "check-balances")
  PROVE  IInv'
<1>1. /\ current # NoJob /\ current.chain = c /\ current.step = "new"
      /\ flows' = [flows EXCEPT ![c] = @ + 1]
      /\ current' = [current EXCEPT !.step = "done"]
      /\ UNCHANGED <<doc, dataId, creating, boot, queued, fresh, reboots, upsets, failures>>
  BY DEF Handling, SendFlow, mongo, ends
<1>2. TypeOK /\ CallsOK /\ Running /\ FirstRun /\ Stalled /\ Counted
  BY DEF IInv, Kept
<1>3. /\ state' \in Flags /\ state'[c] /\ \A d \in Chains \ {c} : state'[d] = state[d]
      /\ call' \in [Callers -> Calls \cup {NoCall}]
      /\ call[p] = NoCall /\ call'[p] # NoCall
      /\ call'[p].chain = c /\ call'[p].id = dataId /\ (state[c] => call'[p].update = NoDoc)
      /\ \A q \in Callers \ {p} : call'[q] = call[q]
      /\ Cardinality(Calling(c)') = Cardinality(Calling(c)) + 1
      /\ \A d \in Chains \ {c} : Calling(d)' = Calling(d)
      /\ \A d \in Chains : IsFiniteSet(Calling(d)')
  BY <1>2, CallStarts
<1>4. /\ current' \in Jobs /\ current' # NoJob /\ current'.chain = c /\ current'.step = "done"
      /\ current'.again = current.again
  <2>1. current \in Jobs
    BY <1>1, <1>2 DEF TypeOK
  <2>2. /\ current' \in Jobs /\ current'.chain = c /\ current'.step = "done"
        /\ current'.again = current.again
    BY <1>1, <2>1 DEF Jobs
  <2> QED BY <2>2, SchedulerAssumption
<1>5. TypeOK'
  BY <1>1, <1>2, <1>3, <1>4 DEF TypeOK
<1>6. \A d \in Chains : state[d] => state'[d]
  BY <1>3
<1>7. p # "bootstrap"
  BY CallersAre
<1>8. CallsOK'
  <2>1. call'["bootstrap"] = call["bootstrap"]
    BY <1>3, <1>7, CallersAre
  <2>2. call'["bootstrap"] # NoCall => boot' = call'["bootstrap"].chain /\ state'[boot']
    <3>1. call["bootstrap"] # NoCall => boot \in Chains
      BY <1>2, CallersAre DEF CallsOK, TypeOK, Calls
    <3> QED BY <1>1, <1>2, <1>6, <2>1, <3>1 DEF CallsOK
  <2>3. call'["worker"] # NoCall => call'["worker"].chain = "validate" /\ c = "validate"
    <3>1. CASE p = "worker"
      BY <1>3, <3>1, CallersAre
    <3>2. CASE p # "worker"
      <4>1. call'["worker"] = call["worker"]
        BY <1>3, <3>2, CallersAre
      <4> QED BY <1>1, <1>2, <4>1 DEF CallsOK
    <3> QED BY <3>1, <3>2
  <2>4. \A q \in Slots : call'[q] # NoCall => call'[q].chain = "check-balances"
    BY <1>2, <1>3, CallersAre DEF CallsOK
  <2> QED BY <1>3, <1>4, <2>2, <2>3, <2>4 DEF CallsOK
<1>9. Running'
  <2> SUFFICES ASSUME ~fresh
               PROVE  /\ dataId = "first" => state' = AllSet
                      /\ \A q \in Callers : call'[q] # NoCall /\ call'[q].id = "first" => call'[q].update = NoDoc
                      /\ upsets = 0 => call'["bootstrap"] = NoCall
    BY <1>1, <1>2 DEF Running
  <2>1. ASSUME dataId = "first" PROVE state' = AllSet /\ state[c]
    <3>1. state = AllSet
      BY <1>2, <2>1 DEF Running
    <3> QED BY <1>3, <3>1 DEF AllSet, Flags
  <2>2. ASSUME NEW q \in Callers, call'[q] # NoCall, call'[q].id = "first" PROVE call'[q].update = NoDoc
    <3>1. CASE q = p
      BY <1>3, <2>1, <2>2, <3>1
    <3>2. CASE q # p
      BY <1>2, <1>3, <2>2, <3>2 DEF Running
    <3> QED BY <3>1, <3>2
  <2>3. call'["bootstrap"] = call["bootstrap"]
    BY <1>3, <1>7, CallersAre
  <2> QED BY <1>2, <2>1, <2>2, <2>3 DEF Running
<1>10. FirstRun' /\ Stalled'
  BY <1>1, <1>2, <1>4 DEF FirstRun, Stalled
<1>11. \A d \in Chains : ~Handling(d)' /\ (Handling(d) <=> d = c)
  BY <1>1, <1>4 DEF Handling
<1>12. ASSUME NEW d \in Chains, d # c PROVE Steady(d)
  <2>1. Owed(d)' = Owed(d)
    BY <1>1, <1>3, <1>12 DEF Owed
  <2>2. Links(d)' = Links(d)
    BY <1>1, <1>2, <1>3, <1>11, <1>12, LinksAre, LinksNext
  <2> QED BY <1>2, <2>1, <2>2, LinksAre DEF Steady
<1>13. Steady(c)
  <2>1. Owed(c)' = 0 /\ Owed(c) \in 0..1
    BY <1>3 DEF Owed
  <2>2. Links(c)' = Links(c) /\ Links(c) \in Nat /\ Links(c) >= 1
    <3>1. PICK n \in Nat : n = Cardinality(Calling(c))
      BY <1>2, LinksAre
    <3>2. Links(c) = queued[c].first + queued[c].again + n + 1
      BY <1>2, <1>11, <3>1, LinksAre
    <3>3. queued[c].first \in Nat /\ queued[c].again \in Nat
      BY <1>2, LinksAre
    <3>4. Links(c)' = queued[c].first + queued[c].again + (n + 1)
      <4>1. Cardinality(Calling(c)') = n + 1 /\ ~Handling(c)' /\ queued' = queued
        BY <1>1, <1>3, <1>11, <3>1
      <4> QED BY <3>3, <4>1, LinksNext
    <3> QED BY <3>2, <3>3, <3>4
  <2> QED BY <2>1, <2>2 DEF Steady
<1>14. Counted'
  BY <1>2, <1>12, <1>13, SteadyCounted
<1> QED BY <1>5, <1>8, <1>9, <1>10, <1>14 DEF IInv, Kept

LEMMA ReturnKeeps == ASSUME IInv, Return PROVE IInv'
<1>1. /\ current # NoJob /\ current.step = "done" /\ call["worker"] = NoCall /\ current' = NoJob
      /\ UNCHANGED <<doc, dataId, creating, state, boot, call, queued, flows, fresh, reboots, upsets, failures>>
  BY DEF Return, mongo, ends
<1>2. TypeOK /\ CallsOK /\ Running /\ FirstRun /\ Stalled /\ Counted
  BY DEF IInv, Kept
<1>3. \A d : /\ Calling(d)' = Calling(d) /\ Owed(d)' = Owed(d)
             /\ ~Handling(d) /\ ~Handling(d)'
  BY <1>1 DEF Calling, Owed, Handling
<1>4. TypeOK' /\ CallsOK' /\ Running' /\ FirstRun' /\ Stalled'
  BY <1>1, <1>2, <1>3 DEF TypeOK, CallsOK, Running, FirstRun, Stalled
<1>5. ASSUME NEW d \in Chains PROVE Steady(d)
  <2>1. Handling(d)' = Handling(d)
    BY <1>1 DEF Handling
  <2> QED BY <1>1, <1>2, <1>3, <2>1, SameLinks
<1>6. Counted'
  BY <1>1, <1>2, <1>5, SteadyCounted DEF ends
<1> QED BY <1>4, <1>6 DEF IInv, Kept

\* A job that fails takes its link with it, unless the next was added all the same.
LEMMA FailKeeps == ASSUME IInv, CallFails PROVE IInv'
<1>1. /\ call["worker"] # NoCall /\ failures < MaxFailures /\ failures' = failures + 1
      /\ doc' \in {doc, Updated("worker")}
      /\ doc' # doc => call["worker"].update # NoDoc
      /\ queued' \in {queued, [queued EXCEPT !["validate"].first = @ + 1]}
      /\ call' = [call EXCEPT !["worker"] = NoCall]
      /\ current' = NoJob
      /\ UNCHANGED <<dataId, creating, state, boot, flows, fresh, reboots, upsets>>
  BY DEF CallFails
<1>2. TypeOK /\ CallsOK /\ Running /\ FirstRun /\ Stalled /\ Counted
  BY DEF IInv, Kept
<1>3. PICK c : c = call["worker"].chain
  OBVIOUS
<1>4. /\ c = "validate" /\ current # NoJob /\ current.step = "done"
  BY <1>1, <1>2, <1>3 DEF CallsOK
<1>5. /\ c \in Chains
      /\ call' \in [Callers -> Calls \cup {NoCall}]
      /\ call'["worker"] = NoCall /\ \A q \in Callers \ {"worker"} : call'[q] = call[q]
      /\ Cardinality(Calling(c)') = Cardinality(Calling(c)) - 1
      /\ \A d \in Chains \ {c} : Calling(d)' = Calling(d)
      /\ \A d \in Chains : IsFiniteSet(Calling(d)')
  BY <1>1, <1>2, <1>3, CallersAre, CallEnds
<1>6. \A q \in Callers : call'[q] # NoCall => q # "worker" /\ call'[q] = call[q]
  BY <1>5
<1>7. /\ queued' \in [Chains -> [first: Nat, again: Nat]]
      /\ queued'[c].first \in {queued[c].first, queued[c].first + 1}
      /\ queued'[c].again = queued[c].again
      /\ \A d \in Chains \ {c} : queued'[d] = queued[d]
  <2>1. queued \in [Chains -> [first: Nat, again: Nat]]
    BY <1>2 DEF TypeOK
  <2>2. CASE queued' = queued
    BY <1>5, <2>1, <2>2
  <2>3. CASE queued' = [queued EXCEPT ![c].first = @ + 1]
    BY <1>5, <2>1, <2>3
  <2> QED BY <1>1, <1>4, <2>2, <2>3
<1>8. TypeOK'
  <2>1. doc' \in Flags \cup {NoDoc} /\ (dataId = "first" => doc' # NoDoc)
    <3>1. CASE doc' = doc
      BY <1>2, <3>1 DEF TypeOK
    <3>2. CASE doc' # doc
      <4>1. doc' = call["worker"].update /\ call["worker"].update # NoDoc
        BY <1>1, <3>2 DEF Updated
      <4>2. call["worker"] \in Calls
        BY <1>1, <1>2, CallersAre DEF TypeOK
      <4> QED BY <4>1, <4>2 DEF Calls
    <3> QED BY <3>1, <3>2
  <2>2. failures' \in 0..MaxFailures
    BY <1>1, <1>2, SchedulerAssumption DEF TypeOK
  <2> QED BY <1>1, <1>2, <1>5, <1>7, <2>1, <2>2 DEF TypeOK
<1>9. CallsOK'
  BY <1>1, <1>2, <1>5, <1>6, CallersAre DEF CallsOK
<1>10. Running'
  <2>1. ~fresh => doc' = doc
    BY <1>1, <1>2, CallersAre DEF Running, Updated
  <2> QED BY <1>1, <1>2, <1>6, <2>1, CallersAre DEF Running
<1>11. FirstRun'
  BY <1>1, <1>2, <1>4 DEF FirstRun
<1>12. Stalled'
  BY <1>1, <1>2, <1>5, <1>7 DEF Stalled
<1>13. ASSUME NEW d \in Chains
       PROVE  /\ Links(d) \in Nat /\ Links(d)' \in Nat /\ Links(d)' <= Links(d)
              /\ d # c => Links(d)' = Links(d)
              /\ Owed(d)' = Owed(d) /\ Owed(d) \in 0..1
  <2>1. Owed(d)' = Owed(d) /\ Owed(d) \in 0..1
    BY <1>1 DEF Owed
  <2>2. ~Handling(d) /\ ~Handling(d)'
    BY <1>1, <1>4 DEF Handling
  <2>3. PICK n \in Nat : n = Cardinality(Calling(d))
    BY <1>2, LinksAre
  <2>4. /\ Links(d) = queued[d].first + queued[d].again + n
        /\ queued[d].first \in Nat /\ queued[d].again \in Nat
    BY <1>2, <2>2, <2>3, LinksAre
  <2>5. CASE d = c
    <3>1. n # 0
      <4>1. "worker" \in Calling(c)
        BY <1>1, <1>3, CallersAre DEF Calling
      <4>2. IsFiniteSet(Calling(c))
        BY <1>2, <1>5 DEF CallsOK
      <4> QED BY <2>3, <2>5, <4>1, <4>2, FS_EmptySet
    <3>2. Links(d)' = queued'[d].first + queued'[d].again + (n - 1)
      <4>1. Cardinality(Calling(d)') = n - 1
        BY <1>5, <2>3, <2>5
      <4>2. /\ queued'[d].first \in Nat /\ queued'[d].again \in Nat
        BY <1>7
      <4>3. Links(d)' = queued'[d].first + queued'[d].again + Cardinality(Calling(d)')
                         + IF Handling(d)' THEN 1 ELSE 0
        BY LinksNext
      <4> QED BY <2>2, <4>1, <4>2, <4>3
    <3>3. /\ queued'[d].first \in {queued[d].first, queued[d].first + 1}
          /\ queued'[d].again = queued[d].again
      BY <1>7, <2>5
    <3>4. Links(d) \in Nat /\ Links(d)' \in Nat /\ Links(d)' <= Links(d)
      BY <2>3, <2>4, <3>1, <3>2, <3>3
    <3> QED BY <2>1, <2>5, <3>4
  <2>6. CASE d # c
    <3>1. Links(d)' = queued[d].first + queued[d].again + n
      BY <1>5, <1>7, <2>2, <2>3, <2>6, LinksNext
    <3> QED BY <2>1, <2>4, <2>6, <3>1
  <2> QED BY <2>5, <2>6
<1>14. failures' # 0 /\ upsets \in Nat
  BY <1>1, <1>2 DEF TypeOK
<1>15. Exact'
  <2> SUFFICES ASSUME upsets = 0, fresh => reboots = 0, NEW d \in Chains
               PROVE  /\ Links(d)' + Owed(d)' <= 1
                      /\ d = "check-balances" => Links(d)' + Owed(d)' = 1
    BY <1>1, <1>14 DEF Exact
  <2>1. Links(d) + Owed(d) <= 1 /\ (d = "check-balances" => Links(d) + Owed(d) = 1)
    BY <1>2 DEF Counted, Exact
  <2>2. d = "check-balances" => d # c
    BY <1>4
  <2> QED BY <1>13, <2>1, <2>2
<1>16. AtMost'
  <2> SUFFICES ASSUME ~fresh, NEW d \in Chains PROVE Links(d)' + Owed(d)' <= 1 + upsets
    BY <1>1 DEF AtMost
  <2>1. Links(d) + Owed(d) <= 1 + upsets
    BY <1>2 DEF Counted, AtMost
  <2> QED BY <1>13, <1>14, <2>1
<1>17. ValidationSurvivesOneCrash'
  BY <1>14 DEF ValidationSurvivesOneCrash
<1> QED BY <1>8, <1>9, <1>10, <1>11, <1>12, <1>15, <1>16, <1>17 DEF IInv, Kept, Counted

LEMMA FlowKeeps == ASSUME IInv, NEW c \in Chains, FlowAdded(c) PROVE IInv'
<1>1. /\ flows[c] > 0 /\ flows' = [flows EXCEPT ![c] = @ - 1]
      /\ UNCHANGED <<doc, dataId, creating, state, boot, call, queued, current, fresh, reboots, upsets, failures>>
  BY DEF FlowAdded, mongo, ends
<1>2. TypeOK /\ CallsOK /\ Running /\ FirstRun /\ Stalled /\ Counted
  BY DEF IInv, Kept
<1>3. \A d : /\ Calling(d)' = Calling(d) /\ Owed(d)' = Owed(d) /\ Handling(d)' = Handling(d)
  BY <1>1 DEF Calling, Owed, Handling
<1>4. flows' \in [Chains -> Nat]
  BY <1>1, <1>2 DEF TypeOK
<1>5. TypeOK' /\ CallsOK' /\ Running' /\ FirstRun' /\ Stalled'
  BY <1>1, <1>2, <1>3, <1>4 DEF TypeOK, CallsOK, Running, FirstRun, Stalled
<1>6. \A d \in Chains : Steady(d)
  BY <1>1, <1>2, <1>3, SameLinks
<1>7. Counted'
  BY <1>1, <1>2, <1>6, SteadyCounted DEF ends
<1> QED BY <1>5, <1>7 DEF IInv, Kept

----------------------------------------------------------------------------
(* The ends of the process                                                 *)

LEMMA CrashKeeps == ASSUME IInv, Crash PROVE IInv'
<1>1. /\ boot # "down" /\ boot' = "down" /\ reboots' = reboots + 1 /\ reboots < MaxReboots
      /\ upsets' = IF Quiet THEN upsets ELSE upsets + 1
      /\ queued' = IF current = NoJob \/ (current # NoJob /\ current.again)
                   THEN queued
                   ELSE [queued EXCEPT ![current.chain].again = @ + 1]
      /\ current' = NoJob /\ call' = [p \in Callers |-> NoCall] /\ flows' = [c \in Chains |-> 0]
      /\ state' = [c \in Chains |-> FALSE] /\ dataId' = "none" /\ creating' = NoDoc
      /\ UNCHANGED <<fresh, doc, failures>>
  BY DEF Crash
<1>2. TypeOK /\ CallsOK /\ Running /\ FirstRun /\ Stalled /\ Counted
  BY DEF IInv, Kept
<1>3. upsets \in Nat /\ reboots \in Nat /\ upsets' \in {upsets, upsets + 1}
  BY <1>1, <1>2, SchedulerAssumption DEF TypeOK
<1>4. current # NoJob => current \in Jobs /\ current.chain \in Chains /\ current.again \in BOOLEAN
  BY <1>2 DEF TypeOK, Jobs
<1>5. /\ queued' \in [Chains -> [first: Nat, again: Nat]]
      /\ \A d \in Chains :
           /\ queued'[d].first = queued[d].first
           /\ queued'[d].again = queued[d].again
                + IF current # NoJob /\ ~current.again /\ current.chain = d THEN 1 ELSE 0
  <2>1. queued \in [Chains -> [first: Nat, again: Nat]]
    BY <1>2 DEF TypeOK
  <2>2. CASE current = NoJob \/ current.again
    BY <1>1, <2>1, <2>2
  <2>3. CASE current # NoJob /\ ~current.again
    <3>1. PICK c \in Chains : c = current.chain
      BY <1>4, <2>3
    <3>2. queued' = [queued EXCEPT ![c].again = @ + 1]
      BY <1>1, <2>3, <3>1
    <3> QED BY <2>1, <2>3, <3>1, <3>2
  <2> QED BY <2>2, <2>3
<1>6. TypeOK'
  <2>1. reboots' \in 0..MaxReboots /\ upsets' \in Nat
    BY <1>1, <1>3, SchedulerAssumption
  <2>2. /\ call' \in [Callers -> Calls \cup {NoCall}] /\ flows' \in [Chains -> Nat]
        /\ state' \in Flags
    BY <1>1 DEF Flags
  <2> QED BY <1>1, <1>2, <1>5, <2>1, <2>2 DEF TypeOK
<1>7. \A d : Calling(d)' = {} /\ ~Handling(d)'
  BY <1>1 DEF Calling, Handling
<1>8. \A p \in Callers : call'[p] = NoCall
  BY <1>1
<1>9. CallsOK'
  BY <1>7, <1>8, CallersAre, FS_EmptySet DEF CallsOK
<1>10. Running' /\ FirstRun'
  BY <1>1, <1>2, <1>3, <1>8, CallersAre DEF Running, FirstRun
<1>11. upsets' = upsets => Quiet
  BY <1>1, <1>3
<1>12. Stalled'
  <2> SUFFICES ASSUME upsets' = 0, NEW c \in Chains PROVE queued'[c].again = 0
    BY <1>1 DEF Stalled
  <2>1. upsets = 0 /\ current = NoJob
    BY <1>3, <1>11 DEF Quiet
  <2> QED BY <1>2, <1>5, <2>1 DEF Stalled, TypeOK
<1>13. ASSUME NEW c \in Chains
       PROVE  /\ Links(c)' = queued'[c].first + queued'[c].again
              /\ Links(c)' \in Nat /\ Owed(c)' = 0 /\ Links(c)' <= Links(c) + 1
              /\ Quiet => Links(c)' = Links(c) /\ Owed(c) = 0
  <2>1. Cardinality(Calling(c)') = 0
    BY <1>7, FS_EmptySet
  <2>2. Links(c)' = queued'[c].first + queued'[c].again
    <3>1. queued'[c].first \in Nat /\ queued'[c].again \in Nat
      BY <1>5
    <3> QED BY <1>7, <2>1, <3>1, LinksNext
  <2>3. PICK n \in Nat : n = Cardinality(Calling(c))
    BY <1>2, LinksAre
  <2>4. /\ Links(c) = queued[c].first + queued[c].again + n + IF Handling(c) THEN 1 ELSE 0
        /\ queued[c].first \in Nat /\ queued[c].again \in Nat
    BY <1>2, <2>3, LinksAre
  <2>5. Owed(c)' = 0
    BY <1>1 DEF Owed, Chains
  <2>6. ASSUME Quiet PROVE n = 0 /\ ~Handling(c) /\ current = NoJob /\ Owed(c) = 0
    <3>1. Calling(c) = {}
      BY <2>6 DEF Quiet, Calling
    <3>2. n = 0
      BY <2>3, <3>1, FS_EmptySet
    <3> QED BY <2>6, <3>2 DEF Quiet, Handling, Owed, Chains
  <2>7. queued'[c].first = queued[c].first /\ queued'[c].again \in {queued[c].again, queued[c].again + 1}
    BY <1>5, <2>4
  <2>8. Links(c)' \in Nat /\ Links(c)' <= Links(c) + 1
    BY <2>2, <2>4, <2>7
  <2>9. Quiet => Links(c)' = Links(c) /\ Owed(c) = 0
    BY <1>5, <2>2, <2>4, <2>6
  <2> QED BY <2>2, <2>5, <2>8, <2>9
<1>14. Exact'
  <2> SUFFICES ASSUME upsets' = 0, fresh => reboots' = 0, NEW c \in Chains
               PROVE  /\ Links(c)' + Owed(c)' <= 1
                      /\ c = "check-balances" \/ failures = 0 => Links(c)' + Owed(c)' = 1
    BY <1>1 DEF Exact
  <2>1. upsets = 0 /\ Quiet
    BY <1>3, <1>11
  <2>2. reboots' # 0
    BY <1>1, <1>3
  <2>3. /\ Links(c) + Owed(c) <= 1
        /\ c = "check-balances" \/ failures = 0 => Links(c) + Owed(c) = 1
    BY <1>2, <2>1, <2>2 DEF Counted, Exact
  <2>4. Links(c)' + Owed(c)' = Links(c) + Owed(c)
    BY <1>13, <2>1
  <2> QED BY <2>3, <2>4
<1>15. AtMost'
  <2> SUFFICES ASSUME ~fresh, NEW c \in Chains PROVE Links(c)' + Owed(c)' <= 1 + upsets'
    BY <1>1 DEF AtMost
  <2>1. Links(c) + Owed(c) <= 1 + upsets /\ Links(c) \in Nat /\ Owed(c) \in 0..1
    BY <1>2, LinksAre DEF Counted, AtMost
  <2>2. Links(c)' \in Nat /\ Owed(c)' = 0 /\ Links(c)' <= Links(c) + 1
        /\ (upsets' = upsets => Links(c)' = Links(c))
    BY <1>11, <1>13
  <2> QED BY <1>3, <2>1, <2>2
<1>16. ValidationSurvivesOneCrash'
  <2> SUFFICES ASSUME ~fresh, upsets' <= 1, failures = 0 PROVE Links("validate")' >= 1
    BY <1>1 DEF ValidationSurvivesOneCrash
  <2>1. PICK c \in Chains : c = "validate"
    BY DEF Chains
  <2>2. CASE Quiet
    <3>1. upsets <= 1
      BY <1>3
    <3> QED BY <1>2, <1>13, <2>1, <2>2, <3>1 DEF Counted, ValidationSurvivesOneCrash
  <2>3. CASE ~Quiet
    <3>1. upsets = 0
      BY <1>1, <1>3, <2>3
    <3>2. Owed(c) = 0
      <4>1. boot \notin {"down", "exists"} => state[c]
        BY <1>2, <3>1 DEF Running, AllSet
      <4>2. boot = "exists" => boot \notin {"validate", c}
        BY DEF Chains
      <4> QED BY <1>1, <4>1, <4>2 DEF Owed
    <3>3. PICK n \in Nat : n = Cardinality(Calling(c))
      BY <1>2, LinksAre
    <3>4. /\ queued[c].first + queued[c].again + n + (IF Handling(c) THEN 1 ELSE 0) = 1
          /\ queued[c].first \in Nat /\ queued[c].again \in Nat
      BY <1>2, <3>1, <3>2, <3>3, LinksAre DEF Counted, Exact
    <3>5. n # 0 => Calling(c) # {}
      BY <3>3, FS_EmptySet
    <3>6. Calling(c) # {} => current # NoJob /\ current.chain = c
      <4> SUFFICES ASSUME NEW p \in Calling(c) PROVE current # NoJob /\ current.chain = c
        OBVIOUS
      <4>1. p = "worker"
        BY <1>2, <2>1, <3>1, CallersAre DEF Calling, CallsOK, Running
      <4> QED BY <1>2, <2>1, <4>1 DEF Calling, CallsOK
    <3>7. Handling(c) => current # NoJob /\ current.chain = c
      BY DEF Handling
    <3>8. current # NoJob => ~current.again
      BY <1>2, <3>1 DEF Stalled
    <3>9. queued'[c].first + queued'[c].again >= 1
      <4>1. CASE n = 0 /\ ~Handling(c)
        BY <1>5, <3>4, <4>1
      <4>2. CASE n # 0 \/ Handling(c)
        <5>1. current # NoJob /\ current.chain = c /\ ~current.again
          BY <3>5, <3>6, <3>7, <3>8, <4>2
        <5> QED BY <1>5, <3>4, <5>1
      <4> QED BY <4>1, <4>2
    <3> QED BY <1>13, <2>1, <3>9
  <2> QED BY <2>2, <2>3
<1> QED BY <1>6, <1>9, <1>10, <1>12, <1>14, <1>15, <1>16 DEF IInv, Kept, Counted

LEMMA RestartKeeps == ASSUME IInv, Restart PROVE IInv'
<1>1. /\ boot = "down" /\ boot' = "exists"
      /\ UNCHANGED <<doc, dataId, creating, state, call, queued, current, flows, fresh, reboots, upsets, failures>>
  BY DEF Restart, mongo, worker, ends
<1>2. TypeOK /\ CallsOK /\ Running /\ FirstRun /\ Stalled /\ Counted
  BY DEF IInv, Kept
<1>3. call["bootstrap"] = NoCall
  <2>1. "down" \notin Chains
    BY DEF Chains
  <2> QED BY <1>1, <1>2, <2>1, CallersAre DEF CallsOK, TypeOK, Calls
<1>4. fresh => reboots # 0
  BY <1>1, <1>2 DEF FirstRun
<1>5. \A d : Calling(d)' = Calling(d) /\ Handling(d)' = Handling(d)
  BY <1>1 DEF Calling, Handling
<1>6. TypeOK' /\ CallsOK' /\ Running' /\ FirstRun' /\ Stalled'
  BY <1>1, <1>2, <1>3, <1>4, <1>5 DEF TypeOK, CallsOK, Running, FirstRun, Stalled
<1>7. \A d \in Chains : Links(d)' = Links(d) /\ (~fresh => Owed(d)' = 0 /\ Owed(d) = 0)
  <2>1. ASSUME NEW d \in Chains, ~fresh PROVE Owed(d)' = 0 /\ Owed(d) = 0
    BY <1>1, <2>1 DEF Owed, Chains
  <2> QED BY <1>1, <1>2, <1>5, <2>1, LinksAre, LinksNext
<1>8. Exact'
  BY <1>1, <1>2, <1>4, <1>7 DEF Counted, Exact
<1>9. AtMost'
  BY <1>1, <1>2, <1>7 DEF Counted, AtMost
<1>10. ValidationSurvivesOneCrash'
  BY <1>1, <1>2, <1>7 DEF Counted, ValidationSurvivesOneCrash, Chains
<1> QED BY <1>6, <1>8, <1>9, <1>10 DEF IInv, Kept, Counted

----------------------------------------------------------------------------
LEMMA InitIInv == Init => IInv
<1> SUFFICES ASSUME Init PROVE IInv
  OBVIOUS
<1>1. /\ fresh \in BOOLEAN
      /\ doc = IF fresh THEN NoDoc ELSE AllSet
      /\ queued = [c \in Chains |-> [first |-> IF fresh THEN 0 ELSE 1, again |-> 0]]
      /\ dataId = "none" /\ creating = NoDoc /\ state = [c \in Chains |-> FALSE] /\ boot = "exists"
      /\ call = [p \in Callers |-> NoCall] /\ current = NoJob /\ flows = [c \in Chains |-> 0]
      /\ reboots = 0 /\ upsets = 0 /\ failures = 0
  BY SchedulerAssumption DEF Init, AllSet
<1>2. \A p \in Callers : call[p] = NoCall
  BY <1>1
<1>3. \A c : Calling(c) = {} /\ ~Handling(c)
  BY <1>1, <1>2 DEF Calling, Handling
<1>4. TypeOK
  <2>1. doc \in Flags \cup {NoDoc} /\ state \in Flags
    BY <1>1 DEF Flags, AllSet
  <2>2. queued \in [Chains -> [first: Nat, again: Nat]]
    BY <1>1
  <2>3. call \in [Callers -> Calls \cup {NoCall}] /\ flows \in [Chains -> Nat]
    BY <1>1
  <2>4. reboots \in 0..MaxReboots /\ failures \in 0..MaxFailures
    BY <1>1, SchedulerAssumption
  <2> QED BY <1>1, <2>1, <2>2, <2>3, <2>4 DEF TypeOK
<1>5. CallsOK
  BY <1>2, <1>3, CallersAre, FS_EmptySet DEF CallsOK
<1>6. Running
  BY <1>1, <1>2, CallersAre DEF Running
<1>7. FirstRun /\ Stalled
  BY <1>1, <1>2 DEF FirstRun, Stalled
<1>8. ASSUME NEW c \in Chains
      PROVE  Links(c) = (IF fresh THEN 0 ELSE 1) /\ Owed(c) = IF fresh THEN 1 ELSE 0
  <2>1. Cardinality(Calling(c)) = 0
    BY <1>3, FS_EmptySet
  <2>2. Links(c) = queued[c].first + queued[c].again + 0 + 0
    BY <1>3, <1>4, <1>5, <2>1, LinksAre
  <2>3. queued[c].first = (IF fresh THEN 0 ELSE 1) /\ queued[c].again = 0
    BY <1>1
  <2>4. Owed(c) = IF fresh THEN 1 ELSE 0
    BY <1>1 DEF Owed, Chains
  <2> QED BY <2>2, <2>3, <2>4
<1>9. Counted
  <2>1. \A c \in Chains : Links(c) + Owed(c) = 1 /\ (~fresh => Links(c) = 1)
    BY <1>8
  <2> QED BY <1>1, <2>1 DEF Counted, Exact, AtMost, ValidationSurvivesOneCrash, Chains
<1> QED BY <1>4, <1>5, <1>6, <1>7, <1>9 DEF IInv, Kept

LEMMA NextIInv == ASSUME IInv, [Next]_vars PROVE IInv'
<1>1. CASE UNCHANGED vars
  <2>1. \A c : Links(c)' = Links(c) /\ Owed(c)' = Owed(c) /\ Calling(c)' = Calling(c)
    BY <1>1 DEF vars, Links, Handling, Owed, Calling
  <2>2. Counted'
    BY <1>1, <2>1 DEF vars, IInv, Counted, Exact, AtMost, ValidationSurvivesOneCrash
  <2> QED BY <1>1, <2>1, <2>2 DEF vars, IInv, TypeOK, Kept, CallsOK, Running, FirstRun, Stalled
<1>2. CASE HandleValidate
  <2>1. "validate" \in Chains /\ "worker" \in Callers
    BY CallersAre DEF Chains
  <2> QED BY <1>2, <2>1, HandleKeeps DEF HandleValidate
<1>3. CASE HandleCheckBalances
  <2>1. PICK p \in Slots : Call(p, "check-balances")
    BY <1>3 DEF HandleCheckBalances
  <2>2. "check-balances" \in Chains /\ p \in Callers
    BY CallersAre DEF Chains
  <2> QED BY <1>3, <2>1, <2>2, HandleKeeps DEF HandleCheckBalances
<1> QED BY <1>1, <1>2, <1>3, UpdateKeeps, AddKeeps, FindKeeps, CreateKeeps, QueueKeeps, SkipKeeps,
           DequeueKeeps, ReturnKeeps, FailKeeps, FlowKeeps, CrashKeeps, RestartKeeps DEF Next

\* The document, the calls, the queue and the jobs have their types.
THEOREM TypeCorrect == Spec => []TypeOK
<1>1. IInv => TypeOK
  BY DEF IInv
<1> QED BY <1>1, InitIInv, NextIInv, PTL DEF Spec

\* In a service that is up and ended at most between two jobs, each chain goes on exactly once;
\* that of the validations, unless one of its jobs failed.
THEOREM OneOfEachGoesOn == Spec => []OneOfEach
<1>1. ASSUME IInv PROVE OneOfEach
  <2> SUFFICES ASSUME upsets = 0, fresh => reboots = 0, boot = "up", NEW c \in Chains
               PROVE  /\ Links(c) <= 1
                      /\ c = "check-balances" \/ failures = 0 => Links(c) = 1
    BY DEF OneOfEach, Chains
  <2>1. /\ Links(c) + Owed(c) <= 1
        /\ c = "check-balances" \/ failures = 0 => Links(c) + Owed(c) = 1
    BY <1>1 DEF IInv, Counted, Exact
  <2>2. Owed(c) = 0
    BY DEF Owed, Chains
  <2>3. Links(c) \in Nat
    BY <1>1, LinksAre DEF IInv, Kept
  <2> QED BY <2>1, <2>2, <2>3
<1> QED BY <1>1, InitIInv, NextIInv, PTL DEF Spec

\* Each end of the process in the middle of something, and each failed read of the document,
\* makes at most one more of a chain.
THEOREM DuplicatesStayBounded == Spec => []DuplicatesBounded
<1>1. ASSUME IInv PROVE DuplicatesBounded
  <2> SUFFICES ASSUME ~fresh, NEW c \in Chains PROVE Links(c) <= 1 + upsets
    BY DEF DuplicatesBounded
  <2>1. Links(c) + Owed(c) <= 1 + upsets
    BY <1>1 DEF IInv, Counted, AtMost
  <2>2. Links(c) \in Nat /\ Owed(c) \in 0..1 /\ upsets \in Nat
    BY <1>1, LinksAre DEF IInv, Kept, TypeOK
  <2> QED BY <2>1, <2>2
<1> QED BY <1>1, InitIInv, NextIInv, PTL DEF Spec

\* No one crash of a running service ends its validations: the job that is handled is kept until
\* the next one is in Redis.
THEOREM ValidationSurvives == Spec => []ValidationSurvivesOneCrash
<1>1. IInv => ValidationSurvivesOneCrash
  BY DEF IInv, Counted
<1> QED BY <1>1, InitIInv, NextIInv, PTL DEF Spec
=============================================================================
