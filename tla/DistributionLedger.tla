------------------------- MODULE DistributionLedger -------------------------
(***************************************************************************)
(* What the distribution contract and the archive see of the rounds, and   *)
(* what the distribution-queue promises them when no process crashes: a    *)
(* round is opened once, scores of its target are recorded until it is     *)
(* finalised and never after, it is finalised when all of the target is    *)
(* recorded or its budget of retries is spent, and its summary is uploaded *)
(* at most once, after that.  The jobs, flows and workers that do this are *)
(* in Distribution.                                                        *)
(***************************************************************************)
EXTENDS Naturals

CONSTANTS
  Stamps, Relays,
  Budget,   \* retries a round may use, a natural number
  NoRound   \* no set of relays

VARIABLES
  target,     \* stamp -> the scores to record, NoRound before it is opened
  recorded,   \* stamp -> the scores in the contract
  spent,      \* stamp -> retries used
  finalised,  \* stamp -> the contract has computed the distribution
  archived    \* stamp -> the upload of the summary was sent

ledger == <<target, recorded, spent, finalised, archived>>

LedgerInit ==
  /\ target = [s \in Stamps |-> NoRound]
  /\ recorded = [s \in Stamps |-> {}]
  /\ spent = [s \in Stamps |-> 0]
  /\ finalised = [s \in Stamps |-> FALSE]
  /\ archived = [s \in Stamps |-> 0]

Open(s, S) ==
  /\ target[s] = NoRound
  /\ target' = [target EXCEPT ![s] = S]
  /\ UNCHANGED <<recorded, spent, finalised, archived>>

Record(s, S) ==
  /\ target[s] # NoRound /\ S \subseteq target[s]
  /\ ~finalised[s]
  /\ recorded' = [recorded EXCEPT ![s] = @ \cup S]
  /\ UNCHANGED <<target, spent, finalised, archived>>

Spend(s) ==
  /\ target[s] # NoRound
  /\ spent[s] < Budget
  /\ spent' = [spent EXCEPT ![s] = @ + 1]
  /\ UNCHANGED <<target, recorded, finalised, archived>>

Finalise(s) ==
  /\ target[s] # NoRound
  /\ recorded[s] = target[s] \/ spent[s] = Budget
  /\ finalised' = [finalised EXCEPT ![s] = TRUE]
  /\ UNCHANGED <<target, recorded, spent, archived>>

Archive(s) ==
  /\ finalised[s]
  /\ archived[s] = 0
  /\ archived' = [archived EXCEPT ![s] = 1]
  /\ UNCHANGED <<target, recorded, spent, finalised>>

LedgerNext ==
  \E s \in Stamps :
    \/ \E S \in SUBSET Relays : Open(s, S) \/ Record(s, S)
    \/ Spend(s)
    \/ Finalise(s)
    \/ Archive(s)

LedgerSpec == LedgerInit /\ [][LedgerNext]_ledger
=============================================================================
