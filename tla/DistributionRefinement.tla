----------------------- MODULE DistributionRefinement -----------------------
(***************************************************************************)
(* The distribution-queue shown to keep the promise of DistributionLedger: *)
(* the refinement mapping from the jobs and flows to the ledger.           *)
(***************************************************************************)
EXTENDS Distribution

\* NoFlow stands for a round that is not open yet.
ASSUME RefinementAssumption == \A S \in SUBSET Relays : S # NoFlow

\* A round is open from its start job on, and
\* every flow of a stamp after its first spends one unit of the budget.
Opened(s) == IF StartJob(s) \in DOMAIN jobs THEN positive[s] ELSE NoFlow
FlowsOf(s) == Cardinality({f \in Sent : flow[f].stamp = s})
Ledger == INSTANCE DistributionLedger WITH
  Budget    <- MaxRetries,
  NoRound   <- NoFlow,
  target    <- [s \in Stamps |-> Opened(s)],
  recorded  <- added,
  spent     <- [s \in Stamps |-> IF FlowsOf(s) = 0 THEN 0 ELSE FlowsOf(s) - 1],
  finalised <- distributed,
  archived  <- uploads

\* What the contract and the archive see of a behaviour without crashes is a
\* behaviour of the ledger.
ImplementsLedger == Ledger!LedgerSpec
=============================================================================
