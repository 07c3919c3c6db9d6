-------------------------- MODULE SeedCommandProofs --------------------------
(***************************************************************************)
(* Proofs about SeedCommand, for any number of runs, lines and crashes: as *)
(* long as the operators start one run at a time, the lock tells what      *)
(* there is of the file; and runs up that overlap leave no line out, and   *)
(* none more often than there are runs.                                    *)
(***************************************************************************)
EXTENDS SeedCommand, FiniteSetTheorems, TLAPS

PCs == {"none", "look", "up", "down", "clear", "create", "over"}

TypeInv ==
  /\ locks \subseteq [by: Runs, finished: BOOLEAN]
  /\ data \in [1..Lines -> Nat]
  /\ pc \in [Runs -> PCs]
  /\ command \in [Runs -> {"up", "down"}]
  /\ found \in [Runs -> Runs \cup {NoLock}]
  /\ next \in [Runs -> 1..(Lines + 1)]
  /\ overlapped \in BOOLEAN /\ downDied \in BOOLEAN

\* The run at work is the only one that changes the lock and the data, so at each of its
\* steps it knows them.
Known(p) ==
  /\ pc[p] = "up" => /\ command[p] = "up"
                     /\ found[p] = NoLock <=> locks = {}
  /\ pc[p] = "down" => /\ command[p] = "down"
                       /\ locks # {} => \A l \in locks : l.by = found[p]
  /\ pc[p] = "clear" => locks = IF command[p] = "up" THEN {NewLock(p)} ELSE {}
  /\ pc[p] = "create" => /\ command[p] = "up" /\ locks = {NewLock(p)}
                         /\ \A i \in 1..Lines : data[i] = IF i < next[p] THEN 1 ELSE 0
  /\ pc[p] \in {"none", "look", "up", "down", "clear"} => next[p] = 1

\* The lock is alone; finished, it stands for the whole file, and without one there is
\* nothing of the file unless a down is, or was left, between its two deletions.
Apart ==
  /\ \A p, q \in Runs : AtWork(p) /\ AtWork(q) => p = q
  /\ \A k, l \in locks : k = l
  /\ \A p \in Runs : Known(p)
  /\ \A l \in locks : l.finished => Whole
  /\ locks = {} /\ ~downDied /\ (\A p \in Runs : pc[p] # "clear") => Empty

IInv == TypeInv /\ (~overlapped => Apart)

LEMMA InitIInv == Init => IInv
<1> SUFFICES ASSUME Init PROVE IInv
  OBVIOUS
<1>1. 1 \in 1..(Lines + 1)
  BY SeedAssumption
<1>2. TypeInv
  BY <1>1 DEF Init, TypeInv, PCs
<1>3. Apart
  BY DEF Init, Apart, Known, AtWork, Empty
<1> QED BY <1>2, <1>3 DEF IInv

\* What both properties say of a state.
LEMMA IInvImplied == IInv => FinishedIsWhole /\ PartIsMarked
<1> SUFFICES ASSUME IInv, ~overlapped
             PROVE  /\ \A l \in locks : l.finished => Whole
                    /\ ~Whole /\ ~Empty => downDied \/ ~Quiet \/ \E l \in locks : ~l.finished
  BY DEF FinishedIsWhole, PartIsMarked
<1>1. Apart
  BY DEF IInv
<1>2. ASSUME ~Whole, ~Empty, ~downDied, Quiet PROVE \E l \in locks : ~l.finished
  <2>1. \A p \in Runs : pc[p] # "clear"
    BY <1>2 DEF Quiet, AtWork
  <2>2. locks # {}
    BY <1>1, <1>2, <2>1 DEF Apart
  <2> QED BY <1>1, <1>2, <2>2 DEF Apart
<1> QED BY <1>1, <1>2 DEF Apart

-----------------------------------------------------------------------------
\* Another run is where it was, and with p at work it has nothing to know.
LEMMA OthersKnown ==
  ASSUME TypeInv, Apart, NEW p \in Runs, AtWork(p), NEW q \in Runs, q # p, 
         pc'[q] = pc[q], next'[q] = next[q]
  PROVE  Known(q)' /\ ~AtWork(q)' /\ pc'[q] # "clear"
BY DEF Apart, AtWork, Known, TypeInv, PCs

LEMMA StartOK ==
  ASSUME IInv, NEW p \in Runs, NEW c \in {"up", "down"}, Start(p, c)
  PROVE  IInv'
<1>1. TypeInv'
  BY DEF Start, Goes, IInv, TypeInv, PCs
<1>2. ASSUME ~overlapped' PROVE Apart'
  <2>1. Apart /\ \A q \in Runs : ~AtWork(q)
    BY <1>2 DEF Start, IInv, Quiet, TypeInv
  <2>2. pc' = [pc EXCEPT ![p] = "look"] /\ pc[p] = "none"
    BY DEF Start, Goes
  <2>3. \A q \in Runs : pc'[q] = IF q = p THEN "look" ELSE pc[q]
    BY <2>2 DEF IInv, TypeInv
  <2>4. \A q \in Runs : Known(q)'
    BY <2>1, <2>2, <2>3 DEF Start, Apart, Known, AtWork, IInv, TypeInv, PCs
  <2>5. \A q, r \in Runs : AtWork(q)' /\ AtWork(r)' => q = r
    BY <2>1, <2>3 DEF AtWork
  <2>6. Whole' = Whole /\ Empty' = Empty /\ locks' = locks /\ downDied' = downDied
    BY DEF Start, Whole, Empty
  <2>7. \A q \in Runs : pc[q] # "clear"
    BY <2>1 DEF AtWork
  <2> QED BY <2>1, <2>4, <2>5, <2>6, <2>7 DEF Apart
<1> QED BY <1>1, <1>2 DEF IInv

-----------------------------------------------------------------------------
(* The steps of a run at work.  TypeInv is kept by each; Apart is, when p  *)
(* was alone, by what p knows now.                                         *)

\* Only p has moved: what is left to show is what p knows and what there is.
LEMMA Alone ==
  ASSUME TypeInv, Apart, NEW p \in Runs, AtWork(p),
         \A q \in Runs : q # p => pc'[q] = pc[q] /\ next'[q] = next[q],
         Known(p)',
         \A k, l \in locks' : k = l,
         \A l \in locks' : l.finished => Whole',
         locks' = {} /\ ~downDied' /\ pc'[p] # "clear" => Empty'
  PROVE  Apart'
<1>1. \A q \in Runs : q # p => Known(q)' /\ ~AtWork(q)' /\ pc'[q] # "clear"
  BY OthersKnown
<1> QED BY <1>1 DEF Apart

LEMMA FindLockOK ==
  ASSUME IInv, NEW p \in Runs, FindLock(p)
  PROVE  IInv'
<1>1. TypeInv'
  BY DEF FindLock, Goes, IInv, TypeInv, PCs
<1>2. ASSUME ~overlapped' PROVE Apart'
  <2>1. Apart /\ TypeInv
    BY <1>2 DEF FindLock, IInv
  <2>2. /\ pc[p] = "look" /\ pc' = [pc EXCEPT ![p] = command[p]]
        /\ UNCHANGED <<locks, data, command, next, downDied>>
    BY DEF FindLock, Goes
  <2>3. PICK by \in {l.by : l \in locks} \cup {NoLock} :
          /\ by = NoLock <=> locks = {}
          /\ found' = [found EXCEPT ![p] = by]
    BY DEF FindLock
  <2>4. command[p] \in {"up", "down"} /\ found'[p] = by /\ pc'[p] = command[p]
        /\ \A q \in Runs : q # p => pc'[q] = pc[q]
    BY <2>1, <2>2, <2>3 DEF TypeInv
  <2>5. locks # {} => \A l \in locks : l.by = by
    BY <2>1, <2>3 DEF Apart
  <2>6. next[p] = 1
    BY <2>1, <2>2 DEF Apart, Known
  <2>7. Known(p)'
    BY <2>2, <2>3, <2>4, <2>5, <2>6 DEF Known
  <2>8. AtWork(p)
    BY <2>2 DEF AtWork
  <2>9. (Whole <=> Whole') /\ (Empty <=> Empty')
    BY <2>2 DEF Whole, Empty
  <2>10. \A q \in Runs : pc[q] # "clear"
    BY <2>1, <2>2, <2>8 DEF Apart, AtWork
  <2> QED BY <2>1, <2>2, <2>4, <2>7, <2>8, <2>9, <2>10, Alone DEF Apart
<1> QED BY <1>1, <1>2 DEF IInv

\* A run that is over knows nothing, so it may end at any step that leaves the locks, the
\* data and the sign of a down that died.
LEMMA OverOK ==
  ASSUME TypeInv, Apart, NEW p \in Runs, AtWork(p), pc' = [pc EXCEPT ![p] = "over"],
         UNCHANGED <<locks, data, next>>, downDied => downDied',
         pc[p] = "clear" /\ command[p] = "down" => downDied'
  PROVE  Apart'
<1>1. pc'[p] = "over" /\ \A q \in Runs : q # p => pc'[q] = pc[q]
  BY DEF TypeInv
<1>2. Known(p)'
  BY <1>1 DEF Known
<1>3. (Whole <=> Whole') /\ (Empty <=> Empty')
  BY DEF Whole, Empty
<1>4. ASSUME locks = {}, ~downDied' PROVE Empty
  <2>1. \A q \in Runs : q # p => pc[q] # "clear"
    BY DEF Apart, AtWork
  <2>2. pc[p] # "clear"
    BY <1>4 DEF Apart, Known, TypeInv
  <2> QED BY <1>4, <2>1, <2>2 DEF Apart
<1> QED BY <1>1, <1>2, <1>3, <1>4, Alone DEF Apart

LEMMA NothingToDoOK ==
  ASSUME IInv, NEW p \in Runs, NothingToDo(p)
  PROVE  IInv'
<1>1. pc' = [pc EXCEPT ![p] = "over"] /\ pc[p] \in {"up", "down"}
  BY DEF NothingToDo, Goes
<1>2. TypeInv'
  BY <1>1 DEF NothingToDo, IInv, TypeInv, PCs
<1>3. ASSUME ~overlapped' PROVE Apart'
  BY <1>1, <1>3, OverOK DEF NothingToDo, IInv, AtWork
<1> QED BY <1>2, <1>3 DEF IInv

LEMMA CrashOK ==
  ASSUME IInv, NEW p \in Runs, Crash(p)
  PROVE  IInv'
<1>1. pc' = [pc EXCEPT ![p] = "over"]
  BY DEF Crash
<1>2. TypeInv'
  BY <1>1 DEF Crash, IInv, TypeInv, PCs
<1>3. ASSUME ~overlapped' PROVE Apart'
  BY <1>1, <1>3, OverOK DEF Crash, IInv
<1> QED BY <1>2, <1>3 DEF IInv

LEMMA CreateLockOK ==
  ASSUME IInv, NEW p \in Runs, CreateLock(p)
  PROVE  IInv'
<1>1. TypeInv'
  <2>1. NewLock(p) \in [by: Runs, finished: BOOLEAN]
    BY DEF NewLock
  <2> QED BY <2>1 DEF CreateLock, Goes, IInv, TypeInv, PCs
<1>2. ASSUME ~overlapped' PROVE Apart'
  <2>1. Apart /\ TypeInv
    BY <1>2 DEF CreateLock, IInv
  <2>2. /\ pc[p] = "up" /\ pc' = [pc EXCEPT ![p] = "clear"]
        /\ found[p] = NoLock /\ locks' = locks \cup {NewLock(p)}
        /\ UNCHANGED <<data, command, next, downDied>>
    BY DEF CreateLock, Goes
  <2>3. pc'[p] = "clear" /\ \A q \in Runs : q # p => pc'[q] = pc[q]
    BY <2>1, <2>2 DEF TypeInv
  <2>4. locks = {} /\ command[p] = "up" /\ next[p] = 1
    BY <2>1, <2>2 DEF Apart, Known
  <2>5. locks' = {NewLock(p)} /\ NewLock(p)' = NewLock(p) /\ ~NewLock(p).finished
    BY <2>2, <2>4 DEF NewLock
  <2>6. Known(p)'
    BY <2>2, <2>3, <2>4, <2>5 DEF Known
  <2> QED BY <2>1, <2>2, <2>3, <2>5, <2>6, Alone DEF AtWork
<1> QED BY <1>1, <1>2 DEF IInv

LEMMA ClearDataOK ==
  ASSUME IInv, NEW p \in Runs, ClearData(p)
  PROVE  IInv'
<1>1. TypeInv'
  BY DEF ClearData, Cleared, Goes, IInv, TypeInv, PCs
<1>2. ASSUME ~overlapped' PROVE Apart'
  <2>1. Apart /\ TypeInv
    BY <1>2 DEF ClearData, IInv
  <2>2. /\ pc[p] = "clear"
        /\ pc' = [pc EXCEPT ![p] = IF command[p] = "up" THEN "create" ELSE "over"]
        /\ data' = [i \in 1..Lines |-> 0] /\ downDied' = FALSE
        /\ UNCHANGED <<locks, command, next>>
    BY DEF ClearData, Cleared, Goes
  <2>3. /\ pc'[p] = IF command[p] = "up" THEN "create" ELSE "over"
        /\ \A q \in Runs : q # p => pc'[q] = pc[q]
    BY <2>1, <2>2 DEF TypeInv
  <2>4. next[p] = 1 /\ locks = IF command[p] = "up" THEN {NewLock(p)} ELSE {}
    BY <2>1, <2>2 DEF Apart, Known
  <2>5. Empty'
    BY <2>2 DEF Empty
  <2>6. \A l \in locks : ~l.finished
    BY <2>4 DEF NewLock
  <2>7. \A i \in 1..Lines : data'[i] = IF i < next'[p] THEN 1 ELSE 0
    BY <2>2, <2>4, SeedAssumption
  <2>8. Known(p)'
    BY <2>1, <2>2, <2>3, <2>4, <2>7 DEF Known, NewLock, TypeInv
  <2> QED BY <2>1, <2>2, <2>3, <2>5, <2>6, <2>8, Alone DEF AtWork, Apart
<1> QED BY <1>1, <1>2 DEF IInv

LEMMA CreateDocumentOK ==
  ASSUME IInv, NEW p \in Runs, CreateDocument(p)
  PROVE  IInv'
<1>1. TypeInv /\ next[p] \in 1..Lines
  BY SeedAssumption DEF CreateDocument, LinesLeft, IInv, TypeInv
<1>2. TypeInv'
  BY <1>1, SeedAssumption DEF CreateDocument, TypeInv
<1>3. ASSUME ~overlapped' PROVE Apart'
  <2>1. Apart
    BY <1>3 DEF CreateDocument, IInv
  <2>2. /\ pc[p] = "create" /\ data' = [data EXCEPT ![next[p]] = @ + 1]
        /\ next' = [next EXCEPT ![p] = @ + 1]
        /\ UNCHANGED <<locks, pc, command, found, downDied>>
    BY DEF CreateDocument
  <2>3. /\ command[p] = "up" /\ locks = {NewLock(p)}
        /\ \A i \in 1..Lines : data[i] = IF i < next[p] THEN 1 ELSE 0
    BY <2>1, <2>2 DEF Apart, Known
  <2>4. next'[p] = next[p] + 1 /\ \A q \in Runs : q # p => next'[q] = next[q]
    BY <1>1, <2>2 DEF TypeInv
  <2>5. \A i \in 1..Lines : data'[i] = IF i = next[p] THEN data[i] + 1 ELSE data[i]
    BY <1>1, <2>2 DEF TypeInv
  <2>6. \A i \in 1..Lines : data'[i] = IF i < next'[p] THEN 1 ELSE 0
    BY <1>1, <2>3, <2>4, <2>5, SeedAssumption
  <2>7. Known(p)'
    BY <2>2, <2>3, <2>6 DEF Known, NewLock
  <2>8. \A l \in locks : ~l.finished
    BY <2>3 DEF NewLock
  <2> QED BY <1>1, <2>1, <2>2, <2>3, <2>4, <2>7, <2>8, Alone DEF AtWork, Apart
<1> QED BY <1>2, <1>3 DEF IInv

LEMMA FinishOK ==
  ASSUME IInv, NEW p \in Runs, Finish(p)
  PROVE  IInv'
<1>1. TypeInv'
  BY DEF Finish, Goes, IInv, TypeInv, PCs
<1>2. ASSUME ~overlapped' PROVE Apart'
  <2>1. Apart /\ TypeInv
    BY <1>2 DEF Finish, IInv
  <2>2. /\ pc[p] = "create" /\ pc' = [pc EXCEPT ![p] = "over"]
        /\ ~(next[p] <= Lines)
        /\ locks' = {IF l.by = p THEN [l EXCEPT !.finished = TRUE] ELSE l : l \in locks}
        /\ UNCHANGED <<data, next>>
    BY DEF Finish, Goes, LinesLeft
  <2>3. /\ locks = {NewLock(p)}
        /\ \A i \in 1..Lines : data[i] = IF i < next[p] THEN 1 ELSE 0
    BY <2>1, <2>2 DEF Apart, Known
  <2>4. Whole'
    BY <2>1, <2>2, <2>3, SeedAssumption DEF Whole, TypeInv
  <2>5. locks' # {} /\ \A k, l \in locks' : k = l
    BY <2>2, <2>3
  <2>6. pc'[p] = "over" /\ \A q \in Runs : q # p => pc'[q] = pc[q]
    BY <2>1, <2>2 DEF TypeInv
  <2>7. Known(p)'
    BY <2>6 DEF Known
  <2> QED BY <2>1, <2>2, <2>4, <2>5, <2>6, <2>7, Alone DEF AtWork
<1> QED BY <1>1, <1>2 DEF IInv

LEMMA DeleteLockOK ==
  ASSUME IInv, NEW p \in Runs, DeleteLock(p)
  PROVE  IInv'
<1>1. TypeInv'
  BY DEF DeleteLock, Goes, IInv, TypeInv, PCs
<1>2. ASSUME ~overlapped' PROVE Apart'
  <2>1. Apart /\ TypeInv
    BY <1>2 DEF DeleteLock, IInv
  <2>2. /\ pc[p] = "down" /\ pc' = [pc EXCEPT ![p] = "clear"]
        /\ locks' = {l \in locks : l.by # found[p]}
        /\ UNCHANGED <<data, command, next, downDied>>
    BY DEF DeleteLock, Goes
  <2>3. locks' = {} /\ command[p] = "down" /\ next[p] = 1
    BY <2>1, <2>2 DEF Apart, Known
  <2>4. pc'[p] = "clear" /\ \A q \in Runs : q # p => pc'[q] = pc[q]
    BY <2>1, <2>2 DEF TypeInv
  <2>5. Known(p)'
    BY <2>2, <2>3, <2>4 DEF Known
  <2> QED BY <2>1, <2>2, <2>3, <2>4, <2>5, Alone DEF AtWork
<1> QED BY <1>1, <1>2 DEF IInv

-----------------------------------------------------------------------------
LEMMA NextIInv ==
  ASSUME IInv, [Next]_vars
  PROVE  IInv'
<1>1. CASE UNCHANGED vars
  BY <1>1 DEF vars, IInv, TypeInv, Apart, Known, AtWork, NewLock, Whole, Empty
<1> QED BY <1>1, StartOK, FindLockOK, NothingToDoOK, CreateLockOK, ClearDataOK,
           CreateDocumentOK, FinishOK, DeleteLockOK, CrashOK
        DEF Next, Works

\* While runs do not overlap, and wherever they die, a finished lock stands for the whole
\* file, each line of it once.
THEOREM LockTellsWhole == Spec => []FinishedIsWhole
BY InitIInv, NextIInv, IInvImplied, PTL DEF Spec

\* While runs do not overlap, a part of the file that no run is at work on has an unfinished
\* lock, unless a down died half way and no up has cleared since.
THEOREM PartsAreMarked == Spec => []PartIsMarked
BY InitIInv, NextIInv, IInvImplied, PTL DEF Spec

-----------------------------------------------------------------------------
(* Ups that overlap.  A run that found no lock has one of its own from     *)
(* then on; it adds one copy of each line at most, and while a line is     *)
(* missing some run that cleared the data, or is about to, has yet to come *)
(* to it.                                                                  *)

AllUp == crashes = 0 /\ \A p \in Runs : command[p] = "up"

\* The runs that created a lock, those of them that created a copy of line i, and those
\* that will.
Ups == {p \in Runs : \E l \in locks : l.by = p}
Created(i) == {p \in Ups : pc[p] = "over" \/ (pc[p] = "create" /\ next[p] > i)}
Comes(i) == \E p \in Ups : pc[p] = "clear" \/ (pc[p] = "create" /\ next[p] <= i)

LocksOK == IsFiniteSet(Ups) /\ (Ups # {} => \A i \in 1..Lines : data[i] >= 1 \/ Comes(i))
CopiesOK ==
  /\ \A p \in Runs : /\ pc[p] \in {"clear", "create"} => p \in Ups
                     /\ pc[p] \in {"none", "look", "up"} => p \notin Ups
                     /\ pc[p] \notin {"create", "over"} => next[p] = 1
                     /\ pc[p] # "down"
  /\ \A i \in 1..Lines : data[i] <= Cardinality(Created(i))
Overlap == /\ crashes \in Nat
           /\ \A p \in Runs : pc[p] = "none" => command[p] = "up"
           /\ AllUp => LocksOK /\ CopiesOK

LEMMA CreatedFinite ==
  ASSUME IsFiniteSet(Ups), NEW i
  PROVE  /\ IsFiniteSet(Created(i)) /\ Cardinality(Created(i)) \in Nat
         /\ Cardinality(Created(i)) <= Cardinality(Ups)
<1>1. Created(i) \subseteq Ups
  BY DEF Created
<1> QED BY <1>1, FS_Subset, FS_CardinalityType

LEMMA InitOverlap == ASSUME Init PROVE Overlap
<1>1. Ups = {} /\ IsFiniteSet(Ups)
  BY FS_EmptySet DEF Init, Ups
<1>2. \A i : Cardinality(Created(i)) \in Nat
  BY <1>1, CreatedFinite
<1>3. LocksOK /\ CopiesOK
  BY <1>1, <1>2 DEF Init, LocksOK, CopiesOK
<1> QED BY <1>3 DEF Init, Overlap

LEMMA OverlapImplied == TypeInv /\ Overlap => UpsKeepAll
<1> SUFFICES ASSUME TypeInv, Overlap, Quiet, AllUp, NEW i \in 1..Lines
             PROVE  (Ups # {} => data[i] >= 1) /\ data[i] <= Cardinality(Ups)
  BY DEF UpsKeepAll, AllUp, Ups
<1>1. ~Comes(i)
  BY DEF Comes, Ups, Quiet, AtWork
<1>2. Cardinality(Created(i)) \in Nat /\ Cardinality(Created(i)) <= Cardinality(Ups)
      /\ Cardinality(Ups) \in Nat
  BY CreatedFinite, FS_CardinalityType DEF Overlap, LocksOK
<1>3. data[i] <= Cardinality(Created(i)) /\ data[i] \in Nat
  BY DEF Overlap, CopiesOK, TypeInv
<1> QED BY <1>1, <1>2, <1>3 DEF Overlap, LocksOK

\* A run moves from where it has no lock of its own, or nothing to create, and the lock and
\* the data stay.
LEMMA MoveOverlap ==
  ASSUME TypeInv, Overlap, AllUp' => AllUp, NEW p \in Runs,
         pc[p] \in {"none", "look", "up"}, pc'[p] \in {"look", "up", "over"},
         \A q \in Runs : q # p => pc'[q] = pc[q],
         UNCHANGED <<locks, data, next, crashes>>,
         \A q \in Runs : q # p => command'[q] = command[q]
  PROVE  Overlap'
<1> SUFFICES ASSUME AllUp' PROVE LocksOK' /\ CopiesOK'
  BY DEF Overlap
<1>1. LocksOK /\ CopiesOK
  BY DEF Overlap
<1>2. Ups' = Ups /\ p \notin Ups
  BY <1>1 DEF Ups, CopiesOK
<1>3. \A i : Created(i)' = Created(i) /\ Comes(i)' = Comes(i)
  BY <1>2 DEF Created, Comes, Ups
<1>4. LocksOK'
  BY <1>1, <1>2, <1>3 DEF LocksOK
<1>5. CopiesOK'
  BY <1>1, <1>2, <1>3 DEF CopiesOK
<1> QED BY <1>4, <1>5

LEMMA StartOverlap ==
  ASSUME TypeInv, Overlap, NEW p \in Runs, NEW c \in {"up", "down"}, Start(p, c)
  PROVE  Overlap'
<1>1. /\ pc[p] = "none" /\ pc' = [pc EXCEPT ![p] = "look"]
      /\ command' = [command EXCEPT ![p] = c]
      /\ UNCHANGED <<locks, data, next, crashes>>
  BY DEF Start, Goes
<1>2. pc'[p] = "look" /\ \A q \in Runs : q # p => pc'[q] = pc[q]
  BY <1>1 DEF TypeInv
<1>3. \A q \in Runs : q # p => command'[q] = command[q]
  BY <1>1 DEF TypeInv
<1>4. AllUp' => AllUp
  BY <1>1, <1>3 DEF AllUp, Overlap
<1> QED BY <1>1, <1>2, <1>3, <1>4, MoveOverlap

\* A step of a run at work that keeps what is about to be done: the command of every run
\* stays, and none dies.
LEMMA StepOverlap ==
  ASSUME TypeInv, Overlap, NEW p \in Runs, AtWork(p), UNCHANGED <<command, crashes>>,
         \A q \in Runs : q # p => pc'[q] = pc[q], pc'[p] # "none",
         AllUp /\ LocksOK /\ CopiesOK => LocksOK' /\ CopiesOK'
  PROVE  Overlap'
<1>1. AllUp' => AllUp
  BY DEF AllUp
<1> QED BY <1>1 DEF Overlap, AtWork

LEMMA FindLockOverlap ==
  ASSUME TypeInv, Overlap, NEW p \in Runs, FindLock(p)
  PROVE  Overlap'
<1>1. /\ pc[p] = "look" /\ pc' = [pc EXCEPT ![p] = command[p]]
      /\ UNCHANGED <<locks, data, next, command, crashes>>
  BY DEF FindLock, Goes
<1>2. pc'[p] = command[p] /\ \A q \in Runs : q # p => pc'[q] = pc[q]
  BY <1>1 DEF TypeInv
<1>3. AllUp' = AllUp
  BY <1>1 DEF AllUp
<1>4. CASE command[p] = "up"
  BY <1>1, <1>2, <1>3, <1>4, MoveOverlap
<1>5. CASE command[p] # "up"
  <2>1. ~AllUp'
    BY <1>3, <1>5 DEF AllUp
  <2> QED BY <1>1, <1>2, <1>5, <2>1 DEF Overlap, TypeInv
<1> QED BY <1>4, <1>5

LEMMA NothingOverlap ==
  ASSUME TypeInv, Overlap, NEW p \in Runs, NothingToDo(p)
  PROVE  Overlap'
<1>1. /\ pc[p] \in {"up", "down"} /\ pc' = [pc EXCEPT ![p] = "over"]
      /\ UNCHANGED <<locks, data, next, command, crashes>>
  BY DEF NothingToDo, Goes
<1>2. pc'[p] = "over" /\ \A q \in Runs : q # p => pc'[q] = pc[q]
  BY <1>1 DEF TypeInv
<1>3. AllUp' = AllUp
  BY <1>1 DEF AllUp
<1>4. CASE pc[p] = "up"
  BY <1>1, <1>2, <1>3, <1>4, MoveOverlap
<1>5. CASE pc[p] = "down"
  <2>1. ~AllUp'
    BY <1>3, <1>5 DEF Overlap, CopiesOK
  <2> QED BY <1>1, <1>2, <2>1 DEF Overlap
<1> QED BY <1>1, <1>4, <1>5

LEMMA CreateLockOverlap ==
  ASSUME TypeInv, Overlap, NEW p \in Runs, CreateLock(p)
  PROVE  Overlap'
<1>1. /\ pc[p] = "up" /\ pc' = [pc EXCEPT ![p] = "clear"]
      /\ locks' = locks \cup {NewLock(p)}
      /\ UNCHANGED <<data, next, command, crashes>>
  BY DEF CreateLock, Goes
<1>2. pc'[p] = "clear" /\ \A q \in Runs : q # p => pc'[q] = pc[q]
  BY <1>1 DEF TypeInv
<1>3. ASSUME LocksOK, CopiesOK PROVE LocksOK' /\ CopiesOK'
  <2>1. Ups' = Ups \cup {p} /\ p \notin Ups
    <3>1. \A q : (\E l \in locks' : l.by = q) <=> q = p \/ \E l \in locks : l.by = q
      <4>1. NewLock(p).by = p
        BY DEF NewLock
      <4>2. \A l : l \in locks' <=> l = NewLock(p) \/ l \in locks
        BY <1>1
      <4> QED BY <4>1, <4>2, Zenon
    <3>2. p \notin Ups
      BY <1>1, <1>3 DEF CopiesOK
    <3>3. \A q : q \in Ups' <=> q \in Ups \/ q = p
      BY <3>1 DEF Ups
    <3> QED BY <3>2, <3>3
  <2>2. IsFiniteSet(Ups')
    BY <1>3, <2>1, FS_AddElement DEF LocksOK
  <2>3. \A i : Comes(i)'
    BY <1>2, <2>1 DEF Comes
  <2>4. \A i : Created(i)' = Created(i)
    BY <1>1, <1>2, <2>1 DEF Created, Ups
  <2>5. LocksOK'
    BY <2>2, <2>3 DEF LocksOK
  <2>6. CopiesOK'
    BY <1>1, <1>2, <1>3, <2>1, <2>4 DEF CopiesOK
  <2> QED BY <2>5, <2>6
<1>4. AtWork(p) /\ pc'[p] # "none"
  BY <1>1, <1>2 DEF AtWork
<1> QED BY <1>1, <1>2, <1>3, <1>4, StepOverlap

LEMMA ClearOverlap ==
  ASSUME TypeInv, Overlap, NEW p \in Runs, ClearData(p)
  PROVE  Overlap'
<1>1. /\ pc[p] = "clear"
      /\ pc' = [pc EXCEPT ![p] = IF command[p] = "up" THEN "create" ELSE "over"]
      /\ data' = [i \in 1..Lines |-> 0]
      /\ UNCHANGED <<locks, next, command, crashes>>
  BY DEF ClearData, Goes, Cleared
<1>2. /\ pc'[p] = IF command[p] = "up" THEN "create" ELSE "over"
      /\ \A q \in Runs : q # p => pc'[q] = pc[q]
  BY <1>1 DEF TypeInv
<1>3. ASSUME AllUp, LocksOK, CopiesOK PROVE LocksOK' /\ CopiesOK'
  <2>1. Ups' = Ups /\ p \in Ups /\ pc'[p] = "create" /\ next'[p] = 1
    BY <1>1, <1>2, <1>3 DEF Ups, CopiesOK, AllUp
  <2>2. \A i \in 1..Lines : Comes(i)'
    BY <2>1, SeedAssumption DEF Comes
  <2>3. \A i : Cardinality(Created(i)') \in Nat
    <3> TAKE i
    <3>1. Created(i)' \subseteq Ups
      BY <2>1 DEF Created
    <3> QED BY <1>3, <3>1, FS_Subset, FS_CardinalityType DEF LocksOK
  <2>4. LocksOK'
    BY <1>3, <2>1, <2>2 DEF LocksOK
  <2>5. CopiesOK'
    BY <1>1, <1>2, <1>3, <2>1, <2>3 DEF CopiesOK
  <2> QED BY <2>4, <2>5
<1>4. AtWork(p) /\ pc'[p] # "none"
  BY <1>1, <1>2 DEF AtWork
<1> QED BY <1>1, <1>2, <1>3, <1>4, StepOverlap

LEMMA DocumentOverlap ==
  ASSUME TypeInv, Overlap, NEW p \in Runs, CreateDocument(p)
  PROVE  Overlap'
<1>1. /\ pc[p] = "create" /\ next[p] <= Lines
      /\ data' = [data EXCEPT ![next[p]] = @ + 1]
      /\ next' = [next EXCEPT ![p] = @ + 1]
      /\ UNCHANGED <<locks, pc, command, crashes>>
  BY DEF CreateDocument, LinesLeft
<1>2. PICK n \in 1..Lines : n = next[p]
  BY <1>1, SeedAssumption DEF TypeInv
<1>3. /\ next'[p] = n + 1 /\ \A q \in Runs : q # p => next'[q] = next[q]
      /\ data'[n] = data[n] + 1 /\ \A i \in 1..Lines : i # n => data'[i] = data[i]
      /\ \A i \in 1..Lines : data[i] \in Nat
      /\ \A q \in Runs : next[q] \in Nat
  BY <1>1, <1>2, SeedAssumption DEF TypeInv
<1>4. ASSUME LocksOK, CopiesOK PROVE LocksOK' /\ CopiesOK'
  <2>1. Ups' = Ups /\ p \in Ups
    BY <1>1, <1>4 DEF Ups, CopiesOK
  <2>2. ASSUME NEW i \in 1..Lines, i # n PROVE Created(i)' = Created(i) /\ Comes(i)' = Comes(i)
    <3>1. i \in Nat /\ n \in Nat /\ (n + 1 > i <=> n > i) /\ (n + 1 <= i <=> n <= i)
      BY <2>2, SeedAssumption
    <3>2. \A q \in Runs : (next'[q] > i <=> next[q] > i) /\ (next'[q] <= i <=> next[q] <= i)
      BY <1>2, <1>3, <3>1
    <3> QED BY <1>1, <2>1, <3>2 DEF Created, Comes, Ups
  <2>3. Created(n)' = Created(n) \cup {p} /\ p \notin Created(n)
    <3>1. \A q \in Ups : q \in Runs
      BY DEF Ups
    <3>2. \A q \in Ups : q \in Created(n)' <=> q \in Created(n) \/ q = p
      BY <1>1, <1>2, <1>3, <2>1, <3>1 DEF Created
    <3>3. p \notin Created(n)
      BY <1>1, <1>2 DEF Created
    <3>4. Created(n)' \subseteq Ups /\ Created(n) \subseteq Ups
      BY <2>1 DEF Created
    <3> QED BY <2>1, <3>2, <3>3, <3>4
  <2>4. Cardinality(Created(n)') = Cardinality(Created(n)) + 1 /\ Cardinality(Created(n)) \in Nat
    BY <1>4, <2>3, CreatedFinite, FS_AddElement DEF LocksOK
  <2>5. LocksOK'
    BY <1>3, <1>4, <2>1, <2>2 DEF LocksOK
  <2>6. \A i \in 1..Lines : data'[i] <= Cardinality(Created(i)')
    <3>1. data'[n] <= Cardinality(Created(n)')
      BY <1>3, <1>4, <2>4 DEF CopiesOK
    <3>2. \A i \in 1..Lines : i # n => data'[i] <= Cardinality(Created(i)')
      BY <1>3, <1>4, <2>2 DEF CopiesOK
    <3> QED BY <3>1, <3>2
  <2>7. CopiesOK'
    BY <1>1, <1>3, <1>4, <2>1, <2>6 DEF CopiesOK
  <2> QED BY <2>5, <2>7
<1>5. AtWork(p) /\ pc'[p] # "none"
  BY <1>1 DEF AtWork
<1> QED BY <1>1, <1>4, <1>5, StepOverlap

LEMMA FinishOverlap ==
  ASSUME TypeInv, Overlap, NEW p \in Runs, Finish(p)
  PROVE  Overlap'
<1>1. /\ pc[p] = "create" /\ pc' = [pc EXCEPT ![p] = "over"] /\ ~(next[p] <= Lines)
      /\ locks' = {IF l.by = p THEN [l EXCEPT !.finished = TRUE] ELSE l : l \in locks}
      /\ UNCHANGED <<data, next, command, crashes>>
  BY DEF Finish, Goes, LinesLeft
<1>2. pc'[p] = "over" /\ \A q \in Runs : q # p => pc'[q] = pc[q]
  BY <1>1 DEF TypeInv
<1>3. ASSUME LocksOK, CopiesOK PROVE LocksOK' /\ CopiesOK'
  <2>1. \A l \in locks : [l EXCEPT !.finished = TRUE].by = l.by
    BY DEF TypeInv
  <2>2. \A q : (\E l \in locks' : l.by = q) <=> \E l \in locks : l.by = q
    BY <1>1, <2>1
  <2>3. Ups' = Ups /\ p \in Ups
    BY <1>1, <1>3, <2>2 DEF Ups, CopiesOK
  <2>4. \A i \in 1..Lines : next[p] > i
    BY <1>1, SeedAssumption DEF TypeInv
  <2>5. \A i \in 1..Lines : Created(i)' = Created(i)
    BY <1>1, <1>2, <2>3, <2>4 DEF Created, Ups
  <2>6. \A i \in 1..Lines : Comes(i) => Comes(i)'
    <3> SUFFICES ASSUME NEW i \in 1..Lines, NEW q \in Ups,
                        pc[q] = "clear" \/ (pc[q] = "create" /\ next[q] <= i)
                 PROVE  q # p
      BY <1>1, <1>2, <2>3 DEF Comes, Ups
    <3> QED BY <1>1, SeedAssumption DEF TypeInv
  <2>7. LocksOK'
    BY <1>1, <1>3, <2>3, <2>6 DEF LocksOK
  <2>8. CopiesOK'
    BY <1>1, <1>2, <1>3, <2>3, <2>5 DEF CopiesOK
  <2> QED BY <2>7, <2>8
<1>4. AtWork(p) /\ pc'[p] # "none"
  BY <1>1, <1>2 DEF AtWork
<1> QED BY <1>1, <1>2, <1>3, <1>4, StepOverlap

LEMMA DeleteOverlap ==
  ASSUME TypeInv, Overlap, NEW p \in Runs, DeleteLock(p)
  PROVE  Overlap'
<1>1. /\ pc[p] = "down" /\ pc' = [pc EXCEPT ![p] = "clear"]
      /\ UNCHANGED <<command, crashes>>
  BY DEF DeleteLock, Goes
<1>2. AllUp' = AllUp
  BY <1>1 DEF AllUp
<1>3. ~AllUp
  BY <1>1 DEF Overlap, CopiesOK
<1> QED BY <1>1, <1>2, <1>3 DEF Overlap, TypeInv

LEMMA CrashOverlap ==
  ASSUME TypeInv, Overlap, NEW p \in Runs, Crash(p)
  PROVE  Overlap'
<1>1. /\ ~AllUp' /\ crashes' \in Nat
      /\ pc' = [pc EXCEPT ![p] = "over"] /\ UNCHANGED command
  BY DEF Crash, AllUp, Overlap
<1> QED BY <1>1 DEF Overlap, TypeInv

LEMMA NextOverlap == ASSUME IInv, Overlap, [Next]_vars PROVE Overlap'
<1>1. TypeInv
  BY DEF IInv
<1>2. CASE UNCHANGED vars
  BY <1>2 DEF vars, Overlap, AllUp, LocksOK, CopiesOK, Ups, Created, Comes
<1> QED BY <1>1, <1>2, StartOverlap, FindLockOverlap, NothingOverlap, CreateLockOverlap,
           ClearOverlap, DocumentOverlap, FinishOverlap, DeleteOverlap, CrashOverlap
        DEF Next, Works

\* However many ups overlap, when they are over and none died every line of the file is
\* there, and at most once for each of them.
THEOREM UpsKeep == Spec => []UpsKeepAll
<1>1. IInv /\ Overlap => UpsKeepAll
  BY OverlapImplied DEF IInv
<1> QED BY <1>1, InitIInv, NextIInv, InitOverlap, NextOverlap, PTL DEF Spec
==============================================================================
