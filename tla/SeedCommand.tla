------------------------------ MODULE SeedCommand ------------------------------
(***************************************************************************)
(* The seed relay-sale-data command.  "up" reads the lock document of the  *)
(* seed and, when there is none, creates it, removes the data that is      *)
(* there and creates a document for each line of the file; then it marks   *)
(* the lock as finished.  "down" removes the lock, then the data.  The     *)
(* transaction that up starts is given to none of its operations, so each  *)
(* of them is seen at once.  The runs are batch jobs of the operators:     *)
(* one that died is started again, and nothing keeps two of them apart but *)
(* the lock.                                                               *)
(***************************************************************************)
EXTENDS Naturals, FiniteSets

CONSTANTS
  Runs,          \* the runs; a number of them bounds the behaviour
  Lines,         \* the number of lines of the file
  MaxCrashes,    \* bound on the runs that die
  NoLock

ASSUME SeedAssumption ==
  /\ Runs \subseteq Nat /\ Lines \in Nat \ {0} /\ MaxCrashes \in Nat
  /\ NoLock \notin Runs

VARIABLES
  locks,       \* the lock documents: who created it, if it is finished
  data,        \* line -> documents of it
  pc,          \* run -> where it is, "none" before and "over" after it
  command,     \* run -> "up" or "down"
  found,       \* run -> the creator of the lock it found, or NoLock
  next,        \* run -> the next line it creates
  crashes,
  overlapped,  \* a run was started while another was under way
  downDied     \* a down died, and no up has cleared the data since

vars == <<locks, data, pc, command, found, next, crashes, overlapped, downDied>>

Init ==
  /\ locks = {} /\ data = [i \in 1..Lines |-> 0]
  /\ pc = [p \in Runs |-> "none"] /\ command = [p \in Runs |-> "up"]
  /\ found = [p \in Runs |-> NoLock] /\ next = [p \in Runs |-> 1]
  /\ crashes = 0 /\ overlapped = FALSE /\ downDied = FALSE

----------------------------------------------------------------------------
AtWork(p) == pc[p] \notin {"none", "over"}
Quiet == \A p \in Runs : ~AtWork(p)

Goes(p, from, to) == pc[p] = from /\ pc' = [pc EXCEPT ![p] = to]

\* An operator starts the command.  The runs are numbered in that order.
Start(p, c) ==
  /\ Goes(p, "none", "look") /\ \A q \in Runs : q < p => pc[q] # "none"
  /\ command' = [command EXCEPT ![p] = c]
  /\ overlapped' = (overlapped \/ ~Quiet)
  /\ UNCHANGED <<locks, data, found, next, crashes, downDied>>

\* run: a lock of the seed, if there is one.
FindLock(p) ==
  /\ Goes(p, "look", command[p])
  /\ \E by \in {l.by : l \in locks} \cup {NoLock} :
       /\ by = NoLock <=> locks = {}
       /\ found' = [found EXCEPT ![p] = by]
  /\ UNCHANGED <<locks, data, command, next, crashes, overlapped, downDied>>

\* up finds a lock, down finds none.
NothingToDo(p) ==
  /\ \/ Goes(p, "up", "over") /\ found[p] # NoLock
     \/ Goes(p, "down", "over") /\ found[p] = NoLock
  /\ UNCHANGED <<locks, data, command, found, next, crashes, overlapped, downDied>>

\* A definition marked (slip) is a mistake the code could have made and does not; no
\* action uses it.
\* (slip: the lock is created as a finished one)
NewLock_Finished(p) == [by |-> p, finished |-> TRUE]

NewLock(p) == [by |-> p, finished |-> FALSE]

\* up: the lock, whoever created one since.
CreateLock(p) ==
  /\ Goes(p, "up", "clear") /\ found[p] = NoLock
  /\ locks' = locks \cup {NewLock(p)}
  /\ UNCHANGED <<data, command, found, next, crashes, overlapped, downDied>>

\* (slip: what is there is kept)
Cleared_Kept(p) == IF command[p] = "up" THEN data ELSE [i \in 1..Lines |-> 0]

\* deleteMany, of up and of down.
Cleared(p) == [i \in 1..Lines |-> 0]

ClearData(p) ==
  /\ Goes(p, "clear", IF command[p] = "up" THEN "create" ELSE "over")
  /\ data' = Cleared(p)
  /\ downDied' = FALSE
  /\ UNCHANGED <<locks, command, found, next, crashes, overlapped>>

\* (slip: the loop ends one line early)
LinesLeft_Short(p) == next[p] < Lines

\* The first line of the file is its header, which Lines does not count.
LinesLeft(p) == next[p] <= Lines

\* up: the documents, one by one.
CreateDocument(p) ==
  /\ pc[p] = "create" /\ LinesLeft(p)
  /\ data' = [data EXCEPT ![next[p]] = @ + 1]
  /\ next' = [next EXCEPT ![p] = @ + 1]
  /\ UNCHANGED <<locks, pc, command, found, crashes, overlapped, downDied>>

\* The lock is saved as finished; without it, the save throws.
Finish(p) ==
  /\ Goes(p, "create", "over") /\ ~LinesLeft(p)
  /\ locks' = {IF l.by = p THEN [l EXCEPT !.finished = TRUE] ELSE l : l \in locks}
  /\ UNCHANGED <<data, command, found, next, crashes, overlapped, downDied>>

\* down: the lock that it found goes, if it is still there.
DeleteLock(p) ==
  /\ Goes(p, "down", "clear") /\ found[p] # NoLock
  /\ locks' = {l \in locks : l.by # found[p]}
  /\ UNCHANGED <<data, command, found, next, crashes, overlapped, downDied>>

\* A run dies between two of its operations, or throws out of one.
Crash(p) ==
  /\ AtWork(p) /\ pc' = [pc EXCEPT ![p] = "over"]
  /\ crashes < MaxCrashes /\ crashes' = crashes + 1
  /\ downDied' = (downDied \/ (command[p] = "down" /\ pc[p] = "clear"))
  /\ UNCHANGED <<locks, data, command, found, next, overlapped>>

Works(p) ==
  \/ FindLock(p) \/ NothingToDo(p)
  \/ CreateLock(p) \/ ClearData(p) \/ CreateDocument(p) \/ Finish(p)
  \/ DeleteLock(p)

Next ==
  \E p \in Runs : \/ \E c \in {"up", "down"} : Start(p, c)
                  \/ Works(p)
                  \/ Crash(p)

Spec == Init /\ [][Next]_vars

----------------------------------------------------------------------------
\* Type correctness of the documents and the runs.
TypeOK ==
  /\ locks \subseteq [by: Runs, finished: BOOLEAN]
  /\ data \in [1..Lines -> Nat]
  /\ pc \in [Runs -> {"none", "look", "up", "down", "clear", "create", "over"}]
  /\ command \in [Runs -> {"up", "down"}]
  /\ found \in [Runs -> Runs \cup {NoLock}]
  /\ next \in [Runs -> 1..(Lines + 1)]
  /\ crashes \in 0..MaxCrashes /\ overlapped \in BOOLEAN /\ downDied \in BOOLEAN

Whole == \A i \in 1..Lines : data[i] = 1
Empty == \A i \in 1..Lines : data[i] = 0

\* While runs do not overlap a finished lock stands for the whole file, each line of it
\* once, whatever runs died before: an up that follows a down that died half way does
\* not add to what was left, and a down takes the lock before the data.
FinishedIsWhole ==
  ~overlapped =>
    \A l \in locks : l.finished => Whole

\* While runs do not overlap a part of the file is never there without a sign of it: an
\* unfinished lock, or a down that died and the next up clears up after.
PartIsMarked ==
  ~overlapped /\ ~Whole /\ ~Empty =>
    downDied \/ ~Quiet \/ \E l \in locks : ~l.finished

\* Ups that overlap, of which several found no lock, leave no line out when they are
\* over, and at most a copy for each of them.
UpsKeepAll ==
  Quiet /\ crashes = 0 /\ (\A p \in Runs : command[p] = "up") =>
    LET ups == {p \in Runs : \E l \in locks : l.by = p} IN
      \A i \in 1..Lines : /\ ups # {} => data[i] >= 1
                          /\ data[i] <= Cardinality(ups)
===============================================================================
