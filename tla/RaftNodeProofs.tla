---------------------------- MODULE RaftNodeProofs ----------------------------
(***************************************************************************)
(* Proofs about RaftNode, for any number of nodes, terms and entries: what *)
(* the handlers keep of the configuration is well typed, the votes they    *)
(* give elect at most one node in each term, and the logs that they leave  *)
(* match.                                                                  *)
(***************************************************************************)
EXTENDS RaftNode, FiniteSetTheorems, SequenceTheorems, TLAPS

----------------------------------------------------------------------------
(* Type correctness.                                                       *)

LEMMA InitTyped == Init => TypeOK
<1> SUFFICES ASSUME Init PROVE TypeOK
  OBVIOUS
<1> DEFINE e == [term |-> 0, command |-> Nobody]
<1>1. e \in Entry /\ 0 \in Terms /\ 0 \in Int
  BY RaftAssumption DEF Entry, Terms
<1>2. <<e>> \in Seq(Entry) /\ <<e>> # <<>>
  BY <1>1
<1>3. configuration \in [Node -> Config]
  BY <1>1, <1>2 DEF Init, Config, States
<1>4. \A n \in Node : configuration[n].log # <<>>
  BY <1>2 DEF Init
<1>5. DOMAIN responses = Node /\ \A n \in Node : DOMAIN responses[n] = {}
  BY DEF Init
<1> QED BY <1>3, <1>4, <1>5 DEF Init, TypeOK

\* What an RPC of a term does to a configuration.
LEMMA UpdateTermTyped ==
  ASSUME NEW c \in Config, c.log # <<>>, NEW t \in Terms
  PROVE  /\ UpdateTerm(c, t) \in Config
         /\ UpdateTerm(c, t).log = c.log
         /\ UpdateTerm(c, t).votedFor = c.votedFor
         /\ UpdateTerm(c, t).currentTerm >= c.currentTerm
         /\ UpdateTerm(c, t).currentTerm >= t
         /\ UpdateTerm(c, t).currentTerm = c.currentTerm
              => UpdateTerm(c, t) = c
<1>1. c.currentTerm \in Int /\ t \in Int
  BY RaftAssumption DEF Config, Terms
<1>2. CASE t > c.currentTerm
  <2> DEFINE d == [c EXCEPT !.currentTerm = t, !.state = "follower"]
  <2>1. d \in Config
    BY DEF Config, States
  <2>2. d.log = c.log /\ d.votedFor = c.votedFor /\ d.currentTerm = t
    BY DEF Config
  <2>3. UpdateTerm(c, t) = d
    BY <1>2 DEF UpdateTerm
  <2> HIDE DEF d
  <2> QED BY <1>1, <1>2, <2>1, <2>2, <2>3
<1>3. CASE ~(t > c.currentTerm)
  <2>1. UpdateTerm(c, t) = c
    BY <1>3 DEF UpdateTerm
  <2> QED BY <1>1, <1>3, <2>1
<1> QED BY <1>2, <1>3

LEMMA StartElectionTyped ==
  ASSUME TypeOK, NEW n \in Node, StartElection(n)
  PROVE  TypeOK'
<1> DEFINE c == configuration[n]
           d == [c EXCEPT !.currentTerm = @ + 1, !.state = "candidate",
                          !.votedFor = Nobody]
           rpc == [term |-> c.currentTerm + 1, candidateId |-> n,
                   lastLogIndex |-> LastLogIndex(c), lastLogTerm |-> LastLogTerm(c)]
<1>1. c \in Config /\ c.log # <<>> /\ c.log \in Seq(Entry)
  BY DEF TypeOK, Config
<1>2. c.currentTerm + 1 \in Terms
  BY <1>1, RaftAssumption DEF StartElection, Config, Terms
<1>3. d \in Config /\ d.log # <<>>
  BY <1>1, <1>2 DEF Config, States
<1>4. Len(c.log) \in Nat \ {0} /\ c.log[Len(c.log)] \in Entry
  BY <1>1, LenProperties, ElementOfSeq, EmptySeq
<1>5. rpc \in Vote
  BY <1>2, <1>4 DEF Vote, LastLogIndex, LastLogTerm, Entry
<1>6. configuration' = [configuration EXCEPT ![n] = d]
  BY DEF StartElection
<1>7. votes' = votes \cup {rpc}
  BY DEF StartElection
<1> HIDE DEF d, rpc
<1>8. configuration' \in [Node -> Config]
  BY <1>3, <1>6 DEF TypeOK
<1>9. \A m \in Node : configuration'[m].log # <<>>
  BY <1>3, <1>6 DEF TypeOK
<1> QED BY <1>5, <1>7, <1>8, <1>9 DEF TypeOK, StartElection

LEMMA HandleRequestVoteTyped ==
  ASSUME TypeOK, NEW n \in Node, NEW rpc \in votes, HandleRequestVoteRPC(n, rpc)
  PROVE  TypeOK'
<1> DEFINE c == UpdateTerm(configuration[n], rpc.term)
<1>1. rpc.term \in Terms /\ rpc.candidateId \in Node
  BY DEF TypeOK, Vote
<1>2. c \in Config /\ c.log # <<>>
  BY <1>1, UpdateTermTyped DEF TypeOK
<1>3. [c EXCEPT !.votedFor = rpc.candidateId] \in Config
  BY <1>1, <1>2 DEF Config
<1>4. [c EXCEPT !.votedFor = rpc.candidateId].log # <<>>
  BY <1>2 DEF Config
<1>5. PICK d \in Config : d.log # <<>> /\ configuration' = [configuration EXCEPT ![n] = d]
  BY <1>2, <1>3, <1>4 DEF HandleRequestVoteRPC
<1>6. granted' \subseteq Node \X Terms \X Node
  BY <1>1 DEF TypeOK, HandleRequestVoteRPC
<1>7. configuration' \in [Node -> Config]
  BY <1>5 DEF TypeOK
<1>8. \A m \in Node : configuration'[m].log # <<>>
  BY <1>5 DEF TypeOK
<1> QED BY <1>6, <1>7, <1>8 DEF TypeOK, HandleRequestVoteRPC

LEMMA BecomeLeaderTyped ==
  ASSUME TypeOK, NEW n \in Node, BecomeLeader(n)
  PROVE  TypeOK'
<1> DEFINE d == [configuration[n] EXCEPT !.state = "leader"]
<1>1. d \in Config /\ d.log # <<>>
  BY DEF TypeOK, Config, States
<1>2. configuration' = [configuration EXCEPT ![n] = d]
  BY DEF BecomeLeader
<1> HIDE DEF d
<1>3. configuration' \in [Node -> Config] /\ \A m \in Node : configuration'[m].log # <<>>
  BY <1>1, <1>2 DEF TypeOK
<1>4. \A m \in Node : /\ DOMAIN responses'[m] \subseteq Node
                      /\ \A k \in DOMAIN responses'[m] : responses'[m][k] \in AppendResult
  BY DEF TypeOK, BecomeLeader
<1> QED BY <1>3, <1>4 DEF TypeOK, BecomeLeader

LEMMA CommandTyped ==
  ASSUME TypeOK, NEW n \in Node, Command(n)
  PROVE  TypeOK'
<1> DEFINE c == configuration[n]
           e == [term |-> c.currentTerm, command |-> n]
           d == [c EXCEPT !.log = Append(@, e)]
<1>1. e \in Entry /\ c.log \in Seq(Entry) /\ c \in Config
  BY DEF TypeOK, Config, Entry
<1>2. Append(c.log, e) \in Seq(Entry) /\ Append(c.log, e) # <<>>
  BY <1>1, AppendProperties
<1> HIDE DEF e
<1>3. d \in Config /\ d.log # <<>>
  BY <1>1, <1>2 DEF Config
<1>4. configuration' = [configuration EXCEPT ![n] = d]
  BY DEF Command, e
<1> HIDE DEF d
<1>5. configuration' \in [Node -> Config] /\ \A m \in Node : configuration'[m].log # <<>>
  BY <1>3, <1>4 DEF TypeOK
<1> QED BY <1>5 DEF TypeOK, Command

LEMMA SendAppendEntriesTyped ==
  ASSUME TypeOK, NEW n \in Node, SendAppendEntries(n)
  PROVE  TypeOK'
<1> DEFINE c == configuration[n]
<1>1. c \in Config /\ c.log \in Seq(Entry) /\ Len(c.log) \in Nat
  BY LenProperties DEF TypeOK, Config
<1>2. PICK p \in 0..LastLogIndex(c) :
        appends' = appends \cup
           {[term |-> c.currentTerm, leaderId |-> n, prevLogIndex |-> p,
             prevLogTerm |-> c.log[p + 1].term,
             entries |-> SubSeq(c.log, p + 2, Len(c.log)),
             leaderCommit |-> c.commitIndex]}
  BY DEF SendAppendEntries
<1>3. p \in Nat /\ p + 1 \in 1..Len(c.log)
  BY <1>1 DEF LastLogIndex
<1>4. c.log[p + 1].term \in Terms
  <2>1. c.log[p + 1] \in Entry
    BY <1>1, <1>3, ElementOfSeq
  <2> QED BY <2>1 DEF Entry
<1>5. \A i \in (p + 2)..Len(c.log) : c.log[i] \in Entry
  BY <1>1, <1>3, ElementOfSeq
<1>6. SubSeq(c.log, p + 2, Len(c.log)) \in Seq(Entry)
  BY <1>1, <1>3, <1>5, SubSeqProperties
<1> DEFINE rpc == [term |-> c.currentTerm, leaderId |-> n, prevLogIndex |-> p,
                   prevLogTerm |-> c.log[p + 1].term,
                   entries |-> SubSeq(c.log, p + 2, Len(c.log)),
                   leaderCommit |-> c.commitIndex]
<1>7. c.currentTerm \in Terms /\ c.commitIndex \in Int
  BY <1>1 DEF Config
<1>8. rpc \in Append_
  BY <1>3, <1>4, <1>6, <1>7 DEF Append_
<1>9. appends' = appends \cup {rpc}
  BY <1>2
<1> HIDE DEF rpc
<1>10. appends' \subseteq Append_
  BY <1>8, <1>9 DEF TypeOK
<1> QED BY <1>10 DEF TypeOK, SendAppendEntries

\* What appendEntries leaves of the log and adds to it is a log.
LEMMA AppendEntriesTyped ==
  ASSUME NEW c \in Config, NEW rpc \in Append_, MatchesPrev(c, rpc)
  PROVE  /\ AppendEntries(c, rpc) \in Config
         /\ AppendEntries(c, rpc).log # <<>>
         /\ AppendEntries(c, rpc).currentTerm = c.currentTerm
         /\ AppendEntries(c, rpc).votedFor = c.votedFor
         /\ AppendEntries(c, rpc).state = c.state
<1> DEFINE p == rpc.prevLogIndex
           log == Kept(c, rpc) \o rpc.entries
           index == IF rpc.leaderCommit <= Len(log) - 1
                    THEN rpc.leaderCommit ELSE Len(log) - 1
<1>1. /\ c.log \in Seq(Entry) /\ rpc.entries \in Seq(Entry)
      /\ p \in Nat /\ rpc.leaderCommit \in Int
  BY DEF Config, Append_
<1>2. p + 1 \in 1..Len(c.log)
  BY <1>1, LenProperties DEF MatchesPrev
<1>3. \A i \in 1..(p + 1) : c.log[i] \in Entry
  BY <1>1, <1>2, ElementOfSeq, LenProperties
<1>4. Kept(c, rpc) \in Seq(Entry) /\ Len(Kept(c, rpc)) = p + 1
  BY <1>1, <1>3, SubSeqProperties DEF Kept
<1>5. Len(rpc.entries) \in Nat
  BY <1>1, LenProperties
<1>6. log \in Seq(Entry) /\ Len(log) = p + 1 + Len(rpc.entries)
  <2> DEFINE kept == Kept(c, rpc)
             entries == rpc.entries
  <2>1. kept \in Seq(Entry) /\ entries \in Seq(Entry) /\ Len(kept) = p + 1
    BY <1>1, <1>4
  <2>2. log = kept \o entries
    OBVIOUS
  <2> HIDE DEF kept, log
  <2>3. kept \o entries \in Seq(Entry) /\ Len(kept \o entries) = Len(kept) + Len(entries)
    <3> HIDE DEF entries
    <3> QED BY <2>1, ConcatProperties
  <2> QED BY <2>1, <2>2, <2>3
<1> HIDE DEF log
<1>7. log # <<>>
  BY <1>1, <1>5, <1>6, EmptySeq
<1>8. index \in Int
  BY <1>1, <1>5, <1>6
<1>9. AppendEntries(c, rpc) = [c EXCEPT !.log = log, !.commitIndex = index]
  BY DEF AppendEntries, log
<1> HIDE DEF index
<1> QED BY <1>6, <1>7, <1>8, <1>9 DEF Config

\* The configuration of the answering node after an AppendEntries RPC.
AfterAppend(n, rpc) ==
  LET c == UpdateTerm(configuration[n], rpc.term) IN
    IF Accepts(c, rpc) THEN AppendEntries(c, rpc) ELSE c

LEMMA AfterAppendTyped ==
  ASSUME TypeOK, NEW n \in Node, NEW rpc \in appends
  PROVE  /\ AfterAppend(n, rpc) \in Config
         /\ AfterAppend(n, rpc).log # <<>>
         /\ AfterAppend(n, rpc).votedFor = configuration[n].votedFor
         /\ AfterAppend(n, rpc).currentTerm >= configuration[n].currentTerm
         /\ AfterAppend(n, rpc).currentTerm = configuration[n].currentTerm
              => AfterAppend(n, rpc).state = configuration[n].state
<1> DEFINE c == UpdateTerm(configuration[n], rpc.term)
<1>1. rpc \in Append_ /\ rpc.term \in Terms
  BY DEF TypeOK, Append_
<1>2. /\ c \in Config /\ c.log # <<>>
      /\ c.votedFor = configuration[n].votedFor
      /\ c.currentTerm >= configuration[n].currentTerm
      /\ c.currentTerm = configuration[n].currentTerm => c = configuration[n]
  BY <1>1, UpdateTermTyped DEF TypeOK
<1> HIDE DEF c
<1>3. CASE Accepts(c, rpc)
  <2>1. AfterAppend(n, rpc) = AppendEntries(c, rpc)
    BY <1>3 DEF AfterAppend, c
  <2>2. MatchesPrev(c, rpc)
    BY <1>3 DEF Accepts
  <2> QED BY <1>1, <1>2, <2>1, <2>2, AppendEntriesTyped
<1>4. CASE ~Accepts(c, rpc)
  <2>1. AfterAppend(n, rpc) = c
    BY <1>4 DEF AfterAppend, c
  <2> QED BY <1>2, <2>1
<1> QED BY <1>3, <1>4

LEMMA HandleAppendEntriesTyped ==
  ASSUME TypeOK, NEW n \in Node, NEW rpc \in appends, HandleAppendEntriesRPC(n, rpc)
  PROVE  TypeOK'
<1> DEFINE c == UpdateTerm(configuration[n], rpc.term)
           d == AfterAppend(n, rpc)
           result == [term |-> d.currentTerm, success |-> Accepts(c, rpc),
                      index |-> IF Accepts(c, rpc) THEN d.commitIndex ELSE -1]
           l == rpc.leaderId
<1>1. d \in Config /\ d.log # <<>> /\ l \in Node
  BY AfterAppendTyped DEF TypeOK, Append_
<1>2. configuration' = [configuration EXCEPT ![n] = d]
  BY DEF HandleAppendEntriesRPC, AfterAppend
<1>3. configuration' \in [Node -> Config] /\ \A m \in Node : configuration'[m].log # <<>>
  <2> HIDE DEF d
  <2> QED BY <1>1, <1>2 DEF TypeOK
<1>4. result \in AppendResult
  <2>1. Accepts(c, rpc) \in BOOLEAN
    BY DEF Accepts, MatchesPrev
  <2>2. d.currentTerm \in Terms /\ d.commitIndex \in Int
    <3> HIDE DEF d
    <3> QED BY <1>1 DEF Config
  <2> HIDE DEF c, d
  <2> QED BY <2>1, <2>2 DEF AppendResult
<1>5. \/ UNCHANGED responses
      \/ responses' = [responses EXCEPT ![l] =
                         [m \in DOMAIN @ \cup {n} |-> IF m = n THEN result ELSE @[m]]]
  BY DEF HandleAppendEntriesRPC, AfterAppend
<1> HIDE DEF result
<1>6. ASSUME NEW m \in Node
      PROVE  /\ DOMAIN responses'[m] \subseteq Node
             /\ \A k \in DOMAIN responses'[m] : responses'[m][k] \in AppendResult
  <2> DEFINE f == [k \in DOMAIN responses[l] \cup {n} |->
                     IF k = n THEN result ELSE responses[l][k]]
  <2>1. /\ DOMAIN responses[m] \subseteq Node
        /\ \A k \in DOMAIN responses[m] : responses[m][k] \in AppendResult
    BY DEF TypeOK
  <2>2. /\ DOMAIN responses[l] \subseteq Node
        /\ \A k \in DOMAIN responses[l] : responses[l][k] \in AppendResult
    BY <1>1 DEF TypeOK
  <2>3. DOMAIN f \subseteq Node /\ \A k \in DOMAIN f : f[k] \in AppendResult
    BY <1>4, <2>2
  <2>4. responses' = responses \/ responses' = [responses EXCEPT ![l] = f]
    BY <1>5
  <2> HIDE DEF f, l
  <2>5. responses'[m] = responses[m] \/ responses'[m] = f
    BY <1>1, <2>4 DEF TypeOK
  <2> QED BY <2>1, <2>3, <2>5
<1>7. DOMAIN responses' = Node
  BY <1>5 DEF TypeOK
<1> QED BY <1>3, <1>6, <1>7 DEF TypeOK, HandleAppendEntriesRPC

LEMMA AdvanceCommitIndexTyped ==
  ASSUME TypeOK, NEW n \in Node, AdvanceCommitIndex(n)
  PROVE  TypeOK'
<1>1. PICK i \in Int : configuration' = [configuration EXCEPT ![n].commitIndex = i]
  <2> DEFINE rs == responses[n]
  <2>1. PICK last \in DOMAIN rs : configuration' = [configuration EXCEPT ![n].commitIndex =
              IF Cardinality({m \in DOMAIN rs : rs[m].success}) >= MajorityOf(n)
              THEN rs[last].index ELSE 0]
    BY DEF AdvanceCommitIndex
  <2> DEFINE i == IF Cardinality({m \in DOMAIN rs : rs[m].success}) >= MajorityOf(n)
                  THEN rs[last].index ELSE 0
  <2>2. rs[last] \in AppendResult
    BY DEF TypeOK
  <2>3. rs[last].index \in Int
    BY <2>2 DEF AppendResult
  <2>4. i \in Int
    <3> HIDE DEF rs
    <3> QED BY <2>3
  <2>5. configuration' = [configuration EXCEPT ![n].commitIndex = i]
    BY <2>1
  <2> HIDE DEF i
  <2> WITNESS i \in Int
  <2> QED BY <2>5
<1> DEFINE d == [configuration[n] EXCEPT !.commitIndex = i]
<1>2. d \in Config /\ d.log # <<>>
  BY DEF TypeOK, Config
<1>3. configuration' = [configuration EXCEPT ![n] = d]
  BY <1>1
<1> HIDE DEF d
<1>4. configuration' \in [Node -> Config] /\ \A m \in Node : configuration'[m].log # <<>>
  BY <1>2, <1>3 DEF TypeOK
<1> QED BY <1>4 DEF TypeOK, AdvanceCommitIndex

LEMMA NextTyped == TypeOK /\ [Next]_vars => TypeOK'
<1> SUFFICES ASSUME TypeOK, [Next]_vars PROVE TypeOK'
  OBVIOUS
<1>1. ASSUME NEW n \in Node, StartElection(n) PROVE TypeOK'
  BY <1>1, StartElectionTyped
<1>2. ASSUME NEW n \in Node, BecomeLeader(n) PROVE TypeOK'
  BY <1>2, BecomeLeaderTyped
<1>3. ASSUME NEW n \in Node, Command(n) PROVE TypeOK'
  BY <1>3, CommandTyped
<1>4. ASSUME NEW n \in Node, SendAppendEntries(n) PROVE TypeOK'
  BY <1>4, SendAppendEntriesTyped
<1>5. ASSUME NEW n \in Node, AdvanceCommitIndex(n) PROVE TypeOK'
  BY <1>5, AdvanceCommitIndexTyped
<1>6. ASSUME NEW n \in Node, NEW rpc \in votes, HandleRequestVoteRPC(n, rpc) PROVE TypeOK'
  BY <1>6, HandleRequestVoteTyped
<1>7. ASSUME NEW n \in Node, NEW rpc \in appends, HandleAppendEntriesRPC(n, rpc)
      PROVE TypeOK'
  BY <1>7, HandleAppendEntriesTyped
<1>8. CASE UNCHANGED vars
  BY <1>8 DEF vars, TypeOK
<1> QED BY <1>1, <1>2, <1>3, <1>4, <1>5, <1>6, <1>7, <1>8 DEF Next

\* The configurations and the RPCs stay type correct, whatever arrives when: an
\* accepted AppendEntries leaves a log of entries that has a last one.
THEOREM TypeCorrect == Spec => []TypeOK
<1>1. Init => TypeOK
  BY InitTyped
<1>2. TypeOK /\ [Next]_vars => TypeOK'
  BY NextTyped
<1> QED BY <1>1, <1>2, PTL DEF Spec

----------------------------------------------------------------------------
(* Election safety.                                                        *)

\* A vote that was granted is of a term the voter has reached; while the voter is in
\* that term, it still follows and still has the candidate in votedFor.
GrantedHolds ==
  \A v, a \in Node, t \in Terms : <<v, t, a>> \in granted =>
    /\ t <= configuration[v].currentTerm
    /\ t = configuration[v].currentTerm =>
         configuration[v].votedFor = a /\ configuration[v].state = "follower"

\* A node votes for one node in a term.
OneVote ==
  \A v, a, b \in Node, t \in Terms :
    <<v, t, a>> \in granted /\ <<v, t, b>> \in granted => a = b

\* A node that asked for votes in a term gives none in it: it does not follow again
\* before the next term.
CandidatesHold ==
  \A rpc \in votes :
    /\ rpc.term <= configuration[rpc.candidateId].currentTerm
    /\ rpc.term = configuration[rpc.candidateId].currentTerm =>
         configuration[rpc.candidateId].state # "follower"
    /\ \A a \in Node : <<rpc.candidateId, rpc.term, a>> \notin granted

Elections == GrantedHolds /\ OneVote /\ CandidatesHold

LEMMA InitElections == Init => Elections
BY DEF Init, Elections, GrantedHolds, OneVote, CandidatesHold

\* A step that gives no vote and asks for none keeps the invariant if it keeps votedFor,
\* lowers no term and leaves the followers of a term as they are.
LEMMA ElectionsKept ==
  ASSUME TypeOK, TypeOK', Elections, votes' = votes, granted' = granted,
         \A v \in Node :
           /\ configuration'[v].votedFor = configuration[v].votedFor
           /\ configuration'[v].currentTerm >= configuration[v].currentTerm
           /\ configuration'[v].currentTerm = configuration[v].currentTerm =>
                (configuration'[v].state = "follower" <=> configuration[v].state = "follower")
  PROVE  Elections'
<1>1. \A v \in Node : configuration[v].currentTerm \in Int /\ configuration'[v].currentTerm \in Int
  BY RaftAssumption DEF TypeOK, Config, Terms
<1>2. \A t \in Terms : t \in Int
  BY RaftAssumption DEF Terms
<1>3. \A rpc \in votes : rpc.term \in Int /\ rpc.candidateId \in Node
  BY <1>2 DEF TypeOK, Vote
<1>4. GrantedHolds'
  <2> SUFFICES ASSUME NEW v \in Node, NEW a \in Node, NEW t \in Terms, <<v, t, a>> \in granted
               PROVE  /\ t <= configuration'[v].currentTerm
                      /\ t = configuration'[v].currentTerm =>
                           /\ configuration'[v].votedFor = a
                           /\ configuration'[v].state = "follower"
    BY DEF GrantedHolds
  <2>1. /\ t <= configuration[v].currentTerm
        /\ t = configuration[v].currentTerm =>
             configuration[v].votedFor = a /\ configuration[v].state = "follower"
    BY DEF Elections, GrantedHolds
  <2> QED BY <1>1, <1>2, <2>1
<1>5. OneVote'
  BY DEF Elections, OneVote
<1>6. CandidatesHold'
  <2> SUFFICES ASSUME NEW rpc \in votes
               PROVE  /\ rpc.term <= configuration'[rpc.candidateId].currentTerm
                      /\ rpc.term = configuration'[rpc.candidateId].currentTerm =>
                           configuration'[rpc.candidateId].state # "follower"
                      /\ \A a \in Node : <<rpc.candidateId, rpc.term, a>> \notin granted
    BY DEF CandidatesHold
  <2>1. /\ rpc.term <= configuration[rpc.candidateId].currentTerm
        /\ rpc.term = configuration[rpc.candidateId].currentTerm =>
             configuration[rpc.candidateId].state # "follower"
        /\ \A a \in Node : <<rpc.candidateId, rpc.term, a>> \notin granted
    BY DEF Elections, CandidatesHold
  <2> QED BY <1>1, <1>3, <2>1
<1> QED BY <1>4, <1>5, <1>6 DEF Elections

\* A node that starts an election is in a term in which it has no vote given.
LEMMA StartElectionElects ==
  ASSUME TypeOK, Elections, NEW n \in Node, StartElection(n)
  PROVE  Elections'
<1> DEFINE c == configuration[n]
           new == [term |-> c.currentTerm + 1, candidateId |-> n,
                   lastLogIndex |-> LastLogIndex(c), lastLogTerm |-> LastLogTerm(c)]
<1>1. \A v \in Node : configuration[v] \in Config /\ configuration[v].currentTerm \in Int
  BY RaftAssumption DEF TypeOK, Config, Terms
<1>2. \A t \in Terms : t \in Int
  BY RaftAssumption DEF Terms
<1>3. \A rpc \in votes : rpc.term \in Int /\ rpc.candidateId \in Node
  BY <1>2 DEF TypeOK, Vote
<1>4. granted' = granted /\ votes' = votes \cup {new}
  BY DEF StartElection
<1>5. \A v \in Node \ {n} : configuration'[v] = configuration[v]
  BY DEF StartElection, TypeOK
<1>6. /\ configuration'[n].currentTerm = c.currentTerm + 1
      /\ configuration'[n].state = "candidate"
  BY <1>1 DEF StartElection, TypeOK, Config
<1>7. new.term = c.currentTerm + 1 /\ new.candidateId = n
  OBVIOUS
<1> HIDE DEF new
<1>8. GrantedHolds'
  <2> SUFFICES ASSUME NEW v \in Node, NEW a \in Node, NEW t \in Terms, <<v, t, a>> \in granted
               PROVE  /\ t <= configuration'[v].currentTerm
                      /\ t = configuration'[v].currentTerm =>
                           /\ configuration'[v].votedFor = a
                           /\ configuration'[v].state = "follower"
    BY <1>4 DEF GrantedHolds
  <2>1. /\ t <= configuration[v].currentTerm
        /\ t = configuration[v].currentTerm =>
             configuration[v].votedFor = a /\ configuration[v].state = "follower"
    BY DEF Elections, GrantedHolds
  <2> QED BY <1>1, <1>2, <1>5, <1>6, <2>1
<1>9. OneVote'
  BY <1>4 DEF Elections, OneVote
<1>10. \A a \in Node : <<n, c.currentTerm + 1, a>> \notin granted
  <2> SUFFICES ASSUME NEW a \in Node, <<n, c.currentTerm + 1, a>> \in granted PROVE FALSE
    OBVIOUS
  <2>1. c.currentTerm + 1 \in Terms
    BY DEF TypeOK
  <2>2. c.currentTerm + 1 <= c.currentTerm
    BY <2>1 DEF Elections, GrantedHolds
  <2> QED BY <1>1, <2>2
<1>11. CandidatesHold'
  <2> SUFFICES ASSUME NEW rpc \in votes'
               PROVE  /\ rpc.term <= configuration'[rpc.candidateId].currentTerm
                      /\ rpc.term = configuration'[rpc.candidateId].currentTerm =>
                           configuration'[rpc.candidateId].state # "follower"
                      /\ \A a \in Node : <<rpc.candidateId, rpc.term, a>> \notin granted
    BY <1>4 DEF CandidatesHold
  <2>1. CASE rpc = new
    BY <1>1, <1>6, <1>7, <1>10, <2>1
  <2>2. CASE rpc \in votes
    <3>1. /\ rpc.term <= configuration[rpc.candidateId].currentTerm
          /\ rpc.term = configuration[rpc.candidateId].currentTerm =>
               configuration[rpc.candidateId].state # "follower"
          /\ \A a \in Node : <<rpc.candidateId, rpc.term, a>> \notin granted
      BY <2>2 DEF Elections, CandidatesHold
    <3> QED BY <1>1, <1>3, <1>5, <1>6, <2>2, <3>1
  <2> QED BY <1>4, <2>1, <2>2
<1> QED BY <1>8, <1>9, <1>11 DEF Elections

\* A vote goes to a node once a term, and from no node that asks for votes itself.
LEMMA HandleRequestVoteElects ==
  ASSUME TypeOK, TypeOK', Elections, NEW n \in Node, NEW rpc \in votes,
         HandleRequestVoteRPC(n, rpc)
  PROVE  Elections'
<1> DEFINE old == configuration[n]
           c == UpdateTerm(old, rpc.term)
           cand == rpc.candidateId
           vote == <<n, rpc.term, cand>>
<1>1. \A v \in Node : configuration[v] \in Config /\ configuration[v].currentTerm \in Int
  BY RaftAssumption DEF TypeOK, Config, Terms
<1>2. \A t \in Terms : t \in Int
  BY RaftAssumption DEF Terms
<1>3. \A r \in votes : r.term \in Terms /\ r.term \in Int /\ r.candidateId \in Node
  BY <1>2 DEF TypeOK, Vote
<1>4. votes' = votes /\ n # cand
  BY DEF HandleRequestVoteRPC
<1>5. /\ c \in Config /\ c.votedFor = old.votedFor
      /\ c.currentTerm >= old.currentTerm
      /\ c.currentTerm = old.currentTerm => c = old
      /\ c.currentTerm \in Int
  <2>1. rpc.term \in Terms /\ old \in Config /\ old.log # <<>>
    BY <1>3 DEF TypeOK
  <2>2. /\ c \in Config /\ c.votedFor = old.votedFor
        /\ c.currentTerm >= old.currentTerm
        /\ c.currentTerm = old.currentTerm => c = old
    BY <2>1, UpdateTermTyped
  <2> HIDE DEF c
  <2> QED BY <2>2, <1>2 DEF Config
<1>6. CASE ~GrantsVote(c, rpc)
  <2>1. configuration' = [configuration EXCEPT ![n] = c] /\ granted' = granted
    BY <1>6 DEF HandleRequestVoteRPC
  <2> HIDE DEF c
  <2>2. configuration'[n] = c /\ \A v \in Node \ {n} : configuration'[v] = configuration[v]
    BY <2>1 DEF TypeOK
  <2>3. \A v \in Node :
          /\ configuration'[v].votedFor = configuration[v].votedFor
          /\ configuration'[v].currentTerm >= configuration[v].currentTerm
          /\ configuration'[v].currentTerm = configuration[v].currentTerm =>
               (configuration'[v].state = "follower" <=> configuration[v].state = "follower")
    BY <1>1, <1>5, <2>2
  <2> QED BY <1>4, <2>1, <2>3, ElectionsKept
<1>7. CASE GrantsVote(c, rpc)
  <2> DEFINE d == [c EXCEPT !.votedFor = cand]
  <2>1. configuration' = [configuration EXCEPT ![n] = d] /\ granted' = granted \cup {vote}
    BY <1>7 DEF HandleRequestVoteRPC
  <2>2. /\ rpc.term = c.currentTerm /\ c.state = "follower"
        /\ c.votedFor \in {Nobody, cand}
    BY <1>7 DEF GrantsVote
  <2> HIDE DEF c
  <2>3. d.votedFor = cand /\ d.state = "follower" /\ d.currentTerm = c.currentTerm
    BY <1>5, <2>2 DEF Config
  <2> HIDE DEF d
  <2>4. configuration'[n] = d /\ \A v \in Node \ {n} : configuration'[v] = configuration[v]
    BY <2>1 DEF TypeOK
  <2>5. \A a \in Node : <<n, rpc.term, a>> \in granted => a = cand
    <3> SUFFICES ASSUME NEW a \in Node, <<n, rpc.term, a>> \in granted PROVE a = cand
      OBVIOUS
    <3>1. /\ rpc.term <= old.currentTerm
          /\ rpc.term = old.currentTerm => old.votedFor = a
      BY <1>3 DEF Elections, GrantedHolds
    <3>2. old.votedFor = a
      BY <1>1, <1>3, <1>5, <2>2, <3>1
    <3> QED BY <1>5, <2>2, <3>2, RaftAssumption
  <2>6. \A r \in votes : r.candidateId = n => r.term # rpc.term
    <3> SUFFICES ASSUME NEW r \in votes, r.candidateId = n, r.term = rpc.term PROVE FALSE
      OBVIOUS
    <3>1. r.term <= old.currentTerm /\ (r.term = old.currentTerm => old.state # "follower")
      BY DEF Elections, CandidatesHold
    <3> QED BY <1>1, <1>3, <1>5, <2>2, <3>1
  <2>7. GrantedHolds'
    <3> SUFFICES ASSUME NEW v \in Node, NEW a \in Node, NEW t \in Terms, <<v, t, a>> \in granted'
                 PROVE  /\ t <= configuration'[v].currentTerm
                        /\ t = configuration'[v].currentTerm =>
                             /\ configuration'[v].votedFor = a
                             /\ configuration'[v].state = "follower"
      BY DEF GrantedHolds
    <3>1. CASE <<v, t, a>> = vote
      BY <1>5, <2>2, <2>3, <2>4, <3>1
    <3>2. CASE <<v, t, a>> \in granted
      <4>1. /\ t <= configuration[v].currentTerm
            /\ t = configuration[v].currentTerm =>
                 configuration[v].votedFor = a /\ configuration[v].state = "follower"
        BY <3>2 DEF Elections, GrantedHolds
      <4>2. CASE v # n
        BY <2>4, <4>1, <4>2
      <4>3. CASE v = n
        <5>1. t <= d.currentTerm
          BY <1>1, <1>2, <1>5, <2>3, <4>1, <4>3
        <5>2. t = d.currentTerm => a = cand
          BY <2>2, <2>3, <2>5, <3>2, <4>3
        <5> QED BY <2>3, <2>4, <4>3, <5>1, <5>2
      <4> QED BY <4>2, <4>3
    <3> QED BY <2>1, <3>1, <3>2
  <2>8. OneVote'
    <3> SUFFICES ASSUME NEW v \in Node, NEW a \in Node, NEW b \in Node, NEW t \in Terms,
                        <<v, t, a>> \in granted', <<v, t, b>> \in granted'
                 PROVE  a = b
      BY DEF OneVote
    <3>1. CASE v = n /\ t = rpc.term
      <4>1. \A e \in Node : <<v, t, e>> \in granted' => e = cand
        BY <2>1, <2>5, <3>1
      <4> QED BY <4>1
    <3>2. CASE ~(v = n /\ t = rpc.term)
      <4>1. <<v, t, a>> \in granted /\ <<v, t, b>> \in granted
        BY <2>1, <3>2
      <4> QED BY <4>1 DEF Elections, OneVote
    <3> QED BY <3>1, <3>2
  <2>9. CandidatesHold'
    <3> SUFFICES ASSUME NEW r \in votes
                 PROVE  /\ r.term <= configuration'[r.candidateId].currentTerm
                        /\ r.term = configuration'[r.candidateId].currentTerm =>
                             configuration'[r.candidateId].state # "follower"
                        /\ \A a \in Node : <<r.candidateId, r.term, a>> \notin granted'
      BY <1>4 DEF CandidatesHold
    <3>1. /\ r.term <= configuration[r.candidateId].currentTerm
          /\ r.term = configuration[r.candidateId].currentTerm =>
               configuration[r.candidateId].state # "follower"
          /\ \A a \in Node : <<r.candidateId, r.term, a>> \notin granted
      BY DEF Elections, CandidatesHold
    <3>2. CASE r.candidateId # n
      BY <1>3, <2>1, <2>4, <3>1, <3>2
    <3>3. CASE r.candidateId = n
      <4>1. r.term # rpc.term
        BY <2>6, <3>3
      <4>2. r.term < d.currentTerm
        BY <1>1, <1>3, <1>5, <2>2, <2>3, <3>1, <3>3, <4>1
      <4>3. \A a \in Node : <<r.candidateId, r.term, a>> \notin granted'
        BY <2>1, <3>1, <4>1
      <4> QED BY <1>3, <2>2, <2>3, <2>4, <3>3, <4>2, <4>3
    <3> QED BY <3>2, <3>3
  <2> QED BY <2>7, <2>8, <2>9 DEF Elections
<1> QED BY <1>6, <1>7

LEMMA NextElections == TypeOK /\ Elections /\ [Next]_vars => Elections'
<1> SUFFICES ASSUME TypeOK, Elections, [Next]_vars PROVE Elections'
  OBVIOUS
<1>1. TypeOK'
  BY NextTyped
<1>2. \A v \in Node : configuration[v] \in Config /\ configuration[v].currentTerm \in Int
  BY RaftAssumption DEF TypeOK, Config, Terms
<1> DEFINE Kind(v) ==
             /\ configuration'[v].votedFor = configuration[v].votedFor
             /\ configuration'[v].currentTerm >= configuration[v].currentTerm
             /\ configuration'[v].currentTerm = configuration[v].currentTerm =>
                  (configuration'[v].state = "follower" <=> configuration[v].state = "follower")
<1>3. (\A v \in Node : Kind(v)) /\ votes' = votes /\ granted' = granted => Elections'
  BY <1>1, ElectionsKept
<1>4. ASSUME NEW n \in Node, StartElection(n) PROVE Elections'
  BY <1>4, StartElectionElects
<1>5. ASSUME NEW n \in Node, BecomeLeader(n) PROVE Elections'
  <2>1. ASSUME NEW v \in Node PROVE Kind(v)
    BY <1>2, <1>5 DEF BecomeLeader, TypeOK, Config
  <2> QED BY <1>3, <1>5, <2>1 DEF BecomeLeader
<1>6. ASSUME NEW n \in Node, Command(n) PROVE Elections'
  <2>1. ASSUME NEW v \in Node PROVE Kind(v)
    BY <1>2, <1>6 DEF Command, TypeOK, Config
  <2> QED BY <1>3, <1>6, <2>1 DEF Command
<1>7. ASSUME NEW n \in Node, SendAppendEntries(n) PROVE Elections'
  <2>1. ASSUME NEW v \in Node PROVE Kind(v)
    BY <1>2, <1>7 DEF SendAppendEntries
  <2> QED BY <1>3, <1>7, <2>1 DEF SendAppendEntries
<1>8. ASSUME NEW n \in Node, AdvanceCommitIndex(n) PROVE Elections'
  <2>1. PICK i : configuration' = [configuration EXCEPT ![n].commitIndex = i]
    BY <1>8 DEF AdvanceCommitIndex
  <2>2. ASSUME NEW v \in Node PROVE Kind(v)
    BY <1>2, <2>1 DEF TypeOK, Config
  <2> QED BY <1>3, <1>8, <2>2 DEF AdvanceCommitIndex
<1>9. ASSUME NEW n \in Node, NEW rpc \in votes, HandleRequestVoteRPC(n, rpc)
      PROVE  Elections'
  BY <1>1, <1>9, HandleRequestVoteElects
<1>10. ASSUME NEW n \in Node, NEW rpc \in appends, HandleAppendEntriesRPC(n, rpc)
       PROVE  Elections'
  <2> DEFINE d == AfterAppend(n, rpc)
  <2>1. /\ d \in Config /\ d.votedFor = configuration[n].votedFor
        /\ d.currentTerm >= configuration[n].currentTerm
        /\ d.currentTerm = configuration[n].currentTerm => d.state = configuration[n].state
    BY AfterAppendTyped
  <2>2. configuration' = [configuration EXCEPT ![n] = d]
    BY <1>10 DEF HandleAppendEntriesRPC, AfterAppend
  <2> HIDE DEF d
  <2>3. ASSUME NEW v \in Node PROVE Kind(v)
    BY <1>2, <2>1, <2>2 DEF TypeOK
  <2> QED BY <1>3, <1>10, <2>3 DEF HandleAppendEntriesRPC
<1>11. CASE UNCHANGED vars
  <2>1. ASSUME NEW v \in Node PROVE Kind(v)
    BY <1>2, <1>11 DEF vars
  <2> QED BY <1>3, <1>11, <2>1 DEF vars
<1> QED BY <1>4, <1>5, <1>6, <1>7, <1>8, <1>9, <1>10, <1>11 DEF Next

\* Two majorities have a node in common, and it voted once.
LEMMA ElectionsElectOne == TypeOK /\ Elections => ElectionSafety
<1> SUFFICES ASSUME TypeOK, Elections, NEW t \in Terms, NEW a \in Node, NEW b \in Node,
                    \E rpc \in votes : rpc.term = t /\ rpc.candidateId = a,
                    \E rpc \in votes : rpc.term = t /\ rpc.candidateId = b,
                    Majority(Voters(a, t)), Majority(Voters(b, t))
             PROVE  a = b
  BY DEF ElectionSafety
<1>1. Voters(a, t) \subseteq Node /\ Voters(b, t) \subseteq Node
  BY DEF Voters
<1> DEFINE S == Voters(a, t)
           T == Voters(b, t)
<1>2. S \cap T # {}
  <2>1. 2 * Cardinality(S) > Cardinality(Node) /\ 2 * Cardinality(T) > Cardinality(Node)
    BY DEF Majority
  <2> HIDE DEF S, T
  <2>2. IsFiniteSet(S) /\ IsFiniteSet(T) /\ IsFiniteSet(Node)
    BY <1>1, RaftAssumption, FS_Subset DEF S, T
  <2>3. Cardinality(S) \in Nat /\ Cardinality(T) \in Nat /\ Cardinality(Node) \in Nat
    BY <2>2, FS_CardinalityType
  <2>4. Cardinality(S) + Cardinality(T) > Cardinality(Node)
    BY <2>1, <2>3
  <2> QED BY <1>1, <2>2, <2>4, FS_MajoritiesIntersect DEF S, T
<1>3. PICK m \in Node : m \in S /\ m \in T
  BY <1>1, <1>2
<1>4. \A e \in Node : <<a, t, e>> \notin granted /\ <<b, t, e>> \notin granted
  BY DEF Elections, CandidatesHold
<1>5. CASE m = a \/ m = b
  BY <1>3, <1>4, <1>5 DEF Voters
<1>6. CASE m # a /\ m # b
  <2>1. <<m, t, a>> \in granted /\ <<m, t, b>> \in granted
    BY <1>3, <1>6 DEF Voters
  <2> QED BY <2>1 DEF Elections, OneVote
<1> QED BY <1>5, <1>6

\* At most one node has the votes of a majority of the nodes in a term, for any number
\* of nodes and terms and however the RPCs are delayed or repeated.
THEOREM ElectionSafe == Spec => []ElectionSafety
<1>1. Init => TypeOK /\ Elections
  BY InitTyped, InitElections
<1>2. TypeOK /\ Elections /\ [Next]_vars => (TypeOK /\ Elections)'
  BY NextTyped, NextElections
<1>3. TypeOK /\ Elections => ElectionSafety
  BY ElectionsElectOne
<1> QED BY <1>1, <1>2, <1>3, PTL DEF Spec

----------------------------------------------------------------------------
(* Log matching.  The logs that nodes ever had match, two by two; so do an *)
(* AppendEntries that is still on its way and whatever log it meets.       *)

Matches(k, l) ==
  \A i \in 1..Len(k) : i <= Len(l) /\ k[i].term = l[i].term =>
    \A j \in 1..i : k[j] = l[j]

\* n asked for the votes of the term t and has a majority of them.
Elected(n, t) ==
  /\ \E rpc \in votes : rpc.term = t /\ rpc.candidateId = n
  /\ Majority(Voters(n, t))

\* n leads in the term t, or has left it.
Presided(n, t) ==
  \/ t < configuration[n].currentTerm
  \/ t = configuration[n].currentTerm /\ configuration[n].state = "leader"

\* A node that does not follow asked for the votes of its term, which is not the first;
\* a leader was given them.
Campaigns ==
  /\ \A rpc \in votes : rpc.term > 0
  /\ \A n \in Node :
       /\ configuration[n].state # "follower" =>
            \E rpc \in votes : rpc.term = configuration[n].currentTerm /\ rpc.candidateId = n
       /\ configuration[n].state = "leader" =>
            Majority(Voters(n, configuration[n].currentTerm))

\* The RPC has a part of l.
PartOf(rpc, l) ==
  /\ rpc.prevLogIndex + 1 \in 1..Len(l)
  /\ l[rpc.prevLogIndex + 1].term = rpc.prevLogTerm
  /\ rpc.entries = SubSeq(l, rpc.prevLogIndex + 2, Len(l))

\* U has the logs of the nodes and those that the RPCs were taken from.  Entries of a
\* term come from the one node that led in it, and while it does it has all of them.
Logs(U) ==
  /\ \A k, l \in U : Matches(k, l)
  /\ \A n \in Node : configuration[n].log \in U
  /\ \A rpc \in appends : \E l \in U : PartOf(rpc, l)
  /\ \A k \in U : \A i \in 1..Len(k) : k[i].term > 0 =>
       \E n \in Node : Elected(n, k[i].term) /\ Presided(n, k[i].term)
  /\ \A n \in Node : configuration[n].state = "leader" =>
       \A k \in U : \A i \in 1..Len(k) :
         k[i].term = configuration[n].currentTerm => i <= Len(configuration[n].log)

Peers == Campaigns /\ \E U \in SUBSET Seq(Entry) : Logs(U)

LEMMA PeersMatch == TypeOK /\ Peers => LogMatching
<1> SUFFICES ASSUME TypeOK, Peers, NEW a \in Node, NEW b \in Node,
                    NEW i \in DOMAIN configuration[a].log \cap DOMAIN configuration[b].log,
                    configuration[a].log[i].term = configuration[b].log[i].term
             PROVE  SubSeq(configuration[a].log, 1, i) = SubSeq(configuration[b].log, 1, i)
  BY DEF LogMatching
<1> DEFINE k == configuration[a].log
           l == configuration[b].log
<1>1. k \in Seq(Entry) /\ l \in Seq(Entry)
  BY DEF TypeOK, Config
<1>2. Matches(k, l)
  BY DEF Peers, Logs
<1> HIDE DEF k, l
<1>3. i \in 1..Len(k) /\ i <= Len(l) /\ k[i].term = l[i].term /\ i \in Int
  BY <1>1, LenProperties DEF k, l
<1>4. \A j \in 1..i : k[j] = l[j] /\ k[j] \in Entry /\ l[j] \in Entry
  BY <1>1, <1>2, <1>3, LenProperties, ElementOfSeq DEF Matches
<1>5. /\ SubSeq(k, 1, i) \in Seq(Entry) /\ Len(SubSeq(k, 1, i)) = i
      /\ \A j \in 1..i : SubSeq(k, 1, i)[j] = k[j]
  BY <1>3, <1>4, SubSeqProperties
<1>6. /\ SubSeq(l, 1, i) \in Seq(Entry) /\ Len(SubSeq(l, 1, i)) = i
      /\ \A j \in 1..i : SubSeq(l, 1, i)[j] = l[j]
  BY <1>3, <1>4, SubSeqProperties
<1>7. SubSeq(k, 1, i) = SubSeq(l, 1, i)
  BY <1>4, <1>5, <1>6, SeqEqual
<1> QED BY <1>7 DEF k, l

LEMMA InitPeers == Init => Peers
<1> SUFFICES ASSUME Init PROVE Peers
  OBVIOUS
<1> DEFINE e == [term |-> 0, command |-> Nobody]
           U == {<<e>>}
<1>1. e \in Entry /\ e.term = 0
  BY RaftAssumption DEF Entry, Terms
<1> HIDE DEF e
<1>2. U \in SUBSET Seq(Entry)
  BY <1>1
<1>3. Campaigns
  BY DEF Init, Campaigns
<1>4. \A n \in Node : /\ configuration[n].log = <<e>>
                      /\ configuration[n].state = "follower"
  BY DEF Init, e
<1>5. Len(<<e>>) = 1 /\ <<e>>[1] = e
  OBVIOUS
<1>6. Logs(U)
  BY <1>1, <1>4, <1>5 DEF Init, Logs, Matches
<1> QED BY <1>2, <1>3, <1>6 DEF Peers

\* Votes are not taken back, so a node that was elected in a term stays so.
LEMMA ElectedStays ==
  ASSUME NEW n \in Node, NEW t, votes \subseteq votes', granted \subseteq granted',
         Majority(Voters(n, t))
  PROVE  Majority(Voters(n, t))'
<1> DEFINE S == Voters(n, t)
           T == Voters(n, t)'
<1>1. S \subseteq T /\ T \subseteq Node
  BY DEF Voters
<1>2. 2 * Cardinality(S) > Cardinality(Node)
  BY DEF Majority
<1> HIDE DEF S, T
<1>3. IsFiniteSet(T) /\ Cardinality(S) <= Cardinality(T) /\ IsFiniteSet(S)
  BY <1>1, RaftAssumption, FS_Subset
<1>4. Cardinality(S) \in Nat /\ Cardinality(T) \in Nat /\ Cardinality(Node) \in Nat
  BY <1>3, RaftAssumption, FS_CardinalityType
<1>5. 2 * Cardinality(T) > Cardinality(Node)
  BY <1>2, <1>3, <1>4
<1> QED BY <1>5 DEF Majority, T

\* A node keeps to the logs of U: it has one of them, does not go back to an earlier
\* term, and leads after the step only if it led before, with the same log.
KeepsTo(U, n) ==
  /\ configuration'[n].log \in U
  /\ configuration'[n].currentTerm >= configuration[n].currentTerm
  /\ configuration'[n].currentTerm = configuration[n].currentTerm /\
     configuration[n].state = "leader" => configuration'[n].state = "leader"
  /\ configuration'[n].state = "leader" =>
       /\ configuration[n].state = "leader"
       /\ configuration'[n].currentTerm = configuration[n].currentTerm
       /\ configuration'[n].log = configuration[n].log

\* A step that sends no entries and makes no leader, and that leaves to each node a log
\* that there was, keeps the logs.
LEMMA LogsKept ==
  ASSUME TypeOK, TypeOK', NEW U \in SUBSET Seq(Entry), Logs(U),
         appends' = appends, votes \subseteq votes', granted \subseteq granted',
         \A n \in Node : KeepsTo(U, n)
  PROVE  Logs(U)'
<1>1. \A n \in Node : configuration[n].currentTerm \in Int /\ configuration'[n].currentTerm \in Int
  BY RaftAssumption DEF TypeOK, Config, Terms
<1>2. ASSUME NEW k \in U, NEW i \in 1..Len(k), k[i].term > 0
      PROVE  \E n \in Node : Elected(n, k[i].term)' /\ Presided(n, k[i].term)'
  <2>1. PICK n \in Node : Elected(n, k[i].term) /\ Presided(n, k[i].term)
    BY <1>2 DEF Logs
  <2>2. k[i].term \in Int
    <3>1. k[i] \in Entry
      BY <1>2, ElementOfSeq
    <3> QED BY <3>1, RaftAssumption DEF Entry, Terms
  <2>3. Elected(n, k[i].term)'
    BY <2>1, ElectedStays DEF Elected
  <2>4. Presided(n, k[i].term)'
    BY <1>1, <2>1, <2>2 DEF Presided, KeepsTo
  <2> QED BY <2>3, <2>4
<1>3. \A k, l \in U : Matches(k, l)
  BY DEF Logs
<1>4. \A rpc \in appends : \E l \in U : PartOf(rpc, l)
  BY DEF Logs
<1>5. \A n \in Node : configuration'[n].state = "leader" =>
       \A k \in U : \A i \in 1..Len(k) :
         k[i].term = configuration'[n].currentTerm => i <= Len(configuration'[n].log)
  BY DEF Logs, KeepsTo
<1> QED BY <1>2, <1>3, <1>4, <1>5 DEF Logs, Matches, PartOf, KeepsTo

\* The same for the votes: a step that makes no candidate and no leader.
LEMMA CampaignsKept ==
  ASSUME TypeOK, TypeOK', Campaigns, votes' = votes, granted \subseteq granted',
         \A n \in Node : configuration'[n].state # "follower" =>
           /\ configuration'[n].state = configuration[n].state
           /\ configuration'[n].currentTerm = configuration[n].currentTerm
  PROVE  Campaigns'
<1>1. ASSUME NEW n \in Node, configuration'[n].state # "follower"
      PROVE  /\ \E rpc \in votes : rpc.term = configuration'[n].currentTerm
                                   /\ rpc.candidateId = n
             /\ configuration'[n].state = "leader" =>
                  Majority(Voters(n, configuration[n].currentTerm))'
  <2> DEFINE t == configuration[n].currentTerm
  <2>1. configuration'[n].state = configuration[n].state
        /\ configuration'[n].currentTerm = t
    BY <1>1
  <2>2. configuration[n].state = "leader" => Majority(Voters(n, t))
    BY DEF Campaigns
  <2>3. PICK u : u = t
    OBVIOUS
  <2>4. configuration[n].state = "leader" => Majority(Voters(n, u))'
    BY <2>2, <2>3, ElectedStays
  <2>5. u = t'
    BY <2>1, <2>3
  <2> QED BY <1>1, <2>1, <2>4, <2>5 DEF Campaigns
<1> QED BY <1>1 DEF Campaigns

LEMMA StartElectionMatches ==
  ASSUME TypeOK, TypeOK', Peers, NEW n \in Node, StartElection(n)
  PROVE  Peers'
<1> DEFINE c == configuration[n]
<1>1. c \in Config /\ c.currentTerm \in Int /\ c.currentTerm >= 0
  BY RaftAssumption DEF TypeOK, Config, Terms
<1>2. /\ configuration'[n].currentTerm = c.currentTerm + 1
      /\ configuration'[n].state = "candidate"
      /\ configuration'[n].log = c.log
      /\ \A m \in Node \ {n} : configuration'[m] = configuration[m]
  BY <1>1 DEF StartElection, TypeOK, Config
<1>3. /\ \E rpc \in votes' : rpc.term = c.currentTerm + 1 /\ rpc.candidateId = n
      /\ \A rpc \in votes' : rpc \in votes \/ rpc.term = c.currentTerm + 1
      /\ votes \subseteq votes' /\ granted' = granted /\ appends' = appends
  <2> DEFINE new == [term |-> c.currentTerm + 1, candidateId |-> n,
                     lastLogIndex |-> LastLogIndex(c), lastLogTerm |-> LastLogTerm(c)]
  <2>1. /\ votes' = votes \cup {new} /\ granted' = granted /\ appends' = appends
        /\ new.term = c.currentTerm + 1 /\ new.candidateId = n
    BY DEF StartElection
  <2> HIDE DEF new
  <2> QED BY <2>1
<1>4. Campaigns'
  <2>1. \A rpc \in votes' : rpc.term > 0
    BY <1>1, <1>3 DEF Peers, Campaigns
  <2>2. ASSUME NEW m \in Node
        PROVE  /\ configuration'[m].state # "follower" =>
                    \E rpc \in votes' : rpc.term = configuration'[m].currentTerm
                                        /\ rpc.candidateId = m
               /\ configuration'[m].state = "leader" =>
                    Majority(Voters(m, configuration[m].currentTerm))'
    <3>1. CASE m = n
      BY <1>2, <1>3, <3>1
    <3>2. CASE m # n
      BY <1>2, <1>3, <3>2 DEF Peers, Campaigns, Voters
    <3> QED BY <3>1, <3>2
  <2> QED BY <2>1, <2>2 DEF Campaigns
<1>5. PICK U \in SUBSET Seq(Entry) : Logs(U)
  BY DEF Peers
<1>6. \A m \in Node : configuration[m].log \in U
  BY <1>5 DEF Logs
<1>7. \A m \in Node : configuration[m].currentTerm \in Int
  BY RaftAssumption DEF TypeOK, Config, Terms
<1>8. ASSUME NEW m \in Node PROVE KeepsTo(U, m)
  <2>1. CASE m = n
    BY <1>1, <1>2, <1>6, <2>1 DEF KeepsTo
  <2>2. CASE m # n
    BY <1>2, <1>6, <1>7, <2>2 DEF KeepsTo
  <2> QED BY <2>1, <2>2
<1>9. Logs(U)'
  BY <1>3, <1>5, <1>8, LogsKept
<1> QED BY <1>4, <1>9 DEF Peers

\* A step of one node that follows the term of an RPC, if that is later, keeps its state in
\* its own term and has a log that there was.
LEMMA FollowKept ==
  ASSUME TypeOK, TypeOK', Campaigns, NEW U \in SUBSET Seq(Entry), Logs(U),
         NEW n \in Node, NEW d, configuration' = [configuration EXCEPT ![n] = d],
         d.log \in U, d.currentTerm >= configuration[n].currentTerm,
         d.currentTerm = configuration[n].currentTerm => d.state = configuration[n].state,
         d.currentTerm # configuration[n].currentTerm => d.state = "follower",
         d.state = "leader" => d.log = configuration[n].log,
         votes' = votes, appends' = appends, granted \subseteq granted'
  PROVE  Peers'
<1>1. configuration'[n] = d /\ \A m \in Node \ {n} : configuration'[m] = configuration[m]
  BY DEF TypeOK
<1>2. \A m \in Node : configuration[m].log \in U
  BY DEF Logs
<1>3. \A m \in Node : configuration[m].currentTerm \in Int
  BY RaftAssumption DEF TypeOK, Config, Terms
<1>4. ASSUME NEW m \in Node PROVE KeepsTo(U, m)
  <2>1. CASE m = n
    BY <1>1, <1>3, <2>1 DEF KeepsTo
  <2>2. CASE m # n
    BY <1>1, <1>2, <1>3, <2>2 DEF KeepsTo
  <2> QED BY <2>1, <2>2
<1>5. \A m \in Node : configuration'[m].state # "follower" =>
           /\ configuration'[m].state = configuration[m].state
           /\ configuration'[m].currentTerm = configuration[m].currentTerm
  BY <1>1
<1>6. Logs(U)'
  BY <1>4, LogsKept
<1>7. Campaigns'
  BY <1>5, CampaignsKept
<1> QED BY <1>6, <1>7 DEF Peers

LEMMA UpdateTermFollows ==
  ASSUME NEW c \in Config, NEW t \in Terms
  PROVE  UpdateTerm(c, t).currentTerm # c.currentTerm => UpdateTerm(c, t).state = "follower"
BY DEF UpdateTerm, Config

LEMMA HandleRequestVoteMatches ==
  ASSUME TypeOK, TypeOK', Peers, NEW n \in Node, NEW rpc \in votes,
         HandleRequestVoteRPC(n, rpc)
  PROVE  Peers'
<1> DEFINE old == configuration[n]
           c == UpdateTerm(old, rpc.term)
<1>1. old \in Config /\ old.log # <<>> /\ rpc.term \in Terms
  BY DEF TypeOK, Vote
<1>2. /\ c \in Config /\ c.log = old.log
      /\ c.currentTerm >= old.currentTerm
      /\ c.currentTerm = old.currentTerm => c = old
      /\ c.currentTerm # old.currentTerm => c.state = "follower"
  BY <1>1, UpdateTermTyped, UpdateTermFollows
<1>3. PICK U \in SUBSET Seq(Entry) : Logs(U)
  BY DEF Peers
<1>4. old.log \in U /\ Campaigns
  BY <1>3 DEF Logs, Peers
<1>5. PICK d : /\ configuration' = [configuration EXCEPT ![n] = d]
               /\ d = c \/ d = [c EXCEPT !.votedFor = rpc.candidateId]
  BY DEF HandleRequestVoteRPC
<1> HIDE DEF c
<1>6. d.log = c.log /\ d.currentTerm = c.currentTerm /\ d.state = c.state
  BY <1>2, <1>5 DEF Config
<1>7. votes' = votes /\ appends' = appends /\ granted \subseteq granted'
  BY DEF HandleRequestVoteRPC
<1> QED BY <1>2, <1>3, <1>4, <1>5, <1>6, <1>7, FollowKept

\* A term that a node comes to lead has no entries yet: they would be those of the one
\* node that is elected in it, which leads already or has left the term.
LEMMA BecomeLeaderMatches ==
  ASSUME TypeOK, TypeOK', ElectionSafety, Peers, NEW n \in Node, BecomeLeader(n)
  PROVE  Peers'
<1> DEFINE c == configuration[n]
           t == c.currentTerm
<1>1. PICK U \in SUBSET Seq(Entry) : Logs(U)
  BY DEF Peers
<1>2. \A m \in Node : configuration[m] \in Config /\ configuration[m].currentTerm \in Int
                      /\ configuration[m].currentTerm \in Terms
  BY RaftAssumption DEF TypeOK, Config, Terms
<1>3. /\ configuration'[n].currentTerm = t /\ configuration'[n].log = c.log
      /\ configuration'[n].state = "leader"
      /\ \A m \in Node \ {n} : configuration'[m] = configuration[m]
      /\ votes' = votes /\ granted' = granted /\ appends' = appends
  BY <1>2 DEF BecomeLeader, TypeOK, Config
<1>4. Elected(n, t) /\ t > 0 /\ c.state = "candidate"
  BY DEF BecomeLeader, Peers, Campaigns, Elected
<1>5. ASSUME NEW k \in U, NEW i \in 1..Len(k), k[i].term = t PROVE FALSE
  <2>1. PICK m \in Node : Elected(m, t) /\ Presided(m, t)
    BY <1>1, <1>4, <1>5 DEF Logs
  <2>2. m = n
    BY <1>2, <1>4, <2>1 DEF ElectionSafety, Elected
  <2> QED BY <1>2, <1>4, <2>1, <2>2 DEF Presided
<1>6. Campaigns'
  <2>1. ASSUME NEW m \in Node
        PROVE  /\ configuration'[m].state # "follower" =>
                    \E rpc \in votes : rpc.term = configuration'[m].currentTerm
                                       /\ rpc.candidateId = m
               /\ configuration'[m].state = "leader" =>
                    Majority(Voters(m, configuration[m].currentTerm))'
    <3>1. CASE m = n
      BY <1>3, <1>4, <3>1 DEF Elected, Voters
    <3>2. CASE m # n
      BY <1>3, <3>2 DEF Peers, Campaigns, Voters
    <3> QED BY <3>1, <3>2
  <2> QED BY <1>3, <2>1 DEF Peers, Campaigns
<1>7. ASSUME NEW k \in U, NEW i \in 1..Len(k), k[i].term > 0
      PROVE  \E m \in Node : Elected(m, k[i].term)' /\ Presided(m, k[i].term)'
  <2>1. PICK m \in Node : Elected(m, k[i].term) /\ Presided(m, k[i].term)
    BY <1>1, <1>7 DEF Logs
  <2>2. Elected(m, k[i].term)'
    BY <1>3, <2>1, ElectedStays DEF Elected
  <2>3. Presided(m, k[i].term)'
    BY <1>3, <2>1 DEF Presided
  <2> QED BY <2>2, <2>3
<1>8. ASSUME NEW m \in Node, configuration'[m].state = "leader",
             NEW k \in U, NEW i \in 1..Len(k), k[i].term = configuration'[m].currentTerm
      PROVE  i <= Len(configuration'[m].log)
  <2>1. CASE m = n
    BY <1>3, <1>5, <1>8, <2>1
  <2>2. CASE m # n
    BY <1>1, <1>3, <1>8, <2>2 DEF Logs
  <2> QED BY <2>1, <2>2
<1>9. \A m \in Node : configuration'[m].log \in U
  BY <1>1, <1>3 DEF Logs
<1>10. /\ \A k, l \in U : Matches(k, l)
       /\ \A rpc \in appends : \E l \in U : PartOf(rpc, l)
  BY <1>1 DEF Logs
<1>11. Logs(U)'
  BY <1>3, <1>7, <1>8, <1>9, <1>10 DEF Logs, Matches, PartOf
<1> QED BY <1>6, <1>11 DEF Peers

\* A leader has all entries of its term, so the one it adds is at an index where no log has
\* another.
LEMMA CommandMatches ==
  ASSUME TypeOK, TypeOK', ElectionSafety, Peers, NEW n \in Node, Command(n)
  PROVE  Peers'
<1> DEFINE c == configuration[n]
           t == c.currentTerm
           e == [term |-> t, command |-> n]
           new == Append(c.log, e)
<1>1. PICK U \in SUBSET Seq(Entry) : Logs(U)
  BY DEF Peers
<1>2. \A m \in Node : configuration[m] \in Config /\ configuration[m].currentTerm \in Int
                      /\ configuration[m].currentTerm \in Terms
  BY RaftAssumption DEF TypeOK, Config, Terms
<1>3. /\ configuration'[n].currentTerm = t /\ configuration'[n].log = new
      /\ configuration'[n].state = "leader" /\ c.state = "leader"
      /\ \A m \in Node \ {n} : configuration'[m] = configuration[m]
      /\ votes' = votes /\ granted' = granted /\ appends' = appends
  BY <1>2 DEF Command, TypeOK, Config
<1>4. Elected(n, t) /\ t > 0
  BY <1>3 DEF Peers, Campaigns, Elected
<1>5. c.log \in U /\ c.log \in Seq(Entry) /\ e \in Entry /\ e.term = t
  BY <1>1, <1>2 DEF Logs, Entry
<1> HIDE DEF e
<1>6. /\ new \in Seq(Entry) /\ Len(c.log) \in Nat /\ Len(new) = Len(c.log) + 1
      /\ \A i \in 1..Len(c.log) : new[i] = c.log[i]
      /\ new[Len(c.log) + 1] = e
  BY <1>5, AppendProperties, LenProperties
<1> DEFINE V == U \cup {new}
           top == Len(c.log) + 1
<1> HIDE DEF new
<1>7. \A k \in U : Len(k) \in Nat /\ \A i \in 1..Len(k) : k[i].term \in Int
  <2> SUFFICES ASSUME NEW k \in U, NEW i \in 1..Len(k) PROVE k[i].term \in Int
    BY LenProperties
  <2>1. k[i] \in Entry
    BY ElementOfSeq
  <2> QED BY <2>1, RaftAssumption DEF Entry, Terms
<1>8. ASSUME NEW k \in U, NEW i \in 1..Len(k), k[i].term = t PROVE i < top
  BY <1>1, <1>3, <1>6, <1>8 DEF Logs
<1>9. ASSUME NEW k \in U PROVE Matches(k, new) /\ Matches(new, k)
  <2>1. Matches(k, c.log) /\ Matches(c.log, k)
    BY <1>1, <1>5 DEF Logs
  <2>2. ASSUME NEW i \in 1..Len(k), i <= Len(new), k[i].term = new[i].term
        PROVE  \A j \in 1..i : k[j] = new[j]
    <3>1. i # top
      BY <1>5, <1>6, <1>8, <2>2
    <3>2. i \in 1..Len(c.log)
      BY <1>6, <1>7, <2>2, <3>1
    <3>3. new[i] = c.log[i] /\ i <= Len(c.log)
      BY <1>6, <3>2
    <3>4. \A j \in 1..i : k[j] = c.log[j]
      BY <2>1, <2>2, <3>3 DEF Matches
    <3>5. \A j \in 1..i : j \in 1..Len(c.log)
      BY <1>6, <3>2
    <3> QED BY <1>6, <3>4, <3>5
  <2>3. Matches(k, new)
    BY <2>2 DEF Matches
  <2>4. ASSUME NEW i \in 1..Len(new), i <= Len(k), new[i].term = k[i].term
        PROVE  \A j \in 1..i : new[j] = k[j]
    <3>1. i \in 1..Len(k) /\ i <= Len(new)
      BY <1>6, <1>7, <2>4
    <3> QED BY <2>2, <2>4, <3>1
  <2>5. Matches(new, k)
    BY <2>4 DEF Matches
  <2> QED BY <2>3, <2>5
<1>10. \A k, l \in V : Matches(k, l)
  <2>1. Matches(new, new)
    BY DEF Matches
  <2>2. \A k, l \in U : Matches(k, l)
    BY <1>1 DEF Logs
  <2> QED BY <1>9, <2>1, <2>2
<1>11. \A m \in Node : configuration'[m].log \in V
  BY <1>1, <1>3 DEF Logs
<1>12. \A rpc \in appends : \E l \in V : PartOf(rpc, l)
  BY <1>1 DEF Logs
<1>13. ASSUME NEW k \in V, NEW i \in 1..Len(k), k[i].term > 0
       PROVE  \E m \in Node : Elected(m, k[i].term)' /\ Presided(m, k[i].term)'
  <2>1. ASSUME NEW u, NEW m \in Node, Elected(m, u), Presided(m, u)
        PROVE  Elected(m, u)' /\ Presided(m, u)'
    BY <1>3, <2>1, ElectedStays DEF Elected, Presided
  <2>2. ASSUME NEW l \in U, NEW j \in 1..Len(l), l[j].term > 0
        PROVE  \E m \in Node : Elected(m, l[j].term)' /\ Presided(m, l[j].term)'
    <3>1. PICK m \in Node : Elected(m, l[j].term) /\ Presided(m, l[j].term)
      BY <1>1, <2>2 DEF Logs
    <3> QED BY <2>1, <3>1
  <2>3. CASE k \in U
    BY <1>13, <2>2, <2>3
  <2>4. CASE k = new
    <3>1. CASE i \in 1..Len(c.log)
      BY <1>5, <1>6, <1>13, <2>2, <2>4, <3>1
    <3>2. CASE i = top
      <4>1. PICK u : u = k[i].term
        OBVIOUS
      <4>2. u = t
        BY <1>5, <1>6, <2>4, <3>2, <4>1
      <4>3. Presided(n, u) /\ Elected(n, u)
        BY <1>3, <1>4, <4>2 DEF Presided
      <4> QED BY <2>1, <4>1, <4>3
    <3> QED BY <1>6, <2>4, <3>1, <3>2
  <2> QED BY <2>3, <2>4
<1>14. ASSUME NEW m \in Node, configuration'[m].state = "leader",
              NEW k \in V, NEW i \in 1..Len(k), k[i].term = configuration'[m].currentTerm
       PROVE  i <= Len(configuration'[m].log)
  <2>1. CASE m = n /\ k \in U
    BY <1>3, <1>6, <1>7, <1>8, <1>14, <2>1
  <2>2. CASE m = n /\ k = new
    BY <1>3, <1>6, <1>14, <2>2
  <2>3. CASE m # n /\ k \in U
    BY <1>1, <1>3, <1>14, <2>3 DEF Logs
  <2>4. CASE m # n /\ k = new
    <3>1. configuration[m].state = "leader" /\ k[i].term = configuration[m].currentTerm
          /\ configuration'[m].log = configuration[m].log
      BY <1>3, <1>14, <2>4
    <3>2. CASE i \in 1..Len(c.log)
      BY <1>1, <1>5, <1>6, <2>4, <3>1, <3>2 DEF Logs
    <3>3. CASE i = top
      <4>1. configuration[m].currentTerm = t
        BY <1>5, <1>6, <2>4, <3>1, <3>3
      <4>2. Elected(m, t)
        BY <3>1, <4>1 DEF Peers, Campaigns, Elected
      <4>3. m = n
        BY <1>2, <1>4, <4>2 DEF ElectionSafety, Elected
      <4> QED BY <2>4, <4>3
    <3> QED BY <1>6, <1>14, <2>4, <3>2, <3>3
  <2> QED BY <2>1, <2>2, <2>3, <2>4
<1>15. PICK W : W = V
  OBVIOUS
<1> HIDE DEF V
<1>18. Logs(W)'
  <2>1. \A k, l \in W : Matches(k, l)
    BY <1>10, <1>15
  <2>2. \A m \in Node : configuration'[m].log \in W
    BY <1>11, <1>15
  <2>3. \A rpc \in appends' : \E l \in W : PartOf(rpc, l)
    BY <1>3, <1>12, <1>15
  <2>4. \A k \in W : \A i \in 1..Len(k) : k[i].term > 0 =>
          \E m \in Node : Elected(m, k[i].term)' /\ Presided(m, k[i].term)'
    BY <1>13, <1>15
  <2>5. \A m \in Node : configuration'[m].state = "leader" =>
          \A k \in W : \A i \in 1..Len(k) :
            k[i].term = configuration'[m].currentTerm => i <= Len(configuration'[m].log)
    BY <1>14, <1>15
  <2> QED BY <2>1, <2>2, <2>3, <2>4, <2>5 DEF Logs, Matches, PartOf
<1>16. Campaigns'
  <2>1. \A m \in Node : configuration'[m].state # "follower" =>
           /\ configuration'[m].state = configuration[m].state
           /\ configuration'[m].currentTerm = configuration[m].currentTerm
    BY <1>3
  <2> QED BY <1>3, <2>1, CampaignsKept DEF Peers
<1>17. W \in SUBSET Seq(Entry)
  BY <1>6, <1>15 DEF V
<1> QED BY <1>16, <1>17, <1>18 DEF Peers

\* What a leader sends is a part of its log.
LEMMA SendAppendEntriesMatches ==
  ASSUME TypeOK, Peers, NEW n \in Node, SendAppendEntries(n)
  PROVE  Peers'
<1> DEFINE c == configuration[n]
<1>1. PICK U \in SUBSET Seq(Entry) : Logs(U)
  BY DEF Peers
<1>2. PICK p \in 0..LastLogIndex(c) :
        appends' = appends \cup
           {[term |-> c.currentTerm, leaderId |-> n, prevLogIndex |-> p,
             prevLogTerm |-> c.log[p + 1].term,
             entries |-> SubSeq(c.log, p + 2, Len(c.log)),
             leaderCommit |-> c.commitIndex]}
  BY DEF SendAppendEntries
<1>3. p + 1 \in 1..Len(c.log) /\ c.log \in U
  <2>1. c.log \in Seq(Entry)
    BY DEF TypeOK, Config
  <2>2. Len(c.log) \in Nat
    BY <2>1, LenProperties
  <2> QED BY <1>1, <2>2 DEF LastLogIndex, Logs
<1> DEFINE new == [term |-> c.currentTerm, leaderId |-> n, prevLogIndex |-> p,
                   prevLogTerm |-> c.log[p + 1].term,
                   entries |-> SubSeq(c.log, p + 2, Len(c.log)),
                   leaderCommit |-> c.commitIndex]
<1>4. appends' = appends \cup {new}
  BY <1>2
<1>5. PartOf(new, c.log)
  BY <1>3 DEF PartOf
<1> HIDE DEF new
<1>6. UNCHANGED <<configuration, votes, granted>>
  BY DEF SendAppendEntries
<1>7. \A rpc \in appends' : \E l \in U : PartOf(rpc, l)
  <2>1. \A rpc \in appends : \E l \in U : PartOf(rpc, l)
    BY <1>1 DEF Logs
  <2> QED BY <1>3, <1>4, <1>5, <2>1
<1>8. ASSUME NEW m \in Node, NEW t
      PROVE  /\ Elected(m, t) => Elected(m, t)'
             /\ Presided(m, t) => Presided(m, t)'
  BY <1>6 DEF Elected, Presided, Voters
<1>9. Logs(U)'
  <2>1. ASSUME NEW k \in U, NEW i \in 1..Len(k), k[i].term > 0
        PROVE  \E m \in Node : Elected(m, k[i].term)' /\ Presided(m, k[i].term)'
    <3>1. PICK m \in Node : Elected(m, k[i].term) /\ Presided(m, k[i].term)
      BY <1>1, <2>1 DEF Logs
    <3> QED BY <1>8, <3>1
  <2>2. \A k, l \in U : Matches(k, l)
    BY <1>1 DEF Logs
  <2>3. \A m \in Node : configuration[m].log \in U
    BY <1>1 DEF Logs
  <2>4. \A m \in Node : configuration[m].state = "leader" =>
          \A k \in U : \A i \in 1..Len(k) :
            k[i].term = configuration[m].currentTerm => i <= Len(configuration[m].log)
    BY <1>1 DEF Logs
  <2> QED BY <1>6, <1>7, <2>1, <2>2, <2>3, <2>4 DEF Logs, Matches, PartOf
<1>10. Campaigns'
  BY <1>6 DEF Peers, Campaigns, Voters
<1> QED BY <1>9, <1>10 DEF Peers

\* Two logs that are the same up to p, and what follows p in the second one: appended to
\* the first one cut off at p, it makes it the second.
LEMMA Splice ==
  ASSUME NEW k \in Seq(Entry), NEW l \in Seq(Entry), NEW p \in 1..Len(l), p <= Len(k),
         \A j \in 1..p : k[j] = l[j]
  PROVE  SubSeq(k, 1, p) \o SubSeq(l, p + 1, Len(l)) = l
<1> DEFINE a == SubSeq(k, 1, p)
           b == SubSeq(l, p + 1, Len(l))
<1>1. p \in Int /\ Len(l) \in Nat /\ Len(k) \in Nat /\ 1 <= p /\ p <= Len(l)
  BY LenProperties
<1>2. /\ \A i \in 1..p : k[i] \in Entry
      /\ \A i \in (p + 1)..Len(l) : l[i] \in Entry
  BY <1>1, ElementOfSeq
<1>3. a \in Seq(Entry) /\ Len(a) = p /\ \A i \in 1..p : a[i] = k[i]
  BY <1>1, <1>2, SubSeqProperties
<1>4. /\ b \in Seq(Entry) /\ Len(b) = Len(l) - p
      /\ \A i \in 1..(Len(l) - p) : b[i] = l[p + i]
  <2>1. /\ b \in Seq(Entry)
        /\ Len(b) = IF p + 1 <= Len(l) THEN Len(l) - (p + 1) + 1 ELSE 0
        /\ \A i \in 1..(Len(l) - (p + 1) + 1) : b[i] = l[p + 1 + i - 1]
    BY <1>1, <1>2, SubSeqProperties
  <2> HIDE DEF b
  <2>2. Len(b) = Len(l) - p
    BY <1>1, <2>1
  <2>3. ASSUME NEW i \in 1..(Len(l) - p) PROVE b[i] = l[p + i]
    <3>1. i \in 1..(Len(l) - (p + 1) + 1) /\ p + 1 + i - 1 = p + i
      BY <1>1
    <3> QED BY <2>1, <3>1
  <2> QED BY <2>1, <2>2, <2>3
<1> HIDE DEF a, b
<1>5. /\ a \o b \in Seq(Entry) /\ Len(a \o b) = Len(l)
      /\ \A i \in 1..Len(l) : (a \o b)[i] = IF i <= p THEN a[i] ELSE b[i - p]
  <2>1. /\ a \o b \in Seq(Entry) /\ Len(a \o b) = Len(a) + Len(b)
        /\ \A i \in 1..(Len(a) + Len(b)) : (a \o b)[i] =
             IF i <= Len(a) THEN a[i] ELSE b[i - Len(a)]
    BY <1>3, <1>4, ConcatProperties
  <2>2. Len(a) + Len(b) = Len(l) /\ Len(a) = p
    BY <1>1, <1>3, <1>4
  <2> QED BY <2>1, <2>2
<1>6. ASSUME NEW i \in 1..Len(l) PROVE (a \o b)[i] = l[i]
  <2>1. CASE i <= p
    <3>1. i \in 1..p /\ a[i] = k[i]
      BY <1>1, <1>3, <2>1
    <3> QED BY <1>5, <2>1, <3>1
  <2>2. CASE i > p
    <3>1. i - p \in 1..(Len(l) - p) /\ p + (i - p) = i
      BY <1>1, <2>2
    <3>2. b[i - p] = l[i]
      BY <1>4, <3>1
    <3>3. ~(i <= p)
      BY <1>1, <2>2
    <3> QED BY <1>5, <3>2, <3>3
  <2>3. i <= p \/ i > p
    BY <1>1
  <2> QED BY <2>1, <2>2, <2>3
<1>7. a \o b = l
  <2> DEFINE s == a \o b
  <2>1. s \in Seq(Entry) /\ Len(s) = Len(l) /\ \A i \in 1..Len(s) : s[i] = l[i]
    BY <1>5, <1>6
  <2> HIDE DEF s
  <2>2. s = l
    BY <2>1, SeqEqual
  <2> QED BY <2>2 DEF s
<1> QED BY <1>7 DEF a, b

\* A node that accepts an AppendEntries is left with the log that it was taken from: their
\* entries before the new ones match.
LEMMA HandleAppendEntriesMatches ==
  ASSUME TypeOK, TypeOK', Peers, NEW n \in Node, NEW rpc \in appends,
         HandleAppendEntriesRPC(n, rpc)
  PROVE  Peers'
<1> DEFINE old == configuration[n]
           c == UpdateTerm(old, rpc.term)
           d == AfterAppend(n, rpc)
<1>1. /\ old \in Config /\ old.log # <<>> /\ rpc.term \in Terms
      /\ rpc \in Append_ /\ old.log \in Seq(Entry) /\ rpc.prevLogIndex \in Nat
  BY DEF TypeOK, Append_, Config
<1>2. /\ c \in Config /\ c.log = old.log
      /\ c.currentTerm # old.currentTerm => c.state = "follower"
  BY <1>1, UpdateTermTyped, UpdateTermFollows
<1>3. PICK U \in SUBSET Seq(Entry) : Logs(U)
  BY DEF Peers
<1>4. old.log \in U /\ Campaigns
  BY <1>3 DEF Logs, Peers
<1>5. /\ configuration' = [configuration EXCEPT ![n] = d]
      /\ votes' = votes /\ appends' = appends /\ granted \subseteq granted'
  BY DEF HandleAppendEntriesRPC, AfterAppend
<1>6. /\ d.currentTerm >= old.currentTerm
      /\ d.currentTerm = old.currentTerm => d.state = old.state
  BY AfterAppendTyped
<1> HIDE DEF c
<1>7. /\ d.currentTerm = c.currentTerm /\ d.state = c.state
      /\ d.log \in U
      /\ d.state = "leader" => d.log = old.log
  <2>1. CASE ~Accepts(c, rpc)
    <3>1. d = c
      BY <2>1 DEF AfterAppend, c
    <3> QED BY <1>2, <1>4, <3>1
  <2>2. CASE Accepts(c, rpc)
    <3>1. d = AppendEntries(c, rpc)
      BY <2>2 DEF AfterAppend, c
    <3> HIDE DEF d
    <3>2. MatchesPrev(c, rpc) /\ c.state # "leader"
      BY <2>2 DEF Accepts
    <3>3. d.currentTerm = c.currentTerm /\ d.state = c.state
      BY <1>1, <1>2, <3>1, <3>2, AppendEntriesTyped
    <3>4. d.log = Kept(c, rpc) \o rpc.entries
      BY <1>2, <3>1 DEF AppendEntries, Config
    <3>5. PICK l \in U : PartOf(rpc, l)
      BY <1>3 DEF Logs
    <3> DEFINE p == rpc.prevLogIndex + 1
    <3>6. p \in 1..Len(c.log) /\ c.log[p].term = rpc.prevLogTerm
      BY <1>1, <1>2, <3>2, LenProperties DEF MatchesPrev
    <3>7. /\ p \in 1..Len(l) /\ l[p].term = rpc.prevLogTerm
          /\ rpc.entries = SubSeq(l, p + 1, Len(l))
      <4>1. rpc.prevLogIndex + 2 = p + 1
        BY <1>1
      <4> QED BY <3>5, <4>1 DEF PartOf
    <3>8. Kept(c, rpc) = SubSeq(c.log, 1, p)
      BY DEF Kept
    <3> HIDE DEF p
    <3>9. l \in Seq(Entry) /\ Len(l) \in Nat /\ Len(c.log) \in Nat /\ p \in Int
      BY <1>1, <1>2, <3>6, LenProperties
    <3>10. p <= Len(c.log) /\ p <= Len(l)
      BY <3>6, <3>7, <3>9
    <3>11. Matches(c.log, l)
      BY <1>2, <1>3, <1>4 DEF Logs
    <3>12. \A j \in 1..p : c.log[j] = l[j]
      BY <3>6, <3>7, <3>10, <3>11 DEF Matches
    <3>13. SubSeq(c.log, 1, p) \o SubSeq(l, p + 1, Len(l)) = l
      BY <1>1, <1>2, <3>7, <3>9, <3>10, <3>12, Splice
    <3>14. d.log = l
      BY <3>4, <3>7, <3>8, <3>13
    <3> QED BY <3>2, <3>3, <3>5, <3>14
  <2> QED BY <2>1, <2>2
<1>8. PICK e : e = d
  OBVIOUS
<1> HIDE DEF d
<1>9. /\ configuration' = [configuration EXCEPT ![n] = e] /\ e.log \in U
      /\ e.currentTerm >= configuration[n].currentTerm
      /\ e.currentTerm = configuration[n].currentTerm => e.state = configuration[n].state
      /\ e.currentTerm # configuration[n].currentTerm => e.state = "follower"
      /\ e.state = "leader" => e.log = configuration[n].log
  BY <1>2, <1>5, <1>6, <1>7, <1>8
<1> QED BY <1>3, <1>4, <1>5, <1>9, FollowKept

LEMMA AdvanceCommitIndexMatches ==
  ASSUME TypeOK, TypeOK', Peers, NEW n \in Node, AdvanceCommitIndex(n)
  PROVE  Peers'
<1>1. PICK i : configuration' = [configuration EXCEPT ![n].commitIndex = i]
  BY DEF AdvanceCommitIndex
<1> DEFINE d == [configuration[n] EXCEPT !.commitIndex = i]
<1>2. /\ d.log = configuration[n].log /\ d.currentTerm = configuration[n].currentTerm
      /\ d.state = configuration[n].state /\ d.currentTerm \in Int
  BY RaftAssumption DEF TypeOK, Config, Terms
<1>3. configuration' = [configuration EXCEPT ![n] = d]
  BY <1>1
<1>4. PICK U \in SUBSET Seq(Entry) : Logs(U)
  BY DEF Peers
<1>5. configuration[n].log \in U /\ Campaigns
  BY <1>4 DEF Logs, Peers
<1>6. votes' = votes /\ appends' = appends /\ granted \subseteq granted'
  BY DEF AdvanceCommitIndex
<1>7. PICK e : e = d
  OBVIOUS
<1> HIDE DEF d
<1>8. /\ configuration' = [configuration EXCEPT ![n] = e] /\ e.log \in U
      /\ e.currentTerm >= configuration[n].currentTerm
      /\ e.currentTerm = configuration[n].currentTerm => e.state = configuration[n].state
      /\ e.currentTerm # configuration[n].currentTerm => e.state = "follower"
      /\ e.state = "leader" => e.log = configuration[n].log
  BY <1>2, <1>3, <1>5, <1>7
<1> QED BY <1>4, <1>5, <1>6, <1>8, FollowKept

LEMMA NextPeers == TypeOK /\ Elections /\ Peers /\ [Next]_vars => Peers'
<1> SUFFICES ASSUME TypeOK, Elections, Peers, [Next]_vars PROVE Peers'
  OBVIOUS
<1>1. TypeOK' /\ ElectionSafety
  BY NextTyped, ElectionsElectOne
<1>2. ASSUME NEW n \in Node, StartElection(n) PROVE Peers'
  BY <1>1, <1>2, StartElectionMatches
<1>3. ASSUME NEW n \in Node, BecomeLeader(n) PROVE Peers'
  BY <1>1, <1>3, BecomeLeaderMatches
<1>4. ASSUME NEW n \in Node, Command(n) PROVE Peers'
  BY <1>1, <1>4, CommandMatches
<1>5. ASSUME NEW n \in Node, SendAppendEntries(n) PROVE Peers'
  BY <1>5, SendAppendEntriesMatches
<1>6. ASSUME NEW n \in Node, AdvanceCommitIndex(n) PROVE Peers'
  BY <1>1, <1>6, AdvanceCommitIndexMatches
<1>7. ASSUME NEW n \in Node, NEW rpc \in votes, HandleRequestVoteRPC(n, rpc) PROVE Peers'
  BY <1>1, <1>7, HandleRequestVoteMatches
<1>8. ASSUME NEW n \in Node, NEW rpc \in appends, HandleAppendEntriesRPC(n, rpc)
      PROVE Peers'
  BY <1>1, <1>8, HandleAppendEntriesMatches
<1>9. CASE UNCHANGED vars
  <2>1. /\ configuration' = configuration /\ votes' = votes
        /\ appends' = appends /\ granted' = granted
    BY <1>9 DEF vars
  <2>2. PICK U \in SUBSET Seq(Entry) : Logs(U)
    BY DEF Peers
  <2>3. \A n \in Node : configuration[n].log \in U /\ configuration[n].currentTerm \in Int
    BY <2>2, RaftAssumption DEF Logs, TypeOK, Config, Terms
  <2>4. \A n \in Node : KeepsTo(U, n)
    BY <2>1, <2>3 DEF KeepsTo
  <2>5. Logs(U)'
    BY <1>1, <2>1, <2>2, <2>4, LogsKept
  <2>6. Campaigns'
    BY <1>1, <2>1, CampaignsKept DEF Peers
  <2> QED BY <2>5, <2>6 DEF Peers
<1> QED BY <1>2, <1>3, <1>4, <1>5, <1>6, <1>7, <1>8, <1>9 DEF Next

\* Logs with an entry of the same term at an index are the same up to it, for any number of
\* nodes, terms and entries, however late an AppendEntries arrives that a node cuts its log
\* off for.
THEOREM LogsMatch == Spec => []LogMatching
<1>1. Init => TypeOK /\ Elections /\ Peers
  BY InitTyped, InitElections, InitPeers
<1>2. TypeOK /\ Elections /\ Peers /\ [Next]_vars => (TypeOK /\ Elections /\ Peers)'
  BY NextTyped, NextElections, NextPeers
<1>3. TypeOK /\ Peers => LogMatching
  BY PeersMatch
<1> QED BY <1>1, <1>2, <1>3, PTL DEF Spec
===============================================================================
