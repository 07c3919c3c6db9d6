------------------------------- MODULE RaftNode -------------------------------
(***************************************************************************)
(* The Raft of the ClusterService.  The source has the handlers that a     *)
(* node runs on a configuration: startElection, handleRequestVoteRPC over  *)
(* requestVote, handleAppendEntriesRPC over appendEntries, and             *)
(* advanceCommitIndex.  It has no transport and nothing that counts votes  *)
(* or sends entries; those actions are marked external and do what the     *)
(* handlers assume.  RPCs are never taken off the network: they may be     *)
(* late, repeated, reordered or lost.                                      *)
(*                                                                         *)
(* requestVote reads the last entry of the log, so a log has one from the  *)
(* start, of term 0.  A command is the node that had it, as the leader.    *)
(***************************************************************************)
EXTENDS Integers, FiniteSets, Sequences

CONSTANTS
  Node,
  Nobody,    \* votedFor undefined
  MaxTerm,   \* bound on the elections
  MaxLog     \* bound on the entries of a log

ASSUME RaftAssumption ==
  /\ IsFiniteSet(Node) /\ Nobody \notin Node
  /\ MaxTerm \in Nat /\ MaxLog \in Nat \ {0}

Terms == 0..MaxTerm
States == {"follower", "candidate", "leader"}
Entry == [term: Terms, command: Node \cup {Nobody}]
Config == [currentTerm: Terms, votedFor: Node \cup {Nobody}, state: States,
           log: Seq(Entry), commitIndex: Int]
Vote == [term: Terms, candidateId: Node, lastLogIndex: Nat, lastLogTerm: Terms]
Append_ == [term: Terms, leaderId: Node, prevLogIndex: Nat, prevLogTerm: Terms,
            entries: Seq(Entry), leaderCommit: Int]
AppendResult == [term: Terms, success: BOOLEAN, index: Int]

VARIABLES
  configuration,
  votes, appends,   \* the Vote and Append RPCs that were ever sent
  granted,          \* the votes ever granted, <<voter, term, candidate>>
  responses         \* leader -> node -> its last answer, for those that answered

vars == <<configuration, votes, appends, granted, responses>>

Init ==
  /\ configuration = [n \in Node |->
       [currentTerm |-> 0, votedFor |-> Nobody, state |-> "follower",
        log |-> <<[term |-> 0, command |-> Nobody]>>, commitIndex |-> 0]]
  /\ votes = {} /\ appends = {} /\ granted = {}
  /\ responses = [n \in Node |-> [m \in {} |-> 0]]

\* The index of the last entry, from 0, and its term.
LastLogIndex(c) == Len(c.log) - 1
LastLogTerm(c) == c.log[Len(c.log)].term

----------------------------------------------------------------------------
(* Elections.  A definition marked (slip) is a mistake the code could have *)
(* made and does not; no action uses it.                                   *)

\* startElection of n; the RPC it would send is external.
StartElection(n) ==
  LET c == configuration[n] IN
    /\ c.currentTerm < MaxTerm
    /\ configuration' = [configuration EXCEPT
         ![n].currentTerm = @ + 1, ![n].state = "candidate", ![n].votedFor = Nobody]
    /\ votes' = votes \cup {[term |-> c.currentTerm + 1, candidateId |-> n,
                             lastLogIndex |-> LastLogIndex(c),
                             lastLogTerm |-> LastLogTerm(c)]}
    /\ UNCHANGED <<appends, granted, responses>>

\* The configuration after an RPC of the term t: a node that is behind follows.
UpdateTerm(c, t) ==
  IF t > c.currentTerm THEN [c EXCEPT !.currentTerm = t, !.state = "follower"] ELSE c

LogNewer(c, rpc) ==
  \/ LastLogTerm(c) > rpc.lastLogTerm
  \/ LastLogTerm(c) = rpc.lastLogTerm /\ LastLogIndex(c) > rpc.lastLogIndex

\* (slip: a candidate votes too)
GrantsVote_Candidate(c, rpc) ==
  /\ rpc.term = c.currentTerm
  /\ c.state # "leader"
  /\ c.votedFor \in {Nobody, rpc.candidateId}
  /\ ~LogNewer(c, rpc)

\* handleRequestVoteRPC and requestVote let the vote pass: the RPC is not of an old
\* term, the node only follows, has no other vote and no newer log.
GrantsVote(c, rpc) ==
  /\ rpc.term = c.currentTerm
  /\ c.state = "follower"
  /\ c.votedFor \in {Nobody, rpc.candidateId}
  /\ ~LogNewer(c, rpc)

\* handleRequestVoteRPC of n.
HandleRequestVoteRPC(n, rpc) ==
  LET c == UpdateTerm(configuration[n], rpc.term) IN
    /\ n # rpc.candidateId
    /\ IF GrantsVote(c, rpc)
       THEN /\ configuration' =
                 [configuration EXCEPT ![n] = [c EXCEPT !.votedFor = rpc.candidateId]]
            /\ granted' = granted \cup {<<n, rpc.term, rpc.candidateId>>}
       ELSE /\ configuration' = [configuration EXCEPT ![n] = c]
            /\ UNCHANGED granted
    /\ UNCHANGED <<votes, appends, responses>>

\* The nodes that voted for n in the term t, with n itself.
Voters(n, t) == {n} \cup {m \in Node : <<m, t, n>> \in granted}
Majority(S) == 2 * Cardinality(S) > Cardinality(Node)

\* External: a candidate with a majority of the votes of its term leads.
BecomeLeader(n) ==
  /\ configuration[n].state = "candidate"
  /\ Majority(Voters(n, configuration[n].currentTerm))
  /\ configuration' = [configuration EXCEPT ![n].state = "leader"]
  /\ responses' = [responses EXCEPT ![n] = [m \in {} |-> 0]]
  /\ UNCHANGED <<votes, appends, granted>>

----------------------------------------------------------------------------
(* The log.                                                                *)

\* External: the leader adds an entry of its term.
Command(n) ==
  /\ configuration[n].state = "leader" /\ Len(configuration[n].log) < MaxLog
  /\ configuration' =
       [configuration EXCEPT ![n].log =
          Append(@, [term |-> configuration[n].currentTerm, command |-> n])]
  /\ UNCHANGED <<votes, appends, granted, responses>>

\* External: the leader sends what follows an entry of its log.
SendAppendEntries(n) ==
  LET c == configuration[n] IN
    /\ c.state = "leader"
    /\ \E p \in 0..LastLogIndex(c) :
         appends' = appends \cup
           {[term |-> c.currentTerm, leaderId |-> n, prevLogIndex |-> p,
             prevLogTerm |-> c.log[p + 1].term,
             entries |-> SubSeq(c.log, p + 2, Len(c.log)),
             leaderCommit |-> c.commitIndex]}
    /\ UNCHANGED <<configuration, votes, granted, responses>>

\* (slip: an entry at prevLogIndex is enough, whatever its term)
MatchesPrev_AnyTerm(c, rpc) == rpc.prevLogIndex + 1 \in DOMAIN c.log

MatchesPrev(c, rpc) ==
  /\ rpc.prevLogIndex + 1 \in DOMAIN c.log
  /\ c.log[rpc.prevLogIndex + 1].term = rpc.prevLogTerm

\* handleAppendEntriesRPC and appendEntries: c is the configuration after the term
\* of the RPC.  What c has after prevLogIndex is cut off, whatever it is.
Accepts(c, rpc) ==
  rpc.term = c.currentTerm /\ c.state # "leader" /\ MatchesPrev(c, rpc)

\* (slip: slice(0, prevLogIndex))
Kept_Less(c, rpc) == SubSeq(c.log, 1, rpc.prevLogIndex)

Kept(c, rpc) == SubSeq(c.log, 1, rpc.prevLogIndex + 1)

AppendEntries(c, rpc) ==
  LET log == Kept(c, rpc) \o rpc.entries IN
    [c EXCEPT !.log = log,
              !.commitIndex = IF rpc.leaderCommit <= Len(log) - 1
                              THEN rpc.leaderCommit ELSE Len(log) - 1]

\* handleAppendEntriesRPC of n.  Its answer comes in while the leader is one.
HandleAppendEntriesRPC(n, rpc) ==
  LET c == UpdateTerm(configuration[n], rpc.term)
      d == IF Accepts(c, rpc) THEN AppendEntries(c, rpc) ELSE c
      result == [term |-> d.currentTerm, success |-> Accepts(c, rpc),
                 index |-> IF Accepts(c, rpc) THEN d.commitIndex ELSE -1]
  IN
    /\ n # rpc.leaderId
    /\ configuration' = [configuration EXCEPT ![n] = d]
    /\ IF /\ configuration[rpc.leaderId].state = "leader"
          /\ configuration[rpc.leaderId].currentTerm = rpc.term
       THEN \/ responses' = [responses EXCEPT ![rpc.leaderId] =
                   [m \in DOMAIN @ \cup {n} |-> IF m = n THEN result ELSE @[m]]]
            \/ UNCHANGED responses
       ELSE UNCHANGED responses
    /\ UNCHANGED <<votes, appends, granted>>

\* advanceCommitIndex: the responses are sorted by term and index and the successes
\* counted along the list.  They are a majority, if at all, at the last one too, and
\* that is the one whose index is taken in the end; without a majority it is 0.
MajorityOf(n) == Cardinality(DOMAIN responses[n]) \div 2 + 1
AdvanceCommitIndex(n) ==
  LET rs == responses[n]
      Before(a, b) == \/ rs[a].term < rs[b].term
                      \/ rs[a].term = rs[b].term /\ rs[a].index <= rs[b].index
  IN
    /\ configuration[n].state = "leader"
    /\ \E last \in DOMAIN rs :
         /\ \A m \in DOMAIN rs : Before(m, last)
         /\ configuration' = [configuration EXCEPT ![n].commitIndex =
              IF Cardinality({m \in DOMAIN rs : rs[m].success}) >= MajorityOf(n)
              THEN rs[last].index ELSE 0]
    /\ UNCHANGED <<votes, appends, granted, responses>>

Next ==
  \/ \E n \in Node : \/ StartElection(n)
                     \/ BecomeLeader(n)
                     \/ Command(n)
                     \/ SendAppendEntries(n)
                     \/ AdvanceCommitIndex(n)
  \/ \E n \in Node, rpc \in votes : HandleRequestVoteRPC(n, rpc)
  \/ \E n \in Node, rpc \in appends : HandleAppendEntriesRPC(n, rpc)

Spec == Init /\ [][Next]_vars

----------------------------------------------------------------------------
\* Type correctness of the configurations and the RPCs.
TypeOK ==
  /\ configuration \in [Node -> Config]
  /\ votes \subseteq Vote /\ appends \subseteq Append_
  /\ granted \subseteq Node \X Terms \X Node
  /\ DOMAIN responses = Node
  /\ \A n \in Node : /\ DOMAIN responses[n] \subseteq Node
                     /\ \A m \in DOMAIN responses[n] : responses[n][m] \in AppendResult
                     /\ configuration[n].log # <<>>

\* Votes elect at most one node in each term, though a candidate never gives itself a
\* vote that the handlers know of, and RPCs of old terms come late and again.
ElectionSafety ==
  \A t \in Terms : \A a, b \in Node :
    /\ \E rpc \in votes : rpc.term = t /\ rpc.candidateId = a
    /\ \E rpc \in votes : rpc.term = t /\ rpc.candidateId = b
    /\ Majority(Voters(a, t)) /\ Majority(Voters(b, t))
    => a = b

\* Two logs with an entry of the same term at an index are the same up to it, though a node
\* cuts its log off at every RPC it accepts, new or old.
LogMatching ==
  \A a, b \in Node :
    LET k == configuration[a].log
        l == configuration[b].log
    IN \A i \in DOMAIN k \cap DOMAIN l :
         k[i].term = l[i].term => SubSeq(k, 1, i) = SubSeq(l, 1, i)

----------------------------------------------------------------------------
\* cluster.service.ts, line 237: a vote is denied to a node that has "already voted
\* for another candidate in this term".  What votedFor says is a vote of this term.
VotedInThisTerm ==
  \A n \in Node :
    LET c == configuration[n] IN
      c.votedFor # Nobody => <<n, c.currentTerm, c.votedFor>> \in granted

\* cluster.service.ts, line 306: "Set the commit index to the highest index that is
\* included in a majority of responses".  A negative index is in none.
CommitIndexIsAnIndex == \A n \in Node : configuration[n].commitIndex >= 0
===============================================================================
