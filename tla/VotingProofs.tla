---------------------------- MODULE VotingProofs ----------------------------
(***************************************************************************)
(* VotingInv is an inductive invariant of VotingSpec, for every finite set *)
(* of servers, every quorum size whose quorums meet and every bound on the *)
(* terms; ElectionSafety, VotesOnce and TermsNeverDecrease follow.         *)
(***************************************************************************)
EXTENDS Voting, FiniteSetTheorems, TLAPS

(* The quorum that get_quorum_for_election returns is a number.              *)
LEMMA QuorumType == QuorumForElection \in Nat /\ NumVotingMembers \in Nat
<1>1. NumVotingMembers \in Nat
  BY ServerAssumption, FS_CardinalityType DEF NumVotingMembers
<1> QED
  BY <1>1, BoundAssumption DEF QuorumForElection

(* Two sets of voters that each make Elected true have a server in common.   *)
LEMMA QuorumsMeet ==
  ASSUME NEW P \in SUBSET Server, NEW Q \in SUBSET Server,
         Cardinality(P) >= QuorumForElection + 1,
         Cardinality(Q) >= QuorumForElection + 1
  PROVE  P \cap Q # {}
<1>1. /\ Cardinality(P) \in Nat
      /\ Cardinality(Q) \in Nat
  BY ServerAssumption, FS_Subset, FS_CardinalityType
<1>2. Cardinality(P) + Cardinality(Q) > Cardinality(Server)
  BY <1>1, QuorumType, QuorumAssumption DEF NumVotingMembers
<1> QED
  BY <1>2, ServerAssumption, FS_MajoritiesIntersect

(* ElectionSafety follows from the inductive invariant: the quorums of two   *)
(* leaders of one term share a voter, and that voter voted once.             *)
LEMMA InvImpliesElectionSafety == VotingInv => ElectionSafety
<1> SUFFICES ASSUME VotingInv,
                    NEW a \in leaders, NEW b \in leaders, a[2] = b[2]
             PROVE  a[1] = b[1]
  BY DEF ElectionSafety
<1>1. PICK P \in SUBSET Server :
        /\ Cardinality(P) >= QuorumForElection + 1
        /\ \A j \in P : <<j, a[2], a[1]>> \in cast
  BY DEF VotingInv, LeaderInv
<1>2. PICK Q \in SUBSET Server :
        /\ Cardinality(Q) >= QuorumForElection + 1
        /\ \A j \in Q : <<j, b[2], b[1]>> \in cast
  BY DEF VotingInv, LeaderInv
<1>3. PICK j \in P \cap Q : TRUE
  BY <1>1, <1>2, QuorumsMeet
<1>4. /\ <<j, a[2], a[1]>> \in cast
      /\ <<j, b[2], b[1]>> \in cast
  BY <1>1, <1>2, <1>3
<1> QED
  BY <1>4 DEF VotingInv, VotesOnce

(* The initial state satisfies the inductive invariant.                      *)
LEMMA InitEstablishesInv == VotingInit => VotingInv
<1> SUFFICES ASSUME VotingInit PROVE VotingInv
  OBVIOUS
<1> USE DEF VotingInit
<1>1. TypeOK
  BY BoundAssumption DEF TypeOK, Term, Role
<1>2. CountInv
  BY FS_EmptySet DEF CountInv
<1> QED
  BY <1>1, <1>2 DEF VotingInv, DurableInv, RequestInv, ResponseInv, CastInv,
     VotesOnce, LeaderInv, Requests, Responses

(* Starting a vote (initiate_vote, request_vote) keeps the invariant: the    *)
(* new term is above every term the server has used in a request or a vote.  *)
LEMMA InitiateVoteKeepsInv ==
  ASSUME VotingInv, NEW i \in Server, NEW dsts \in SUBSET Server,
         NEW info \in VoteInfo, InitiateVote(i, dsts, info)
  PROVE  VotingInv'
<1> DEFINE t == term[i] + 1
<1> DEFINE new == VoteRequestsTo(i, dsts, t, info)
<1> USE DEF VotingInv
<1>1. t \in Term /\ term[i] \in Nat /\ t \in Nat
  BY BoundAssumption DEF InitiateVote, TypeOK, Term
<1>2. new \subseteq VoteRequest
  BY <1>1 DEF VoteRequestsTo, VoteRequest, InitiateVote
<1>3. TypeOK'
  BY <1>1, <1>2 DEF TypeOK, InitiateVote, Role
<1>4. DurableInv'
  BY DEF DurableInv, InitiateVote, TypeOK
<1>5. /\ ballots' \subseteq ballots \cup new
      /\ \A m \in new : /\ m.type = "request_vote_request"
                        /\ m.src = i /\ m.term = t /\ m.dst \in dsts
                        /\ \A n \in new : n.dst = m.dst => n = m
  BY DEF InitiateVote, VoteRequestsTo
<1>6. \A m \in ballots : m.type = "request_vote_request"
                            => m.term <= term[m.src]
  BY DEF RequestInv, Requests
<1>7. \A r \in ballots : r.type = "request_vote_response"
                            => r.req <= term[r.dst]
  BY DEF ResponseInv, Responses
<1>8. RequestInv'
  <2> SUFFICES ASSUME NEW m \in Requests'
               PROVE /\ m.src # m.dst
                     /\ m.term <= term'[m.src]
                     /\ m.term = term'[m.src] =>
                          /\ m.dst \notin voters'[m.src]
                          /\ \A n \in Requests' :
                               n.src = m.src /\ n.dst = m.dst /\ n.term = m.term
                                 => n = m
                          /\ \A r \in Responses' :
                               r.src = m.dst /\ r.dst = m.src => r.req # m.term
    BY DEF RequestInv
  <2>1. CASE m \in new
    <3>1. m.src = i /\ m.term = t /\ m.dst \in Server \ {i}
      BY <2>1, <1>5 DEF InitiateVote
    <3>2. term'[i] = t /\ voters'[i] = {i}
      BY DEF InitiateVote, TypeOK
    <3>3. \A n \in Requests' : n.src = i /\ n.term = t => n \in new
      BY <1>1, <1>5, <1>6 DEF Requests
    <3>4. \A r \in Responses' : r.dst = i => r.req # t
      <4> SUFFICES ASSUME NEW r \in Responses', r.dst = i PROVE r.req # t
        OBVIOUS
      <4>1. r \in ballots /\ r.type = "request_vote_response"
        BY <1>5 DEF Responses
      <4>2. r.req \in Nat
        BY <4>1, BoundAssumption DEF TypeOK, VoteRequest, VoteResponse, Term
      <4> QED
        BY <4>1, <4>2, <1>1, <1>7
    <3> QED
      BY <2>1, <3>1, <3>2, <3>3, <3>4, <1>5, <1>1
  <2>2. CASE m \notin new
    <3>1. m \in ballots /\ m \in Requests /\ m.type = "request_vote_request"
      BY <2>2, <1>5 DEF Requests
    <3>2. m.src \in Server /\ m.dst \in Server /\ m.term \in Nat
      BY <3>1, BoundAssumption DEF TypeOK, VoteRequest, VoteResponse, Term
    <3>3. CASE m.src = i
      <4>1. term'[i] = t
        BY DEF InitiateVote, TypeOK
      <4> QED
        BY <3>1, <3>2, <3>3, <4>1, <1>1 DEF RequestInv
    <3>4. CASE m.src # i
      <4>1. term'[m.src] = term[m.src] /\ voters'[m.src] = voters[m.src]
        BY <3>2, <3>4 DEF InitiateVote, TypeOK
      <4>2. \A n \in Requests' : n.src = m.src => n \in Requests
        BY <3>4, <1>5 DEF Requests
      <4>3. \A r \in Responses' : r \in Responses
        BY <1>5 DEF Responses
      <4> QED
        BY <3>1, <4>1, <4>2, <4>3 DEF RequestInv
    <3> QED
      BY <3>3, <3>4
  <2> QED
    BY <2>1, <2>2
<1>9. ResponseInv'
  <2> SUFFICES ASSUME NEW r \in Responses'
               PROVE /\ r.src # r.dst
                     /\ r.req <= term'[r.dst]
                     /\ r.accepted =>
                          /\ r.term = r.req
                          /\ <<r.src, r.term, r.dst>> \in cast'
                          /\ r.term = term'[r.dst]
                               => r.src \notin voters'[r.dst]
    BY DEF ResponseInv
  <2>1. r \in Responses /\ r \in VoteResponse
    BY <1>5 DEF Responses, TypeOK, VoteRequest, VoteResponse
  <2>2. /\ r.dst \in Server /\ r.req \in Nat /\ r.term \in Nat
        /\ term[r.dst] \in Nat
    BY <2>1, BoundAssumption DEF TypeOK, VoteResponse, Term
  <2>3. cast \subseteq cast'
    BY DEF InitiateVote
  <2>4. CASE r.dst = i
    <3>1. term'[i] = t
      BY DEF InitiateVote, TypeOK
    <3> QED
      BY <2>1, <2>2, <2>3, <2>4, <3>1, <1>1 DEF ResponseInv
  <2>5. CASE r.dst # i
    <3>1. term'[r.dst] = term[r.dst] /\ voters'[r.dst] = voters[r.dst]
      BY <2>2, <2>5 DEF InitiateVote, TypeOK
    <3> QED
      BY <2>1, <2>3, <3>1 DEF ResponseInv
  <2> QED
    BY <2>4, <2>5
<1>10. \A c \in cast : c[1] = i => c[2] < t
  <2> SUFFICES ASSUME NEW c \in cast, c[1] = i PROVE c[2] < t
    OBVIOUS
  <2>1. c[2] <= term[i] /\ c[2] \in Nat
    BY BoundAssumption DEF CastInv, TypeOK, Term
  <2> QED
    BY <2>1, <1>1
<1>11. CastInv'
  <2> SUFFICES ASSUME NEW c \in cast'
               PROVE /\ c[2] <= term'[c[1]]
                     /\ c[2] = term'[c[1]] => votedFor'[c[1]] = c[3]
    BY DEF CastInv
  <2>1. CASE c = <<i, t, i>>
    BY <2>1, <1>1 DEF InitiateVote, TypeOK
  <2>2. CASE c \in cast /\ c[1] = i
    <3>1. c[2] < t /\ c[2] \in Nat /\ term'[i] = t
      BY <2>2, <1>10, BoundAssumption DEF InitiateVote, TypeOK, Term
    <3> QED
      BY <2>2, <3>1, <1>1
  <2>3. CASE c \in cast /\ c[1] # i
    BY <2>3 DEF CastInv, InitiateVote, TypeOK
  <2> QED
    BY <2>1, <2>2, <2>3 DEF InitiateVote
<1>12. VotesOnce'
  <2>1. \A c \in cast : c[1] = i => c[2] # t
    BY <1>10, <1>1
  <2> QED
    BY <2>1 DEF VotesOnce, InitiateVote
<1>13. CountInv'
  <2>1. Cardinality({i}) = 1
    BY FS_Singleton
  <2> QED
    BY <2>1 DEF CountInv, InitiateVote, TypeOK
<1>14. LeaderInv'
  <2> SUFFICES ASSUME NEW l \in leaders'
               PROVE \E Q \in SUBSET Server :
                        /\ Cardinality(Q) >= QuorumForElection + 1
                        /\ \A j \in Q : <<j, l[2], l[1]>> \in cast'
    BY DEF LeaderInv
  <2>1. CASE l \in leaders
    BY <2>1 DEF LeaderInv, InitiateVote
  <2>2. CASE l \notin leaders
    <3>1. l = <<i, t>> /\ 1 > QuorumForElection
      BY <2>2 DEF InitiateVote
    <3>2. Cardinality({i}) >= QuorumForElection + 1
      BY <3>1, FS_Singleton, QuorumType
    <3>3. <<i, l[2], l[1]>> \in cast'
      BY <3>1 DEF InitiateVote
    <3> QED
      BY <3>2, <3>3
  <2> QED
    BY <2>1, <2>2
<1> QED
  BY <1>3, <1>4, <1>8, <1>9, <1>11, <1>12, <1>13, <1>14

(* Dropping messages and changing roles keeps the invariant: the rest of the *)
(* voting state is what counts.                                              *)
LEMMA SameVotesKeepInv ==
  ASSUME VotingInv,
         UNCHANGED <<term, votedFor, stored, countVars, histVars>>,
         role' \in [Server -> Role], ballots' \subseteq ballots
  PROVE  VotingInv'
<1> USE DEF VotingInv, countVars, histVars
<1>1. TypeOK'
  BY DEF TypeOK
<1>2. Requests' \subseteq Requests /\ Responses' \subseteq Responses
  BY DEF Requests, Responses
<1>3. RequestInv'
  BY <1>2 DEF RequestInv
<1>4. ResponseInv'
  BY <1>2 DEF ResponseInv
<1>5. DurableInv' /\ CastInv' /\ VotesOnce' /\ CountInv' /\ LeaderInv'
  BY DEF DurableInv, CastInv, VotesOnce, CountInv, LeaderInv
<1> QED
  BY <1>1, <1>3, <1>4, <1>5

(* update_term keeps the invariant: the server forgets its vote and its      *)
(* counters, and no request, response or vote is of the new term.            *)
LEMMA UpdateTermKeepsInv ==
  ASSUME VotingInv, NEW i \in Server, NEW t \in Term, UpdateTerm(i, t),
         UNCHANGED histVars, ballots' \subseteq ballots
  PROVE  VotingInv'
<1> USE DEF VotingInv, histVars
<1>1. /\ t \in Nat /\ term[i] \in Nat /\ term[i] < t
      /\ term' = [term EXCEPT ![i] = t]
  BY BoundAssumption DEF UpdateTerm, NewerTerm, TypeOK, Term
<1>2. TypeOK'
  BY DEF TypeOK, UpdateTerm, Role
<1>3. DurableInv'
  BY DEF DurableInv, UpdateTerm, TypeOK
<1>4. /\ Requests' \subseteq Requests
      /\ Responses' \subseteq Responses
      /\ \A m \in Requests : m.src \in Server /\ m.term \in Nat
      /\ \A r \in Responses : r.dst \in Server /\ r.req \in Nat /\ r.term \in Nat
  BY BoundAssumption
  DEF Requests, Responses, TypeOK, VoteRequest, VoteResponse, Term
<1>5. \A j \in Server : /\ term[j] \in Nat /\ term'[j] \in Nat
                        /\ term[j] <= term'[j]
                        /\ j # i => /\ term'[j] = term[j]
                                    /\ voters'[j] = voters[j]
                                    /\ votedFor'[j] = votedFor[j]
                                    /\ granted'[j] = granted[j]
  BY <1>1, BoundAssumption DEF UpdateTerm, TypeOK, Term
<1>6. term'[i] = t
  BY <1>1 DEF TypeOK
<1>7. RequestInv'
  <2> SUFFICES ASSUME NEW m \in Requests'
               PROVE /\ m.src # m.dst
                     /\ m.term <= term'[m.src]
                     /\ m.term = term'[m.src] =>
                          /\ m.dst \notin voters'[m.src]
                          /\ \A n \in Requests' :
                               n.src = m.src /\ n.dst = m.dst /\ n.term = m.term
                                 => n = m
                          /\ \A r \in Responses' :
                               r.src = m.dst /\ r.dst = m.src => r.req # m.term
    BY DEF RequestInv
  <2>1. CASE m.src = i
    BY <2>1, <1>1, <1>4, <1>6 DEF RequestInv
  <2>2. CASE m.src # i
    BY <2>2, <1>4, <1>5 DEF RequestInv
  <2> QED
    BY <2>1, <2>2
<1>8. ResponseInv'
  <2> SUFFICES ASSUME NEW r \in Responses'
               PROVE /\ r.src # r.dst
                     /\ r.req <= term'[r.dst]
                     /\ r.accepted =>
                          /\ r.term = r.req
                          /\ <<r.src, r.term, r.dst>> \in cast'
                          /\ r.term = term'[r.dst]
                               => r.src \notin voters'[r.dst]
    BY DEF ResponseInv
  <2>1. CASE r.dst = i
    BY <2>1, <1>1, <1>4, <1>6 DEF ResponseInv
  <2>2. CASE r.dst # i
    BY <2>2, <1>4, <1>5 DEF ResponseInv
  <2> QED
    BY <2>1, <2>2
<1>9. CastInv'
  <2> SUFFICES ASSUME NEW c \in cast
               PROVE /\ c[2] <= term'[c[1]]
                     /\ c[2] = term'[c[1]] => votedFor'[c[1]] = c[3]
    BY DEF CastInv
  <2>1. /\ c[1] \in Server /\ c[2] \in Nat
        /\ c[2] <= term[c[1]]
        /\ c[2] = term[c[1]] => votedFor[c[1]] = c[3]
    BY BoundAssumption DEF TypeOK, Term, CastInv
  <2>2. CASE c[1] = i
    BY <2>1, <2>2, <1>1, <1>6
  <2>3. CASE c[1] # i
    BY <2>1, <2>3, <1>5
  <2> QED
    BY <2>2, <2>3
<1>10. CountInv'
  BY <1>5, FS_EmptySet DEF CountInv, UpdateTerm, TypeOK
<1>11. VotesOnce' /\ LeaderInv'
  BY DEF VotesOnce, LeaderInv
<1> QED
  BY <1>2, <1>3, <1>7, <1>8, <1>9, <1>10, <1>11

(* A crash and restart keeps the invariant: the term and the vote are the    *)
(* saved ones, which are the ones in memory.                                 *)
LEMMA RestartKeepsInv ==
  ASSUME VotingInv, NEW i \in Server, Restart(i)
  PROVE  VotingInv'
<1> USE DEF VotingInv, histVars
<1>1. /\ UNCHANGED <<term, votedFor, stored, ballots, cast, leaders>>
      /\ voters' = [voters EXCEPT ![i] = {}]
      /\ granted' = [granted EXCEPT ![i] = 0]
  <2>1. stored[i][1] = term[i] /\ stored[i][2] = votedFor[i]
    BY DEF DurableInv
  <2> QED
    BY <2>1 DEF Restart, TypeOK
<1>2. TypeOK'
  BY <1>1 DEF TypeOK, Restart, Role
<1>3. \A j \in Server : voters'[j] \subseteq voters[j]
  BY <1>1 DEF TypeOK
<1>4. RequestInv'
  <2>1. \A m \in Requests : m.src \in Server
    BY DEF Requests, TypeOK, VoteRequest, VoteResponse
  <2> QED
    BY <1>1, <1>3, <2>1 DEF RequestInv, Requests, Responses
<1>5. ResponseInv'
  <2>1. \A r \in Responses : r.dst \in Server
    BY DEF Responses, TypeOK, VoteRequest, VoteResponse
  <2> QED
    BY <1>1, <1>3, <2>1 DEF ResponseInv, Responses
<1>6. CountInv'
  BY <1>1, FS_EmptySet DEF CountInv, TypeOK
<1>7. DurableInv' /\ CastInv' /\ VotesOnce' /\ LeaderInv'
  BY <1>1 DEF DurableInv, CastInv, VotesOnce, LeaderInv
<1> QED
  BY <1>2, <1>4, <1>5, <1>6, <1>7

(* Counting a response of the current term (handle_vote_resp) keeps the      *)
(* invariant: the voter was not counted before, so the counter and the set   *)
(* of voters grow together.                                                  *)
LEMMA CountVoteKeepsInv ==
  ASSUME VotingInv, NEW m \in ballots, HandleVoteResp(m),
         ~NewerTerm(m.dst, m.term), Counts(m.dst, m)
  PROVE  VotingInv'
<1> DEFINE i == m.dst
<1> DEFINE g == granted[i] + (IF m.accepted THEN 1 ELSE 0)
<1> USE DEF VotingInv
<1>1. /\ m \in VoteResponse /\ m \in Responses
      /\ i \in Server /\ m.src \in Server /\ m.term = term[i]
      /\ m.accepted \in BOOLEAN
  BY DEF HandleVoteResp, TypeOK, VoteRequest, VoteResponse, Counts, Responses
<1>2. /\ ballots' = ballots \ {m}
      /\ UNCHANGED <<term, votedFor, stored, cast>>
      /\ granted' = [granted EXCEPT ![i] = g]
      /\ responded' = [responded EXCEPT ![i] = responded[i] + 1]
      /\ voters' = IF m.accepted THEN [voters EXCEPT ![i] = @ \cup {m.src}]
                   ELSE voters
      /\ completed' = [completed EXCEPT
            ![i] = responded[i] + 1 >= NumVotingMembers \/ Elected(g)]
      /\ role' = IF Elected(g) THEN [role EXCEPT ![i] = "leader"] ELSE role
      /\ leaders' = IF Elected(g) THEN leaders \cup {<<i, term[i]>>} ELSE leaders
  BY DEF HandleVoteResp, UpdateTerm
<1>3. granted[i] \in Nat /\ g \in Nat /\ responded[i] \in Nat
  BY <1>1 DEF TypeOK
<1>4. TypeOK'
  <2>1. /\ granted' \in [Server -> Nat] /\ responded' \in [Server -> Nat]
        /\ role' \in [Server -> Role] /\ voters' \in [Server -> SUBSET Server]
        /\ leaders' \subseteq Server \X Term
    BY <1>1, <1>2, <1>3 DEF TypeOK, Role
  <2>2. completed' \in [Server -> BOOLEAN]
    BY <1>2 DEF TypeOK
  <2> QED
    BY <1>2, <2>1, <2>2 DEF TypeOK
<1>5. m.accepted => m.src \notin voters[i] /\ <<m.src, term[i], i>> \in cast
                    /\ m.req = m.term
  BY <1>1 DEF ResponseInv
<1>6. Requests' = Requests /\ Responses' = Responses \ {m}
  BY <1>1, <1>2 DEF Requests, Responses
<1>7. \A j \in Server :
        voters'[j] = IF j = i /\ m.accepted THEN voters[j] \cup {m.src}
                     ELSE voters[j]
  BY <1>1, <1>2 DEF TypeOK
<1>13. \A j \in Server : \A k \in voters'[j] :
        k \in voters[j] \/ (j = i /\ m.accepted /\ k = m.src)
  BY <1>7
<1>8. RequestInv'
  <2> SUFFICES ASSUME NEW n \in Requests, n.term = term[n.src]
               PROVE n.dst \notin voters'[n.src]
    BY <1>2, <1>6 DEF RequestInv
  <2>1. n.src \in Server /\ n.dst \notin voters[n.src]
    BY DEF RequestInv, Requests, TypeOK, VoteRequest, VoteResponse
  <2>2. n.src = i /\ m.accepted => n.dst # m.src
    BY <1>1, <1>5 DEF RequestInv
  <2> QED
    BY <2>1, <2>2, <1>13
<1>9. ResponseInv'
  <2> SUFFICES ASSUME NEW r \in Responses, r # m, r.accepted,
                      r.term = term[r.dst]
               PROVE r.src \notin voters'[r.dst]
    BY <1>2, <1>6 DEF ResponseInv
  <2>1. /\ r \in VoteResponse /\ r.dst \in Server
        /\ r.src \notin voters[r.dst] /\ r.term = r.req
    BY DEF ResponseInv, Responses, TypeOK, VoteRequest, VoteResponse
  <2>2. r.dst = i /\ m.accepted => r.src # m.src
    <3> SUFFICES ASSUME r.dst = i, m.accepted, r.src = m.src PROVE FALSE
      OBVIOUS
    <3>1. /\ r.type = m.type /\ r.term = m.term /\ r.req = m.req
          /\ r.accepted = m.accepted
      BY <2>1, <1>1, <1>5 DEF VoteResponse
    <3> QED
      BY <3>1, <2>1, <1>1 DEF VoteResponse
  <2> QED
    BY <2>1, <2>2, <1>13
<1>10. CountInv'
  <2> SUFFICES ASSUME NEW j \in Server
               PROVE /\ granted'[j] = Cardinality(voters'[j])
                     /\ \A k \in voters'[j] : <<k, term[j], j>> \in cast
    BY <1>2 DEF CountInv
  <2>1. /\ granted[j] = Cardinality(voters[j])
        /\ \A k \in voters[j] : <<k, term[j], j>> \in cast
    BY DEF CountInv
  <2>2. CASE j = i /\ m.accepted
    <3>1. IsFiniteSet(voters[i])
      BY <1>1, ServerAssumption, FS_Subset DEF TypeOK
    <3>2. Cardinality(voters[i] \cup {m.src}) = Cardinality(voters[i]) + 1
      BY <3>1, <2>2, <1>5, FS_AddElement
    <3>3. granted'[i] = granted[i] + 1
      BY <2>2, <1>1, <1>2 DEF TypeOK
    <3> QED
      BY <2>1, <2>2, <3>2, <3>3, <1>5, <1>7
  <2>3. CASE ~(j = i /\ m.accepted)
    <3>1. granted'[j] = granted[j]
      BY <2>3, <1>1, <1>2, <1>3 DEF TypeOK
    <3> QED
      BY <2>1, <2>3, <3>1, <1>7
  <2> QED
    BY <2>2, <2>3
<1>11. LeaderInv'
  <2> SUFFICES ASSUME NEW l \in leaders', l \notin leaders
               PROVE \E Q \in SUBSET Server :
                        /\ Cardinality(Q) >= QuorumForElection + 1
                        /\ \A j \in Q : <<j, l[2], l[1]>> \in cast
    BY <1>2 DEF LeaderInv
  <2>1. l = <<i, term[i]>> /\ Elected(g)
    BY <1>2
  <2>2. granted'[i] = g
    BY <1>1, <1>2 DEF TypeOK
  <2>3. /\ g = Cardinality(voters'[i])
        /\ \A j \in voters'[i] : <<j, term[i], i>> \in cast
        /\ voters'[i] \in SUBSET Server
    BY <1>1, <1>2, <1>4, <1>10, <2>2 DEF CountInv, TypeOK
  <2> QED
    BY <2>1, <2>3 DEF Elected
<1>12. DurableInv' /\ CastInv' /\ VotesOnce'
  BY <1>2 DEF DurableInv, CastInv, VotesOnce
<1> QED
  BY <1>4, <1>8, <1>9, <1>10, <1>11, <1>12

(* Every vote response keeps the invariant, whatever its term.               *)
LEMMA HandleVoteRespKeepsInv ==
  ASSUME VotingInv, NEW m \in ballots, HandleVoteResp(m)
  PROVE  VotingInv'
<1>1. /\ ballots' = ballots \ {m}
      /\ m \in VoteResponse /\ m.dst \in Server /\ m.term \in Term
      /\ role \in [Server -> Role]
  BY DEF HandleVoteResp, VotingInv, TypeOK, VoteRequest, VoteResponse
<1>2. CASE NewerTerm(m.dst, m.term)
  <2>1. UpdateTerm(m.dst, m.term) /\ UNCHANGED histVars
    BY <1>2 DEF HandleVoteResp
  <2> QED
    BY <1>1, <2>1, UpdateTermKeepsInv
<1>3. CASE ~NewerTerm(m.dst, m.term) /\ ~Counts(m.dst, m)
  <2>1. UNCHANGED <<term, votedFor, stored, role, countVars, histVars>>
    BY <1>3 DEF HandleVoteResp, UpdateTerm
  <2> QED
    BY <1>1, <2>1, SameVotesKeepInv
<1>4. CASE ~NewerTerm(m.dst, m.term) /\ Counts(m.dst, m)
  BY <1>4, CountVoteKeepsInv
<1> QED
  BY <1>2, <1>3, <1>4

(* A vote request keeps the invariant (update_term, handle_vote_req): a vote *)
(* is only given in a term in which the server has voted for nobody else,    *)
(* and the answer takes the place of the request.                            *)
LEMMA HandleVoteReqKeepsInv ==
  ASSUME VotingInv, NEW m \in ballots, NEW okay \in BOOLEAN,
         HandleVoteReq(m, okay)
  PROVE  VotingInv'
<1> DEFINE i == m.dst
<1> DEFINE newer == NewerTerm(i, m.term)
<1> DEFINE t == IF newer THEN m.term ELSE term[i]
<1> DEFINE v == IF newer THEN Nil ELSE votedFor[i]
<1> DEFINE grant == Grants(m, t, v, okay)
<1> DEFINE resp == [type |-> "request_vote_response", src |-> i,
                    dst |-> m.src, term |-> t, accepted |-> grant,
                    req |-> m.term]
<1> USE DEF VotingInv
<1>1. /\ m \in VoteRequest /\ m \in Requests /\ m.type = "request_vote_request"
      /\ i \in Server /\ m.src \in Server /\ i # m.src
      /\ m.term \in Term /\ m.term \in Nat
      /\ term[i] \in Nat /\ t \in Nat /\ t \in Term
      /\ term[i] <= t /\ m.term <= t
      /\ v \in Server \cup {Nil} /\ grant \in BOOLEAN /\ newer \in BOOLEAN
  <2>1. /\ m \in VoteRequest /\ m \in Requests
        /\ m.type = "request_vote_request"
        /\ i \in Server /\ m.src \in Server
        /\ m.term \in Term
    BY DEF HandleVoteReq, TypeOK, VoteRequest, VoteResponse, Requests
  <2>2. m.term \in Nat /\ term[i] \in Nat /\ term[i] \in Term
    BY <2>1, BoundAssumption DEF TypeOK, Term
  <2>3. t \in Nat /\ t \in Term /\ term[i] <= t /\ m.term <= t
    BY <2>1, <2>2 DEF NewerTerm
  <2>4. v \in Server \cup {Nil}
    BY <2>1 DEF TypeOK
  <2>5. i # m.src
    BY <2>1 DEF RequestInv
  <2>6. grant \in BOOLEAN /\ newer \in BOOLEAN
    BY DEF Grants, NewerTerm
  <2> QED
    BY <2>1, <2>2, <2>3, <2>4, <2>5, <2>6
<1>2. /\ term' = [term EXCEPT ![i] = t]
      /\ votedFor' = [votedFor EXCEPT ![i] = IF grant THEN m.src ELSE v]
      /\ stored' = IF newer \/ grant
                   THEN [stored EXCEPT ![i] =
                           <<t, IF grant THEN m.src ELSE v>>]
                   ELSE stored
      /\ ballots' = (ballots \ {m}) \cup {resp}
      /\ cast' = IF grant THEN cast \cup {<<i, t, m.src>>} ELSE cast
      /\ leaders' = leaders
  BY DEF HandleVoteReq
<1>3. /\ newer => /\ role' = [role EXCEPT ![i] = "follower"]
                  /\ granted' = [granted EXCEPT ![i] = 0]
                  /\ responded' = [responded EXCEPT ![i] = 0]
                  /\ completed' = [completed EXCEPT ![i] = FALSE]
                  /\ voters' = [voters EXCEPT ![i] = {}]
      /\ ~newer => UNCHANGED <<role, granted, responded, completed, voters>>
  BY DEF HandleVoteReq, countVars
<1>4. /\ resp \in VoteResponse
      /\ Requests' = Requests \ {m}
      /\ Responses' = Responses \cup {resp}
  BY <1>1, <1>2 DEF VoteResponse, Requests, Responses
<1>5. TypeOK'
  <2>1. /\ term' \in [Server -> Term]
        /\ votedFor' \in [Server -> Server \cup {Nil}]
        /\ stored' \in [Server -> Term \X (Server \cup {Nil})]
        /\ cast' \subseteq Server \X Term \X Server
        /\ leaders' \subseteq Server \X Term
    BY <1>1, <1>2 DEF TypeOK
  <2>2. ballots' \subseteq VoteRequest \cup VoteResponse
    BY <1>2, <1>4 DEF TypeOK
  <2>3. /\ role' \in [Server -> Role] /\ granted' \in [Server -> Nat]
        /\ responded' \in [Server -> Nat] /\ completed' \in [Server -> BOOLEAN]
        /\ voters' \in [Server -> SUBSET Server]
    <3>1. CASE newer
      <4>1. completed' \in [Server -> BOOLEAN]
        BY <3>1, <1>3 DEF TypeOK
      <4>2. /\ role' \in [Server -> Role] /\ granted' \in [Server -> Nat]
            /\ responded' \in [Server -> Nat]
            /\ voters' \in [Server -> SUBSET Server]
        <5>1. /\ role' = [role EXCEPT ![i] = "follower"]
              /\ granted' = [granted EXCEPT ![i] = 0]
              /\ responded' = [responded EXCEPT ![i] = 0]
              /\ voters' = [voters EXCEPT ![i] = {}]
          BY <3>1, <1>3
        <5> HIDE DEF newer, i
        <5> QED
          BY <5>1 DEF TypeOK, Role
      <4> QED
        BY <4>1, <4>2
    <3>2. CASE ~newer
      BY <3>2, <1>3 DEF TypeOK
    <3> QED
      BY <3>1, <3>2, <1>1
  <2> QED
    BY <2>1, <2>2, <2>3 DEF TypeOK
<1>6. DurableInv'
  <2>1. CASE newer \/ grant
    BY <2>1, <1>1, <1>2 DEF DurableInv, TypeOK
  <2>2. CASE ~newer /\ ~grant
    BY <2>2, <1>1, <1>2 DEF DurableInv, TypeOK
  <2> QED
    BY <2>1, <2>2, <1>1
<1>7. \A j \in Server : /\ term[j] \in Nat /\ term'[j] \in Nat
                        /\ term[j] <= term'[j]
                        /\ voters'[j] \subseteq voters[j]
                        /\ j # i => /\ term'[j] = term[j]
                                    /\ votedFor'[j] = votedFor[j]
  <2>1. \A j \in Server : voters'[j] \subseteq voters[j]
    BY <1>1, <1>3 DEF TypeOK
  <2>2. \A j \in Server : term[j] \in Nat /\ term'[j] \in Nat
    BY <1>5, BoundAssumption DEF TypeOK, Term
  <2> QED
    BY <2>1, <2>2, <1>1, <1>2 DEF TypeOK
<1>8. term'[i] = t /\ (newer => term[i] < t /\ voters'[i] = {})
  BY <1>1, <1>2, <1>3 DEF TypeOK, NewerTerm
<1>9. \A n \in Requests : /\ n.src \in Server /\ n.term \in Nat
                          /\ n.term <= term[n.src]
  BY BoundAssumption
  DEF RequestInv, Requests, TypeOK, VoteRequest, VoteResponse, Term
<1>10. \A r \in Responses : /\ r.dst \in Server /\ r.req \in Nat
                            /\ r.term \in Nat /\ r.req <= term[r.dst]
  <2> SUFFICES ASSUME NEW r \in Responses
               PROVE  /\ r.dst \in Server /\ r.req \in Nat
                      /\ r.term \in Nat /\ r.req <= term[r.dst]
    OBVIOUS
  <2>1. r \in VoteResponse
    BY DEF Responses, TypeOK, VoteRequest, VoteResponse
  <2>2. r.dst \in Server /\ r.req \in Term /\ r.term \in Term
    BY <2>1 DEF VoteResponse
  <2>3. r.req <= term[r.dst]
    BY DEF ResponseInv
  <2> QED
    BY <2>2, <2>3, BoundAssumption DEF Term
<1>11. RequestInv'
  <2> SUFFICES ASSUME NEW n \in Requests, n # m
               PROVE /\ n.src # n.dst
                     /\ n.term <= term'[n.src]
                     /\ n.term = term'[n.src] =>
                          /\ n.dst \notin voters'[n.src]
                          /\ \A o \in Requests \ {m} :
                               n.src = o.src /\ n.dst = o.dst
                                 /\ n.term = o.term => o = n
                          /\ \A r \in Responses \cup {resp} :
                               r.src = n.dst /\ r.dst = n.src => r.req # n.term
    BY <1>4 DEF RequestInv
  <2>1. n.src # n.dst /\ n.term <= term'[n.src]
    BY <1>7, <1>9 DEF RequestInv
  <2>2. ASSUME n.term = term'[n.src]
        PROVE  /\ n.dst \notin voters'[n.src]
               /\ \A o \in Requests \ {m} :
                    n.src = o.src /\ n.dst = o.dst /\ n.term = o.term => o = n
               /\ \A r \in Responses \cup {resp} :
                    r.src = n.dst /\ r.dst = n.src => r.req # n.term
    <3>1. n.term = term[n.src]
      BY <2>2, <1>7, <1>9
    <3>2. n.dst \notin voters'[n.src]
      BY <3>1, <1>7, <1>9 DEF RequestInv
    <3>3. \A o \in Requests :
             n.src = o.src /\ n.dst = o.dst /\ n.term = o.term => o = n
      BY <3>1 DEF RequestInv
    <3>4. resp.src = n.dst /\ resp.dst = n.src => resp.req # n.term
      BY <3>3, <1>1
    <3>5. \A r \in Responses :
             r.src = n.dst /\ r.dst = n.src => r.req # n.term
      BY <3>1 DEF RequestInv
    <3> QED
      BY <3>2, <3>3, <3>4, <3>5
  <2> QED
    BY <2>1, <2>2
<1>12. cast \subseteq cast' /\ (grant => <<i, t, m.src>> \in cast')
  BY <1>2
<1>13. ResponseInv'
  <2>1. ASSUME NEW r \in Responses
        PROVE  /\ r.src # r.dst
               /\ r.req <= term'[r.dst]
               /\ r.accepted =>
                    /\ r.term = r.req
                    /\ <<r.src, r.term, r.dst>> \in cast'
                    /\ r.term = term'[r.dst] => r.src \notin voters'[r.dst]
    <3>0. /\ r.dst \in Server /\ r.req \in Nat /\ r.req <= term[r.dst]
          /\ term[r.dst] \in Nat /\ term'[r.dst] \in Nat
          /\ term[r.dst] <= term'[r.dst]
      BY <1>7, <1>10
    <3>4. r.src # r.dst
      BY DEF ResponseInv
    <3>1. r.src # r.dst /\ r.req <= term'[r.dst]
      BY <3>0, <3>4
    <3>2. ASSUME r.accepted
          PROVE  /\ r.term = r.req
                 /\ <<r.src, r.term, r.dst>> \in cast'
      BY <3>2, <1>12 DEF ResponseInv
    <3>3. ASSUME r.accepted, r.term = term'[r.dst]
          PROVE  r.src \notin voters'[r.dst]
      <4>1. r.term = term[r.dst]
        BY <3>2, <3>3, <1>7, <1>10
      <4> QED
        BY <4>1, <3>3, <1>7, <1>10 DEF ResponseInv
    <3> QED
      BY <3>1, <3>2, <3>3
  <2>2. /\ resp.src # resp.dst
        /\ resp.req <= term'[resp.dst]
        /\ grant => /\ resp.term = resp.req
                    /\ <<resp.src, resp.term, resp.dst>> \in cast'
                    /\ resp.term = term'[resp.dst] =>
                          resp.src \notin voters'[resp.dst]
    <3>1. /\ resp.src = i /\ resp.dst = m.src /\ resp.req = m.term
          /\ resp.term = t
      OBVIOUS
    <3>2. /\ m.src # i /\ term'[m.src] = term[m.src]
          /\ m.term <= term[m.src]
      BY <1>1, <1>7, <1>9
    <3>3. grant => t = m.term
      BY DEF Grants
    <3>4. ASSUME grant, t = term'[m.src]
          PROVE  i \notin voters'[m.src]
      BY <3>2, <3>3, <3>4, <1>1, <1>7 DEF RequestInv
    <3> QED
      BY <3>1, <3>2, <3>3, <3>4, <1>12
  <2>3. resp.accepted = grant
    OBVIOUS
  <2> QED
    BY <2>1, <2>2, <2>3, <1>4 DEF ResponseInv
<1>14. ASSUME NEW c \in cast, c[1] = i, c[2] = t
       PROVE  ~newer /\ v = c[3] /\ (grant => c[3] = m.src)
  <2>1. c[2] <= term[i] /\ c[2] \in Nat /\ c[3] \in Server
    BY <1>14, <1>1 DEF CastInv, TypeOK
  <2>2. ~newer /\ t = term[i]
    BY <2>1, <1>14, <1>1, <1>8
  <2>3. v = votedFor[i] /\ votedFor[i] = c[3]
    BY <2>2, <1>14 DEF CastInv
  <2> QED
    BY <2>1, <2>2, <2>3, ServerAssumption DEF Grants
<1>15. CastInv'
  <2> SUFFICES ASSUME NEW c \in cast'
               PROVE /\ c[2] <= term'[c[1]]
                     /\ c[2] = term'[c[1]] => votedFor'[c[1]] = c[3]
    BY DEF CastInv
  <2>1. CASE c \in cast
    <3>1. c[1] \in Server /\ c[2] \in Nat /\ c[2] <= term[c[1]]
      BY <2>1, BoundAssumption DEF CastInv, TypeOK, Term
    <3>2. c[2] <= term'[c[1]]
      BY <3>1, <1>7
    <3>3. ASSUME c[2] = term'[c[1]], c[1] # i
          PROVE  votedFor'[c[1]] = c[3]
      BY <3>1, <3>3, <2>1, <1>7 DEF CastInv
    <3>4. ASSUME c[2] = term'[c[1]], c[1] = i
          PROVE  votedFor'[c[1]] = c[3]
      <4>1. v = c[3] /\ (grant => c[3] = m.src)
        BY <3>4, <2>1, <1>8, <1>14
      <4> QED
        BY <4>1, <3>4, <1>1, <1>2 DEF TypeOK
    <3> QED
      BY <3>2, <3>3, <3>4
  <2>2. CASE c \notin cast
    <3>1. grant /\ c = <<i, t, m.src>>
      BY <2>2, <1>2
    <3>2. votedFor'[i] = m.src
      BY <3>1, <1>1, <1>2 DEF TypeOK
    <3> QED
      BY <3>1, <3>2, <1>1, <1>8
  <2> QED
    BY <2>1, <2>2
<1>16. VotesOnce'
  <2> SUFFICES ASSUME NEW a \in cast', NEW b \in cast',
                      a[1] = b[1], a[2] = b[2]
               PROVE a[3] = b[3]
    BY DEF VotesOnce
  <2>1. CASE a \in cast /\ b \in cast
    BY <2>1 DEF VotesOnce
  <2>2. CASE a \in cast /\ b \notin cast
    <3>1. grant /\ b = <<i, t, m.src>>
      BY <2>2, <1>2
    <3> QED
      BY <3>1, <2>2, <1>14
  <2>3. CASE a \notin cast /\ b \in cast
    <3>1. grant /\ a = <<i, t, m.src>>
      BY <2>3, <1>2
    <3> QED
      BY <3>1, <2>3, <1>14
  <2>4. CASE a \notin cast /\ b \notin cast
    BY <2>4, <1>2
  <2> QED
    BY <2>1, <2>2, <2>3, <2>4
<1>17. CountInv'
  <2>1. CASE newer
    <3>1. Cardinality({}) = 0
      BY FS_EmptySet
    <3>2. /\ voters'[i] = {} /\ granted'[i] = 0
          /\ \A j \in Server \ {i} : /\ voters'[j] = voters[j]
                                     /\ granted'[j] = granted[j]
                                     /\ term'[j] = term[j]
      BY <2>1, <1>1, <1>2, <1>3 DEF TypeOK
    <3>3. \A j \in Server \ {i} : /\ granted'[j] = Cardinality(voters'[j])
                                 /\ \A k \in voters'[j] :
                                      <<k, term'[j], j>> \in cast'
      BY <3>2, <1>12 DEF CountInv
    <3> QED
      BY <3>1, <3>2, <3>3 DEF CountInv
  <2>2. CASE ~newer
    BY <2>2, <1>1, <1>2, <1>3, <1>12 DEF CountInv, TypeOK
  <2> QED
    BY <2>1, <2>2, <1>1
<1>18. LeaderInv'
  BY <1>2, <1>12 DEF LeaderInv
<1> QED
  BY <1>5, <1>6, <1>11, <1>13, <1>15, <1>16, <1>17, <1>18

(* Every step of VotingSpec keeps the invariant.                             *)
LEMMA NextKeepsInv == VotingInv /\ [VotingNext]_voteVars => VotingInv'
<1> SUFFICES ASSUME VotingInv, [VotingNext]_voteVars PROVE VotingInv'
  OBVIOUS
<1>1. ASSUME NEW i \in Server, NEW dsts \in SUBSET Server, NEW info \in VoteInfo,
             InitiateVote(i, dsts, info)
      PROVE  VotingInv'
  BY <1>1, InitiateVoteKeepsInv
<1>2. ASSUME NEW m \in ballots, NEW okay \in BOOLEAN, HandleVoteReq(m, okay)
      PROVE  VotingInv'
  BY <1>2, HandleVoteReqKeepsInv
<1>3. ASSUME NEW m \in ballots, HandleVoteResp(m)
      PROVE  VotingInv'
  BY <1>3, HandleVoteRespKeepsInv
<1>4. ASSUME NEW i \in Server, NEW t \in Term, ObserveTerm(i, t)
      PROVE  VotingInv'
  <2>1. UpdateTerm(i, t) /\ UNCHANGED histVars /\ ballots' \subseteq ballots
    BY <1>4 DEF ObserveTerm
  <2> QED
    BY <2>1, UpdateTermKeepsInv
<1>5. ASSUME NEW i \in Server, BecomeFollower(i) \/ BecomeCandidate(i)
      PROVE  VotingInv'
  <2>1. /\ UNCHANGED <<term, votedFor, stored, countVars, histVars>>
        /\ role' \in [Server -> Role] /\ ballots' \subseteq ballots
    BY <1>5 DEF BecomeFollower, BecomeCandidate, VotingInv, TypeOK, Role
  <2> QED
    BY <2>1, SameVotesKeepInv
<1>6. ASSUME NEW i \in Server, Restart(i)
      PROVE  VotingInv'
  BY <1>6, RestartKeepsInv
<1>7. ASSUME NEW m \in ballots, LoseBallot(m)
      PROVE  VotingInv'
  <2>1. /\ UNCHANGED <<term, votedFor, stored, countVars, histVars>>
        /\ role' \in [Server -> Role] /\ ballots' \subseteq ballots
    BY <1>7 DEF LoseBallot, VotingInv, TypeOK
  <2> QED
    BY <2>1, SameVotesKeepInv
<1>8. ASSUME UNCHANGED voteVars
      PROVE  VotingInv'
  <2>1. /\ UNCHANGED <<term, votedFor, stored, countVars, histVars>>
        /\ role' \in [Server -> Role] /\ ballots' \subseteq ballots
    BY <1>8 DEF voteVars, VotingInv, TypeOK
  <2> QED
    BY <2>1, SameVotesKeepInv
<1> QED
  BY <1>1, <1>2, <1>3, <1>4, <1>5, <1>6, <1>7, <1>8 DEF VotingNext

(* VotingInv holds in every state the voting code can reach.                 *)
THEOREM VotingInvariance == VotingSpec => []VotingInv
<1> QED
  BY InitEstablishesInv, NextKeepsInv, PTL DEF VotingSpec

(* Type correctness of the voting state.                                     *)
THEOREM VotingTypeCorrect == VotingSpec => []TypeOK
<1>1. VotingInv => TypeOK
  BY DEF VotingInv
<1> QED
  BY <1>1, VotingInvariance, PTL

(* At most one leader per term, for every number of servers (request_vote,   *)
(* handle_vote_req, handle_vote_resp, update_term and a restart).            *)
THEOREM AtMostOneLeaderPerTerm == VotingSpec => []ElectionSafety
<1> QED
  BY InvImpliesElectionSafety, VotingInvariance, PTL

(* At most one vote per server and term, crashes included (handle_vote_req). *)
THEOREM AtMostOneVotePerTerm == VotingSpec => []VotesOnce
<1>1. VotingInv => VotesOnce
  BY DEF VotingInv
<1> QED
  BY <1>1, VotingInvariance, PTL

(* Terms never go back, crashes included (update_term, request_vote and the  *)
(* constructor that reads the saved state).                                  *)
THEOREM TermsMonotonic == VotingSpec => TermsNeverDecrease
<1>1. ASSUME VotingInv, [VotingNext]_voteVars
      PROVE  [\A i \in Server : term'[i] >= term[i]]_voteVars
  <2> SUFFICES ASSUME VotingNext, NEW j \in Server
               PROVE  term'[j] >= term[j]
    BY <1>1
  <2>1. /\ term \in [Server -> Term] /\ \A i \in Server : term[i] \in Nat
        /\ \A m \in ballots : m.dst \in Server /\ m.term \in Nat
    BY <1>1, BoundAssumption
    DEF VotingInv, TypeOK, Term, VoteRequest, VoteResponse
  <2>2. ASSUME NEW i \in Server, NEW dsts, NEW info, InitiateVote(i, dsts, info)
        PROVE  term'[j] >= term[j]
    BY <2>1, <2>2 DEF InitiateVote
  <2>3. ASSUME NEW i \in Server, NEW t \in Nat, UpdateTerm(i, t)
        PROVE  term'[j] >= term[j]
    BY <2>1, <2>3 DEF UpdateTerm, NewerTerm
  <2>4. ASSUME NEW m \in ballots, NEW okay, HandleVoteReq(m, okay)
        PROVE  term'[j] >= term[j]
    <3>1. term' = [term EXCEPT ![m.dst] =
                     IF NewerTerm(m.dst, m.term) THEN m.term ELSE term[m.dst]]
      BY <2>4 DEF HandleVoteReq
    <3> QED
      BY <2>1, <3>1 DEF NewerTerm
  <2>5. ASSUME NEW m \in ballots, HandleVoteResp(m)
        PROVE  term'[j] >= term[j]
    <3>1. UpdateTerm(m.dst, m.term) \/ term' = term
      BY <2>5 DEF HandleVoteResp
    <3> QED
      BY <2>1, <2>3, <3>1
  <2>6. ASSUME NEW i \in Server, NEW t \in Term, ObserveTerm(i, t)
        PROVE  term'[j] >= term[j]
    BY <2>3, <2>6, BoundAssumption DEF ObserveTerm, Term
  <2>7. ASSUME NEW i \in Server, Restart(i)
        PROVE  term'[j] >= term[j]
    BY <1>1, <2>1, <2>7 DEF Restart, VotingInv, DurableInv
  <2>8. ASSUME term' = term
        PROVE  term'[j] >= term[j]
    BY <2>1, <2>8
  <2>9. ASSUME NEW i \in Server, BecomeFollower(i) \/ BecomeCandidate(i)
        PROVE  term' = term
    BY <2>9 DEF BecomeFollower, BecomeCandidate
  <2>10. ASSUME NEW m \in ballots, LoseBallot(m)
         PROVE  term' = term
    BY <2>10 DEF LoseBallot
  <2> QED
    BY <2>2, <2>4, <2>5, <2>6, <2>7, <2>8, <2>9, <2>10 DEF VotingNext
<1> QED
  BY <1>1, VotingInvariance, PTL DEF VotingSpec, TermsNeverDecrease
=============================================================================
