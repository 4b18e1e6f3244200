--------------------------- MODULE TeeAuth_proofs ---------------------------
(***************************************************************************)
(* Proofs about TeeAuth, for any keys, allowlist, nodes and number of      *)
(* concurrent handshakes, and any length of the chain: what a session      *)
(* stands for, and what a refusal after an accepted signature stands for.  *)
(***************************************************************************)
EXTENDS TeeAuth, TLAPS

Answers == {"true", "false", "NearRpcError", "InvalidPublicKey"}

\* What read_answer makes of what a node, or the network, sends back.
LEMMA AnswersRead ==
  ASSUME NEW k, NEW b
  PROVE  /\ \A r \in NodeReplies(k, b) : read_answer(r) \in {"true", "false"}
                                         /\ (read_answer(r) = "true" <=> k \in chain[b])
         /\ \A r \in NodeFailures : read_answer(r) \in {"false", "NearRpcError"}
  <1>1. /\ read_answer(Access) = "true" /\ read_answer(Result(FALSE, "unknown key")) = "false"
        /\ read_answer(Result(FALSE, "failed")) = "false"
    BY DEF Access, Result, read_answer
  <1>2. read_answer(RpcError("UNKNOWN_ACCESS_KEY", "none")) = "false"
    BY DEF RpcError, read_answer
  <1>3. read_answer(RpcError("none", "does not exist")) = "false"
    BY DEF RpcError, read_answer
  <1>4. read_answer(Transport) = "NearRpcError"
    BY DEF Transport, read_answer
  <1>5. read_answer(RpcError("TIMEOUT_ERROR", "none")) = "NearRpcError"
    BY DEF RpcError, read_answer
  <1>6. \A r \in NodeReplies(k, b) : read_answer(r) \in {"true", "false"}
                                     /\ (read_answer(r) = "true" <=> k \in chain[b])
    <2>1. CASE k \in chain[b]
      BY <1>1, <2>1 DEF NodeReplies
    <2>2. CASE k \notin chain[b]
      BY <1>1, <1>2, <1>3, <2>2 DEF NodeReplies
    <2> QED BY <2>1, <2>2
  <1> QED BY <1>1, <1>4, <1>5, <1>6 DEF NodeFailures

\* Either crate answers Ok for this handshake's challenge only.
LEMMA OkMeansSigned ==
  ASSUME NEW h, NEW c
  PROVE  /\ verified(h, c) \in {"Ok", "InvalidPublicKey", "KeyTypeNotAllowed",
                                  "SignatureVerificationFailed"}
         /\ verified(h, c) = "Ok" =>
              c.signer = c.key /\ c.over = h /\ Scheme[c.key] \in Accepted(h)
  BY DEF verified, verify_signature, legacy_verify_signature, Accepted, parse_public_key_bytes

\* What is said of a claim depends on the claim alone.
LEMMA VerdictOfTheClaim ==
  ASSUME NEW h
  PROVE  verified(h, claim[h])' = verified(h, claim'[h])
  BY DEF verified, verify_signature, legacy_verify_signature, parses, parse_public_key_bytes, from_csv

\* The inductive invariant: what holds of a handshake at each of its places.
AskingInv(h) ==
  /\ pc[h] \in {"new", "challenged"} => attempt[h] = 0 /\ reads[h] = {}
  /\ pc[h] \in {"asking", "session"} =>
       claim[h] \in Claims /\ verified(h, claim[h]) = "Ok"
  /\ pc[h] = "asking" => attempt[h] \in 1..MAX_RETRIES
  /\ pc[h] \in {"asking", "refused"} => \A b \in reads[h] : claim[h].key \notin chain[b]
  /\ pc[h] = "session" => \E b \in reads[h] : claim[h].key \in chain[b]
  /\ pc[h] = "refused" /\ attempt[h] > 0 => attempt[h] = MAX_RETRIES
HandshakeInv == \A h \in Handshakes : AskingInv(h)
IInv == TypeOK /\ HandshakeInv

LEMMA InitIInv == Init => IInv
  <1> SUFFICES ASSUME Init PROVE IInv OBVIOUS
  <1> USE ConstantsAssumption
  <1>1. PICK registered \in SUBSET Keys : chain = <<registered>>
    BY DEF Init
  <1>2. chain \in Seq(SUBSET Keys) /\ Len(chain) = 1
    BY <1>1
  <1>3. TypeOK
    BY <1>2 DEF Init, TypeOK, MAX_RETRIES
  <1>4. HandshakeInv
    BY DEF Init, HandshakeInv, AskingInv, MAX_RETRIES
  <1> QED BY <1>3, <1>4 DEF IInv

\* A chain that grows keeps the blocks the answers came from.
LEMMA NewBlockKeeps == IInv /\ NewBlock => IInv'
  <1> SUFFICES ASSUME IInv, NewBlock PROVE IInv' OBVIOUS
  <1>1. PICK registered \in SUBSET Keys : chain' = Append(chain, registered)
    BY DEF NewBlock, IInv, TypeOK
  <1>2. chain \in Seq(SUBSET Keys) /\ Len(chain) \in Nat \ {0}
    BY DEF IInv, TypeOK
  <1>3. /\ chain' \in Seq(SUBSET Keys) /\ Len(chain') = Len(chain) + 1
        /\ DOMAIN chain = 1..Len(chain) /\ DOMAIN chain' = 1..Len(chain')
        /\ \A b \in DOMAIN chain : b \in DOMAIN chain' /\ chain'[b] = chain[b]
    BY <1>1, <1>2
  <1>4. TypeOK'
    <2>1. head' \in [Nodes -> 1..Len(chain')]
      BY <1>2, <1>3 DEF NewBlock, IInv, TypeOK
    <2>2. reads' \in [Handshakes -> SUBSET DOMAIN chain']
      BY <1>3 DEF NewBlock, IInv, TypeOK
    <2> QED BY <1>2, <1>3, <2>1, <2>2 DEF NewBlock, IInv, TypeOK
  <1>5. HandshakeInv'
    <2> SUFFICES ASSUME NEW h \in Handshakes PROVE AskingInv(h)'
      BY DEF HandshakeInv
    <2>1. AskingInv(h) /\ \A b \in reads[h] : b \in DOMAIN chain
      BY DEF IInv, HandshakeInv, TypeOK
    <2>2. UNCHANGED <<pc, claim, attempt, reads>>
      BY DEF NewBlock
    <2>3. \A b \in reads[h] : chain'[b] = chain[b]
      BY <1>3, <2>1
    <2> QED BY <2>1, <2>2, <2>3, VerdictOfTheClaim DEF AskingInv
  <1> QED BY <1>4, <1>5 DEF IInv

LEMMA CatchUpKeeps == ASSUME NEW n \in Nodes, IInv, CatchUp(n) PROVE IInv'
  <1>1. TypeOK'
    BY DEF CatchUp, IInv, TypeOK
  <1>2. HandshakeInv'
    BY VerdictOfTheClaim DEF CatchUp, IInv, HandshakeInv, AskingInv
  <1> QED BY <1>1, <1>2 DEF IInv

\* One handshake's step: the others are as they were.
LEMMA OthersKeep ==
  ASSUME NEW h \in Handshakes, IInv, UNCHANGED chain,
         \A g \in Handshakes \ {h} : /\ pc'[g] = pc[g] /\ claim'[g] = claim[g]
                                     /\ attempt'[g] = attempt[g] /\ reads'[g] = reads[g],
         AskingInv(h)'
  PROVE  HandshakeInv'
  <1> SUFFICES ASSUME NEW g \in Handshakes, g # h PROVE AskingInv(g)'
    BY DEF HandshakeInv
  <1>1. AskingInv(g)
    BY DEF IInv, HandshakeInv
  <1> QED BY <1>1, VerdictOfTheClaim DEF AskingInv

LEMMA ChallengeKeeps == ASSUME NEW h \in Handshakes, IInv, generate_challenge(h) PROVE IInv'
  <1>1. TypeOK'
    BY DEF generate_challenge, worldVars, IInv, TypeOK
  <1>2. AskingInv(h)'
    BY DEF generate_challenge, worldVars, IInv, TypeOK, HandshakeInv, AskingInv
  <1>3. HandshakeInv'
    BY <1>2, OthersKeep DEF generate_challenge, worldVars, IInv, TypeOK
  <1> QED BY <1>1, <1>3 DEF IInv

LEMMA PresentKeeps == ASSUME NEW h \in Handshakes, IInv, Present(h) PROVE IInv'
  <1>1. PICK c \in Claims :
          /\ claim' = [claim EXCEPT ![h] = c]
          /\ \/ /\ verified(h, c) = "Ok"
                /\ pc' = [pc EXCEPT ![h] = "asking"]
                /\ attempt' = [attempt EXCEPT ![h] = 1]
                /\ UNCHANGED error
             \/ /\ verified(h, c) # "Ok"
                /\ pc' = [pc EXCEPT ![h] = "refused"]
                /\ error' = [error EXCEPT ![h] = verified(h, c)]
                /\ UNCHANGED attempt
    BY DEF Present
  <1>2. UNCHANGED <<chain, head, reads>> /\ pc[h] = "challenged" /\ reads[h] = {} /\ attempt[h] = 0
    BY DEF Present, worldVars, IInv, HandshakeInv, AskingInv
  <1>3. claim'[h] = c
    BY <1>1 DEF IInv, TypeOK
  <1>4. verified(h, claim[h])' = verified(h, c)
    BY <1>3, VerdictOfTheClaim
  <1>5. TypeOK'
    <2>1. CASE verified(h, c) = "Ok"
      BY SMTT(30), <1>1, <1>2, <2>1 DEF IInv, TypeOK, MAX_RETRIES
    <2>2. CASE verified(h, c) # "Ok"
      <3>1. verified(h, c) \in {"InvalidPublicKey", "KeyTypeNotAllowed", "SignatureVerificationFailed"}
        BY <2>2, OkMeansSigned
      <3> QED BY <1>1, <1>2, <2>2, <3>1 DEF IInv, TypeOK
    <2> QED BY <2>1, <2>2
  <1>6. AskingInv(h)'
    <2>1. CASE verified(h, c) = "Ok"
      BY <1>1, <1>2, <1>3, <1>4, <2>1 DEF IInv, TypeOK, AskingInv, MAX_RETRIES
    <2>2. CASE verified(h, c) # "Ok"
      BY <1>1, <1>2, <1>3, <1>4, <2>2 DEF IInv, TypeOK, AskingInv
    <2> QED BY <2>1, <2>2
  <1>7. HandshakeInv'
    BY <1>1, <1>2, <1>6, OthersKeep DEF IInv, TypeOK
  <1> QED BY <1>5, <1>7 DEF IInv

\* The loop, given the blocks that have answered it so far.
LEMMA AnsweredKeeps ==
  ASSUME NEW h \in Handshakes, NEW answer \in Answers, IInv, Answered(h, answer),
         pc[h] = "asking", UNCHANGED <<chain, head, claim>>,
         reads' \in [Handshakes -> SUBSET DOMAIN chain],
         \A g \in Handshakes \ {h} : reads'[g] = reads[g],
         answer = "true" => \E b \in reads'[h] : claim[h].key \in chain[b],
         answer # "true" => \A b \in reads'[h] : claim[h].key \notin chain[b]
  PROVE  IInv'
  <1>1. AskingInv(h) /\ TypeOK
    BY DEF IInv, HandshakeInv
  <1>2. claim[h] \in Claims /\ verified(h, claim[h]) = "Ok" /\ attempt[h] \in 1..MAX_RETRIES
    BY <1>1 DEF AskingInv
  <1>3. verified(h, claim[h])' = "Ok"
    BY <1>2, VerdictOfTheClaim
  <1>4. CASE answer = "true"
    <2>1. pc' = [pc EXCEPT ![h] = "session"] /\ UNCHANGED <<attempt, error>>
      BY <1>4 DEF Answered
    <2>2. TypeOK'
      BY <1>1, <2>1 DEF TypeOK
    <2>3. AskingInv(h)'
      BY <1>1, <1>2, <1>3, <1>4, <2>1 DEF AskingInv, TypeOK
    <2> QED BY <1>1, <2>1, <2>2, <2>3, OthersKeep DEF IInv, TypeOK
  <1>5. CASE answer # "true" /\ may_ask_again(h, answer)
    <2>1. attempt' = [attempt EXCEPT ![h] = attempt[h] + 1] /\ UNCHANGED <<pc, error>> /\ attempt[h] < MAX_RETRIES
      BY <1>5 DEF Answered, may_ask_again, next_attempt
    <2>2. TypeOK'
      BY <1>1, <1>2, <2>1 DEF TypeOK, MAX_RETRIES
    <2>3. AskingInv(h)'
      BY <1>1, <1>2, <1>3, <1>5, <2>1 DEF AskingInv, TypeOK, MAX_RETRIES
    <2> QED BY <1>1, <2>1, <2>2, <2>3, OthersKeep DEF IInv, TypeOK
  <1>6. CASE answer # "true" /\ ~may_ask_again(h, answer)
    <2>1. /\ pc' = [pc EXCEPT ![h] = "refused"] /\ UNCHANGED attempt
          /\ error' = [error EXCEPT ![h] = IF answer = "false" THEN "NotRegistered" ELSE answer]
          /\ ~(attempt[h] < MAX_RETRIES)
      BY <1>6 DEF Answered, may_ask_again
    <2>2. TypeOK'
      BY <1>1, <1>6, <2>1 DEF TypeOK, Answers
    <2>3. attempt[h] = MAX_RETRIES
      BY <1>2, <2>1 DEF MAX_RETRIES
    <2>4. AskingInv(h)'
      BY <1>1, <1>6, <2>1, <2>3 DEF AskingInv, TypeOK
    <2> QED BY <1>1, <2>1, <2>2, <2>4, OthersKeep DEF IInv, TypeOK
  <1> QED BY <1>4, <1>5, <1>6

LEMMA AskKeeps == ASSUME NEW h \in Handshakes, IInv, Ask(h) PROVE IInv'
  <1>0. PICK n \in Nodes : \E r \in NodeReplies(claim[h].key, head[n]) \cup NodeFailures :
          /\ reads' = IF r \in NodeFailures THEN reads ELSE [reads EXCEPT ![h] = @ \cup {head[n]}]
          /\ Answered(h, read_answer(r))
    BY DEF Ask
  <1>1. PICK r \in NodeReplies(claim[h].key, head[n]) \cup NodeFailures :
          /\ reads' = IF r \in NodeFailures THEN reads ELSE [reads EXCEPT ![h] = @ \cup {head[n]}]
          /\ Answered(h, read_answer(r))
    BY <1>0
  <1>2. pc[h] = "asking" /\ UNCHANGED <<chain, head, claim>>
    BY DEF Ask, worldVars
  <1>3. reads \in [Handshakes -> SUBSET DOMAIN chain] /\ head[n] \in DOMAIN chain
    BY DEF IInv, TypeOK
  <1>4. \A b \in reads[h] : claim[h].key \notin chain[b]
    BY <1>2 DEF IInv, HandshakeInv, AskingInv
  <1>5. CASE r \in NodeFailures
    <2>1. read_answer(r) \in {"false", "NearRpcError"} /\ reads' = reads
      BY <1>1, <1>5, AnswersRead
    <2>2. read_answer(r) \in Answers /\ read_answer(r) # "true"
      BY <2>1 DEF Answers
    <2>3. /\ \A g \in Handshakes \ {h} : reads'[g] = reads[g]
          /\ reads' \in [Handshakes -> SUBSET DOMAIN chain] /\ reads'[h] = reads[h]
      BY <1>3, <2>1
    <2> QED BY <1>1, <1>2, <1>4, <2>2, <2>3, AnsweredKeeps
  <1>6. CASE r \notin NodeFailures
    <2>1. /\ read_answer(r) \in {"true", "false"}
          /\ read_answer(r) = "true" <=> claim[h].key \in chain[head[n]]
      BY <1>1, <1>6, AnswersRead
    <2>2. reads' = [reads EXCEPT ![h] = @ \cup {head[n]}]
      BY <1>1, <1>6
    <2>3. reads' \in [Handshakes -> SUBSET DOMAIN chain] /\ reads'[h] = reads[h] \cup {head[n]}
      BY <1>3, <2>2
    <2>4. \A g \in Handshakes \ {h} : reads'[g] = reads[g]
      BY <1>3, <2>2
    <2>5. read_answer(r) \in Answers
      BY <2>1 DEF Answers
    <2> QED BY <1>1, <1>2, <1>4, <2>1, <2>3, <2>4, <2>5, AnsweredKeeps
  <1> QED BY <1>5, <1>6

LEMMA AskBareKeeps == ASSUME NEW h \in Handshakes, IInv, AskBare(h) PROVE IInv'
  <1>1. /\ pc[h] = "asking" /\ UNCHANGED <<chain, head, claim, reads>>
        /\ Answered(h, "InvalidPublicKey")
    BY DEF AskBare, worldVars
  <1>2. reads \in [Handshakes -> SUBSET DOMAIN chain] /\ \A b \in reads[h] : claim[h].key \notin chain[b]
    BY <1>1 DEF IInv, TypeOK, HandshakeInv, AskingInv
  <1> QED BY <1>1, <1>2, AnsweredKeeps DEF Answers

LEMMA StepKeepsIInv == IInv /\ [Next]_vars => IInv'
  <1> SUFFICES ASSUME IInv, [Next]_vars PROVE IInv' OBVIOUS
  <1>1. CASE NewBlock BY <1>1, NewBlockKeeps
  <1>2. CASE \E n \in Nodes : CatchUp(n) BY <1>2, CatchUpKeeps
  <1>3. CASE \E h \in Handshakes : generate_challenge(h) BY <1>3, ChallengeKeeps
  <1>4. CASE \E h \in Handshakes : Present(h) BY <1>4, PresentKeeps
  <1>5. CASE \E h \in Handshakes : Ask(h) BY <1>5, AskKeeps
  <1>6. CASE \E h \in Handshakes : AskBare(h) BY <1>6, AskBareKeeps
  <1>7. CASE UNCHANGED vars
    BY <1>7, VerdictOfTheClaim DEF vars, IInv, TypeOK, HandshakeInv, AskingInv
  <1> QED BY <1>1, <1>2, <1>3, <1>4, <1>5, <1>6, <1>7 DEF Next

LEMMA AlwaysIInv == Spec => []IInv
  BY InitIInv, StepKeepsIInv, PTL DEF Spec

\* Every reachable state is well formed; no loop makes a fourth query.
THEOREM TypeCorrect == Spec => []TypeOK
  BY AlwaysIInv, PTL DEF IInv

\* A session of the server stands for a key that signed that handshake's own
\* challenge, whose scheme is allowed, and that a node's block had registered.
THEOREM SessionsAreEarned == Spec => []SessionIsEarned
  <1>1. IInv => SessionIsEarned
    BY OkMeansSigned DEF IInv, HandshakeInv, AskingInv, SessionIsEarned
  <1> QED BY <1>1, AlwaysIInv, PTL

\* A worker whose signature was accepted is turned away only after MAX_RETRIES
\* queries, none of them answered from a block that had its key.
THEOREM RefusalsAskedEveryTime == Spec => []RefusedAfterEveryAttempt
  <1>1. IInv => RefusedAfterEveryAttempt
    BY DEF IInv, HandshakeInv, AskingInv, RefusedAfterEveryAttempt
  <1> QED BY <1>1, AlwaysIInv, PTL

\* A time around the loop uses one of the attempts left.
LEMMA AnswerUsesOne ==
  ASSUME NEW h \in Handshakes, NEW answer, IInv, pc[h] = "asking", Answered(h, answer)
  PROVE  AttemptsLeft(h)' < AttemptsLeft(h)
  <1>0. attempt[h] \in 1..MAX_RETRIES
    BY DEF IInv, HandshakeInv, AskingInv
  <1>1. /\ attempt[h] \in 1..MAX_RETRIES /\ DOMAIN pc = Handshakes /\ DOMAIN attempt = Handshakes
        /\ \/ pc' = [pc EXCEPT ![h] = "session"]
           \/ pc' = [pc EXCEPT ![h] = "refused"]
           \/ pc' = pc /\ attempt' = [attempt EXCEPT ![h] = attempt[h] + 1]
    BY <1>0 DEF IInv, TypeOK, Answered, next_attempt
  <1>2. CASE pc' = [pc EXCEPT ![h] = "session"] \/ pc' = [pc EXCEPT ![h] = "refused"]
    <2>1. pc'[h] # "asking"
      BY <1>1, <1>2
    <2> QED BY <1>1, <2>1 DEF AttemptsLeft, MAX_RETRIES
  <1>3. CASE pc' = pc /\ attempt' = [attempt EXCEPT ![h] = attempt[h] + 1]
    <2>1. pc'[h] = "asking" /\ attempt'[h] = attempt[h] + 1
      BY <1>1, <1>3
    <2> QED BY <1>1, <2>1 DEF AttemptsLeft, MAX_RETRIES
  <1> QED BY <1>1, <1>2, <1>3

\* No handshake asks more than MAX_RETRIES times, however many run at once and
\* however the nodes fail or lag.
THEOREM ThreeAttemptsAtMost ==
  Spec => [](\A h \in Handshakes : AttemptsLeft(h) \in 0..MAX_RETRIES) /\ AttemptsRunOut
  <1>1. IInv => \A h \in Handshakes : AttemptsLeft(h) \in 0..MAX_RETRIES
    BY DEF IInv, HandshakeInv, AskingInv, AttemptsLeft, MAX_RETRIES
  <1>2. ASSUME IInv, NEW h \in Handshakes, Ask(h) \/ AskBare(h)
        PROVE  AttemptsLeft(h)' < AttemptsLeft(h)
    BY <1>2, AnswerUsesOne DEF Ask, AskBare
  <1>3. IInv /\ [Next]_vars =>
          [\A h \in Handshakes : Ask(h) \/ AskBare(h) => AttemptsLeft(h)' < AttemptsLeft(h)]_vars
    BY <1>2
  <1> QED BY <1>1, <1>3, AlwaysIInv, PTL DEF Spec, AttemptsRunOut
=============================================================================
