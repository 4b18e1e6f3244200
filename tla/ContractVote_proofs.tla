------------------------ MODULE ContractVote_proofs ------------------------
(***************************************************************************)
(* Proofs about ContractVote: its type invariant, that a counted vote was  *)
(* authorized at one block, that one lagging node never fails a call, and  *)
(* that the driver implements AtomicVote. All of them for any number of    *)
(* nodes, any set of wallet states and any length of the chain.            *)
(***************************************************************************)
EXTENDS ContractVote, TLAPS

USE DEF Shapes, Final, NotCounted, Promise!Shapes, Promise!Final, Promise!NotCounted

(***************************************************************************)
(* What the replies of a node mean: the only facts about the outside the   *)
(* proofs use.                                                             *)
(***************************************************************************)

\* An RPC error is classified by its name, and only the names of
\* ACCOUNT_FACT_ERRORS are facts about the account.
LEMMA RpcErrorsByName ==
  ASSUME NEW c, NEW n
  PROVE  classify_call(RpcError(c, n)) =
           IF (c # "none" /\ c \in ACCOUNT_FACT_ERRORS) \/ (c = "none" /\ n \in ACCOUNT_FACT_ERRORS)
           THEN "refused" ELSE "unreachable"
  <1> DEFINE r == RpcError(c, n)
  <1>1. r.kind = "error" /\ r.cause = c /\ r.name = n
    BY DEF RpcError
  <1>2. error_name(r) = IF c # "none" THEN c ELSE n
    BY <1>1 DEF error_name
  <1>3. classify_call(r) = IF error_name(r) \in ACCOUNT_FACT_ERRORS THEN "refused" ELSE "unreachable"
    BY <1>1 DEF classify_call
  <1> QED BY <1>2, <1>3

\* The other kinds of response, one by one.
LEMMA OtherRepliesByKind ==
  /\ classify_call(Transport) = "unreachable"
  /\ classify_call(Torn) = "unreachable"
  /\ classify_call(VmError("other")) = "unreachable"
  /\ classify_call(VmError("wasm execution failed")) = "refused"
  /\ \A b, out : classify_call(Result(b, out)) = "answered"
  BY DEF classify_call, Transport, Torn, VmError, Result

\* A failing node and one without the block are never taken for the account.
LEMMA FailuresSayNothing ==
  ASSUME NEW r \in NodeFailures \cup UnknownBlock
  PROVE  classify_call(r) = "unreachable"
  <1>1. CASE r \in {Transport, Torn, VmError("other")}
    BY <1>1, OtherRepliesByKind
  <1>2. CASE r \in {RpcError("TIMEOUT_ERROR", "HANDLER_ERROR"), RpcError("none", "INTERNAL_ERROR")} \cup UnknownBlock
    BY <1>2, RpcErrorsByName DEF UnknownBlock, ACCOUNT_FACT_ERRORS
  <1> QED BY <1>1, <1>2 DEF NodeFailures

\* A node that fails does not name an unknown block; one without the block does.
LEMMA UnknownBlockIsNamed ==
  /\ \A r \in NodeFailures : ~names_unknown_block(r)
  /\ \A r \in UnknownBlock : names_unknown_block(r)
  BY DEF NodeFailures, UnknownBlock, Transport, RpcError, VmError, Torn, names_unknown_block

\* The first read answers the wallet's flag, at the block it was read at, or
\* refuses because the account has no code there.
LEMMA FlagRepliesAreTheWallets ==
  ASSUME NEW b, NEW r \in FlagReplies(b)
  PROVE  \/ /\ classify_call(r) = "refused"
            /\ chain[b].runs = "none"
         \/ /\ classify_call(r) = "answered"
            /\ chain[b].runs # "none"
            /\ r.block = b /\ r.bytes = chain[b].allowed
  <1>1. CASE chain[b].runs = "none"
    BY <1>1, RpcErrorsByName DEF FlagReplies, NoCode, ACCOUNT_FACT_ERRORS
  <1>2. CASE chain[b].runs # "none"
    <2>1. r = Result(b, chain[b].allowed)
      BY <1>2 DEF FlagReplies
    <2>2. r.block = b /\ r.bytes = chain[b].allowed
      BY <2>1 DEF Result
    <2> QED BY <1>2, <2>1, <2>2, OtherRepliesByKind
  <1> QED BY <1>1, <1>2

\* The second read answers what the resolver says, or refuses because the
\* resolver panicked or there is none.
LEMMA ResolveRepliesAreTheWallets ==
  ASSUME NEW b, NEW r \in ResolveReplies(b)
  PROVE  /\ ~names_unknown_block(r)
         /\ \/ /\ classify_call(r) = "refused"
               /\ chain[b].runs = "none" \/ ResolverPanics(chain[b], shape)
            \/ /\ classify_call(r) = "answered"
               /\ chain[b].runs # "none" /\ ~ResolverPanics(chain[b], shape)
               /\ r.bytes = ResolverSays(chain[b])
  <1>1. CASE chain[b].runs = "none"
    <2>1. classify_call(r) = "refused"
      BY <1>1, RpcErrorsByName DEF ResolveReplies, NoCode, ACCOUNT_FACT_ERRORS
    <2>2. ~names_unknown_block(r)
      BY <1>1 DEF ResolveReplies, NoCode, RpcError, names_unknown_block
    <2> QED BY <1>1, <2>1, <2>2
  <1>2. CASE chain[b].runs # "none" /\ ResolverPanics(chain[b], shape)
    <2>1. r = RpcError("CONTRACT_EXECUTION_ERROR", "HANDLER_ERROR") \/ r = VmError("wasm execution failed")
      BY <1>2 DEF ResolveReplies, VmRefusals
    <2>2. classify_call(RpcError("CONTRACT_EXECUTION_ERROR", "HANDLER_ERROR")) = "refused"
      BY RpcErrorsByName DEF ACCOUNT_FACT_ERRORS
    <2>3. ~names_unknown_block(r)
      <3>1. ~names_unknown_block(RpcError("CONTRACT_EXECUTION_ERROR", "HANDLER_ERROR"))
        BY DEF RpcError, names_unknown_block
      <3>2. ~names_unknown_block(VmError("wasm execution failed"))
        BY DEF VmError, names_unknown_block
      <3> QED BY <2>1, <3>1, <3>2
    <2> QED BY <1>2, <2>1, <2>2, <2>3, OtherRepliesByKind
  <1>3. CASE chain[b].runs # "none" /\ ~ResolverPanics(chain[b], shape)
    <2>1. r = Result(b, ResolverSays(chain[b]))
      BY <1>3 DEF ResolveReplies
    <2>2. ~names_unknown_block(r) /\ r.bytes = ResolverSays(chain[b])
      BY <2>1 DEF Result, names_unknown_block
    <2> QED BY <1>3, <2>1, <2>2, OtherRepliesByKind
  <1> QED BY <1>1, <1>2, <1>3

\* The judge agrees with the meaning of the blob, when the resolver of the
\* shape asked for did not panic.
LEMMA JudgeIsTheBlobs ==
  ASSUME NEW w \in WalletState, NEW s \in Shapes, ~ResolverPanics(w, s)
  PROVE  judge_resolution(s, ResolverSays(w)) = Promise!BlobVerdict(w.blob, s)
  <1>1. w.runs = s /\ (w.blob = "bad" => s = "eip712")
    BY DEF ResolverPanics
  <1> USE DEF WalletState, Promise!WalletState
  <1>2. CASE s = "eip712"
    BY <1>1, <1>2 DEF judge_resolution, shape_objection, ResolverSays, Answer, Promise!BlobVerdict
  <1>3. CASE s = "nep641"
    BY <1>1, <1>3 DEF judge_resolution, shape_objection, ResolverSays, Answer, Promise!BlobVerdict
  <1> QED BY <1>2, <1>3

(***************************************************************************)
(* The inductive invariant.                                                *)
(***************************************************************************)

\* Between the two reads the wallet is known to accept signatures at the
\* pinned block, which is the caller's block if it named one.
PinInv ==
  pc = "resolve" =>
    /\ pinned \in DOMAIN chain
    /\ at # Final => pinned = at
    /\ chain[pinned].runs # "none"
    /\ chain[pinned].allowed = "true"

\* While the call runs nothing has failed and each pair but the present one
\* met one lagging node.
PairInv ==
  /\ pc # "done" => verdict = "none" /\ faults = 0 /\ lags = attempt - 1
  /\ pc = "idle" => attempt = 1

IInv == TypeOK /\ PinInv /\ PairInv /\ CountedAtOneBlock /\ OneLagNeverFails

\* The blocks of the chain are numbered from 1 and each holds one wallet state.
LEMMA BlocksHoldWallets ==
  ASSUME TypeOK
  PROVE  /\ DOMAIN chain = 1..Len(chain) /\ Len(chain) \in Nat
         /\ \A b \in DOMAIN chain : chain[b] \in WalletState
  BY DEF TypeOK

\* One step of the first read, with the replies of the nodes resolved away.
LEMMA ReadFlagStep ==
  ASSUME TypeOK, ReadFlag
  PROVE  /\ pc = "flag" /\ UNCHANGED <<chain, head, at, shape, lags, attempt>>
         /\ \/ /\ pc' = "done" /\ verdict' = "unreachable"
               /\ faults' = faults + 1 /\ pinned' = pinned
            \/ \E b \in DOMAIN chain :
                 /\ at # Final => b = at
                 /\ faults' = faults
                 /\ \/ /\ pc' = "done" /\ pinned' = pinned
                       /\ verdict' = Promise!VerdictAt(chain[b], shape) /\ verdict' \in NotCounted
                    \/ /\ pc' = "resolve" /\ pinned' = b /\ verdict' = verdict
                       /\ chain[b].runs # "none" /\ chain[b].allowed = "true"
  <1>0. pc = "flag" /\ UNCHANGED <<chain, head, at, shape, lags>>
    BY DEF ReadFlag, worldVars, callVars
  <1>1. PICK n \in Nodes :
          LET b == ReadAt(n, at) IN
          \E r \in NodeFailures \cup (IF b <= head[n] THEN FlagReplies(b) ELSE UnknownBlock) :
            \/ classify_call(r) = "unreachable" /\ Unreachable
            \/ classify_call(r) = "refused" /\ Return("Refused") /\ UNCHANGED faults
            \/ /\ classify_call(r) = "answered"
               /\ judge_signature_allowed(r.bytes) # "counts"
               /\ Return(judge_signature_allowed(r.bytes))
               /\ UNCHANGED faults
            \/ /\ classify_call(r) = "answered"
               /\ judge_signature_allowed(r.bytes) = "counts"
               /\ pc' = "resolve"
               /\ pinned' = r.block
               /\ UNCHANGED <<attempt, verdict, faults>>
    BY DEF ReadFlag
  <1> DEFINE b == ReadAt(n, at)
  <1>2. PICK r \in NodeFailures \cup (IF b <= head[n] THEN FlagReplies(b) ELSE UnknownBlock) :
            \/ classify_call(r) = "unreachable" /\ Unreachable
            \/ classify_call(r) = "refused" /\ Return("Refused") /\ UNCHANGED faults
            \/ /\ classify_call(r) = "answered"
               /\ judge_signature_allowed(r.bytes) # "counts"
               /\ Return(judge_signature_allowed(r.bytes))
               /\ UNCHANGED faults
            \/ /\ classify_call(r) = "answered"
               /\ judge_signature_allowed(r.bytes) = "counts"
               /\ pc' = "resolve"
               /\ pinned' = r.block
               /\ UNCHANGED <<attempt, verdict, faults>>
    BY <1>1
  <1>3. CASE r \in NodeFailures \cup UnknownBlock
    <2>1. Unreachable
      BY <1>2, <1>3, FailuresSayNothing
    <2> QED BY <1>0, <2>1 DEF Unreachable, Return
  <1>4. CASE b <= head[n] /\ r \in FlagReplies(b)
    <2>1. b \in DOMAIN chain /\ (at # Final => b = at) /\ chain[b] \in WalletState
      <3>1. b \in DOMAIN chain /\ (at # Final => b = at)
        BY <1>4, BlocksHoldWallets DEF TypeOK, ReadAt
      <3> QED BY <3>1, BlocksHoldWallets
    <2>2. CASE classify_call(r) = "refused" /\ chain[b].runs = "none"
      <3>1. Return("Refused") /\ UNCHANGED faults
        BY <1>2, <2>2
      <3>2. Promise!VerdictAt(chain[b], shape) = "Refused"
        BY <2>2 DEF Promise!VerdictAt
      <3> QED BY <1>0, <2>1, <3>1, <3>2 DEF Return
    <2>3. CASE classify_call(r) = "answered" /\ chain[b].runs # "none"
               /\ r.block = b /\ r.bytes = chain[b].allowed
      <3>1. CASE chain[b].allowed = "true"
        <4>1. pc' = "resolve" /\ pinned' = b /\ UNCHANGED <<attempt, verdict, faults>>
          BY <1>2, <2>3, <3>1 DEF judge_signature_allowed
        <4> QED BY <1>0, <2>1, <2>3, <3>1, <4>1
      <3>2. CASE chain[b].allowed \in {"false", "other"}
        <4>1. judge_signature_allowed(r.bytes) = Promise!VerdictAt(chain[b], shape)
              /\ judge_signature_allowed(r.bytes) \in NotCounted
          BY <2>3, <3>2 DEF judge_signature_allowed, Promise!VerdictAt
        <4>2. Return(judge_signature_allowed(r.bytes)) /\ UNCHANGED faults
          BY <1>2, <2>3, <4>1
        <4> QED BY <1>0, <2>1, <4>1, <4>2 DEF Return
      <3> QED BY <2>1, <3>1, <3>2 DEF WalletState, Promise!WalletState
    <2> QED BY <1>4, <2>2, <2>3, FlagRepliesAreTheWallets
  <1> QED BY <1>2, <1>3, <1>4

\* One step of the second read.
LEMMA ReadResolutionStep ==
  ASSUME TypeOK, PinInv, ReadResolution
  PROVE  /\ pc = "resolve" /\ UNCHANGED <<chain, head, at, shape>>
         /\ \/ BlockUnknown
            \/ /\ pc' = "done" /\ UNCHANGED <<lags, attempt, pinned>>
               /\ \/ verdict' = "unreachable" /\ faults' = faults + 1
                  \/ verdict' = Promise!VerdictAt(chain[pinned], shape) /\ faults' = faults
  <1>0. pc = "resolve" /\ UNCHANGED <<chain, head, at, shape>>
    BY DEF ReadResolution, worldVars, callVars
  <1>p. /\ pinned \in DOMAIN chain /\ pinned # Final /\ chain[pinned] \in WalletState
        /\ chain[pinned].runs # "none" /\ chain[pinned].allowed = "true"
    BY <1>0, BlocksHoldWallets DEF PinInv
  <1> DEFINE Judged(r) ==
        \/ names_unknown_block(r) /\ BlockUnknown
        \/ /\ ~names_unknown_block(r)
           /\ \/ classify_call(r) = "unreachable" /\ Unreachable
              \/ classify_call(r) = "refused" /\ Return("Refused") /\ UNCHANGED faults
              \/ /\ classify_call(r) = "answered"
                 /\ Return(judge_resolution(shape, r.bytes))
                 /\ UNCHANGED faults
           /\ UNCHANGED lags
  <1>1. PICK n \in Nodes : \E r \in NodeFailures
          \cup (IF pinned <= head[n] THEN ResolveReplies(pinned) ELSE UnknownBlock) : Judged(r)
    BY <1>p DEF ReadResolution, ReadAt, second_read_at
  <1>2. PICK r \in NodeFailures
          \cup (IF pinned <= head[n] THEN ResolveReplies(pinned) ELSE UnknownBlock) : Judged(r)
    BY <1>1
  <1>3. CASE r \in UnknownBlock
    BY <1>0, <1>2, <1>3, UnknownBlockIsNamed
  <1>4. CASE r \in NodeFailures
    <2>1. Unreachable /\ UNCHANGED lags
      BY <1>2, <1>4, UnknownBlockIsNamed, FailuresSayNothing
    <2> QED BY <1>0, <2>1 DEF Unreachable, Return
  <1>5. CASE r \in ResolveReplies(pinned)
    <2>1. ~names_unknown_block(r) /\ UNCHANGED lags
      BY <1>2, <1>5, ResolveRepliesAreTheWallets
    <2>2. CASE classify_call(r) = "refused" /\ ResolverPanics(chain[pinned], shape)
      <3>1. Return("Refused") /\ UNCHANGED faults
        BY <1>2, <2>1, <2>2
      <3>2. Promise!VerdictAt(chain[pinned], shape) = "Refused"
        BY <1>p, <2>2 DEF ResolverPanics, Promise!VerdictAt, Promise!BlobVerdict
      <3> QED BY <1>0, <2>1, <3>1, <3>2 DEF Return
    <2>3. CASE classify_call(r) = "answered" /\ ~ResolverPanics(chain[pinned], shape)
               /\ r.bytes = ResolverSays(chain[pinned])
      <3>1. Return(judge_resolution(shape, r.bytes)) /\ UNCHANGED faults
        BY <1>2, <2>1, <2>3
      <3>2. judge_resolution(shape, r.bytes) = Promise!BlobVerdict(chain[pinned].blob, shape)
        BY <1>p, <2>3, JudgeIsTheBlobs DEF TypeOK
      <3>3. Promise!VerdictAt(chain[pinned], shape) = Promise!BlobVerdict(chain[pinned].blob, shape)
        BY <1>p, <2>3 DEF Promise!VerdictAt, ResolverPanics
      <3> QED BY <1>0, <2>1, <3>1, <3>2, <3>3 DEF Return
    <2> QED BY <1>5, <1>p, <2>2, <2>3, ResolveRepliesAreTheWallets
  <1> QED BY <1>2, <1>3, <1>4, <1>5

\* The verdict of a block counts only if the wallet authorized the message there.
LEMMA CountsIsAuthorized ==
  ASSUME NEW w \in WalletState, NEW s \in Shapes
  PROVE  /\ Promise!VerdictAt(w, s) \in {"counts"} \cup NotCounted
         /\ Promise!VerdictAt(w, s) = "counts" => Promise!Authorizes(w, s)
  BY DEF WalletState, Promise!WalletState, Promise!VerdictAt, Promise!BlobVerdict, Promise!Authorizes

\* A new block leaves the old ones as they are.
LEMMA OldBlocksStay ==
  ASSUME TypeOK, NEW w \in WalletState, chain' = Append(chain, w)
  PROVE  /\ chain' \in Seq(WalletState) /\ Len(chain') = Len(chain) + 1
         /\ DOMAIN chain \subseteq DOMAIN chain'
         /\ \A b \in DOMAIN chain : chain'[b] = chain[b]
  BY DEF TypeOK

LEMMA InvHoldsInitially == Init => IInv
  <1> SUFFICES ASSUME Init PROVE IInv
    OBVIOUS
  <1>1. PICK w \in Wallets : chain = <<w>>
    BY DEF Init
  <1>2. chain \in Seq(WalletState) /\ Len(chain) = 1
    BY <1>1, ConstantsAssumption
  <1>3. TypeOK
    BY <1>2 DEF Init, TypeOK, attempts
  <1> QED BY <1>3 DEF Init, IInv, PinInv, PairInv, CountedAtOneBlock, OneLagNeverFails

LEMMA InvIsInductive == IInv /\ [Next]_vars => IInv'
  <1> SUFFICES ASSUME IInv, [Next]_vars PROVE IInv'
    OBVIOUS
  <1> USE DEF IInv
  <1>b. /\ DOMAIN chain = 1..Len(chain) /\ Len(chain) \in Nat
        /\ \A b \in DOMAIN chain : chain[b] \in WalletState
    BY BlocksHoldWallets
  <1>1. CASE NewBlock
    <2>1. PICK w \in WalletState : chain' = Append(chain, w)
      BY <1>1, ConstantsAssumption DEF NewBlock
    <2>2. UNCHANGED <<head, pc, at, shape, attempt, pinned, verdict, lags, faults>>
      BY <1>1 DEF NewBlock, callVars, driverVars
    <2>3. /\ chain' \in Seq(WalletState) /\ Len(chain') = Len(chain) + 1
          /\ DOMAIN chain \subseteq DOMAIN chain'
          /\ \A b \in DOMAIN chain : chain'[b] = chain[b]
      BY <2>1, OldBlocksStay
    <2>4. TypeOK'
      BY <2>2, <2>3, <1>b DEF TypeOK, attempts
    <2>5. PinInv'
      BY <2>2, <2>3 DEF PinInv
    <2>6. CountedAtOneBlock'
      <3> SUFFICES ASSUME verdict' = "counts"
                   PROVE  \E b \in DOMAIN chain' : (at' # Final => b = at')
                                                   /\ Promise!Authorizes(chain'[b], shape')
        BY DEF CountedAtOneBlock
      <3>1. PICK b \in DOMAIN chain : (at # Final => b = at) /\ Promise!Authorizes(chain[b], shape)
        BY <2>2 DEF CountedAtOneBlock
      <3> QED BY <2>2, <2>3, <3>1
    <2> QED BY <2>2, <2>4, <2>5, <2>6 DEF PairInv, OneLagNeverFails
  <1>2. ASSUME NEW n \in Nodes, CatchUp(n) PROVE IInv'
    <2>1. PICK h \in (head[n] + 1)..Len(chain) : head' = [head EXCEPT ![n] = h]
      BY <1>2 DEF CatchUp
    <2>2. UNCHANGED <<chain, pc, at, shape, attempt, pinned, verdict, lags, faults>>
      BY <1>2 DEF CatchUp, callVars, driverVars
    <2>3. TypeOK'
      <3>1. head[n] \in 1..Len(chain)
        BY DEF TypeOK
      <3>2. h \in 1..Len(chain)
        BY <3>1, <1>b
      <3>3. head' \in [Nodes -> 1..Len(chain)]
        BY <2>1, <3>2 DEF TypeOK
      <3> QED BY <2>2, <3>3 DEF TypeOK, attempts
    <2> QED BY <2>2, <2>3 DEF PinInv, PairInv, CountedAtOneBlock, OneLagNeverFails
  <1>3. CASE Call
    BY <1>3, <1>b DEF Call, worldVars, TypeOK, attempts, PinInv, PairInv, CountedAtOneBlock, OneLagNeverFails
  <1>4. CASE ReadFlag
    <2>1. pc = "flag" /\ UNCHANGED <<chain, head, at, shape, lags, attempt>>
      BY <1>4, ReadFlagStep
    <2>2. CASE pc' = "done" /\ verdict' = "unreachable" /\ faults' = faults + 1 /\ pinned' = pinned
      BY <2>1, <2>2 DEF TypeOK, attempts, PinInv, PairInv, CountedAtOneBlock, OneLagNeverFails
    <2>3. ASSUME NEW b \in DOMAIN chain, at # Final => b = at, faults' = faults,
                 pc' = "done", pinned' = pinned, verdict' \in NotCounted
          PROVE  IInv'
      BY <2>1, <2>3 DEF TypeOK, attempts, PinInv, PairInv, CountedAtOneBlock, OneLagNeverFails
    <2>4. ASSUME NEW b \in DOMAIN chain, at # Final => b = at, faults' = faults,
                 pc' = "resolve", pinned' = b, verdict' = verdict,
                 chain[b].runs # "none", chain[b].allowed = "true"
          PROVE  IInv'
      BY <2>1, <2>4 DEF TypeOK, attempts, PinInv, PairInv, CountedAtOneBlock, OneLagNeverFails
    <2> QED BY <1>4, <2>2, <2>3, <2>4, ReadFlagStep
  <1>5. CASE ReadResolution
    <2>1. pc = "resolve" /\ UNCHANGED <<chain, head, at, shape>>
      BY <1>5, ReadResolutionStep
    <2>2. CASE BlockUnknown
      BY <2>1, <2>2 DEF BlockUnknown, may_read_again, next_attempt, Return, attempts, TypeOK,
                        PinInv, PairInv, CountedAtOneBlock, OneLagNeverFails
    <2>3. CASE pc' = "done" /\ UNCHANGED <<lags, attempt, pinned>>
               /\ verdict' = "unreachable" /\ faults' = faults + 1
      BY <2>1, <2>3 DEF TypeOK, attempts, PinInv, PairInv, CountedAtOneBlock, OneLagNeverFails
    <2>4. CASE pc' = "done" /\ UNCHANGED <<lags, attempt, pinned>>
               /\ verdict' = Promise!VerdictAt(chain[pinned], shape) /\ faults' = faults
      <3>1. /\ verdict' \in {"counts"} \cup NotCounted
            /\ verdict' = "counts" => Promise!Authorizes(chain[pinned], shape)
        BY <2>1, <2>4, <1>b, CountsIsAuthorized DEF PinInv, TypeOK
      <3>2. CountedAtOneBlock'
        BY <2>1, <2>4, <3>1 DEF PinInv, CountedAtOneBlock
      <3> QED BY <2>1, <2>4, <3>1, <3>2 DEF TypeOK, attempts, PinInv, PairInv, OneLagNeverFails
    <2> QED BY <1>5, <2>2, <2>3, <2>4, ReadResolutionStep
  <1>6. CASE UNCHANGED vars
    BY <1>6 DEF vars, TypeOK, attempts, PinInv, PairInv, CountedAtOneBlock, OneLagNeverFails
  <1> QED BY <1>1, <1>2, <1>3, <1>4, <1>5, <1>6 DEF Next

LEMMA Invariance == Spec => []IInv
  BY InvHoldsInitially, InvIsInductive, PTL DEF Spec

(***************************************************************************)
(* The theorems.                                                           *)
(***************************************************************************)

\* The variables keep their types; in particular a call reads at most two
\* pairs, and only a call from final reads a second one.
THEOREM TypeCorrect == Spec => []TypeOK
  <1>1. IInv => TypeOK
    BY DEF IInv
  <1> QED BY <1>1, Invariance, PTL

\* A counted vote was authorized by the wallet at one block: the caller's, if
\* the caller named one.
THEOREM VotesCountAtOneBlock == Spec => []CountedAtOneBlock
  <1>1. IInv => CountedAtOneBlock
    BY DEF IInv
  <1> QED BY <1>1, Invariance, PTL

\* A call from final gives up on lagging nodes only after two pairs.
THEOREM OneLagIsReadAgain == Spec => []OneLagNeverFails
  <1>1. IInv => OneLagNeverFails
    BY DEF IInv
  <1> QED BY <1>1, Invariance, PTL

\* A query uses one of those the call had left.
LEMMA QueryUsesOne == IInv /\ (ReadFlag \/ ReadResolution) => QueriesLeft' < QueriesLeft
  <1> SUFFICES ASSUME IInv, ReadFlag \/ ReadResolution PROVE QueriesLeft' < QueriesLeft
    OBVIOUS
  <1>0. attempts \in {1, 2} /\ attempt \in Nat /\ attempt <= attempts
    BY DEF IInv, TypeOK, attempts
  <1>1. CASE ReadFlag
    <2>1. pc = "flag" /\ pc' \in {"done", "resolve"} /\ UNCHANGED <<at, attempt>>
      BY <1>1, ReadFlagStep DEF IInv
    <2> QED BY <1>0, <2>1 DEF QueriesLeft, attempts
  <1>2. CASE ReadResolution
    <2>1. /\ pc = "resolve" /\ UNCHANGED at
          /\ \/ pc' = "flag" /\ attempt' = attempt + 1
             \/ pc' = "done" /\ attempt' = attempt
      BY <1>2, ReadResolutionStep DEF IInv, BlockUnknown, next_attempt, Return
    <2> QED BY <1>0, <2>1 DEF QueriesLeft, attempts
  <1> QED BY <1>1, <1>2

\* A call makes at most four queries, two pairs, for as long as nodes lag: what
\* is left is never more, and each query leaves less.
THEOREM FourQueriesAtMost == Spec => [](QueriesLeft \in 0..4) /\ QueriesRunOut
  <1>1. IInv => QueriesLeft \in 0..4
    BY DEF IInv, TypeOK, QueriesLeft, attempts
  <1>2. IInv /\ [Next]_vars => [ReadFlag \/ ReadResolution => QueriesLeft' < QueriesLeft]_vars
    BY QueryUsesOne
  <1> QED BY <1>1, <1>2, Invariance, PTL DEF Spec, QueriesRunOut

LEMMA PromiseInit == Init => Promise!Init
  BY DEF Init, Promise!Init

LEMMA PromiseStep == IInv /\ [Next]_vars => [Promise!Next]_(Promise!vars)
  <1> SUFFICES ASSUME IInv, [Next]_vars PROVE [Promise!Next]_(Promise!vars)
    OBVIOUS
  <1> USE DEF IInv
  <1>1. CASE NewBlock
    BY <1>1 DEF NewBlock, callVars, driverVars, Promise!Next, Promise!Extend
  <1>2. ASSUME NEW n \in Nodes, CatchUp(n) PROVE UNCHANGED Promise!vars
    BY <1>2 DEF CatchUp, callVars, driverVars, Promise!vars
  <1>3. CASE Call
    BY <1>3 DEF Call, worldVars, Promise!Next, Promise!Ask
  <1>4. CASE ReadFlag
    <2>1. pc = "flag" /\ UNCHANGED <<chain, head, at, shape, lags, attempt>>
      BY <1>4, ReadFlagStep
    <2>2. CASE pc' = "done" /\ verdict' = "unreachable"
      BY <2>1, <2>2 DEF Promise!Next, Promise!ConcludeNothing
    <2>3. ASSUME NEW b \in DOMAIN chain, at # Final => b = at, pc' = "done",
                 verdict' = Promise!VerdictAt(chain[b], shape)
          PROVE  Promise!Decide
      BY <2>1, <2>3 DEF Promise!Decide
    <2>4. CASE pc' = "resolve" /\ verdict' = verdict
      BY <2>1, <2>4 DEF Promise!vars
    <2> QED BY <1>4, <2>2, <2>3, <2>4, ReadFlagStep DEF Promise!Next
  <1>5. CASE ReadResolution
    <2>1. pc = "resolve" /\ UNCHANGED <<chain, head, at, shape>>
      BY <1>5, ReadResolutionStep
    <2>2. CASE BlockUnknown
      <3>1. CASE pc' = "flag" /\ verdict' = verdict
        BY <2>1, <3>1 DEF Promise!vars
      <3>2. CASE pc' = "done" /\ verdict' = "unreachable"
        BY <2>1, <3>2 DEF Promise!Next, Promise!ConcludeNothing
      <3> QED BY <2>2, <3>1, <3>2 DEF BlockUnknown, Return
    <2>3. CASE pc' = "done" /\ verdict' = "unreachable"
      BY <2>1, <2>3 DEF Promise!Next, Promise!ConcludeNothing
    <2>4. CASE pc' = "done" /\ verdict' = Promise!VerdictAt(chain[pinned], shape)
      BY <2>1, <2>4 DEF PinInv, Promise!Next, Promise!Decide
    <2> QED BY <1>5, <2>2, <2>3, <2>4, ReadResolutionStep
  <1>6. CASE UNCHANGED vars
    BY <1>6 DEF vars, Promise!vars
  <1> QED BY <1>1, <1>2, <1>3, <1>4, <1>5, <1>6 DEF Next

\* Resolving a vote in two reads over lagging nodes, with a retry, implements
\* reading the wallet's verdict at one block or concluding nothing.
THEOREM DriverKeepsPromise == Spec => ImplementsPromise
  BY Invariance, PromiseInit, PromiseStep, PTL DEF Spec, ImplementsPromise, Promise!Spec
=============================================================================
