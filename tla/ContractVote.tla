---------------------------- MODULE ContractVote ----------------------------
(***************************************************************************)
(* resolve_contract_vote (contract_vote.rs): whether the vote of an        *)
(* approver that is a contract wallet counts. The driver reads the wallet  *)
(* twice, w_is_signature_allowed and then w_resolve_auth, through a load   *)
(* balancer whose nodes lag behind the chain, while the wallet changes.    *)
(*                                                                         *)
(* One step of the driver is one query: sent, answered and judged. The     *)
(* answer is a fact about a block that already exists, so it does not      *)
(* matter that the chain grows while it travels; what matters is the time  *)
(* between the two queries, when any block and any node may intervene.     *)
(***************************************************************************)
EXTENDS Naturals, Sequences

CONSTANTS
  Nodes,      \* the RPC nodes behind the load balancer
  Wallets,    \* the states the approver's account may be in at a block
  MaxBlocks   \* bound on the length of the chain

VARIABLES
  chain,      \* chain[b]: the approver's account at final block b
  head,       \* head[n]: the last final block node n has
  pc,         \* the driver: "idle", "flag" (1st read), "resolve" (2nd), "done"
  at,         \* the At of the call: a block number, or Final
  shape,      \* the Shape of the call
  attempt,    \* the pair being read, from 1
  pinned,     \* the block the first read of this pair answered from
  verdict,    \* the result of the call
  lags,       \* history: pinned reads that reached a node without the block (0, 1, 2 or more)
  faults      \* history: other queries that got no usable answer

worldVars  == <<chain, head>>
callVars   == <<at, shape>>
driverVars == <<pc, attempt, pinned, verdict>>
vars == <<chain, head, pc, at, shape, attempt, pinned, verdict, lags, faults>>

\* The promise this module implements; its constants and its view of a wallet
\* are shared.
Promise == INSTANCE AtomicVote WITH
  phase <- IF pc \in {"flag", "resolve"} THEN "asked" ELSE pc

Shapes      == Promise!Shapes
WalletState == Promise!WalletState
Final       == Promise!Final
NotCounted  == Promise!NotCounted

ASSUME ConstantsAssumption ==
  /\ Nodes # {}
  /\ Wallets # {} /\ Wallets \subseteq WalletState
  /\ MaxBlocks \in Nat \ {0}

-----------------------------------------------------------------------------
(* JSON-RPC responses, and what the driver makes of them.                  *)

RpcError(cause, name) == [kind |-> "error", cause |-> cause, name |-> name]
VmError(says)         == [kind |-> "vm", says |-> says]
Result(b, out)        == [kind |-> "result", block |-> b, bytes |-> out]
Torn                  == [kind |-> "torn"]
Transport             == [kind |-> "transport"]

\* Mutant: a node that timed out is taken for a fact about the account.
TimeoutIsAFact == {"UNKNOWN_ACCOUNT", "NO_CONTRACT_CODE",
                   "CONTRACT_EXECUTION_ERROR", "INVALID_ACCOUNT", "TIMEOUT_ERROR"}

ACCOUNT_FACT_ERRORS == {"UNKNOWN_ACCOUNT", "NO_CONTRACT_CODE",
                        "CONTRACT_EXECUTION_ERROR", "INVALID_ACCOUNT"}

error_name(r) == IF r.cause # "none" THEN r.cause ELSE r.name

\* "refused" is a verdict about the account; "unreachable" says nothing of it.
\* A result without a block or without a byte array is a torn one.
classify_call(r) ==
  CASE r.kind = "error"  -> IF error_name(r) \in ACCOUNT_FACT_ERRORS THEN "refused" ELSE "unreachable"
    [] r.kind = "vm"     -> IF r.says = "wasm execution failed" THEN "refused" ELSE "unreachable"
    [] r.kind = "result" -> "answered"
    [] OTHER             -> "unreachable"

names_unknown_block(r) ==
  r.kind = "error" /\ (r.cause = "UNKNOWN_BLOCK" \/ r.name = "UNKNOWN_BLOCK")

judge_signature_allowed(bytes) ==
  CASE bytes = "true"  -> "counts"
    [] bytes = "false" -> "SignaturesDisabled"
    [] OTHER           -> "Malformed"

\* The shape's own demand on the answer: a RESOLVED status, or nothing pending.
shape_objection(s, answer) ==
  IF s = "eip712"
  THEN CASE answer.status = "RESOLVED" -> "counts"
         [] answer.status = "none"     -> "Malformed"
         [] OTHER                      -> "NotResolved"
  ELSE CASE answer.pending \in {"none", "empty"} -> "counts"
         [] answer.pending = "some"              -> "PendingSubAuthorization"
         [] OTHER                                -> "Malformed"

judge_resolution(s, answer) ==
  IF ~answer.fits \/ ~answer.object THEN "Malformed"
  ELSE IF shape_objection(s, answer) # "counts" THEN shape_objection(s, answer)
  ELSE CASE answer.payload = "expected" -> "counts"
         [] answer.payload = "none"     -> "Malformed"
         [] OTHER                       -> "PayloadMismatch"

-----------------------------------------------------------------------------
(* The contract wallet and the RPC nodes, which are not in the repository. *)

Answer(fits, object, status, pending, payload) ==
  [fits |-> fits, object |-> object, status |-> status, pending |-> pending, payload |-> payload]

\* The bytes w_resolve_auth returns. "padded" is the right answer in more than
\* RESOLUTION_MAX_BYTES bytes, "garbled" is not a JSON object, "empty" is {}. Only a NEP-641
\* answer has `pending`, only an EIP-712 one has `status`.
ResolverSays(w) ==
  LET eip == w.runs = "eip712"
      good == IF eip THEN "RESOLVED" ELSE "none"
  IN CASE w.blob = "expected"  -> Answer(TRUE, TRUE, good, "none", "expected")
       [] w.blob = "padded"    -> Answer(FALSE, TRUE, good, "none", "expected")
       [] w.blob = "other"     -> Answer(TRUE, TRUE, good, "none", "other")
       [] w.blob = "delegated" -> IF eip THEN Answer(TRUE, TRUE, "INVALID", "none", "none")
                                  ELSE Answer(TRUE, TRUE, "none", "some", "expected")
       [] w.blob = "bad"       -> Answer(TRUE, TRUE, "INVALID", "none", "none")
       [] w.blob = "garbled"   -> Answer(TRUE, FALSE, "none", "none", "none")
       [] OTHER                -> Answer(TRUE, TRUE, "none", "none", "none")

\* Each resolver panics on the other's arguments, and the NEP-641 one on a blob
\* it does not accept.
ResolverPanics(w, s) == w.runs # s \/ (w.blob = "bad" /\ w.runs = "nep641")

\* The VM's verdict in its two spellings, and an account with nothing to run.
VmRefusals == {RpcError("CONTRACT_EXECUTION_ERROR", "HANDLER_ERROR"),
               VmError("wasm execution failed")}
NoCode == {RpcError("UNKNOWN_ACCOUNT", "HANDLER_ERROR"),
           RpcError("NO_CONTRACT_CODE", "HANDLER_ERROR"),
           RpcError("none", "INVALID_ACCOUNT")}

UnknownBlock == {RpcError("UNKNOWN_BLOCK", "HANDLER_ERROR"), RpcError("none", "UNKNOWN_BLOCK")}

\* A node that cannot answer: it says nothing about the account.
NodeFailures == {Transport, RpcError("TIMEOUT_ERROR", "HANDLER_ERROR"),
                 RpcError("none", "INTERNAL_ERROR"), VmError("other"), Torn}

FlagReplies(b) ==
  IF chain[b].runs = "none" THEN NoCode ELSE {Result(b, chain[b].allowed)}

ResolveReplies(b) ==
  IF chain[b].runs = "none" THEN NoCode
  ELSE IF ResolverPanics(chain[b], shape) THEN VmRefusals
  ELSE {Result(b, ResolverSays(chain[b]))}

ReadAt(n, block) == IF block = Final THEN head[n] ELSE block

-----------------------------------------------------------------------------
(* The chain and the nodes.                                                *)

Init ==
  /\ chain \in {<<w>> : w \in Wallets}
  /\ head = [n \in Nodes |-> 1]
  /\ pc = "idle"
  /\ at = Final
  /\ shape = "eip712"
  /\ attempt = 1
  /\ pinned = Final
  /\ verdict = "none"
  /\ lags = 0
  /\ faults = 0

NewBlock ==
  /\ Len(chain) < MaxBlocks
  /\ \E w \in Wallets : chain' = Append(chain, w)
  /\ UNCHANGED <<head, callVars, driverVars, lags, faults>>

CatchUp(n) ==
  /\ \E h \in (head[n] + 1)..Len(chain) : head' = [head EXCEPT ![n] = h]
  /\ UNCHANGED <<chain, callVars, driverVars, lags, faults>>

-----------------------------------------------------------------------------
(* The driver.                                                             *)

\* A caller asks about a vote, from final or at a block it has read before.
Call ==
  /\ pc = "idle"
  /\ pc' = "flag"
  /\ at' \in {Final} \cup DOMAIN chain
  /\ shape' \in Shapes
  /\ UNCHANGED <<worldVars, attempt, pinned, verdict, lags, faults>>

Return(v) ==
  /\ pc' = "done"
  /\ verdict' = v
  /\ UNCHANGED <<attempt, pinned>>

Unreachable == Return("unreachable") /\ faults' = faults + 1

\* The first read of the pair, w_is_signature_allowed, at the caller's block.
\* Its block becomes the block of the second read.
ReadFlag ==
  /\ pc = "flag"
  /\ \E n \in Nodes :
       LET b == ReadAt(n, at) IN
       \E r \in NodeFailures \cup (IF b <= head[n] THEN FlagReplies(b) ELSE UnknownBlock) :
         \/ classify_call(r) = "unreachable" /\ Unreachable
         \/ classify_call(r) = "refused" /\ Return("Refused") /\ UNCHANGED faults
         \/ /\ classify_call(r) = "answered"
            /\ judge_signature_allowed(r.bytes) # "counts"
            /\ Return(judge_signature_allowed(r.bytes))
            /\ UNCHANGED faults
         \/ /\ classify_call(r) = "answered"
            /\ judge_signature_allowed(r.bytes) = "counts"
            /\ pc' = "resolve"
            /\ pinned' = r.block
            /\ UNCHANGED <<attempt, verdict, faults>>
  /\ UNCHANGED <<worldVars, callVars, lags>>

\* Mutant: the second read picks its own block, as the first did.
SecondReadUnpinned == at

second_read_at == pinned

attempts == IF at = Final THEN 2 ELSE 1

\* Mutants: one pair too many; never a second pair.
OnePairTooMany == attempt <= attempts
ReadOnce == FALSE

may_read_again == attempt < attempts

\* Mutant: the pairs are not counted.
Uncounted == attempt

next_attempt == attempt + 1

\* The pinned read met a node without the block: the whole pair again, from
\* final, if the call has an attempt left.
BlockUnknown ==
  /\ lags' = IF lags = 2 THEN 2 ELSE lags + 1
  /\ UNCHANGED faults
  /\ \/ /\ may_read_again
        /\ attempt' = next_attempt
        /\ pc' = "flag"
        /\ UNCHANGED <<pinned, verdict>>
     \/ ~may_read_again /\ Return("unreachable")

\* The second read of the pair, w_resolve_auth.
ReadResolution ==
  /\ pc = "resolve"
  /\ \E n \in Nodes :
       LET b == ReadAt(n, second_read_at) IN
       \E r \in NodeFailures \cup (IF b <= head[n] THEN ResolveReplies(b) ELSE UnknownBlock) :
         \/ names_unknown_block(r) /\ BlockUnknown
         \/ /\ ~names_unknown_block(r)
            /\ \/ classify_call(r) = "unreachable" /\ Unreachable
               \/ classify_call(r) = "refused" /\ Return("Refused") /\ UNCHANGED faults
               \/ /\ classify_call(r) = "answered"
                  /\ Return(judge_resolution(shape, r.bytes))
                  /\ UNCHANGED faults
            /\ UNCHANGED lags
  /\ UNCHANGED <<worldVars, callVars>>

Next ==
  \/ NewBlock
  \/ \E n \in Nodes : CatchUp(n)
  \/ Call
  \/ ReadFlag
  \/ ReadResolution

Spec == Init /\ [][Next]_vars

\* The driver awaits nothing but `query`, which the caller bounds with its HTTP
\* timeout: a call that was made keeps taking steps. The chain and the nodes
\* promise nothing - a node may lag for ever.
FairSpec == Spec /\ WF_vars(ReadFlag \/ ReadResolution)

-----------------------------------------------------------------------------

TypeOK ==
  /\ chain \in Seq(WalletState) /\ Len(chain) >= 1
  /\ head \in [Nodes -> 1..Len(chain)]
  /\ pc \in {"idle", "flag", "resolve", "done"}
  /\ at \in {Final} \cup DOMAIN chain
  /\ shape \in Shapes
  /\ attempt \in 1..attempts
  /\ pinned \in {Final} \cup DOMAIN chain
  /\ verdict \in {"none", "counts", "unreachable"} \cup NotCounted
  /\ lags \in 0..2
  /\ faults \in 0..1

\* A vote counts only if at ONE block - the one the caller named, if it named
\* one - the wallet accepted signatures AND its resolver, of the very shape
\* asked for, authorized exactly this message. A flag of one block and a
\* resolution of another never add up to a vote (contract_vote.rs:368-370).
CountedAtOneBlock ==
  verdict = "counts" =>
    \E b \in DOMAIN chain :
      /\ at # Final => b = at
      /\ Promise!Authorizes(chain[b], shape)

\* One lagging node does not fail an approved operation: reading from final,
\* the call gives no conclusion only if some query failed outright or two
\* pinned reads in a row met a node behind (contract_vote.rs:378-383).
OneLagNeverFails ==
  (at = Final /\ verdict = "unreachable") => (faults > 0 \/ lags > 1)

\* Every verdict is the wallet's verdict at one block, or no conclusion: a
\* timeout, an unknown block or a torn answer is never a refusal.
ImplementsPromise == Promise!Spec

\* The queries a call may still make.
QueriesLeft ==
  CASE pc = "flag"    -> 2 * (attempts - attempt) + 2
    [] pc = "resolve" -> 2 * (attempts - attempt) + 1
    [] OTHER          -> 0

\* Whatever the nodes answer, each query of a call is one of those it had left,
\* on a retried pair too: a node that lags for ever does not keep a call reading
\* (contract_vote.rs:397).
QueriesRunOut == [][ReadFlag \/ ReadResolution => QueriesLeft' < QueriesLeft]_vars

\* A call ends, though the pinned node may lag for ever.
Resolves == (pc = "flag") ~> (pc = "done")
=============================================================================
