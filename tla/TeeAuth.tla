------------------------------ MODULE TeeAuth -------------------------------
(***************************************************************************)
(* The challenge-response by which a worker earns a session (lib.rs,       *)
(* README.md:9-30): the server issues a random challenge, the worker       *)
(* presents a key and a signature, verify_signature checks the signature,  *)
(* and check_access_key_with_retry asks the NEAR RPC, up to MAX_RETRIES    *)
(* times, whether the key is registered on the register-contract. Keys are *)
(* registered and removed, and nodes lag, while a handshake retries.       *)
(* A server links this crate or the ed25519-only one it replaced           *)
(* (tee-auth/src/lib.rs), whose loop is the same.                          *)
(***************************************************************************)
EXTENDS Naturals, Sequences

CONSTANTS
  Keys,         \* worker keys
  Scheme,       \* Scheme[k]: the signature scheme of key k
  Tokens,       \* the tokens of the server's csv allowlist, trimmed, lower case
  Handshakes,   \* handshakes; each has a challenge of its own
  Legacy,       \* those of servers that link the legacy crate
  Nodes,        \* the RPC nodes
  MaxBlocks,    \* bound on the length of the chain
  NoClaim       \* what a handshake holds before the worker answers

\* A claim names the presented key, how it is spelled ("<scheme>:<base58>", the
\* base58 alone or raw hex), the key that signed, and the handshake whose
\* challenge was signed.
Claims == [key : Keys, spelled : {"prefixed", "bare", "hex"}, signer : Keys, over : Handshakes]

ASSUME ConstantsAssumption ==
  /\ Scheme \in [Keys -> {"ed25519", "ml-dsa-65", "secp256k1"}]
  /\ Legacy \subseteq Handshakes
  /\ NoClaim \notin Claims /\ Nodes # {} /\ MaxBlocks \in Nat \ {0}

VARIABLES
  chain,     \* chain[b]: the keys registered at block b (the optimistic chain)
  head,      \* head[n]: the last block node n has
  pc,        \* pc[h]: "new", "challenged", "asking", "session" or "refused"
  claim,     \* claim[h]: the key, the signer, the challenge signed, the spelling
  attempt,   \* attempt[h]: the query of check_access_key_with_retry being made
  error,     \* error[h]: why a handshake was refused
  reads      \* history: reads[h] are the blocks its answers came from

worldVars == <<chain, head>>
vars == <<chain, head, pc, claim, attempt, error, reads>>

MAX_RETRIES == 3

-----------------------------------------------------------------------------
(* AllowedKeyTypes and verify_signature.                                   *)

\* The schemes the server accepts; unknown tokens are ignored.
from_csv ==
  (IF "ed25519" \in Tokens THEN {"ed25519"} ELSE {}) \cup
  (IF Tokens \cap {"ml-dsa-65", "ml_dsa_65", "mldsa65", "ml-dsa"} # {} THEN {"ml-dsa-65"} ELSE {})

\* near-crypto reads a key without a prefix as ed25519 in base58, which raw hex
\* is not.
parses(c) == c.spelled = "prefixed" \/ (c.spelled = "bare" /\ Scheme[c.key] = "ed25519")

\* Mutant: the scheme is not held against the allowlist.
AnyScheme(h, c) ==
  IF parses(c) THEN (IF c.signer = c.key /\ c.over = h THEN "Ok" ELSE "SignatureVerificationFailed")
  ELSE "InvalidPublicKey"

\* The key is parsed, its scheme checked, and then the signature verified over
\* the bytes of this handshake's challenge. (InvalidSignature, for a signature
\* that does not parse, refuses at the same place as one that does not verify.)
verify_signature(h, c) ==
  IF ~parses(c) THEN "InvalidPublicKey"
  ELSE IF Scheme[c.key] \notin from_csv THEN "KeyTypeNotAllowed"
  ELSE IF c.signer # c.key \/ c.over # h THEN "SignatureVerificationFailed"
  ELSE "Ok"

\* The legacy crate reads ed25519 keys only, in base58 with the prefix or in hex.
parse_public_key_bytes(c) == Scheme[c.key] = "ed25519" /\ c.spelled \in {"prefixed", "hex"}

\* It has no allowlist, and signatures that do not parse refuse like the rest.
legacy_verify_signature(h, c) ==
  IF ~parse_public_key_bytes(c) THEN "InvalidPublicKey"
  ELSE IF c.signer # c.key \/ c.over # h THEN "SignatureVerificationFailed"
  ELSE "Ok"

\* The schemes a handshake's server accepts, and what it says of a claim.
Accepted(h) == IF h \in Legacy THEN {"ed25519"} ELSE from_csv
verified(h, c) == IF h \in Legacy THEN legacy_verify_signature(h, c) ELSE verify_signature(h, c)

-----------------------------------------------------------------------------
(* view_access_key and how the answer is read.                             *)

RpcError(cause, data) == [kind |-> "error", cause |-> cause, data |-> data]
Result(permission, why) == [kind |-> "result", permission |-> permission, error |-> why]
Access    == Result(TRUE, "none")
Transport == [kind |-> "transport"]   \* a failed request, or no JSON

\* A node that knows the key answers its permission; one that does not says so
\* by name, in words, or in a result of the old form, which has no permission but
\* an error of its own.
NodeReplies(k, b) ==
  IF k \in chain[b] THEN {Access}
  ELSE {RpcError("UNKNOWN_ACCESS_KEY", "none"), RpcError("none", "does not exist"), Result(FALSE, "unknown key")}

\* A node may fail in the old form too, whatever it knows of the key.
NodeFailures == {Transport, RpcError("TIMEOUT_ERROR", "none"), Result(FALSE, "failed")}

\* Mutant: every answer of a node that is not an error is a yes.
AnyResultIsAccess(r) ==
  CASE r.kind = "error" -> IF r.cause = "UNKNOWN_ACCESS_KEY" \/ r.data = "does not exist" THEN "false" ELSE "NearRpcError"
    [] r.kind = "result" -> "true"
    [] OTHER -> "NearRpcError"

\* How check_access_key_on_contract reads what came back. A result is not asked
\* for an error, so that a failure in the old form reads as a key not registered.
read_answer(r) ==
  CASE r.kind = "error"  -> IF r.cause = "UNKNOWN_ACCESS_KEY" \/ r.data = "does not exist"
                            THEN "false" ELSE "NearRpcError"
    [] r.kind = "result" -> IF r.permission THEN "true" ELSE "false"
    [] OTHER             -> "NearRpcError"

-----------------------------------------------------------------------------

Init ==
  /\ chain \in {<<registered>> : registered \in SUBSET Keys}
  /\ head = [n \in Nodes |-> 1]
  /\ pc = [h \in Handshakes |-> "new"]
  /\ claim = [h \in Handshakes |-> NoClaim]
  /\ attempt = [h \in Handshakes |-> 0]
  /\ error = [h \in Handshakes |-> "none"]
  /\ reads = [h \in Handshakes |-> {}]

\* A block registers one key, removes one, or neither.
NewBlock ==
  /\ Len(chain) < MaxBlocks
  /\ \E k \in Keys :
       \E registered \in {chain[Len(chain)], chain[Len(chain)] \cup {k}, chain[Len(chain)] \ {k}} :
         chain' = Append(chain, registered)
  /\ UNCHANGED <<head, pc, claim, attempt, error, reads>>

CatchUp(n) ==
  /\ \E b \in (head[n] + 1)..Len(chain) : head' = [head EXCEPT ![n] = b]
  /\ UNCHANGED <<chain, pc, claim, attempt, error, reads>>

\* The server's first step: a fresh random challenge.
generate_challenge(h) ==
  /\ pc[h] = "new"
  /\ pc' = [pc EXCEPT ![h] = "challenged"]
  /\ UNCHANGED <<worldVars, claim, attempt, error, reads>>

\* The worker presents a signature over a challenge it was given, this one or,
\* on a retried request, an earlier one; the server verifies it.
Present(h) ==
  /\ pc[h] = "challenged"
  /\ \E c \in Claims :
       /\ pc[c.over] # "new"
       /\ claim' = [claim EXCEPT ![h] = c]
       /\ LET v == verified(h, c) IN
          \/ /\ v = "Ok"
             /\ pc' = [pc EXCEPT ![h] = "asking"]
             /\ attempt' = [attempt EXCEPT ![h] = 1]
             /\ UNCHANGED error
          \/ /\ v # "Ok"
             /\ pc' = [pc EXCEPT ![h] = "refused"]
             /\ error' = [error EXCEPT ![h] = v]
             /\ UNCHANGED attempt
  /\ UNCHANGED <<worldVars, reads>>

\* Mutant: a query that fails ends the loop at once.
ErrorsEndTheLoop(h, answer) == answer = "false" /\ attempt[h] < MAX_RETRIES

\* Mutant: one attempt more than MAX_RETRIES.
OneMore(h, answer) == attempt[h] <= MAX_RETRIES

may_ask_again(h, answer) == attempt[h] < MAX_RETRIES

\* Mutant: an attempt is not counted.
Uncounted(h) == attempt[h]

next_attempt(h) == attempt[h] + 1

\* A yes ends the loop; anything else is asked again after RETRY_DELAY while
\* attempts are left, and the last answer is the result.
Answered(h, answer) ==
  \/ /\ answer = "true"
     /\ pc' = [pc EXCEPT ![h] = "session"]
     /\ UNCHANGED <<attempt, error>>
  \/ /\ answer # "true" /\ may_ask_again(h, answer)
     /\ attempt' = [attempt EXCEPT ![h] = next_attempt(h)]
     /\ UNCHANGED <<pc, error>>
  \/ /\ answer # "true" /\ ~may_ask_again(h, answer)
     /\ pc' = [pc EXCEPT ![h] = "refused"]
     /\ error' = [error EXCEPT ![h] = IF answer = "false" THEN "NotRegistered" ELSE answer]
     /\ UNCHANGED attempt

\* A key with a prefix is asked of a node as it is spelled, one in raw hex as the
\* ed25519 key it stands for; the two crates ask alike.
Ask(h) ==
  /\ pc[h] = "asking" /\ claim[h].spelled \in {"prefixed", "hex"}
  /\ \E n \in Nodes : \E r \in NodeReplies(claim[h].key, head[n]) \cup NodeFailures :
       /\ reads' = IF r \in NodeFailures THEN reads ELSE [reads EXCEPT ![h] = @ \cup {head[n]}]
       /\ Answered(h, read_answer(r))
  /\ UNCHANGED <<worldVars, claim>>

\* Any other is read as raw hex, which base58 is not: no node is asked, and the
\* loop takes the failure for one that may pass.
AskBare(h) ==
  /\ pc[h] = "asking" /\ claim[h].spelled = "bare"
  /\ Answered(h, "InvalidPublicKey")
  /\ UNCHANGED <<worldVars, claim, reads>>

Next ==
  \/ NewBlock
  \/ \E n \in Nodes : CatchUp(n)
  \/ \E h \in Handshakes : generate_challenge(h) \/ Present(h) \/ Ask(h) \/ AskBare(h)

Spec == Init /\ [][Next]_vars

\* The HTTP client gives up on a query after 5 s and the delay ends: a
\* handshake whose signature was accepted keeps asking.
FairSpec == Spec /\ \A h \in Handshakes : WF_vars(Ask(h) \/ AskBare(h))

-----------------------------------------------------------------------------

TypeOK ==
  /\ chain \in Seq(SUBSET Keys) /\ Len(chain) >= 1
  /\ head \in [Nodes -> 1..Len(chain)]
  /\ pc \in [Handshakes -> {"new", "challenged", "asking", "session", "refused"}]
  /\ claim \in [Handshakes -> Claims \cup {NoClaim}]
  /\ attempt \in [Handshakes -> 0..MAX_RETRIES]
  /\ error \in [Handshakes -> {"none", "InvalidPublicKey", "KeyTypeNotAllowed",
                               "SignatureVerificationFailed", "NotRegistered", "NearRpcError"}]
  /\ reads \in [Handshakes -> SUBSET DOMAIN chain]

\* A session is earned by the key that signed this handshake's own challenge,
\* of a scheme its server accepts, and registered at a block some node
\* answered from: neither a signature for another challenge nor a result
\* without a permission opens one.
SessionIsEarned ==
  \A h \in Handshakes : pc[h] = "session" =>
    /\ claim[h].signer = claim[h].key
    /\ claim[h].over = h
    /\ Scheme[claim[h].key] \in Accepted(h)
    /\ \E b \in reads[h] : claim[h].key \in chain[b]

\* A handshake whose signature was accepted is refused only after every attempt
\* was made, and never when a node that answered knew the key: neither one failed
\* query nor one lagging node turns a registered worker away (lib.rs:279-282).
RefusedAfterEveryAttempt ==
  \A h \in Handshakes : pc[h] = "refused" /\ attempt[h] > 0 =>
    /\ attempt[h] = MAX_RETRIES
    /\ \A b \in reads[h] : claim[h].key \notin chain[b]

\* The queries a handshake may still make of the chain.
AttemptsLeft(h) == IF pc[h] = "asking" THEN MAX_RETRIES - attempt[h] + 1 ELSE 0

\* Each time around the loop uses one of the attempts left, whatever the answer
\* and whichever other handshakes ask in between (lib.rs:304).
AttemptsRunOut ==
  [][\A h \in Handshakes : Ask(h) \/ AskBare(h) => AttemptsLeft(h)' < AttemptsLeft(h)]_vars

\* A verified signature is answered: the loop ends.
AskingEnds == \A h \in Handshakes : pc[h] = "asking" ~> pc[h] \in {"session", "refused"}
=============================================================================
