----------------------------- MODULE AtomicVote -----------------------------
(***************************************************************************)
(* What resolving a contract vote promises its caller: the answer is the   *)
(* verdict of the approver's wallet at ONE block of the chain - the block  *)
(* the caller named, or some final block - or no conclusion at all.        *)
(* ContractVote is shown to implement this module.                         *)
(***************************************************************************)
EXTENDS Naturals, Sequences

CONSTANTS
  Wallets,    \* the states the approver's account may be in at a block
  MaxBlocks   \* bound on the length of the chain

Shapes == {"eip712", "nep641"}

\* One account at one block: the resolver it runs, what its
\* w_is_signature_allowed answers, and what its resolver makes of the one
\* authorization blob the vote carries.
WalletState ==
  [runs    : Shapes \cup {"none"},
   allowed : {"true", "false", "other"},
   blob    : {"expected", "padded", "other", "delegated", "bad", "garbled", "empty"}]

Final == 0   \* "read the latest final block"; blocks are numbered from 1

NotCounted == {"SignaturesDisabled", "Refused", "NotResolved",
               "PayloadMismatch", "PendingSubAuthorization", "Malformed"}
Verdicts == {"none", "counts", "unreachable"} \cup NotCounted

VARIABLES
  chain,     \* chain[b]: the wallet at final block b
  phase,     \* "idle", "asked" or "done"
  at,        \* the block the caller named, or Final
  shape,     \* the resolver the caller expects
  verdict    \* what the caller was told

vars == <<chain, phase, at, shape, verdict>>

\* The wallet accepts signatures, runs the resolver the vote names, and that
\* resolver authorizes exactly this vote's message.
Authorizes(w, s) ==
  /\ w.runs = s
  /\ w.allowed = "true"
  /\ w.blob = "expected"

\* Why a resolver of shape s that is reached does not authorize the message.
BlobVerdict(blob, s) ==
  CASE blob = "expected"  -> "counts"
    [] blob = "other"     -> "PayloadMismatch"
    [] blob = "delegated" -> IF s = "nep641" THEN "PendingSubAuthorization" ELSE "NotResolved"
    [] blob = "bad"       -> IF s = "nep641" THEN "Refused" ELSE "NotResolved"
    [] OTHER              -> "Malformed"

VerdictAt(w, s) ==
  IF w.runs = "none" THEN "Refused"
  ELSE IF w.allowed = "false" THEN "SignaturesDisabled"
  ELSE IF w.allowed = "other" THEN "Malformed"
  ELSE IF w.runs # s THEN "Refused"
  ELSE BlobVerdict(w.blob, s)

Init ==
  /\ chain \in {<<w>> : w \in Wallets}
  /\ phase = "idle"
  /\ at = Final
  /\ shape = "eip712"
  /\ verdict = "none"

Extend ==
  /\ Len(chain) < MaxBlocks
  /\ \E w \in Wallets : chain' = Append(chain, w)
  /\ UNCHANGED <<phase, at, shape, verdict>>

Ask ==
  /\ phase = "idle"
  /\ phase' = "asked"
  /\ at' \in {Final} \cup DOMAIN chain
  /\ shape' \in Shapes
  /\ UNCHANGED <<chain, verdict>>

Decide ==
  /\ phase = "asked"
  /\ phase' = "done"
  /\ \E b \in DOMAIN chain :
       /\ at # Final => b = at
       /\ verdict' = VerdictAt(chain[b], shape)
  /\ UNCHANGED <<chain, at, shape>>

ConcludeNothing ==
  /\ phase = "asked"
  /\ phase' = "done"
  /\ verdict' = "unreachable"
  /\ UNCHANGED <<chain, at, shape>>

Next == Extend \/ Ask \/ Decide \/ ConcludeNothing

Spec == Init /\ [][Next]_vars
=============================================================================
