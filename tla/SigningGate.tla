----------------------------- MODULE SigningGate ----------------------------
(***************************************************************************)
(* The enclave's gate before it signs a nested request (binding.rs:675-745,*)
(* hos.rs:22-40): a job states which binding it is for and which decoder   *)
(* reads the bound account, and the build that signs it, of whatever age,  *)
(* carries that decoder or refuses.                                        *)
(***************************************************************************)
EXTENDS Naturals

CONSTANT Unstated   \* a field the job does not have

BindingKinds == {"hos_lease", "personal_account"}

ASSUME UnstatedAssumption == Unstated \notin BindingKinds

\* A wire name; a name that is not one of these is no kind.
parse(s) == IF s \in BindingKinds THEN s ELSE Unstated

decoder_supported(carried, decoder_version) == decoder_version \in carried

\* What a job says of the account it is for.
Claim(kind, decoder) == [kind |-> kind, decoder |-> decoder]

\* Mutant: what is not stated is the first decoder's.
first_by_default(carried, is_door, claim) ==
  ~is_door \/ IF claim.kind = Unstated \/ claim.kind = "hos_lease"
              THEN claim.decoder = Unstated \/ decoder_supported(carried, claim.decoder)
              ELSE claim.kind = "personal_account"

\* No kind is the leased mode, which has to state a decoder this build carries; a
\* personal account is told by its code, which the enclave cannot read.
signing_version_gate(carried, is_door, claim) ==
  \/ ~is_door
  \/ LET kind == IF claim.kind = Unstated THEN "hos_lease" ELSE parse(claim.kind) IN
     \/ /\ kind = "hos_lease"
        /\ claim.decoder # Unstated /\ decoder_supported(carried, claim.decoder)
     \/ kind = "personal_account"
=============================================================================
