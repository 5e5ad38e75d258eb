-------------------------------- MODULE Bridge ---------------------------------
(***************************************************************************)
(* BridgeProtocol of src/stdlib/bridge/mod.rs: the host creates a         *)
(* CrossChainMessage, signatures are attached to it, and verify_message    *)
(* adds up the weights of the configured validators whose public key a     *)
(* signature names, then compares the sum with config.threshold.           *)
(*                                                                         *)
(* Abstractions.  A signature is its validator key (the 64 signature bytes *)
(* are never looked at).  The chain-specific checks are stubs that return  *)
(* Ok(true), and verify_message discards their value, so the source and    *)
(* target chains and the payload do not affect the verdict and are left    *)
(* out.  The configuration lists each key once, so `find` returning the    *)
(* first match is Weight[key].  The sum is a u32 of WeightBits bits: an    *)
(* addition past its maximum panics in a debug build and wraps in a       *)
(* release build.                                                          *)
(***************************************************************************)
EXTENDS Integers, Sequences, SequencesExt, FiniteSets

CONSTANTS
  Keys,        \* public keys that may sign: validators and others
  Weight,      \* config.validators: key -> weight, for the validator keys
  Threshold,   \* config.threshold
  WeightBits,  \* bits of the u32 weight sum
  Builds,      \* {"debug", "release"}
  MaxSigs      \* bound on the signatures of one message

VARIABLES
  sigs,        \* message.signatures, as the validator keys they name
  verdict      \* the last verify_message: Ok(true), Ok(false), a panic, or None

vars == <<sigs, verdict>>

Panic == "panic"
Overflow == -1   \* the sum once it panicked: a value no u32 has
None == "none"
OkTrue == "Ok(true)"
OkFalse == "Ok(false)"
MaxW == 2^WeightBits - 1
IsValidator(k) == k \in DOMAIN Weight

\* weight += validator.weight in the build.
AddWeight(w, x, build) ==
  IF w = Overflow THEN Overflow
  ELSE IF w + x <= MaxW THEN w + x
  ELSE IF build = "debug" THEN Overflow ELSE (w + x) % 2^WeightBits

\* The loop over message.signatures: each signature whose key a validator
\* has adds that validator's weight, once per signature.
SignedWeight(s, build) ==
  FoldLeft(LAMBDA w, k : IF IsValidator(k) THEN AddWeight(w, Weight[k], build) ELSE w,
           0, s)

\* verify_message: Ok(weight as usize >= threshold); the chain checks
\* after a met threshold cannot fail.
VerifyResult(s, build) ==
  LET w == SignedWeight(s, build)
  IN  CASE w = Overflow  -> Panic
        [] w >= Threshold -> OkTrue
        [] OTHER          -> OkFalse

\* create_bridge_message: a message with no signatures.
Init == sigs = <<>> /\ verdict = None

CreateBridgeMessage == sigs' = <<>> /\ verdict' = None

\* A signature is pushed onto message.signatures.  sign_message leaves the
\* message as it is, so signatures reach a message only this way: the
\* field is public, and a message from another chain arrives with them.
AttachSignature(k) ==
  /\ Len(sigs) < MaxSigs
  /\ sigs' = Append(sigs, k)
  /\ UNCHANGED verdict

VerifyMessage(build) ==
  /\ verdict' = VerifyResult(sigs, build)
  /\ UNCHANGED sigs

Next ==
  \/ CreateBridgeMessage
  \/ \E k \in Keys : AttachSignature(k)
  \/ \E b \in Builds : VerifyMessage(b)

Spec == Init /\ [][Next]_vars

-----------------------------------------------------------------------------
\* The weight of the distinct validators that signed: each signer counted
\* once, however often its signature is listed, and summed without a bound.
SignerWeight(s) == MapThenSumSet(LAMBDA k : Weight[k], {k \in ToSet(s) : IsValidator(k)})

\* verify_message accepts a message only when validators of total weight
\* at least config.threshold signed it, counting each validator once: a
\* threshold of signatures means a threshold of validators, which the
\* loop over message.signatures does not ensure.
QuorumSigned == verdict = OkTrue => SignerWeight(sigs) >= Threshold
=============================================================================
