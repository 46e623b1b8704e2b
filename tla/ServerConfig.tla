---------------------------- MODULE ServerConfig ----------------------------
(***************************************************************************)
(* What a command line starts: the checks a kms-server makes before it     *)
(* opens its port (internal/utils/server_config.go, cmd/kms-server), and   *)
(* where the key that signs attestation tokens comes from.                 *)
(*                                                                         *)
(* A command line is the record of the flags it has (or the environment    *)
(* has for it); a configuration has them all.  The flags that are left out *)
(* name remote services, which are reachable here.                         *)
(***************************************************************************)
EXTENDS Integers

CONSTANTS
    CommandLines,  \* the command lines a server may be given
    SecretValues,  \* the secrets in Secret Manager, by resource name
    RSAKeys        \* the PEM texts that are RSA private keys

-----------------------------------------------------------------------------
RequiredFlags == {"envRateLimit"}

FlagDefaults == [debug |-> FALSE, releaseAbiVersion |-> "v1.5",
                 source |-> "direct", keyFlag |-> "", secret |-> ""]

NewServerConfigFromCLI(flags) ==
    [f \in DOMAIN flags \cup DOMAIN FlagDefaults |->
        IF f \in DOMAIN flags THEN flags[f] ELSE FlagDefaults[f]]

(* envRateLimit is in thousandths of a request per second. *)
Validate(c) ==
    /\ c.envRateLimit \in 1..1000000
    /\ \/ c.source \in {"", "direct"}
       \/ c.source = "secret-manager" /\ c.secret # ""

(* Mutant: a key given directly wins. *)
DirectKeyFirst(c) ==
    IF c.keyFlag # "" THEN c.keyFlag
    ELSE IF c.source = "secret-manager" THEN SecretValues[c.secret] ELSE c.keyFlag

(* resolveAttestJWTSigningKey, where it does not fail. *)
AttestJWTSigningKey(c) ==
    IF c.source = "secret-manager" THEN SecretValues[c.secret] ELSE c.keyFlag

SecretIsReadable(c) == c.source = "secret-manager" => c.secret \in DOMAIN SecretValues

(* Without a key the server starts, and does not offer /auth/attest. *)
OffersAttest(c) == AttestJWTSigningKey(c) # ""

(* The server opens its port. *)
Starts(c) ==
    /\ Validate(c)
    /\ SecretIsReadable(c)
    /\ c.releaseAbiVersion \in {"", "v1.4", "v1.5"}
    /\ OffersAttest(c) => AttestJWTSigningKey(c) \in RSAKeys

(* What the servers that come up run with. *)
StartedConfigs ==
    {c \in {NewServerConfigFromCLI(flags) :
                 flags \in {f \in CommandLines : RequiredFlags \subseteq DOMAIN f}} : Starts(c)}

=============================================================================
