# eigenx-kms in TLA+

The KMS hands an application its secrets and its mnemonic when, and only when,
the instance that asks runs the latest code the application's developers put
on chain (`kms.md`, lines 12-13). This directory models the parts of the
program that decide this, and those that act on the answer; it model-checks
them with TLC on small instances, and proves theorems about them with TLAPS.

- [The system](#the-system)
- [Modules](#modules)
- [Runs](#runs)
- [Bounds](#bounds)
- [Fairness](#fairness)
- [Proofs](#proofs)
- [Findings](#findings)
- [What is not modelled](#what-is-not-modelled)
- [Plan](#plan)

## The system

| Component | Code | State | Operations |
|---|---|---|---|
| Contracts and RPC provider | external; `pkg/chainclient/adapter.go` | releases and their events per app, base-image allowlist, minimum TCB | upgrade an app, change the policy, answer a call at some height |
| Chain client | `pkg/chainclient/chainclient.go` | none kept; locals of each call, an iterator and its goroutine | `GetLatestRelease`, `IsImageAllowed`, `IsTCBValid` |
| Policy checker | `pkg/policy/policy.go` | none | `CheckTPMPolicies`, `CheckTEEPolicies` |
| Evidence verifier | `pkg/attestation/bound_attestation_evidence.go` | none | `Verify`, `VerifyPlatform` |
| Token verifier | `pkg/attestation/attestation.go` | two JWKS caches, refreshed in the background | `VerifyAttestation` |
| Env handlers | `internal/handlers/env.go` | locals of each request | `HandleEnv`, `HandleEnvV2`, `HandleEnvV3` |
| Attest handler | `internal/handlers/attest.go`, `internal/auth` | locals of each request | `HandleAttest` |
| Address handlers | `internal/handlers/addresses.go` | none | `HandleAddresses`, `HandleAddressesV2` |
| Cloud KMS client | `internal/kms/kms.go` | keys, held by the service | `DeriveMnemonic`, `DecryptKey`, `SignMessage` |
| Rate limiter | `cmd/kms-server/main.go` | a token bucket per client IP, in memory | admit or answer 429 |
| Env client | `pkg/envclient/envclient.go` | one key pair and one evidence per call | `GetEnv`, `Attest` |
| kms-client | `cmd/kms-client/main.go` | the env file, the token file, the storage key file | `run`, `attest`, `derive-storage-key` |
| Configuration | `internal/utils` | read at start | flags, `Validate`, the signing key |

A boot of an app runs kms-client. `GetEnv` makes an RSA key, obtains evidence
bound to it from the launcher's socket, posts both to `/env/v3`, and retries
until a 200, a 4xx or 2 minutes. The handler verifies the evidence, asks the
allowlist contract about image and TCB, asks the app controller for the latest
release in two calls, checks that the release lists the attested container,
has Cloud KMS decrypt the release's secrets, adds the app's mnemonic, encrypts
the result to the RSA key and has it signed. `/auth/attest` admits instances
by the same evidence and policies, and issues a token instead of an env.

Each request runs in its own goroutine, and nothing ties its remote calls to
one block: the image, the TCB, the release's block number and the release's
events are read at four moments, perhaps from four nodes. Handlers do not stop
when their client leaves (`context.WithTimeout(context.Background(), ...)`).
The server persists nothing.

What is hard, and what must hold:

- **Release fetch.** Upgrades land before, between and after the two calls,
  several in one block, and nodes lag. What a call returns must have been the
  app's latest release at one height not older than the call. Calls that
  follow one another must not go back. Logs come in any order and in two
  shapes, from a goroutine nobody joins.
- **Env server.** The policy and the release move while a request is handled.
  A 200 must go to code that was the latest and was admitted; a 4xx must not
  be an artefact of reading at several heights.
- **Env client against server.** Attempts are lost, abandoned and retried
  while the handler of the first still runs; the server crashes. `GetEnv` must
  return, with a current env or an error; entitled instances must succeed when
  nothing fails.
- **Older endpoints.** Google's and Intel's tokens are validated by shared code
  with different rules, against key sets another goroutine replaces.
- **Token issuing.** Evidence for an env and evidence for a token differ in one
  hashed header. A token must say what was attested, and be signed with the
  configured key and no other.
- **App keys.** Every path to an app's keys (env, addresses, storage key) must
  lead to the same ones, across upgrades.
- **kms-client files.** A run that fails or is killed must not leave a file the
  next boot takes for what it is not.

## Modules

**AppChain** is the outside world. `chain` is the sequence of blocks; a block
records, per app, the latest-release table of the contract and the
`AppUpgraded` events in log order, and the policy in force. `MineBlock` adds
one, with any upgrades and any policy. A remote call is answered by any node at
most `MaxLag` blocks behind the head (`Views`). The contracts are not in this
repository; the module states what `pkg/chainclient` relies on.

**ReleaseFetch** is `GetLatestRelease`. `fetch[c]` holds the Go locals of
invocation `c` and its program counter; `FetchBlockNumber` and `FetchEvents`
are the two calls with the code that follows each, `FetchError` either call
failing. `since`, `floor` and the variable `newest` are history.

**BoundedStaleRead** is what `GetLatestRelease` promises: one read, at one
instant of the call, of a list of publications, at most `MaxLag` old. It knows
nothing of blocks, tables, events or two calls. `ReleaseFetch` refines it: the
read happens at the first call, and what the second returns is settled then.

**EventWalk** takes the second call apart, which is one step in ReleaseFetch:
the node returns the logs of the configured ABI's topic in any order, a
goroutine hands them over on an unbuffered channel, `Next` unpacks them, and
the loop keeps the one with the highest index. `WalkFindsNewest` says that this
amounts to ReleaseFetch's step.

**EnvServer** extends ReleaseFetch with `HandleEnvV3`. A slot (`Callers`) is
one goroutine; `handler[s]` its locals. `debug` is `cfg.Debug`, fixed at start.
One action is the code from one remote call to the next:

| Action | Code |
|---|---|
| `Receive` | entry to the project check, `env.go:211-271`, `policy.go:51-65` |
| `CheckImage` | `checkPCRAllowlist` and what follows to the next call |
| `VerifyFirmware`, `CheckTCB` | `verifyFirmware`, `checkTCB` |
| `FetchRelease` | a step of `GetLatestRelease` |
| `Authorize` | its return, `checkAuthorization`, the JWE header, `env.go:350-375` |
| `DecryptEnv` | decryption, unmarshalling, the platform check, `env.go:377-391`, `296-299` |
| `DeriveMnemonic`, `SignResponse` | `env.go:301-313`, `utils.go:35-50` |
| `PolicyError`, `KmsError`, `FetchError` | the remote call fails or the 10 s deadline passes |
| `Finish` | the answer is written |

Digests are pairs of header and data, evidence is a record of what the hardware
attests, a release a record of the facts the handler tells apart. A TDX TCB is
three bytes, packed as `checkTCB` packs them (`PackTCB`), a minimum on chain a
number. The policy has one minimum TCB; the handler never compares platforms'.

**TokenServer** is `HandleEnv` and `HandleEnvV2`, in the same slots and with
EnvServer's actions from the release fetch on. What is new is the way in: the
body of an `/env` request is decrypted by Cloud KMS first (`OpenRequest`), and
the token's key is looked up by `getFilteredKeySetForToken`, a loop that reads
the cache's length (`CountKeys`) and one key (`ReadKey`) at a time while
`RefreshKeys` replaces the cached set. The cache is the jwx library's `CachedSet`,
which answers each call from the set it holds then. `CheckToken` is the rest of
`VerifyAttestation`, the nonce and the override. `walk[s].sets` is history: the
sets the cache held while the token was checked.

**AttestServer** is `HandleAttest` beside `HandleEnvV3`, in the slots of one
server, so that the same evidence can be sent to both. `ReceiveAttest` makes
the local checks, `AttestImage` and `AttestTCB` are the policy checks, the last
of which issues the token (`IssueToken`); firmware, signature and failures are
EnvServer's actions. `jwt[s]` is the token of slot `s`. The server runs with a
`config` that **ServerConfig** lets it start with: flags and their defaults,
`Validate`, `resolveAttestJWTSigningKey`, and the parse of the key before the
port opens.

**EnvProtocol** composes EnvServer with `GetEnv` on each VM, the network, the
rate limiter and crashes. `client[i]` is the boot in progress on VM `i`,
`conn[s]` the VM that waits for slot `s`. `AttemptLost` covers the 30 s
timeout and broken connections; the abandoned handler runs on and
`DropResponse` ends it. `Crash` wipes handlers, connections and buckets. A
boot may happen again after an env or a failure (`GetEnv`).

**EnvDelivery** is what the KMS promises an instance that boots: an env is
delivered in one step, from what the chain held out to the instance at one height
of the boot, each check having been passed at some height of it; and without lag
a boot fails only if something failed under it or the instance was not due an
env. It knows nothing of servers, requests, retries or crashes. EnvProtocol
refines it: `Offers` is what each height holds out, `Boots` what is seen of a
client, and a delivery is the answer that arrives.

**AppKeys** follows an app's mnemonic. An ID is a spelling of an address, and
the code compares IDs as addresses, without regard to case, or byte by byte.
`Upgrade` puts a release on chain, perhaps with a `MNEMONIC` of its own;
`HandleAddresses` is both address endpoints; `Boot` is an instance that gets its
env, logs its addresses, derives the storage key and opens or formats the app's
disk. Mnemonics, wallets and keys are terms: what they were derived from.

**KmsClient** is the kms-client process: one action per stage of a command, from
flags to file. `run` is the run in progress, `file` the output file of each
command, `before` the files as the run found them and `run.met` what flags,
launcher, servers and disk last gave it in each stage (both history). Any stage may fail,
and `Kill` may come between any two; creating a file and filling it are two
steps. `SendRequest` and `PostAttestation` share `retryHTTPRequest`.

The proofs are in **ReleaseFetchProofs**, **EnvServerProofs**,
**EnvProtocolProofs**, **TokenServerProofs**, **AttestServerProofs**,
**AppKeysProofs**, **KmsClientProofs** and **EventWalkProofs**. The `MC` modules
give the constants their values. Definitions whose comment starts with "Mutant"
are the plausible bugs the properties were tried against; no specification
uses them.

## Runs

| Run | Question | Answer |
|---|---|---|
| `release_fetch` | Two invocations, blocks with up to two upgrades, nodes one block behind: is a mixture of two releases ever returned (`ReleaseWasLatest`), and do the two calls behave as one read (`ReadIsAtomic`)? | Never; they do. The block number pins the events: a later upgrade in the same block is impossible because blocks are final, and a node that lacks the block returns no event, hence an error. |
| `event_walk` | Up to four logs, of both ABI shapes, in any order: does the walk find what ReleaseFetch says it finds (`WalkFindsNewest`), and does its goroutine end (`FeederIsDrained`)? | It does where every log of the topic unpacks; its goroutine ends, except where `Next` stops at a log it cannot unpack with others still to come (nobody calls `Close`). If the block's newest upgrade has the shape the server was not configured for, an older one of the same block can be returned. |
| `event_walk_error` | `chainclient.go:79`: is it the latest of all returned logs (`LatestOfAllReturned`)? | Not if one cannot be unpacked: see Findings. |
| `env_server` | Requests and releases with one defect each, with and without debug mode and its `appID` override, moving policy: who gets a 200 (`ServedToLatestCode`, `AdmittedByPolicy`, `TCBMeetsMinimum`), and is a 4xx ever given to a VM that was entitled at every height it can have been checked at (`RefusalIsJustified`)? | Only current, admitted code; the override changes which app is asked for, and nothing else. Image and TCB are read one after the other, so a change of policy in between can admit an image of the old list on the new minimum, which neither policy alone accepts; never, but for the lag, an image allowed after the minimum was raised on an older TCB. No. |
| `token_server` | `/env` and `/env/v2`, tokens with one defect each, caches that are refreshed during the walk: who gets a 200 (`ServedToLatestCode`, `AdmittedByToken`), and when is an entitled instance refused (`TokenRefusalIsJustified`), what does the walk find (`WalkFindsWhatStays`)? | Only current code with a token of a key the cache held. Only when its key changes its place in the cached set during the walk. Keys of the token's algorithm that were in a set meanwhile, and all that stayed at their index. |
| `token_filter` | Is the filtered key set the matching part of a published set (`FilteredSetIsOfOneJWKS`, `attestation.go:370`)? | No: see Findings. |
| `attest_server` | `/auth/attest` beside `/env/v3`, on servers started from 14 command lines: what does a token say (`TokenSaysWhatWasAttested`), who signs it (`SignedByConfiguredKey`), who gets one (`AdmittedByPolicy`), who is refused (`AttestRefusalIsJustified`), and does one piece of evidence open two doors (`EvidenceServesOnePurpose`)? | What was attested; the configured key, even where the command line still has another; instances admitted as in `env_server`; those not admitted at some height; none does. |
| `protocol_stale` | Retries, lost attempts, crashes, lag: is the env `GetEnv` returns current (`DeliveredEnvIsFresh`), does every `GetEnv` return (`GetEnvReturns`), and is its number of steps bounded (`GetEnvRunsDown`)? | Yes, less the lag; yes, under the fairness below; yes, by twice the number of attempts and two. |
| `protocol_access` | No lag, two boots. `kms.md:13`: does an entitled VM get its env when nothing fails (`LatestCodeHasAccess`)? Is a second env ever older (`RebootNeverGoesBack`), or a second read (`ReadsNeverGoBack`)? Does all this amount to a delivery in one step (`DeliversAsPromised`)? | Yes, except that a release whose env overrides `MNEMONIC` with an invalid one makes `GetEnv` fail while deriving addresses it only logs (`envclient.go:184`). Never; with lag they can be, which is why the two are asked without. It does. |
| `protocol_4xx` | `envclient.go:260`: are client errors final (`ClientErrorsDoNotResolve`)? | No: see Findings. |
| `app_keys` | Every spelling of an ID on every path: does case ever refuse an env (`CaseNeverRefuses`), do planned addresses stay the app's (`PlansHold`), does an upgrade lock an app out of its disk (`DiskStaysReadable`)? | Never; yes and no, unless a release's own `MNEMONIC` changes, or the `0x` of an ID. |
| `kms_client` | Three runs of any commands, each failing or killed anywhere: what does status 0 say of the file (`SuccessMeansWhole`), which files survive a failure (`OldFileSurvivesFailure`, `KeyFileNeverReplaced`), whose failures count (`StatusIgnoresUpload`), does a command end (`CommandEnds`, `CommandRunsDown`)? | That it is whole and of this run; all, until the run has its result and its file is open; all but the user API's; yes, once the evidence is there. |

The `protocol_*`, `event_walk*` and `kms_client` runs set `CHECK_DEADLOCK
FALSE`: they model one-shot programs, which stop when every boot, log or run is
used up.

`FetchTypeOK`, `ServerTypeOK`, `TokenTypeOK`, `AttestTypeOK` and
`ProtocolTypeOK` are the type invariants; those of AppKeys, KmsClient and
EventWalk are parts of the proofs' invariants.

## Bounds

- `MaxBlocks = 3`: the genesis block and two with upgrades. Release A can be
  current when a call begins, B during it; the properties compare a release with
  its successor, so a third upgrade adds no new order relative to one call.
- `MaxPerBlock = 2` in `release_fetch`, where the loop over events matters, else 1.
- `MaxLag` 0 or 1: no lag, and nodes that disagree.
- Two invocations, or two handler slots in EnvProtocol: enough for an attempt the
  client gave up on to run beside its retry. The servers alone have one slot,
  because handlers share nothing but the chain and the key caches; invocations
  that influence one another do so through `newest`, which is history.
- One app and one VM; `a2` is an app in no table, which an override may name.
- The policy stands still in EnvProtocol, so entitlement changes with the releases
  there; it moves under requests in `env_server` and `attest_server`.
- TCBs lie on both sides of byte boundaries (0.255.255 and 2.0.0 around a minimum of
  1.7.5), so that a wrong packing order shows.
- The three policies of `attest_server` differ in the minimum alone or in the images as
  well, so that a request can meet each mixture of two of them.
- Extra data is a few texts: no base64, too long when decoded, and two of the same bytes.
- Google's cache: the old key, both, the new key, so a rotation with and without
  overlap; Intel's: the two keys of one ID it publishes, in either order
  (`attestation_test.go:529`). The number of refreshes is not bounded.
- Debug mode is varied in `env_server` and `attest_server`, and off elsewhere.
- `MaxTries` 1 or 2 stands for the 2 minutes of `maxElapsedTime`; `MaxBoots` 1 or
  2; `Burst = 1`, the burst of `NewRateLimiterMemoryStore` for rates up to 1.
- `MaxLogs = 4`: as many as needed for a newest log with others on both sides of
  it and one of the other shape; 2 where one that fails is enough.
- `MaxAddresses = 2`, `AddressesToLog = 2`: a first and a further index.
- `MaxRuns = 3`: a run, one that meets what it left, and one that meets that.
- Slots are symmetric in `protocol_access`, which checks no liveness, and whose
  refinement mapping names no slot.

Most of these bounds concern TLC only: the theorems below hold for any values.

## Fairness

`FairProtocolSpec` assumes weak fairness of each client's steps and of each
handler slot's steps: goroutines and processes that can run do, and each remote
call ends because the handler's context has a deadline and the HTTP client a
timeout. `ClientSpec` assumes it of a command's steps, `WalkSpec` of the loop and
of the goroutine, each a goroutine that can run. Nothing is assumed of the
network (an attempt may always be lost), the server's health, the limiter's
refill, the chain, or the launcher: its socket is asked without a timeout, so
`GetEnvReturns` and `CommandEnds` begin once the evidence is there. They say
that a call ends, not that it succeeds.

## Proofs

For every value of the constants: any apps, instances, requests, releases, policies,
slots, key sets, command lines, lag, chain length, retries, boots, logs or runs.

| Module | Theorems |
|---|---|
| ReleaseFetchProofs | `TypeCorrect`, `AlwaysWasLatest`, `NeverGoesBack`, `ReadRefinesAtomic` |
| EventWalkProofs | `WalkAlwaysFindsNewest` |
| EnvServerProofs | `ServerTypeCorrect`, `AlwaysServedToLatestCode`, `AlwaysAdmittedByPolicy`, `RefusalAlwaysJustified`, `TCBAlwaysMeetsMinimum`, `ServerReadsAtomically` |
| EnvProtocolProofs | `ProtocolTypeCorrect`, `AlwaysDeliversFresh`, `RebootIsMonotonic`, `ReadsAlwaysInOrder`, `LatestCodeAlwaysHasAccess`, `GetEnvAlwaysRunsDown`, `ProtocolImplementsDelivery` |
| TokenServerProofs | `TokenTypeCorrect`, `AlwaysAdmittedByToken`, `TokensServedToLatestCode`, `TokenRefusalAlwaysJustified`, `WalkAlwaysFindsWhatStays`, `TokenServerReadsAtomically` |
| AttestServerProofs | `AttestTypeCorrect`, `EvidenceAlwaysServesOnePurpose`, `TokensSayWhatWasAttested`, `AlwaysSignedByConfiguredKey`, `BothAdmitByPolicy`, `AttestRefusalAlwaysJustified`, `AttestServerReadsAtomically` |
| AppKeysProofs | `CaseAlwaysIgnored`, `PlansAlwaysHold`, `DiskAlwaysReadable` |
| KmsClientProofs | `SuccessAlwaysMeansWhole`, `OldFileAlwaysSurvives`, `StatusAlwaysIgnoresUpload`, `KeyFileIsNeverReplaced`, `CommandAlwaysRunsDown` |

**Assumptions.** `ChainAssumption`: the numeric constants are naturals.
`AppAssumption`: a request names an app or none. `EndpointAssumption`,
`TokenEndpointAssumption`: each server's requests are for its endpoints.
`ProtocolAssumption`, `RequestsAssumption`: no VM is "nobody", evidence names an
instance and an image, `GetEnv` tries at least once, and the server takes what
the VMs send. `KeySetAssumption`: what a provider publishes is a list. `IDAssumption`:
spellings are spellings, and those of instance names lower case.
`ClientAssumption`, `LogAssumption`: bounds are naturals, and nil is no log. TLC
evaluates each of them on the instances above. `TCBAlwaysMeetsMinimum` has a
hypothesis besides, `TCBsAreBytes`: a TDX TCB is three bytes, a minimum a number.

**ReleaseFetch.** `ReleaseWasLatest` is not inductive: it says nothing of a call
between its two RPCs, nor why the recorded block holds the app's last events.
`IInv` adds both. `StorageInv` relates the contract's table to the events at
every height: the recorded block has upgrades and no later one does. `FetchInv`
says that a call between its RPCs holds the contract's answer at some height of
its window, that its result is the last event of the block it read, and that
`floor` was known to the contract when the call began. Mining preserves it since
blocks are final (`MineBlockPreserves`); a step of an invocation preserves it
since the loop returns the block's last event (`LoopReturnsLastUpgrade`), the
one place where the two calls meet.

**Refinement.** Every step of a call maps to one of the abstract read or, for a
mined block, to a publication (`CallRefines`, `MineBlockRefines`). The second RPC
maps to a step that changes no value, because `IInv` says that the events of the
block read first are there and as they were. Each of the three servers makes only
such steps (`ServerReadsAtomically` and the two like it): its calls are made for
apps that the checks before them have found to be some app, so whatever is proved
of ReleaseFetch's `Spec` holds inside a server.

**EventWalk.** The invariant is the loop's: what it has kept is the newest of the
logs handed over. That these are all logs in the end needs that the node's
answer lists each once (`AnswerIsComplete`), which rests on the finiteness of
the set of logs, shown by their distinct indices.

**EnvServer.** A phase stands for the checks behind it; each was made at a height
of the request's window, and what was true of a height stays true
(`EntitledForGood`, `ReadForGood`). `HandlerInv` is that reading of each phase,
for grants and for refusals; since the image was
read before the TCB, so was the height it was allowed at, but for the lag
(`ImageFirst`). `ServerInv` adds `IInv`, so that the result of the
fetch is known. `TCBAlwaysMeetsMinimum` adds that packed numbers are ordered as
the versions are (`PackedOrder`).

**EnvProtocol.** Nothing in `client` says that the answer that arrives is to this
boot's request, though abandoned attempts still run and slots are used again.
`ConnInv` does: a connection joins a client to a slot serving the request of its
present boot, which came after the call began, so the slot's window lies in the
client's. An env delivered is then what `ServerInv` says of a 200
(`AnswerIsOwn`), and stays so while blocks are mined and the server crashes
(`ClientSurvives`). `RebootNeverGoesBack` follows since what a boot got is recorded
from then on, and the recorded block never decreases. `LatestCodeHasAccess` needs
another invariant, `AccessInv`, about failures nobody is to blame for: without lag
the second RPC finds the events of the block the first one named
(`FetchEventsExcused`), so a 500, like a 4xx, has its cause in what the chain held.

`ProtocolImplementsDelivery` needs both and one thing more, `PromiseInv`: what a
slot has let through is a release that can be used and opened, which a 200 alone
no longer shows. Then each step of EnvProtocol is one of EnvDelivery or none
(`StepKeepsPromise`): a mined block an `Advance`, `GetEnv` a `Boot`, a lost attempt a
`Disturb`, an answer a `Deliver` or a `Fail`, and the server's own steps, crashes
included, nothing. A delivery's height is that of the read; its checks have
theirs. `GetEnvAlwaysRunsDown` is the part of `GetEnvReturns` that can be proved: a
client before its last attempt has room for another (`ClientInv`), so that each
step takes it nearer to its end.

**TokenServer.** What is new is the walk, which another goroutine disturbs. Its
invariant bounds what it has found from both sides: nothing but keys that the
cache has held, and every key that has kept its index in all the sets held, up to
the walk's own index. The walk ends only where one of those sets is used up; so
a key with a stable place is found (`StableIsFound`), and a token refused for
want of its key had a key that moved. `WalkAlwaysFindsWhatStays` says the same of
every key of the algorithm (`FoundBounds`): it is what remains true of the comment
that `token_filter` refutes.

**AttestServer.** One slot at a time, as in EnvServer, for two endpoints; added is
that the token of a slot is the one of its request, and that the configuration is
one a server starts with. `EvidenceServesOnePurpose` then follows from the digests:
evidence is bound to one header and key (`BoundToPurpose`).

**AppKeys.** The invariant says of each record (plan, disk, boot) what it was
computed from, which the release of the moment no longer tells; each theorem
compares two such computations.

**KmsClient.** The invariant follows a run: until it opens its file nothing has
changed since it began; while it writes, the file is its own; once it has
exited, its status says which of the two it left. All along, the run has met only
good in the stages behind it, the upload apart, and nothing in those to come. That no attempt is beyond the
last one (`TriesInv`) bounds its steps.

**Only model-checked:** liveness (`GetEnvReturns`, `CommandEnds`,
`FeederIsDrained`), which is out of the provers' reach, as is `ENABLED`; of the
first two, that the steps run out is proved, that they are taken is not. What a
recursive definition computes for every input could not be proved either, for
want of induction over data; no module here has one.

## Findings

- `event_walk_error`: `chainclient.go:79` says the loop gets the latest of all
  returned logs. `binding.go:2166-2168` says that `Next` returns false on a parsing
  error, and that `Error()` has it; nobody asks. A log that cannot be unpacked
  ends the loop, and the superseded release before it is returned as the latest.
- `protocol_4xx`: `envclient.go:260` justifies giving up on 4xx with "they won't
  resolve with retries". The server answers 401 when it could not make a policy
  check at all (`env.go:269-278`), and the rate limiter answers 429. A VM entitled
  to its env at every height of the call is refused, and its boot fails, for one
  failed RPC.
- `token_filter`: `attestation.go:370` says the JWKS is filtered by the token's
  algorithm. The walk reads `Len()` and `Key(i)` from the live cache, so a refresh
  that moves keys makes it return a set no version of the JWKS yields; with
  Intel's two keys swapped between two reads, the token's key is missed though
  both versions hold it, and a valid token is answered 401.

Where the models follow the code and a document says otherwise, without a run:

- `kms.md:195-198` says both token endpoints require a STABLE image. For Intel
  tokens the code asks for EXPERIMENTAL (`attestation.go:239`) and never looks for
  STABLE.
- `kms.md:286` says `/addresses` derives from the mnemonic that `/env` will
  provide. It need not: an ID without its `0x` is accepted (`addresses.go:22`) and
  derives another one, and a release may bring its own `MNEMONIC`
  (`env.go:399`). `PlansHold` says that there is no third case.

## What is not modelled

- Cryptography: hashes are injective, evidence, encryption and signatures are
  good for what they were made for and nothing else.
- Reorganisations of the chain; a provider that lies (`kms.md:295` trusts it).
- The contracts' own code, Cloud KMS, Google's endorsement service, the launcher.
- Sorting PCRs for the contract's hash (`policy.go:194`): an image is one value.
- Clocks: the lifetimes of tokens (`attest-jwt-expiration`), of evidence and of
  certificates. A deadline is an error that may come at any remote call.
- Flags that name remote services, and what those services do when misnamed.
- How `writeEnvFile` quotes values: the models have no characters.
- The generated binding but for the `AppUpgraded` iterator, the only one called.
- Logging, swagger, health, mocks and fakes.

## Plan

Done: release fetch, its abstract specification and refinement; the three env
endpoints; the composition with client, network and crashes, its abstract
specification and refinement; token issuing and
configuration; app keys; kms-client's files; the event iterator; the proofs above.

What would come next, in this order:

1. EnvProtocol with AttestServer and TokenServer in place of EnvServer alone, if
   the clients of several endpoints come to share state.
2. A variant of AppChain with reorganisations, to see how many confirmations the
   properties of ReleaseFetch would need.
