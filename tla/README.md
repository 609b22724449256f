# Bark / Shinigami / ZK-BitVM showcase in TLA+

TLA+ models of the programs in this repository, TLC configurations that check
them on small instances, and theorems about them that the TLA+ proof system
checks for all values of the constants. Paths below are relative to the
repository; every definition that models code is written from the code, not
from what the documents say of it.

- [1. The system](#1-the-system)
- [2. Modules and how they correspond to the code](#2-modules-and-how-they-correspond-to-the-code)
- [3. What each run checks](#3-what-each-run-checks)
- [4. What is proved](#4-what-is-proved)
- [5. Disagreements with the documentation](#5-disagreements-with-the-documentation)
- [6. What is not modelled, and what comes next](#6-what-is-not-modelled-and-what-comes-next)

To check a run: `tlc -config MCTrustedGate.cfg MCTrustedGate.tla`; to check the
proofs of a module: `tlapm TrustedGateProofs.tla`.

## 1. The system

The repository shows how a Bark VTXO spend could be settled under a proof. It
has two generations. The *historical* one is a trusted cosigner gate in
JavaScript that admits settlement packages on the strength of an STWO proof of
a small Cairo relation and a Shinigami script check, with a red team, a blue
team and an auditor around it. The *current* one is a Rust crate: a strict
binary statement, a host preflight, the parsing of a Boundless receipt, a
manifest that binds everything for one BitVM2 claim, gates for a BitVMX
verifier, and the policy that decides about an operator's bond. No process of
the repository talks to another over a network; components interact by calls,
by signed objects, and by files one program writes and another reads.

### Components

**Trusted cosigner gate and independent verifier** (`trusted-cosigner-gate.js`).
*State:* per gate, in a closure, the challenger and state-signer keys drawn at
creation and the set of nonces consumed; nothing persists, so a restart is a
new gate. The verifier has a key and no memory. *Operations:* `attest` derives
the facts from artifact bytes and signs them together with whatever policy
hash, network, case and nonce it is given; `createTrustedGate`; `evaluate`
makes twelve checks in order, builds and verifies a UTXORef graph, and then consumes the nonce and
returns two settlement signatures. *Interactions:* verifier to gate by signed
attestation; operator to gate by a proposal assembled from parts that need not
belong together. *Hard:* several gates share one verifier and one nonce space;
restarts; replays; failures after the checks have begun; many separately
guarded parts. *Correct when:* a package rests on artifacts that establish the
claim its case pins; no attestation yields two packages; a nonce is consumed
exactly by a package; nothing earlier blocks an honest request.

**Evidence audit** (`verify-blue-evidence.js`). *State:* none; reads the file
`runMatrix` wrote. *Operation:* `verifyEvidence` recomputes every digest and
compares the parts with each other. *Hard:* the same facts appear in five
places of the file, the file brings its own trusted keys and its own claim pin,
and two scripts must agree on every link. *Correct when:* what it reports
verified is one recording and not a mixture of several; a reader who knows the
state signer it names as a gate's may conclude that this gate issued it, and one
who knows the verifier it names, that the artifacts are true; and every record of
an issued package is reported verified. About a file whose keys the reader does
not know a report says nothing of any gate: anybody can make one.

**Legacy linear relation** (`cairo/src/lib.cairo`, the copy of its binding in
the gate, the collision probes of `red-team-attacks.js`). Pure functions. *Hard:*
field arithmetic, a fold with depth bounds, an index-based copy in a second
language. *Correct when* (for a relation known to be weak): the two copies
agree, and it is clear exactly which changes it notices and which it does not.

**Statement envelope codec** (`src/envelope.rs`). *State while decoding:* the
input, the offset and the fields read. *Operations:* `encode`, `decode`. *Hard:*
lengths and counts from untrusted input, limits enforced in two places.
*Correct when:* decoding accepts exactly the encodings, each as what was
encoded, stays within limits at every step, and ends.

**Demo cases and host preflight** (`src/demo.rs`, `src/bin/*.rs`). *State:* none
in the code; around it, the signatures owners and the oracle have made.
*Operations:* `build_envelope`, `validate_host`, `build_receipt`. *Hard:*
signatures, spends, payout tables and VTXOs are made at different times and can
be recombined; u32 and u64 sums. *Correct when:* an accepted spend is one its
owner signed, pays no more than the VTXO holds, after its delay, and, for a
virtual CET, what the oracle announced and attested; the owner's own exit is
never refused.

**STWO policy** (`src/stwo_policy.rs`). *State:* none. *Operations:*
`canonical_bytes`, `digest`, `enforce`. *Hard:* one byte stands for no lifting
log size and for the largest one, and a statement pins only the digest.
*Correct when:* it is clear which parameters the pinned digest tells apart.
`enforce` has no caller outside the tests of the crate, so nothing about
manifests follows from it.

**Boundless receipts and BitVM2 claim manifest** (`src/boundless.rs`,
`src/bitvm2_manifest.rs`). *State:* none. *Operations:* `parse_parts`,
`parse_seal`, `Bitvm2ClaimManifestV1::new`, `to_json_value`. *Interactions:* the
market delivers a seal; a publisher parses it and builds the manifest. *Hard:*
aliases of a scalar modulo the field, a lookup of the first artifact of a kind, a sort at the end, URLs built from names, some
thirty checks of which a caller sees the first that fails. *Correct when:* one
scalar means one claim, the artifacts listed are the ones checked, the document
can be checked again from its JSON, a URL names one file, an error names what is
wrong.

**BitVMX outer feasibility gates** (`src/bitvmx_outer_feasibility.rs`). *State:*
none; the measurement it judges fills up observation by observation. *Operation:*
`assess`. *Hard:* any order of observations, absent ones, two profiles.
*Correct when:* a candidate verdict is final and a measured failure stays
reported.

**Bond enforcement** (`src/enforcement.rs`). *State:* none; around it, a
dispute with a chain height, watchers and rounds. *Operations:*
`TimingPolicy::validate`, `required_bond_sats`, `decide`. *Hard:* deadlines that
leave no slack, watchers going offline, evidence arriving in any order, u32 and
u64 boundaries. *Correct when:* an attended invalid claim is slashed before the
take deadline passes, an honest operator gets its take, a verdict does not turn
into its opposite, the bond covers what it is for.

**Composed legacy stack** (`run-local-stack.ps1`, `bitvm-assertion.js`).
*State:* files: pinned artifacts, the Bark checkout, clones of Shinigami and
UTXORef in an output directory, one receipt and one report per case, a summary.
*Operations:* the runner checks pins, clones, and for each case runs an emitter
and the assertion builder, judges the report, looks at Bark again and writes the
summary. *Interactions:* programs hand each other files by name. *Hard:* a file
is hashed at one moment and used at a later one; receipts can be mixed up; two
runs can be given one output directory; the two halves disagree on the receipt
schema. *Correct when:* what a summary says of a case was judged on that case's
pinned claim and by that run, replaced files do not get far, and a run left
alone completes, which at this commit none does (section 5).

**Others:** the remainder of the red-team harness (`red-team-attacks.js`,
`run-red-blue.ps1`), the Shinigami relation scaffold (`cairo-shinigami/`), the
adversarial corpus (`tests/`), build files. See section 6.

`PROJECT.json` lists the hazards of this code, each at the line where it bites,
with the properties that cover it.

## 2. Modules and how they correspond to the code

Abstractions shared by all modules: a hash is injective, so a digest *is* the
value digested; under a key somebody keeps, only what he signed verifies; JSON layout,
hex, messages and logging are left out. Every bound is a CONSTANT or a guard
that names one.

| module | models | state and actions |
| --- | --- | --- |
| `TrustedGate` | gate and verifier | `gates`, `attested` (what the verifier signed), `spent` (`consumedAttestationNonces` per gate), `issued`. `Attest`, `CreateTrustedGate`, `Evaluate`: one action for the whole of `evaluate`, with the twelve checks in `CheckOrder` |
| `AdmissionLedger` | what the gates promise | a ledger of requests granted; a request is eligible by its artifacts and a (policy, nonce) pair is good for one. `TrustedGate` refines it through `Ledger` |
| `EvidenceAudit` | audit of recorded evidence | extends `TrustedGate` with `file`, `edits`, `report`: `Record` a package, `Fabricate` a file without a gate, `Replace` one part by another file's, `Audit` |
| `LegacyRelation` | Cairo relation, its copy, the probes | `claim`, changed one field at a time and sealed again |
| `StwoPolicy` | the STWO policy, its bytes and digest | operators only; proved about |
| `EnvelopeCodec` | encode and the reader | `input`, `offset`, `todo`, `envelope`, `status`; one action per kind of read |
| `HostPreflight` | demos and `validate_host` | `signatures`, `emitted`, `accepted`: owners and oracles sign, demos build receipts, any assembled envelope is validated |
| `OuterGates` | `assess` | operators only; used by the next two |
| `OuterFeasibility` | an experiment judged by `assess` | `measurement`; `Observe` fills one absent observation |
| `ClaimManifest` | receipts and manifests, composed with `OuterGates` | `delivered`, `receipts`, `manifests`: `Deliver`, `ParseSeal`, `ParseParts`, `New` |
| `ProofPath` | from delivered receipt to published manifest; extends `ClaimManifest` | `draft`, `error`: `Deliver`, `OpenDraft` with some parts wrong, `Publish` parses and builds or says what is wrong, `Repair` replaces what it says |
| `ComposedStack` | the runner and the assertion builder | `run` (program counter, receipt read, stale uses, summary), `disk` (receipts and reports), `made` (clones), `unpinned`, `restored`, `schema`: one action per kind of step, `Edit`, `CopyReceipt` |
| `Enforcement` | policies and `decide` | operators only; used by the next and by `HostPreflight` for checked sums |
| `BondDispute` | a dispute timed and decided by them | `height`, `stage`, `since`, `round`, `online`, `gates`, `missed`; `Mine`, `Challenge`, `Respond`, `Disprove`, `Confirm`, `Obtain`, `ComeOrGo` |
| `*Proofs` | | theorems of the module they are named after; `TrustedGateProofs` also holds those of `EvidenceAudit`, and `ClaimManifestProofs` those of `StwoPolicy` and `OuterFeasibility` |
| `Recursion` | nothing of the code | that recursive functions on the naturals exist and are unique, and induction below a bound, from least elements; used by the proofs |
| `MC*` | | constants of the runs |

How particular parts are abstracted:

- *Gate.* A policy is its core and its hash is the core, so two gates have the
  same policy only if they drew the same keys. Proposals are what `proposalFor`
  builds from an attestation, with the verifier's facts or all-true facts as
  disclosures, with at most one of its twelve parts overridden; the overrides
  include unsigned, altered and foreign attestations, other gates' policies and
  policies that somebody else composed (`ForeignCores`). The verifier signs
  requests under those too, as `attest` does; a policy can name a gate's keys once
  the gate has drawn them.
  Building and verifying the UTXORef graph is external: it succeeds when the
  secret handed in is the pinned operator's.
- *Audit.* The keys and the claim pin are those of the policy core in the file.
  Under the verifier's key a signature verifies if the verifier made it, under
  another one whatever its holder liked to sign. A file is the recording of a
  package, or made by hand (`SelfMade`) around an attestation: one the verifier
  signed, under any policy, or one filled in freely (`Forged`), with a graph
  signed by a key of one's own. A wholly self-made file passes the audit, in the
  model as in the code. What nobody but a gate can make is a state mark under the
  gate's own signer. Replaced parts come from other such files, of either kind.
  The gates stop when a file is there, since the audit reads nothing but the
  file. Four receipt fields the audit does not read (sighash, signatures,
  outpoint, tree root) are left out.
- *Preflight.* Anyone may sign anyone's spend with a key of one's own; an
  envelope is assembled around any signed spend, as an owner exit or with any
  attested outcome, and one part of it is replaced. Heights are replaced by
  their boundary values, the largest u32 included.
- *Codec.* Bytes are digits of a small radix and a run of fixed-size fields that
  is read as a whole is one digit; the order of the fields, the length prefixes,
  the limits and the place of each check are kept.
- *Manifest.* A byte string is a sequence over a small alphabet, compared as
  Rust compares arrays; the field modulus is 5 with nine two-byte digests, so
  aliases exist. A name is a sequence of characters, among them `/` and `%`.
- *Dispute.* The chain, the watchers and the evidence pipeline are external: the
  code receives the evidence. `EnforcementEvidence` is computed from the state
  and `decide` is asked in every state. A watcher deadline that passes while no
  watcher is online sets `missed`.
- *Proof path.* How a receipt comes about is outside this code: any seal may be
  delivered. An error is modelled by the parts it points its reader at, in the
  order the code looks; one that leaves open which of several parts is wrong
  points at all of them. A draft is the right one for a delivery with up to two
  parts replaced.
- *Composed stack.* A run is a straight line of steps (`Program`); a file holds
  its pinned content or another; comparing several files at once is one moment,
  while checking and using are different ones. A program given unpinned content
  fails or goes on. `git clone` into an existing directory is taken to fail as
  one atomic step; both that and the verifiers, Scarb and UTXORef are external.
  `EmitterSchemas` says what receipts the emitter writes. The emitter of this
  commit writes v3, without a claim, and a run stops when it reads the first one;
  v2 stands for an emitter of the schema `verifyReceipt` was written for, which is
  what the later steps can be looked at with.
- *Legacy relation.* The field is the integers modulo a small prime; limbs,
  amounts and delays range below it with room for both probes.

## 3. What each run checks

All runs pass, except `composed_completes`, which is a finding (section 5). Each
property of a passing run has in `PROJECT.json` a mutant of the code that breaks
it.

| run | instance | properties |
| --- | --- | --- |
| `gate` | 2 gates, 2 nonces, 2 attestations, 5 artifact triples, 2 networks, 1 foreign policy, the two cases `honest_true` and `bark_true` | `TypeOK`, `AttestationUsedOnce`, `AdmittedOnTruth`, `SpentIffIssued`, `HonestNeverBlocked`, `ReplayReported`, `ImplementsLedger` |
| `gate_checks` | the same with 1 attestation and four case labels, two sharing a claim and one unknown | `NoPartUnchecked` |
| `evidence_audit` | 2 gates, 2 nonces, 2 attestations, 2 artifact triples, 3 foreign policies (own signer; own signer, verifier and claim pin; a gate's keys under other terms and pins), 1 part replaced | `AuditedIsOneRecording`, `AuditedWasIssued`, `AuditedOnTruth`, `IssuedIsAuditable` |
| `legacy_relation` | prime 101, values up to 47, every depth and side | `CollisionsVerify`, `CopiesAgree`, `SingleChangeNoticed` |
| `envelope_codec` | samples at and beyond every limit, and every one-place alteration of their bytes | `TypeOK`, `Canonical`, `RoundTrip` |
| `host_preflight` | 2 VTXOs, one signed spend and two oracle signatures besides the demos' | `OwnerAuthorized`, `ValueAndDelay`, `PaysAsAttested`, `OwnerExitNeverRefused`, `DemosAsExpected` |
| `claim_manifest` | 2 journals, 2 raw proofs, up to 2 deliveries, receipts and manifests | `OneClaimPerScalar`, `CheckedArtifacts`, `RebuiltFromJson`, `UrlNamesOneRelease`, `FeedsGates` |
| `proof_path` | 2 journals (one with an unpublishable claim), one delivery and manifest, up to 2 wrong parts | `EventuallyPublished` |
| `outer_feasibility` | 6 verifiers, 2 profiles, all orders of 8 observations | `CandidateFinal`, `FailuresPersist` |
| `bond_dispute` | 6 timing policies, 3 bond policies, 2 watchers | `SlashedInTime`, `BondCovers`, `DecisionsStable`, `InvalidEventuallySlashed`, `HonestEventuallyTakes` |
| `composed_stack` | 2 runs, one output directory, 3 edits, emitters for either receipt schema | `BarkMovementDetected`, `StaleUseIsLast`, `SummaryNamesItsCase`, `SummaryIsOneRun` |
| `composed_completes` | 1 run, no edits, the emitter of this commit | `OneRunCompletes` (violated) |

What they show, and why the bounds are enough:

- `gate`: two of everything is what the hazards need. Replay takes one gate and
  one nonce; a restart, or two cosigners side by side, takes two gates; reuse of
  a nonce under another case or with other artifacts takes two attestations. No
  check reads more than one attestation and one nonce set. Each attestation is
  admitted at most once, so two attestations bound `issued` at two packages.
  `ImplementsLedger` is checked as a refinement. Nonces are interchangeable,
  which makes the symmetry sound: no constant, guard or property orders them or
  singles one out. The properties under symmetry are safety properties.
- `gate_checks`: admitting is a predicate of one proposal, so one attestation is
  enough and all case labels fit. The property is stronger than any check by
  itself: *the only* proposal admitted for an attestation is the one built from
  it with its own facts.
- `evidence_audit`: a file is one of the recordings, or made whole by hand around
  any attestation under any of the policies, so that it is consistent in itself;
  one replaced part then breaks the links that part is in, each link on its own.
  The parts come from files that differ in the policy, the nonce, the artifacts,
  the keys or several of these. Mixtures of more than two files are left to the
  proofs, which hold for any number of replacements. What a report guarantees
  depends on the policy in it: the foreign policies keep the verifier, replace
  everything, or put other terms around a gate's keys; reports under the first
  two do occur, so neither premise is idle, and under the third none does.
- `legacy_relation`: the sample claim of the Cairo tests, scaled. As in
  Cairo, the field is prime and every value is below it, so that a single change
  is multiplied by a coefficient that is not zero and shows; the probes need
  room for changes of 17 and 31, which the range of 47 gives. `SingleChangeNoticed`
  tries every other value of every field in every state.
- `envelope_codec`: every list length up to one above its limit, every field at
  its limit, alterations that replace, drop, insert or append a digit, or cut
  the input anywhere. The reader stops when
  the input is decided, so deadlock is not checked here; nor in
  `outer_feasibility`, which stops when everything is observed, in
  `claim_manifest` and `proof_path`, which stop at their bounds, and in
  `composed_stack`, where every run ends.
- `host_preflight`: two VTXOs of two owners allow every kind of mix-up of owner,
  prevout and spend; amounts and heights are chosen so that a wrapped sum would
  be small. One spend besides the demos' suffices because an envelope carries
  one, and the demos add a second signature by the same owner.
- `claim_manifest`: recombination takes two deliveries; comparing manifests
  takes two. `FeedsGates` composes with `OuterGates`. `RebuiltFromJson` reads the
  document back, with its artifacts in either order, and builds it once more.
- `proof_path`: a wrong part can hide behind another only if there are two, so
  two faults reach every pair of checks. The property speaks of one manifest.
- `composed_stack`: no property relates more than two runs. Three edits replace
  a file, restore it and replace another; mixing up receipts takes one. With v3
  receipts the runs end early, so it is the v2 ones that reach the later steps.
- `composed_completes`: one run that nobody disturbs is the best case there is.
- `bond_dispute`: policies with no slack (as both shipped ones are), with slack,
  one block short, with zero lengths and beyond the u32 limit; bonds that fit
  exactly, are one satoshi too large, or overflow in the product. One block is
  one step, so heights are exhausted. The shipped policies are scaled down
  (`Regtest` and `Signet` are in `Enforcement`, and the theorems of section 4
  hold for every valid policy).

*Fairness.* In `BondDispute`: weak fairness of `Mine` and `Confirm` is Bitcoin
liveness, of `Challenge` and `Disprove` an honest watcher that acts while it is
online, and of `Obtain` a pipeline that completes, all of which `README.md`
lists under its security assumptions. Whether watchers stay online is *not*
assumed by fairness: it is the hypothesis of the liveness properties themselves.
`Respond` and `ComeOrGo` are not fair: the operator need not answer. `Mine`
waits for an online watcher whose transaction is due; a watcher that is offline
loses its deadline. In `ProofPath`: weak fairness of `Publish` and `Repair`, a
publisher with a draft at hand who keeps calling two functions that return at
once; deliveries are not fair. In `ComposedStack`: weak fairness of
every run's steps, since a started script goes on to its end; nobody has to edit
anything, and `OneRunCompletes` asks for completion only when nobody did.

`DecisionsStable` says what really holds. A decided slash does give way to
`OfflineWatcherAssumptionFailure` while all watchers are offline after the take
height, because `decide` tests the offline control first (`src/enforcement.rs`,
line 88), and a take gives way to `FailClosed`; neither turns into the other.

## 4. What is proved

The theorems hold for every value of the constants that satisfies the named
assumptions of the module: any number of gates, nonces, keys and artifacts, the
real u32 and u64 widths, any length of execution.

| module | theorem | property |
| --- | --- | --- |
| `TrustedGateProofs` | `TypeCorrect` | `TypeOK` |
| | `AttestationsUsedOnce` | `AttestationUsedOnce` |
| | `PackagesJustified` | `AdmittedOnTruth` |
| | `NonceAccounting` | `SpentIffIssued` |
| | `EveryPartChecked` | `NoPartUnchecked` |
| | `HonestAdmitted` | `HonestNeverBlocked` |
| | `ReplayStopsAtNonce` | `ReplayReported` |
| | `Refinement` | `ImplementsLedger` |
| | `AuditConsistent` | `AuditedIsOneRecording` |
| | `AuditSound` | `AuditedWasIssued` |
| | `AuditTruthful` | `AuditedOnTruth` |
| | `AuditComplete` | `IssuedIsAuditable` |
| `LegacyRelationProofs` | `ProbesVerify` | `CollisionsVerify` |
| | `CopiesNeverDiffer` | `CopiesAgree` |
| | `ChangesNoticed` | `SingleChangeNoticed` |
| `HostPreflightProofs` | `SpendsAuthorized` | `OwnerAuthorized` |
| | `WithinValueAndDelay` | `ValueAndDelay` |
| | `CetsPayAsAttested` | `PaysAsAttested` |
| | `ExitsAccepted` | `OwnerExitNeverRefused` |
| | `DemosPass` | `DemosAsExpected` |
| `ClaimManifestProofs` | `OneClaim` | `OneClaimPerScalar` |
| | `ArtifactsChecked` | `CheckedArtifacts` |
| | `Rebuilt` | `RebuiltFromJson` |
| | `OneRelease` | `UrlNamesOneRelease` |
| | `GatesFed` | `FeedsGates` |
| | `DigestAlias` | two policies have one digest exactly if they are equal or differ in none against 255 only |
| | `PinAmbiguity` | the pinned digest belongs to the required policy and to the one lifting to 2^255, no other |
| | `CandidatesStay`, `FailuresStay` | `CandidateFinal`, `FailuresPersist` |
| `EnvelopeCodecProofs` | `ReaderTyped` | `TypeOK` |
| | `ReaderCanonical` | `Canonical` |
| | `ReaderRoundTrip` | `RoundTrip` |
| `ComposedStackProofs` | `SummariesUnmixed` | `SummaryIsOneRun` |
| | `SummariesNamed` | `SummaryNamesItsCase` |
| | `StaleUsesEnd` | `StaleUseIsLast` |
| | `MovedBarkCaught` | `BarkMovementDetected` |
| `BondDisputeProofs` | `DisputesFinishInTime` | `SlashedInTime` |
| | `BondAlwaysCovers` | `BondCovers` |
| | `DecisionsFinal` | `DecisionsStable` |
| | `ValidTimingCovers`, `RequiredBondExact` | facts about `validate` and `required_bond_sats` |

The arguments:

- *Gate.* `IInv` conjoins `TypeOK`, `AdmittedOnTruth`, `SpentIffIssued`,
  `NonceNamesOnePackage` (a policy and a nonce name at most one package) and
  `FutureGatesFresh` (a gate not yet created has spent nothing). None of the
  properties is inductive alone: that an attestation is used once needs that
  the package records the nonce and policy of its attestation, and that the
  nonce is in `spent` of the very gate with that policy; that a new gate does
  not undo this needs the freshness of its keys. The lemma `AdmittedPackage`
  reduces the twelve checks to the one package they can admit. `AdmissibleMeans`
  and `EarlyChecks` spell out the list of checks; with `ProposalShape` (an override
  replaces one part) they give that the checks fix every part of a proposal, that
  nothing but a spent nonce stops a justified request, and that a replay gets as
  far as the nonce check. The first of these assumes that malformed public facts
  are not among the facts a case can have (`MalformedFactsAssumption`). The
  refinement maps an admission to `Grant` and every other step to a stutter.
- *Audit.* Steps of the gates preserve `IInv` (`AuditRefinesGate`); `AInv` adds
  the shape of the file and the properties. That a report is one recording is the
  chain of equalities in `verifyEvidence`, all of which hang on the graph's mark,
  and takes no hypothesis about keys. The other two theorems do: only a gate
  signs a mark with its state-signer key, and only for a package it issues;
  only the verifier signs with the verifier's. `FileShape` keeps the first for
  the file through every replacement: a graph is an issued package's or bears a
  foreign signer. If the policy in a reported file names a gate's signer, the
  graph bears it, so its mark is a package that the gate issued, and the mark
  fixes policy, pins and everything else. Nothing is said of a policy that names
  another signer, and nothing can be: such a file is reported verified although no
  gate issued it.
- *Preflight.* `AcceptedInv`: each accepted envelope was valid against the
  signatures of its time, and signatures are never taken back. `PreflightInv`
  adds that signed spends pay from VTXOs there are, that what was accepted is
  mature and within its amount, on integers, and that the signatures of a demo
  that ran are there. `OutputSumIsReal` compares the checked u64 sum of a table
  with the real sum, by induction over the partial sums: it is the real sum when
  that fits a u64 and fails when it does not. The exit is
  never refused because a plain spend by the owner passes each check
  (`PlainSpendAccepted`); the demos behave because `DemoSignedAccepted` and
  `ChallengeRefused` follow the demo's own envelope through them.
- *Manifest.* `HeldAsChecked`: receipts have the parsed proof length and each
  manifest was accepted for its receipt with its pins filled in; `HeldTyped` adds
  that every part has its type, which the reading back of bytes and lists needs.
  Sorting artifacts gives the same list for every order of theirs
  (`OrderForgotten`, `ReversedSame`), because kinds are distinct, so the position
  of an artifact is the number of smaller kinds (`PositionsMatch`, `KindPlaces`,
  `Sorted`). Hex digits read back (`HexRead`) and so do artifacts, requests and
  parameters built from them; with the order forgotten this is `Rebuilt`. A URL
  has one reading because a repository's URL does not contain the release path
  (`NoReleasePath`) and a tag no slash, so both separators are where they first
  occur (`UrlShape`, `SameShape`, `UrlParts`). Two canonical digests with one scalar are equal:
  `PartialValues` bounds the value of a digest's prefix, `BeforeIsLess` turns the
  byte-wise order into the order of values, and `CanonicalUnique` concludes, for
  any digest length, byte size and modulus.
- *STWO policy.* `DigestAlias` compares the canonical bytes one by one; only the
  seventh parameter has two values for one byte. `PinAmbiguity` takes the required
  parameters for one side.
- *Codec.* Neither property is inductive: both speak of the whole input when the
  reader stops. `ReaderInv` says where it is before that, for any input, radix
  and limits. An encoding is the concatenation of `Pieces`, one for each field,
  and a list's piece that of `ItemPieces`. What was read lies on the input, piece
  by piece, up to the offset (`Held`, `LaidTo`), fields not yet read are blank
  (`Unread`), and what is left to read is the rest of the layout (`Remains`).
  Inside a list (`InList`) the items read lie behind the count, which is theirs
  and those to come. At the end nothing remains, so the input is the pieces of
  the envelope read, which is its encoding: `Canonical`. For `RoundTrip` the
  invariant compares with every envelope of which the input *is* the encoding:
  the reader is at the place of its pieces and agrees with it so far
  (`AtFieldOf`, `InListOf`). Its next piece is then the next thing on the input, a
  digit, a string or a count within its limit, and what is read there is its
  value; a step that stops with an error contradicts that, so it happens only on
  an input that encodes no envelope (`NotEncoded`), and a reader that reaches the
  end has read that envelope.
- *Composed stack.* `LockInv`: at most one run is past the clone of Shinigami,
  whose name is fixed, and only when that clone exists; until a run is past it,
  nothing in the output directory is anybody's; after that every receipt and
  report is that run's, as is what it lists. The clone thus acts as a lock on
  the output directory, which is why the property holds for any number of runs
  although nothing in the runner was written for a second one. It rests on
  `git` and on nobody deleting the clone meanwhile.
  `CaseInv` adds what a run's position promises: `WellPlaced` says that in the
  program a step for a case follows another for the same case, and a receipt is
  read just after it was emitted; so when a report is written the receipt read
  passed for that case. Every report then names a v2 receipt with the proof file
  and the authorization expected of its case, which no receipt of another case
  has, even after receipts were moved between cases.
  `StaleInv` relates a run's position to what it used while it was replaced: such
  a file is still replaced or was put back, and in the first case no step since
  its use has checked it. It rests on a fact about the program alone,
  `ProgramUses`: every use of a file for a case comes after a check of that file
  for the same case, the first compilation and Bark excepted, and the program ends
  with a check of Bark. So a file that stayed replaced was used for one case only
  (`OneCaseBetweenChecks`), and a Bark checkout that moved for good stops the run
  at that last check.
- *Legacy relation.* `mix` is linear in each argument, so a probe's change of two
  fields cancels in every later layer (`Shifted`, `Reduced`, `Branches`).
  That a single changed field shows is the converse: `NoZeroDivisors` proves
  from the definition of a prime, by descent, that a product is a multiple of it
  only if a factor is, so the prime divides neither multiplier nor any product of
  them (`MixMoves`, `BindingMoves`, `FoldMoves`). `InField` is the invariant.
- *Feasibility.* `MeasurementShape` types the measurement; an observation never changes
  once made, so gates passed stay passed.
- *Dispute.* `DInv` bounds, for each stage, the height by `since` plus what the
  stage may take, and `since` by what the earlier stages may have taken:
  challenge by `challenge`, round r by `challenge + r * window`, disprove by all
  rounds, confirmation by that plus `margin`. `ValidTimingCovers` extracts the
  exact sum from the checked u32 arithmetic of `validate`; `NextRoundFits` and
  `WindowEndsInTime` are the arithmetic of one response. That decisions are final
  rests on `DInv` and on evidence only accumulating (`EvidenceAccumulates`: the
  take height passed, a confirmed disprove and a full set of gates stay so),
  followed through the cases of
  `decide` in `TakeStable` and `SlashStable`.

- *Induction over data.* The provers cannot instantiate an induction theorem that
  takes an operator, so `Recursion` states induction about *sets* of naturals:
  a set that holds 0 and with n also n + 1 is all of them, and a nonempty one has
  a least element. From that it proves that a function defined by recursion on
  the naturals exists and obeys its equation, which is what sums, folds and the
  values of byte strings are.

The assumptions are named and stand in the modules that declare the constants;
TLC evaluates each of them in a run.

| assumption | says | justified by |
| --- | --- | --- |
| `WidthAssumption` | the two integer widths are naturals | u32 and u64 |
| `PolicyAssumption` | policies have the fields of their types | the Rust types |
| `PreflightAssumption` | amounts and delays of VTXOs are u64 and u32, and the demo's VTXO is one of them | the types and `demo.rs` |
| `DigestAssumption` | digests are arrays of bytes of one length, the modulus and the journals among them; two hex digits hold a byte; seals and selector are byte strings, none empty | `[u8; 32]`, `Vec<u8>`, hex |
| `TextAssumption` | names are sequences of characters | strings |
| `LimitsAssumption` | limits of the outer gates are naturals | the constants |
| `CountsAssumption` | measured step and memory counts are naturals | u64 |
| `LimitAssumption` | the radix and the envelope's limit are naturals and every other limit fits a length prefix | limits are at most 2^22, prefixes are u32 |
| `SampleAssumption`, `InputAssumption` of the codec | the samples are envelopes, the inputs byte strings | the Rust types; both bound what TLC enumerates |
| `PrimeAssumption` | the field's modulus is a prime above 31, ranges below it | the Cairo field; 17 and 31 are the multipliers of `mix` |
| `SampleAssumption` of the relation | the sample claim and the values tried are in the field | felts |
| `RunsAssumption` | no run is called "nobody" | the name stands for no run |
| `EmitterAssumption` | an emitter writes v2 or v3 receipts | `verifyReceipt` and `build_receipt` |
| `ForeignAssumption` | foreign policies have the fields of a policy core | any other is refused as malformed |
| `NetworkAssumption`, `OperatorAssumption`, `MaterialAssumption`, `HonestAssumption`, `PinAssumption`, `BoundAssumption` | constants of the gate have their types | the types |
| `MalformedAssumption`, `MalformedFactsAssumption` | the value that stands for something that does not parse is not one that does | parsing |
| `HonestCaseAssumption`, `EditAssumption` | the audited case is pinned, the bound is a natural | the evidence |

Every invariant and action property of a passing run is stated by one of these
theorems. Only model-checked are the liveness properties
(`InvalidEventuallySlashed`, `HonestEventuallyTakes`,
`EventuallyPublished`): weak fairness is defined with ENABLED, which the prover does
not reason about. The disagreement of the next section is a counterexample of
TLC's.

## 5. Disagreements with the documentation

- **The composed harness never completes** (run `composed_completes`).
  `run-local-stack.ps1` says that it "runs the old linear Cairo relation and
  UTXORef trusted-cosigner model" (line 3) and ends with "All three composed demos
  passed" (line 277). It builds the emitter from its own checkout (lines 22 and
  211), whose `build_receipt` writes receipts of schema
  `bark-zk-bitvm-showcase-v3` without a `claim` or `stwo` member
  (`src/demo.rs`, line 374); `bitvm-assertion.js` accepts
  `bark-shinigami-composed-demo-v2` only (line 173). Every run stops at its first
  case.

Noted while reading, not part of a run:

- `validate_host` compares the chain height with the VTXO's exit delta
  (`demo.rs` line 256) and lets the spend's sequence commit to more blocks
  (line 251). The message there (line 260) is about the exit delta, and `README.md`
  (lines 22-24) leaves height context to the Core gate, so this contradicts
  nothing; whether a longer lock has passed is for Core to say.
- `verify-blue-evidence.js` takes the keys and the claim pin from the file it
  audits. No document says otherwise; a reader has to compare the reported
  policy with the one he knows.
- Nothing outside the crate's tests calls `StwoPolicyV1::enforce`, and nothing
  reads `accepted` of the Shinigami relation, on the way to a manifest.
- `demo.rs` line 204 calls the contract nonce instance-fresh; what is checked is
  that it is not zero.
- A receipt's journal and its claim digest are never compared with each other
  (`boundless.rs`): that the claim is about the journal rests on the proof.
- The runner reads a report (line 235) and hashes the receipt again (line 236 and
  following), but never compares the case ids in them. `SummaryNamesItsCase`
  shows that what it does compare tells the three cases apart.
- The documentation of regeneration speaks of Bitcoin transaction ids and relay
  results in the manifest, for which `Bitvm2ClaimManifestV1` has no fields.

## 6. What is not modelled, and what comes next

Not modelled:

- *Red-team harness and runner*, except for the two collision probes: a fixed
  script that drives the external UTXORef graph code and compares schemas.
- *Shinigami scaffold.* It emits `accepted = 0` in both branches, keeps no state,
  nothing in the repository reads its output, and its build is expected to fail;
  the engine is external.
- *Adversarial corpus.* Tests; what they mutate is among the overrides of
  `HostPreflight` and the alterations of `EnvelopeCodec`.
- *Key handling and JSON layout of the gate*, and the display of errors.
- *Build files, the vendored patch, evidence and fixture files*, except where a
  module reads a value from them.
- *Freshness of the contract nonce* and *the link between journal and claim
  digest*: no code of the repository decides either.
- *External:* Groth16 and STWO verification, the RISC Zero guest, the Shinigami
  engine, UTXORef's graph code, git, Scarb, Bitcoin Core's consensus rules.

The modules were written in the order gate, dispute, preflight, codec, gates of
the outer proof, manifest, audit, legacy relation, STWO policy and proof path,
composed stack. Each of these but the STWO policy, a pure function, has its
runs, and its invariants and action properties their proofs. What comes next is to shorten them: the proofs of the codec lay out a
list and an envelope with separate lemmas (`LaidTo` and `LaidPast`) that one
notion of a prefix would serve. The liveness properties stay with TLC.
