# mldsa-native, specified

TLA+ specifications of mldsa-native as packaged for Zephyr: the C implementation
of ML-DSA (FIPS 204) under `mldsa/`, with the random number source under
`zephyr/`, and the programs under `examples/` and `integration/` that are built
from it. The modules are translated from the C code; line numbers below are
those of the repository. TLC checks them on small instances, and TLAPS proves
theorems about them for every value of their constants.

Paths below are relative to `src/`, and to `src/mldsa/src/` for plain file names.

## 1. The system

ML-DSA is a signature scheme by rejection sampling. The library is one plain,
single-threaded call tree: it starts no threads, keeps no state between calls,
and calls out in two places only, `randombytes` and the allocator. What is hard in it is not concurrency. It is that

- one call passes through many early exits (a rejected attempt, a failed
  allocation, a failed generator, refused arguments), each of which must leave
  buffers, return codes, heap and stack in order;
- buffers are reused: in place, through unions in the reduced-RAM build, and
  across the attempts of the rejection loop;
- what two parties compute must agree to the last bit, through packing,
  rounding, domain separation and sampling, written with hand-unrolled shifts,
  divisions by multiplication, and integers near their limits;
- arbitrary bytes reach the unpackers of signatures and secret keys;
- the same text is compiled for three parameter sets, alone or several in one
  file, with or without reduced RAM, batched hashing, native kernels (which may
  decline at run time) and a hash brought by the application: what holds in the
  build that is tested must hold in every other.

### Components

| Component | State it keeps | Operations | What makes it correct | Module |
|---|---|---|---|---|
| Signature generation (`sign.c:505-992, 1188-1371`) | nonce, the buffers of an attempt (`y`, `h`, `w1`, `w0`, `cp`, in unions when RAM is reduced), the caller's signature | six entry points, the rejection loop, one attempt | a whole signature of one attempt or nothing; masks never repeat; truthful codes; nothing secret left behind | `Signing`, `SignatureService` |
| Signature verification (`sign.c:994-1160, 1225-1420`) | prefix, `mu`, the buffers of verification | four entry points down to `mld_sign_verify_internal` | accepts exactly what was signed | `Verification` |
| Domain separation (`sign.c`, `mld_prepare_domain_separation_prefix`) | none | prefix for a message, context and digest | two statements never have one prefixed message | `DomainSeparation` |
| Combined API (`sign.c:936-992, 1162-1186`) | one buffer that may hold both message and signed message | `mld_sign`, `mld_sign_open` | in place or not, opens what was signed and nothing else | `SignedMessage` |
| Key generation (`sign.c:60-400, 1422-1490`) | key pair, intermediate vectors | `keypair`, `keypair_internal`, consistency test, `pk_from_sk` | halves of a pair belong together; inconsistent secret keys are refused | `KeyGen` |
| Memory (`common.h`, `sign.c`, `test/src/test_alloc.c`) | the heap as a bump allocator sees it | `MLD_ALLOC`, `MLD_FREE` in every function | reverse-order release, documented sizes exact, no leak | `Allocation` |
| Hint packing (`packing.c`) | bytes of the hint section | pack, unpack | exactly one encoding of each vector of hints | `Hints`, `Encoding` |
| Bit packing (`poly.c`, `poly_kl.c`) | bytes of a packed polynomial | eight formats | the standard's bits; unpacking inverts packing; ranges | `BitPacking`, `Encoding` |
| Rounding (`rounding.h`, `reduce.h`, `native/x86_64/src/poly_decompose*`, `poly_use_hint*`) | one coefficient | decompose, make_hint, use_hint, norm checks | decisions of signer and verifier are the standard's | `Rounding` |
| Number theoretic transform (`poly.c`, `reduce.h`, `polyvec.c`) | polynomials and loop counters | transform, inverse, products, sums | ring products, without overflow | `Ntt` |
| Sampling (`poly.c`, `poly_kl.c`, `polyvec.c`, `sign.c`, `native/x86_64/src/rej_uniform*`) | lanes of a batch and their counters | matrix, secret vectors, mask | each polynomial is that of its own nonce | `Sampling` |
| SHAKE sponge (`fips202/`; tiny_sha3 in `examples/bring_your_own_fips202`) | Keccak state and position | absorb, finalize, squeeze, batches of four | output is the hash of the message however it is cut | `Sponge` |
| Challenge (`poly_kl.c:574-651`) | buffer, position, polynomial | `mld_poly_challenge` | drawn from consecutive bytes of the hash | `Challenge` |
| Keccak-f[1600] (`fips202/keccakf1600.c`, `fips202/native/x86_64`, `sha3.c`) | 25 lanes, their bytes, sums of columns | add bytes, permute, extract | the permutation of FIPS 202, on either byte order | `Keccak` |
| Contracts and call tree (`poly*.h`, `poly*.c`, `packing.c`, `sign.c`, `native/api.h`) | every buffer of every active call | each function, each native kernel running or declining | what a function requires holds where it is called; what it ensures it has written | `Headers`, `Contracts`, `VectorContracts`, `SchemeContracts`, `CallTree` |
| Builds (`common.h`, `mldsa_native.c`, `mldsa_native.h`, configuration headers) | header guards in force, names defined and wanted | compile a file, end a pass over a parameter set, link | what links is what was meant | `Compilation` |
| Examples, Zephyr module, liboqs integration | - | programs and their configurations | as above, then the calls their `main.c` makes | `Examples`, `Lifecycle` |
| Tests, benchmarks, existing proofs, scripts, assembly | - | - | - | not modelled, see section 7 |

### How they interact

    mld_sign ------------ copies --> mld_sign_signature --+
    signature_extmu ------- mu -------------------------- + --> signature_internal
    pre_hash_internal / shake256 -- prefix, digest -------+      | retry while rejected
                                                                 v
      Sampling(y) -> Ntt(A y) -> Rounding(w) -> BitPacking(w1) -> Sponge
        -> Challenge(c) -> Ntt(c s1, c s2, c t0) -> Rounding(checks, hint)
        -> BitPacking(z), Hints(h)

    mld_sign_open -> mld_sign_verify -> verify_internal: unpack (BitPacking, Hints),
        norm check, mu (DomainSeparation, Sponge), Challenge, Ntt, Rounding, compare

    mld_sign_keypair -> keypair_internal -> Sampling, Ntt, Rounding, BitPacking
        -> consistency test -> mld_sign_signature and mld_sign_verify

All interaction is by call and by buffer; every function returns a status that
its callers pass on. The modules on the left-hand side of the data flow keep
the control whole and abstract the data to where it comes from; the modules of
the right-hand side (arithmetic, encodings, hashing) keep the data and are
about values. `CallTree` runs the whole of it at once, on ranges in place of
values, and `Compilation` says which of it a configuration compiles and links.

## 2. The modules

**`Signing`** follows a call of any of the six signing entry points, statement
group by statement group: randomness, prefix, `mu`, the loop at `sign.c:791`,
`mld_attempt_signature_generation` with its three norm checks and the count of hints, packing, and the epilogues. A buffer holds the number of the attempt its content was computed from; a
buffer that combines two attempts, or is read through a union after the other
member was written, is `Mixed`. The signature is a row of regions (challenge, each polynomial of z, hints). `faults` and
`used` are history variables. `RNG_REPORTS_STATUS = FALSE` is the build with `zephyr/randombytes.c`: what the caller reads as status is any value.

**`SignatureService`** is the abstract specification of the above: a request is
answered once, by a whole signature or by a code and a cleared buffer. `Signing` implements it under the mapping at its end.

**`Verification`** signs one statement through one entry point, then lets a
caller verify any statement through any entry point, with key, signature and
length the same or changed piece by piece. Hashes are symbolic and injective; a
polynomial is the set of parts it was computed from. It EXTENDS
**`DomainSeparation`**, in which byte strings are real sequences: the prefix, the
object identifiers, the digest lengths. `MCVerification` chooses contexts and
messages that share bytes, so that a wrong prefix would confuse them.

**`SignedMessage`** has one memory and moves the message byte by byte, because
overlap and direction of the copy loops are the point. A signature is a token tied to the bytes that
were in the message area when signing was called.

**`KeyGen`** computes with real (small) vectors: `A s1 + s2`, power2round, the offset codes
of `s1`, `s2`, `t0` including the codes no generated key has, the hash of
the public key, the consistency test with its deliberate corruption, and
`pk_from_sk` on every string of bytes.

**`Allocation`** is the call tree with the allocations and frees of every
function in their order, over the allocator of `test_alloc.c`, sizes in bytes
as the compiler would have them. What a function does otherwise is reduced to "a check fails or not".
`MLD_FREE` wipes before it frees, and its size is stated again by hand: `wipes` has that size for every `MLD_FREE` of the code, apart
from the size allocated, and `dirty` is the set of intervals of memory that hold the library's data. An interval may be cut by a wipe that is too short,
or that reaches into a neighbour; `DataOnlyInLiveBlocks` says that the intervals are the blocks in use, at each step.

**`Hints`** and **`BitPacking`** are the encoders and decoders loop by loop;
the shifts of `BitPacking` are tables transcribed from the C expressions. What is packed and unpacked is a parameter: any polynomial in range, any bytes
(`MCEncoding` chooses those of the run).
**`Encoding`** composes them into the sections of keys and signatures.

**`Rounding`** takes one coefficient through signer and verifier with the real constants of each parameter set,
with the portable code or with the AVX2 kernels, whose 16-bit products it spells out.

**`Ntt`** runs the sequences of ring operations of `sign.c` (`A y`, `A s1`, `c s`, and the verifier's `A z - c t1 2^d`)
block by block of butterflies over a smaller ring, with Montgomery reduction modulo a scaled `R`.

**`Sampling`** keeps which stream (nonce) goes to which lane and polynomial, and the refill loops of each lane.
A coefficient is the place in its stream it came from. The AVX2 kernels take a vector of candidates at a time,
store all of it and count the good ones; what they leave to do, the C code continues.

**`Sponge`** keeps a Keccak state as the sequence of blocks it has absorbed; the permutation is injective and otherwise unknown.
Beside the serial and the batched code it has tiny_sha3, byte by byte, in the phases that `custom_fips202` asserts.
**`Challenge`** EXTENDS it: `mld_poly_challenge` is one caller of the
sponge beside an arbitrary one, SHAKE being a random oracle for it.

**`Keccak`** computes the permutation: a word is the set of its bits that are 1, four states are permuted side by side,
and each of the codes keeps its own tables of lanes, rotations and constants, its own order of steps and
its own conversion of bytes, beside a state to which the definition of FIPS 202 is applied.
**`Hashing`** composes `Challenge` (with `Sponge`), `Sampling` and `Keccak`, which share no variables: a behaviour follows one of them.
`MCHashing` chooses the input of the permutation, which is a parameter of `Keccak`.

**`Headers`** states what the functions of the headers require and ensure, and **`Contracts`**, **`VectorContracts`** and
**`SchemeContracts`** add each function's body as the sequence of calls it makes (`poly.c` and the hash; `poly_kl.c` and `polyvec.c`;
`packing.c` and the arithmetic of `sign.c`), all of them depending on the build.
**`CallTree`** executes these bodies over a stack and a memory. A location holds the range of its elements, what they are
(bytes, coefficients, evaluations in one of two orders, a hash context in some phase) and the power of 2^32 they are scaled by; unions are
locations that overlap; a native kernel runs, or declines and leaves everything it may write undefined; a kernel
of a back end on a processor without its instructions always declines. The contract of a called function is not assumed: it is
entered, and only leaves, the arithmetic modelled elsewhere, take effect by what they ensure.

**`Compilation`** compiles a program file by file: include guards, the conditions under which a file defines and calls functions,
the prefix a header gives a name, `#undef` at the end of a pass of `mldsa_native.c`, linkage.
**`Examples`** has the programs of the repository and those the configuration allows besides.
**`Lifecycle`** composes `Compilation` and `CallTree`: once a program has linked, one of the calls its `main.c` makes
runs in the build that its configuration gives.

**`ReturnCodes`** has the codes that several modules return. The remaining modules are instances (`MC...`) and proofs (`...Proofs`). Definitions whose comment begins with
"Fault:" are variants with a plausible mistake in them. No specification uses them; each shows that a property notices the mistake.

## 3. Runs

Twelve runs, each `M.cfg` for module `M` (`zephyr_rng`, `prehash_none`: `Signing_zephyr.cfg`, `Verification_prehash_none.cfg`).

| Run | Properties | Bounds, and why they suffice |
|---|---|---|
| `signing` | `SignatureOrNothing`, `NonceFresh`, `ErrorCodeTruthful`, `NeverGivesUpEarly`, `UnionsReadInTime`, `EveryCallReturns`, `ImplementsService` | K, L and sizes of ML-DSA-65 with reduced RAM; `UINT16_MAX` = 24, which leaves three attempts: first, middle and last one differ in every loop. Any fault at any place. |
| `allocation` | `LiveBlocksSafe`, `NoLeak`, `OutOfMemoryExact`, `DocumentedSizesTight`, `DataOnlyInLiveBlocks` | All parameter sets and both RAM and PCT modes with real sizes; up to three failed allocations per call, that is, also several in one function and in several levels of the tree. |
| `signed_message` | `SignedMessageWhole`, `OpenedIsSigned`, `NothingUnverified`, `InputKept` | Signatures of two cells, messages of up to four: shorter than, as long as and longer than the overlap of in-place buffers. |
| `verification` | `AcceptsOnlyGenuine`, `AcceptsGenuine` | Contexts up to two bytes (255 in the code) and one too long; messages that continue each other and spell out an identifier and a digest; two keys. |
| `keygen` | `PairOrNothing`, `PctJudges`, `DerivedExact`, `ValidOrZeroed` | Q = 7, d = 2, ETA = 1, one coefficient of s1 and two of s2: every string of a secret key's fields is tried, with codes outside the range and both rounding cases. |
| `rounding` | `DecomposeExact`, `RejectsAsSpecified`, `HintAsSpecified`, `VerifierSeesW1` | Real constants, portable code and kernels; coefficients within 1 of every place where a high bit changes or a check decides, for all parameter sets. |
| `ntt` | `WithinBounds`, `ResultExact` | 8 coefficients modulo 241, R = 8192, vectors of 2: `RangeAssumption` leaves as little room as in the code: there 2 N Q is 0.999 of R, here 2 (Layers + 1)^2 Q is 0.94 of R. Inputs of largest size and sign. |
| `encoding` | `OneEncoding`, `StandardBits`, `PolynomialRoundTrip` | Hints: two polynomials of five coefficients, three hints: all vectors and all 3125 byte strings. Formats: the real widths, two groups, every single bit in every place. |
| `hashing` | `OutputIsShake`, `ChallengeAsSpecified`, `PermutationAsSpecified`, `SampledAsSpecified` | Sponge: blocks of three bytes, two in and three out, cut everywhere, so pieces end before, at and behind every block boundary. Challenge: four free candidates, TAU = 3 of N = 4. Permutation: 24 real rounds of each code on either byte order, one input (`MCInputs`) without symmetries, four different states. Sampling: all parameter sets with their real K and L (these decide the tails of batches), three coefficients, blocks and vectors of two candidates, so that a vector can overshoot, two slow streams per call. |
| `contracts` | `LinksAsNamed`, `RequiresHold`, `EnsuresHold`, `UnitsAgree` | 333 programs: 45 of the repository, 48 with every combination of reduced RAM, serial hashing and back end (some refused by `#error`), 240 single-file builds with two or three parameter sets in any order and the shared code with any of them. The calls are checked in every build of parameter set, RAM, hashing and back end that such a program can be. Nothing is scaled down: ranges are the real ones. |
| `zephyr_rng` | `RngErrorMeansRngFailure` | violated, see section 6 |
| `prehash_none` | `PreHashCoversDigest` | violated, see section 6 |

What passing runs show, in a few words: a signing call of any entry point is an
atomic operation of a service that hands out one signature of one attempt or
nothing; verification is exact; key halves match; memory discipline holds under
any failure; the arithmetic and the hash are those of the standard, in portable code and in the kernels modelled; and every build that
the configuration accepts links, and meets the contracts its headers state.

**Fairness.** Only `EveryCallReturns` needs it: `FairSpec` is `Spec /\ WF_vars(Running)`, where `Running` is
the disjunction of the steps within a call. A library function that was called keeps executing; nothing is assumed
of the caller, who need never call, nor of the rejections: the run shows that even if every attempt is rejected
the call returns, because the nonce bound ends the loop (`sign.c:791-812`).

**Deadlock** is checked wherever a caller can go on; the modules that follow one computation to its end say
`CHECK_DEADLOCK FALSE`.

**Type invariants** are stated in the modules about which theorems are proved, as part of their inductive invariants, and
proved there for all constants.

## 4. Proofs

Eight modules, checked by `tlapm`; every theorem is for all values of the constants that satisfy the named assumptions of the module.

- **`SigningProofs`** proves all safety properties of `Signing`, and that it implements
  `SignatureService`. The invariants are layered. `TypeInv` bounds the nonce, from `NonceBound`: `NONCE_UB` attempts of
  L lanes fit the counter. `Outcome` ties the return code to the place in the code. `Provenance` says which attempt
  each buffer is from; without it `SignatureOrNothing` is not inductive, since the regions of a signature
  are written one by one. `Delivery` says the caller's buffer is whole or cleared from there on;
  `Freshness` bounds the nonces used by the current one; `Truth` and `Persistence` carry codes and retries;
  `Attribution` says which codes an entry point can have, for the refinement. Each layer is proved from those before it, one step per action.
- **`MemoryProofs`**, the copies: `CopiedIn` and `CopiedOut` are the loop invariants: behind the cursor cells are
  copied, ahead of it the source is not overwritten, whether or not the buffers overlap. With the places of the buffers they
  give the action property `InputKept` too (`ReadOnly`): no step writes to an input that has a buffer of its own.
  The heap: all five properties of `Allocation`, for every set of operations, levels, builds and bound on failures. `Shape` describes a function of
  the call tree (its buffers, what it calls), and `DocumentedIs` evaluates the documented totals from the sizes. `HeapInv` says
  that the blocks in use are the buffers of the active functions in order, so that what a function frees is always the
  last block. Until a failure the offset is `Base` (the callers' buffers) plus those of the function allocated so far, which `RoomIs` bounds by the
  documented total: nothing is refused that was not made to fail. After a failure a missing pointer or `OUT_OF_MEMORY` leads straight
  out. `PeakInv` adds that a call that succeeds has been through every function on the way to the peak, so that the total is reached to the byte.
  `DataInv` stands on these: `Sized` ties a block to the size its `MLD_ALLOC` states, `RestatedAll` shows for each function that the sizes of
  `MLD_FREE` are those in the opposite order, and since the block freed is the last one the wipe takes away its interval and no part of another
  (`ZeroizedIs`).
- **`VerificationProofs`**: `PrefixUnambiguous` first: equal prefixed messages come from equal mode, context,
  algorithm, digest and message. Lemmas cut a concatenation at a known length, then recover length byte,
  context, identifier and digest in turn. `MuTells` concludes that `mu` determines key and statement, so that
  the challenge can only come out again for the statement signed. The extra assumption `DocumentedAlgorithms` leaves
  out the constant of section 6. `IInv` says for each buffer which parts went into it at each place.
- **`KeyGenProofs`**: lemmas on division give the ranges of power2round and the injectivity of the codes; `IInv` says
  what each buffer holds at each place; `AcceptedExact` shows that range, `t0` and `tr` checks together accept exactly
  the keys some seed gives.
- **`RoundingProofs`**: `IsSplit` says a pair of bits is the standard's; `SplitsAgree` that there is
  one such pair. With it, multiplication and shift are shown equal to the division interval by interval, then reduction and the
  two hint lemmas. `DecomposeKernelExact` and `UseHintKernelExact` show the AVX2 kernels equal to them for every
  coefficient, from the bounds of a rounded 16-bit product.
- **`HashingProofs`** proves `OutputIsShake` for every block length, alphabet and length of input and output.
  `AbsorbInv` says the state is that of the bytes taken so far (`Absorbing`: whole blocks permuted, `pos` bytes in the next), and
  `SqueezeInv` that it is n permutations after the padded message, with n told by how much was squeezed: the serial code permutes
  when it needs output, tiny_sha3 at once, the batch before each block. `Padding` shows that the three ways of
  padding give the last block of the standard, also when one byte takes both ends of the padding; `PhaseInv` says which loop may run when.
  And it proves `ChallengeAsSpecified` for every TAU, N, number of signs and hash: `DrawInv` says that between the candidate
  the last coefficient used and the next byte the code will read there are only rejected ones, across the ends of squeezed blocks (`NextIsUsed`), and `DrawnInv` that the polynomial so far
  is the specification's. That is a recursive function of the coefficient; `FoundIs` and an induction
  over a set of numbers (`NumbersByInduction`, from `LeastNumber`) say what it gives, since the library's induction theorems take an operator.
  Last, it proves `SampledAsSpecified` for all parameter sets, any number of coefficients, first blocks, candidates in a block and lanes of a vector, and whatever is
  rejected up to the bounds `SlowHorizon`, `LongHorizon` and `MaxSlow`, which are constants too. `Holds` says that a lane holds exactly what was accepted of the candidates it has seen (counted by `Count`
  and found by `Nth`); the C code keeps it (`RejNextHolds`), and so do the AVX2 kernels (`KernelIs`), although a vector also stores
  what it does not count: that is overwritten later. `DoneInv` says that the polynomial of a call that has ended is complete while no later call has touched it, so that lanes to spare, which write
  a polynomial that a later call expands, do no harm. That the last call to touch a polynomial gives it its own nonce is shown for each schedule
  of the three jobs (`Schedules`), and for the row buffer, which each wanted row fills anew, by `RowCalls`.
  And it proves `PermutationAsSpecified` for every input of the four states, for the portable code, the AVX2 code and tiny_sha3 on machines of either byte order.
  The tables of the codes are derived from the standard's definitions: the 24 round constants from its shift register, followed seven
  steps at a time (`SevenSteps`, `ConstantsAre`), the lanes and rotations from its walk over the lanes (`WalkTable`, `TablesAre`; `ChainIs` for the chain of tiny_sha3).
  With them the three rounds are one, `Rounded` (`StandardRoundIs`, `UnrolledRoundIs`, `TinyRoundIs`); the byte shuffles of AVX2 are rotations (`ShuffleIsRol`). `PermuteInv` says that the
  lanes are the standard's after each round and that the sums of columns carried on belong to them; `LoadedAsAdded` and `ReadAsStored` that a byte
  is read where it was added.
- **`EncodingProofs`** proves `OneEncoding` for every number of polynomials, coefficients and hints. `Unambiguous`, that no
  vector has two encodings, is about the definition `Encodes` alone: at the least place where two of them differed,
  one would miss a hint. That packing writes an encoding and unpacking accepts nothing
  else is `HintsInv`: the rows before `i` are coded, and the part of row `i` done so far; packing needs besides that `k` counts the hints seen
  (`Seen`), or the guard `k < number_of_hints` could drop one. Every refusal is shown to refute a conjunct of `Encodes`.
  And it proves `StandardBits` and `PolynomialRoundTrip` for every polynomial in range, every string of bytes and any number of groups.
  The tables of shifts are shown, format by format, to be the closed form `Parts`; `Gathered` and `Places` then say which bit of a group goes to
  which place whatever the format. `Held` (the bytes hold a coefficient where the standard has it) is what a round establishes and later rounds keep;
  `SamePoly` and `SameBytes` say that bytes and coefficients determine each other, and `PackingInv` follows the functions from one to the other.
  Binary digits (`BitsValue`, `ValueBits`) and powers of two, which the provers do not evaluate, are derived from the cardinality of power sets.
- **`NttProofs`** proves `WithinBounds` for every N, Q, R and vector length, under `RangeAssumption` (what the sums, products and
  reductions need of them, as 256, 8380417 and 2^32 satisfy it) and for all inputs in the ranges of the contracts. `Sound` says of the texts of `sign.c` that
  between a transform and the next inverse there is always a product or a reduction; `SizeAt` reads off a text how many times Q the coefficients of a
  polynomial may be before an instruction. `UpBounds` and `DownBounds` follow the transforms: a layer of the forward transform adds at most Q to each coefficient,
  Montgomery's reduction being exact, and one of the inverse at most doubles the sums, blocks before `start` being a layer ahead.
  And it proves `ResultExact`, that the sequences of transforms and products compute the ring's products, for all of these and every table of
  twiddle factors that satisfies `TableAssumption`: the powers of a root of X^N + 1 modulo Q, in bit-reversed order, times R.
  (Of the real numbers, which TLC's integers cannot hold: `zetas.inc` satisfies it with root 1753, Q = 8380417 and R = 2^32.)
  After l layers a transform of A holds `Val(A, l, j)`, the remainders of A modulo the factors of X^N + 1 of degree `Span(l)`, block by block.
  A butterfly splits a remainder in two (`ValSplit`), one of the inverse joins two with a factor 2; at the leaves are the values at the odd powers of the root
  (`ValEnds`), where the ring's product is a product of numbers (`ValProduct`) and a row of the matrix a sum of them (`ValSum`).
  The invariant `Meant` is about all polynomials at once. `Means` tells, for each of the six programs, which element of the ring every variable
  stands for before every instruction, as coefficients or as values and with which power of R, and `Rising` and `Falling` how far the one being transformed
  has come within its layer. `Inv` is needed beside it: Montgomery's reduction is exact only on what the ranges allow.
  `MatrixAssumption` is what the standard says of the sampled matrix, that its entries are already values. Sums and powers are recursive functions; every fact about them
  is an induction over the set of numbers that satisfy it (`NumbersByInduction`).

Only model-checked: `EveryCallReturns` (liveness under fairness is out of the prover's reach), and all of
`CallTree` and `Compilation`. These two are finite as they stand: their bodies, contracts and programs are transcribed,
there is no constant to generalise over, and the run `contracts` goes through every program listed and every build it can be.

## 5. Bounds by name

`UINT16_MAX` (nonce space), `MessageLengths`, `MaxFailures`, `MaxMessage`, `MaxContext`, `SigLengths`,
`MaxInput`, `MaxOutput`, `Horizon` (candidates of the challenge that are free), `PerBlock`, `NBLOCKS`, `SlowHorizon`, `MaxSlow`
(blocks and rejections of a sampler), `Vector`, `LongHorizon` (lanes of a kernel, and how far it may look), `Groups`, `Near`. Constants that only scale a
real one keep its name and say so in the module.

## 6. Findings

1. **`zephyr/randombytes.c:5`** (run `zephyr_rng`). It defines `void randombytes(...)`, while
   `randombytes.h:17-23` declares `int randombytes` and signing and key generation test the result.
   The value they read is indeterminate: with a working generator a call may return `MLD_ERR_RNG_FAIL`,
   and a failure of the generator behind it cannot be reported.
2. **`sign.c:1395`** (run `prehash_none`). The documentation of the `_pre_hash_internal` functions
   (`mldsa/mldsa_native.h:605-632, 654-677`) promises HashML-DSA for any `MLD_PREHASH_*` constant; with
   `MLD_PREHASH_NONE` the digest is skipped and the pure variant of the empty message is signed and accepted, whatever the digest. Every other
   constant that is not supported is refused.

Seen while modelling, without a run of their own: `mld_sign` passes on `MLD_ERR_RNG_FAIL`, which
`mldsa_native.h:424-428` does not list for `crypto_sign` (the contract at `sign.h:353` does); the comment at
`rounding.h:89-90` says that low bits `-GAMMA2` come with high bits 1, and the code at
`rounding.h:171` gives 0; the offset 138 that `test_mldsa.c:189` calls "the t0 portion" lies in `s1`, so
that test does not exercise the comparison of `t0` it is named for; `q_bound` in
`poly_use_hint_32_avx2.c:41` is `87 * ((Q - 1) / 32)`, where 31 is meant, so its comparison never holds, and
the result is right all the same (`UseHintKernelExact`); the contract of `mld_poly_chknorm_native`
in `native/api.h` ensures `MLD_NATIVE_FUNC_FALLBACK` or `MLD_NATIVE_FUNC_SUCCESS`, while back ends return 1 for a norm that is too large;
that of `mld_compute_t0_t1_tr_from_sk_components` ensures bounds of its outputs even when it returns `MLD_ERR_OUT_OF_MEMORY`;
`mldsa_native_config.h` promises a default back end when none is named, `common.h:106-113` refuses such a configuration;
`mldsa_native.h` declares the randomized functions also with `MLD_CONFIG_NO_RANDOMIZED_API`, so that calling one fails at link time only;
a multi-level build from separate files needs an explicit prefix;
a comment of `scripts/autogen:720` gives the root of unity of `zetas.inc` as 17, line 39 takes 1753; and the static hash state of
`bring_your_own_fips202_static` exists once per translation unit, which is enough because a function releases its hash before it returns (`UnitsAgree`)
and none hands its context on.

## 7. Not modelled

- Assembly: the transforms and products of x86_64, all of AArch64 (`dev/`, `native/aarch64`, `fips202/native/aarch64`). In `CallTree` they are
  what their contracts in `native/api.h` say, which HOL-Light and CBMC proofs in `proofs/` are about. So are the AVX2 intrinsics of `caddq`, `chknorm` and
  `polyz_unpack`.
- `Sponge` takes the permutation as injective; that the codes compute Keccak is shown apart, in `Keccak`.
- Timing: constant-time selection and value barriers have no meaning in a state machine. What they compute is modelled where they are called.
- `CallTree` follows one element of a vector, and a batch by one of its four results: which polynomial goes where is in `Sampling` and `Ntt`. It
  bounds values and does not relate them: that results are right is for the modules about values.
- Byte offsets in keys and signatures (`packing.c`); the fields they delimit are in `KeyGen` and `Verification`.
- Of a configuration: hooks for allocation (other than `Allocation`), zeroization (other than what `MLD_FREE` does), memory functions and attributes,
  the context parameter, `MLD_CHECK_APIS`, and whatever changes neither a name nor a call; of assembly files only the names they define.
- The plain `mld_zeroize` of arrays on the C stack (`sign.c:385, 942, 1049, 1126, 1224, 1253, 1273, 1292`): that memory is in no module.
- Debug assertions, compiler detection, what the examples print, the code of liboqs and of Zephyr around the library.
- `proofs/`, `scripts/`, tests other than the allocator, continuous integration: no run-time behaviour of the library.

## 8. Plan

Done, in this order: `Signing` and its service, `Allocation`, `SignedMessage`, `DomainSeparation` and `Verification`,
`Hints`, `KeyGen`, `Sponge` with `Challenge`, `Sampling`, `Rounding`, `Ntt`, `BitPacking` and their proofs; then
`Keccak`, the contracts with `CallTree`, the builds with `Examples` and `Lifecycle`, the AVX2 kernels with their proofs, tiny_sha3; then the proofs about
the sponge and the challenge, hints and bit packing, the heap, the ranges of the transforms, sampling, what the transforms compute, and the permutation.

Next:

1. The remaining intrinsics (`caddq`, `chknorm`, `polyz_unpack`), and the layout of keys and signatures: that the offsets of `packing.c` tile the arrays.
