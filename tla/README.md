# cxx-memory: a verification development

TLA+ specifications of [cxx-memory](../src): a Rust crate that constructs C++ values in place on the stack and
moves them without moving their bytes, and a companion crate that generates Rust bindings from what a C++ header
says about a type. The specifications are checked with TLC, and every invariant, every safety step property and both
refinements the runs check are proved with TLAPS, for all values of the constants that the theorems' assumptions allow.

Contents: [the system](#the-system), [modules](#modules-and-how-they-correspond-to-the-code),
[runs](#what-the-runs-check), [bounds and fairness](#bounds-and-fairness), [proofs](#what-is-proved),
[findings](#where-code-and-text-disagree), [limits](#what-is-not-modelled), [plan](#plan).

## The system

The repository has two crates and no README of its own.

**`crates/cxx-memory`** is library code whose state is spread over stack frames, each of one thread; only what
`emplace.rs` builds behind an `Arc` is shared between threads.

| Component | State | Operations | Correct when |
| --- | --- | --- | --- |
| `SlotStorage<T>` (`slot_storage.rs`) | the memory (`MaybeUninit<T>`), its kind (`Drop`/`Keep`), a tracker of three `Cell`s | `new`, `slot`, `Drop` | it never goes while it owns a value; it stops the process instead |
| `SlotStorageStatus` (`slot_storage.rs`) | shared references to the tracker's cells: `initialized`, `released`, `references` | `initialize`, `increment`, `decrement`, `release`, `terminate`, the observers | the cells count exactly the value the storage owns; no assertion fails; the counter never wraps |
| `Slot<'frame, T>` (`slot.rs`) | a borrow of memory and status; consumed by use | `emplace`, `try_emplace`, `pin`, `put`, `write` | a slot yields at most one `MoveRef`, also when the constructor fails or panics |
| `MoveRef<'frame, T>` (`move_ref.rs`) | a pointer to an owned value, and the status | `Drop`, `release`, `into_inner`, `mem::forget` by the client | its value is alive, nobody else owns it, it is destroyed exactly once |
| `DerefMove`, `IntoMove` (`deref_move.rs`, `into_move.rs`) | the emptied owner (a `Box`'s block, a `UniquePtr`'s pointer) left in a `#[dropping]` storage | moving out of a `Box`, `UniquePtr`, `MoveRef`, `Pin` of one | the heap block outlives the `MoveRef` into it; a `Box`'s is freed with the scope |
| `new.rs` | none | `by_raw`, `by`, `of`, `default`, `mov` | a moved value has one owner at each moment |
| `macros.rs` | none | `let_cxx!`, `cxx!`, `let_cxx_slot!`, `cxx_slot!`, `trivial_move!`, `trivial_copy!` | each form picks the kind of storage that fits it |
| `Emplace` (`emplace.rs`) | the heap blocks behind `Box`, `Rc`, `Arc`; a raw block while a constructor runs | `emplace`, `try_emplace` | a failed constructor leaves no half-built value and frees its block; the old value lives exactly as long as others share it |

They interact by borrowing: a storage is borrowed by its slot, the slot turns into a `MoveRef`, and the storage can
only be dropped when both are gone. What makes this hard is not concurrency but control flow that tests rarely take:
`Drop` of a `MoveRef` may run the client's destructor, which may panic; constructors run client code, which may use
other slots, fail or panic; unwinding drops everything in between; a storage that finds a value lost panics again in
order to abort; release builds have no assertions.

**`crates/cxx-memory-abi`** works in three stages: a build script walks a directory of JSON files and writes an
*artifact crate*; the artifact crate, linked with the C++ code, asks a header template about each type and writes one
Rust module per type; the modules are compiled against the C++ header again.

| Component | State | Operations | Correct when |
| --- | --- | --- | --- |
| detection header (`cxx/include/cxx-memory-abi.hxx`) | none | detection concepts, `cxx_*` predicates, `rust_should_impl_*` decisions, the C functions behind `requires` | decisions and `requires` clauses agree |
| `CxxAbiEntry`, `CxxAbiArtifactInfo` | the answers for one type | `artifact_info`, `emit_file` and its parts | the module compiles; it never skips or repeats a C++ destructor |
| generated `PartialOrd`, `Ord` | none | `partial_cmp`, `cmp` over `cxx_operator_three_way_comparison` | they agree with the type's own `<` and `==` |
| `processing.rs` | walk, `skip_paths`, files on disk | `process_src_abi_module` and what it calls, `process_artifacts` of the generated crate | the files are a function of the directory: not of the walk's order, earlier errors, or leftovers |
| `ffi/ctypes.rs` | none | wrappers of C integers; conversions of `c_char` from and to characters, bytes and `str` | what is read back is what was written, where `char` has room for it |
| `build.rs`, `error.rs`, `cmake.cxx` | none | compiler flags, an alias | - |

What makes this hard: five gates (predicate, flag, impl, bridge declaration, `requires`) per function that have to
agree for every combination of C++ operators, a file system that yields entries in any order, two stages that can stop
anywhere, and generated files that grow stale.

`PROJECT.json` lists every hazard at its line with the properties that cover it.

## Modules and how they correspond to the code

```
SlotTracker <- SlotStorage <- MoveRef <- IntoMove <- CxxMemory <- MCCxxMemory
                                                     |    ^
                                     PinnedSlots ----'    '---- CxxMemoryProofs <- CxxMemorySoundness
                                                                       ^
                                                                       '---- CxxMemoryReuse
SharedOwners <- Emplace <- EmplaceProofs           CTypes <- CTypesProofs
AbiTraits <- AbiArtifact <- MCAbiArtifact          AbiArtifact <- AbiArtifactProofs
CxxCompare <- MCCxxCompare                         CxxCompare <- CxxCompareProofs
Processing <- MCProcessing                         Processing <- ProcessingProofs
```

**SlotTracker** is `SlotStorageTracker` as a record of three cells, and each method of `SlotStorageStatus` as a function
of it. A method with a `debug_assert!` returns the cells it leaves and the name of the method whose assertion failed;
without `DebugAssertions` the counter wraps at `UsizeMax`.

**SlotStorage** has the variables of the core model:

- `storage[s]`: one `SlotStorage` on some frame: its life, kind, tracker, what the memory holds (`memory`), the value a
  `MoveRef` into it points to (`target`), and the handle that borrows it now (`slot`, a running constructor `call`, a
  `moveref`, or none). The borrow checker is the guard `handle = "none"` of `StorageDrop` and `SlotStorageSlot`.
- `value[v]`: who must destroy the value, how often it was destroyed, and its heap block. A Rust move changes the owner.
- `calls`: the constructors running inside `try_emplace`, the innermost first.
- `mode`: running, unwinding or aborted. A panic while unwinding aborts (`AfterPanic`); `DoublePanic` is
  `double_panic`, whose guard does nothing under `cfg(test)`.
- `asserted`: which methods have failed a `debug_assert!`.

Its actions are creation (`LetCxxSlot`, `SlotStorageNew`), reuse (`SlotStorageSlot`), `DropSlot`, and the four ways
through `Drop for SlotStorage` (`DropUninitialized`, `DropLeaking`, `DropKeep`, `DropInPlace`).

**MoveRef** adds `TryEmplace`, which counts the value *before* the constructor runs, the constructor's ends
(`ConstructOk`, `ConstructFails`), `Put`, `MoveRefDrop` (terminate first, then the destructor, which may panic),
`ForgetMoveRef`, `Release`, `IntoInner`, and the client's own drops. When the assertion in `initialize` fails in `Put`,
the argument is dropped while unwinding, and its destructor may panic and abort (in `TryEmplace` the constructor has not
run yet). `release` and `into_inner` end in the `MoveRef`'s own drop, so they go through `MoveRefDropOutcome` with the
flag set. `Fits` is the macros' choice of the slot's kind.

**IntoMove** adds moving out of a `Box`, a `UniquePtr` or a `MoveRef`, and the two `MoveNew` that exist: that of
`trivial_move!`, which reads the value out, and the generated one, which calls a C++ move constructor and drops the
source. That drop may panic with the new value already built; `MoveNewCxx` then leaves it in the destination without a
`MoveRef`, whose storage counts it as lost. `deref_move` and `into_move` differ in the pin only, and a pin changes no
state.

**CxxMemory** composes them into a program that may call anything at any time, states the properties, and maps the
model to **PinnedSlots**, the abstract specification: scopes and values, without trackers, handles or panics, in which
only an empty scope ends. `Holder`, `Ended` and `mode = "aborted"` are the refinement mapping. `FairSpec` adds that
scopes end.

**Emplace** is `try_emplace` of the three pointers, with the clients around it: threads that allocate, clone, send and
drop pointers. `block[b]` is a heap block with its content and strong count; `calls[t]` are the calls a thread is inside
of, the innermost last, since a constructor may emplace itself. `Pointers(b)` names every pointer to a block by who has
it and as what, so that `CountsExact` compares the strong count with the size of a set. A call goes through `TryEmplace`
(take `self`, allocate), `ConstructOk` or `ConstructFails`, and `DropSelf`: the parameter `self` is dropped after
everything else, and when the old value's destructor panics there, the result has already been made and goes to nobody
(`DropResult`; whether the compiler's code drops it or loses it is left open). Its abstract specification is
**SharedOwners**: a value is born once, and dies with its last owner.

**AbiTraits** is the header: a C++ type is what each operator returns (nothing, `bool`, something else), the category of
`<=>`, a set of standard type traits, and a layout. **AbiArtifact** is the life of one generated module: `ArtifactInfo`
asks the header and reads the lifetimes of the JSON entry, `EmitFile` decides on the struct, the impls, the functions
their bodies call, the bridge and the test module (`EmitInfoTestModule`), or panics (`EmitPanics`), `Build` compiles the
module against the header, and `Edit` may have changed header and entry in between. The two compilers are external:
`RustAccepts` is a legal alignment, declared lifetimes, calls within declarations, supertraits, and no `Copy` with
`Drop`; `CxxAccepts` is every declared function's `requires` clause; `RustLayout` is what `repr(C, align)` makes of the
struct, and `TestsPass` is `cargo test` on the generated tests.

**CxxCompare** is the three-way comparison, in both templates, its readers `partial_cmp` and `cmp`, and the methods
`lt`, `le`, `gt`, `ge` beside them, over every lawful combination of `<`, `==`, `<=>` and further operators on a few
values.

**Processing** is the walk (`pending`: the open directories, deepest first, any entry next), `skip_paths`, the files of
both stages as functions from module paths to contents, and the errors that end a run. `WriteModule` may take modules
in any order that has a module before the ones below it; the code sorts them, which is one such order.

**CTypes** is text that becomes `c_char`s, character by character or as the bytes of a `str`, and is read back, or
compared with another text. C's `char` is signed or not; casts keep the low eight bits. `Bytes` is UTF-8, external to
the code; `OfStr` is `from_str`, and `Before` and `Cmp` are the order that `derive(Ord)` and slices give.

Definitions whose comment begins with "A mistake to detect" are not used by the specifications: each is a definition
of the model with a plausible bug in it, and the property named for it in `PROJECT.json` fails when it is put in.

## What the runs check

| Run | Question | Shows |
| --- | --- | --- |
| `let_cxx_debug` | a debug-build program that uses `let_cxx!`/`cxx!` only | `LeakCheckExact`, `DropGuarantee`, `MoveRefTargetsLive`, `DestroyedOnce`, `BlockFreedIffBox`, no assertion fails, it aborts only on a loss or a half-built value, and it implements `PinnedSlots` |
| `release` | a release build, with slots of both kinds created by hand and storages reused through `SlotStorage::slot` | the leak check needs no assertions where storages are used once, and reused ones do not spoil the others (`ReliableStoragesExact`); in a reused one a value can be lost silently, but only after an earlier one was released from it; values are destroyed once as long as no `T` sits in a `#[dropping]` slot (`Matched`) |
| `manual_debug` | the same in a debug build | only the assertion in `initialize()` can fail; the invariant of the proofs (`IInv`) holds; `PinnedSlots` is still implemented |
| `unit_test` | the crate under `cfg(test)`, with scopes that end | `IInv` holds there, too; a loss is a panic that a `#[should_panic]` test sees; a value does not stay in a scope for ever |
| `reuse_asserts`, `uninitialized_drop`, `dropping_slot` | see [below](#where-code-and-text-disagree) | three violations |
| `emplace` | two threads, three blocks of any pointer type, constructors and destructors that nest, fail and panic | counts are exact; values live as long as somebody has them (`SharedOwners`); a half-built block is finished or freed |
| `abi` | all 2916 combinations of operators; all legal combinations of constructors, triviality and printing, layouts, lifetimes, types with bool operators, and then an edit | a generated module compiles exactly if the operators are `Coherent` and the lifetimes `Bounded`; Drop, Copy, Unpin, kind and layout follow the C++ type; a stale module that compiles offers no operation the type has lost; it compiles and passes its own tests exactly if it was in order and the type has lost no function it calls |
| `compare` | all lawful orders on three values | `partial_cmp` is exact for related values; the methods agree with it there; `cmp` is a lawful `Ord` exactly for total types |
| `ctypes` | texts of up to two characters around every boundary, both signs of `char` | characters up to U+00FF survive one by one, those up to U+007F as a `str`; two texts are ordered by their `c_char`s as by their characters, except exactly where `char` is signed and they first differ in an ASCII and another character |
| `processing` | two runs over any small directory, errors anywhere, an edit | of JSON files and directories, the generated files are a function of the directory; with other files, what is generated still resolves |

`LeakCheckExact` is the central property of the core: `is_leaking` is a question about three cells, and it must answer
a question about ownership, after any mixture of moves, releases, `forget`, failed constructors and panicking
destructors. `DropGuarantee` follows from it together with `double_panic`.

Conditions worth knowing that the runs establish:

- `Coherent` (`AbiArtifact`): a type with `operator<=>` and no `==`, or with an `operator==` that returns an `int`, or
  a deleted `!=`, gets a module that does not compile. All other types do.
- `EmitPanics` (`AbiArtifact`): an entry with two bounds on one lifetime stops the artifact crate with a panic, since
  `Punctuated::push_value` wants a separator first; the module from before stays.
- `EditNoticedIff` (`AbiArtifact`): the generated tests compare the struct with the numbers it was made from. Of an edit
  of the header, build and tests notice exactly that a function the module calls is gone; that size, alignment,
  triviality or destructor have changed, nothing notices.
- `OrderKeptIff` (`CTypes`): UTF-8 sorts as its characters do, but the derived order of a signed `c_char` puts every byte
  beyond ASCII first, so `b` and an accented `a` change places on one target and not on the other.
- `MethodsAgreeIffRelated` and `CmpLawfulIffTotal` (`CxxCompare`): where no `<=>` is detected (`std::weak_ordering` is
  not), `partial_cmp` calls two unordered values each greater than the other, and a `>` of the type's own disagrees;
  `cmp` has the same defect for every type that is not total, also with a detected `<=>`.
- `AssumeInitIsInit` (`CxxMemory`): in a release build, a reused `#[dropping]` storage whose first value was released
  and whose second constructor failed gets to `assume_init_drop` with nothing written. All others do not.
- `DropResult` (`Emplace`): if the old value's destructor panics while `try_emplace` returns, the new value is built
  and the caller does not get it.
- `Clean` (`Processing`): with a file such as `foo.bak` beside `foo.json`, the walk's order decides which of the two a
  module comes from. `WellPlaced`: the path of the abi directory must contain no other component `abi` above it.

## Bounds and fairness

The core runs use two or three storages and one or two values: three storages are a source, a destination under
construction and a bystander; two values are the old and the new one of a move construction. Storages and values are
symmetric, except under fairness. `UsizeMax` is 1 where a storage is used once, so that a second increment would wrap,
and 2 where storages are reused; `CounterBound` stops a program from reusing a storage until its counter is full, which
would take 2^64 leaks. Destruction counts saturate at 2. Constructors nest as deep as there are storages.

`emplace` has the fewest blocks that let a constructor emplace inside a constructor while a third block is shared; an
`Arc` between two threads reaches the count of `MaxRefs` = 3 with one pointer inside a call.

`abi` varies every operator on an otherwise plain type, which is not edited. One edit (`MaxEdits`) is made among every
legal subset of the seven lifecycle traits with one trait of each kind of printing, the types whose operators return
`bool` where there are any, with `>` tied to `<`, ten layouts, and every way for two lifetimes to bound each other once
or twice. One edit suffices, since a module only depends on the input it was generated from and the input now.
`compare` has three values, enough for any failure of transitivity or duality. `ctypes` has a character on each side of
every boundary of UTF-8, ASCII and Latin-1, and two, so that their order and their split into bytes show.
`processing` has two runs of the generator (`MaxRuns`) over every subtree of six entries: one run that fails, succeeds
or grows stale, one that repairs.

`CHECK_DEADLOCK FALSE` is set for the core, `Emplace` and `Processing`: programs end, and aborted ones do nothing.

Fairness is stated where the code's own structure supplies it. `FairSpec` of `CxxMemory` makes scopes end: a
constructor returns or unwinds, a `MoveRef` or slot is dropped, then its storage is (`ScopeStep`); it does not make the
client create, move, release or forget anything. `FairSpec` of `Emplace` makes a call of `try_emplace` go on
(`EmplaceStep`), which assumes of the client only that its constructors end; a thread need not call, drop or catch
anything. The rest has no fairness: the generator may be stopped at any point, and comparisons and conversions are
answered by the step that asks.

## What is proved

Of the properties that passing runs check, two are not proved, the two liveness properties; the theorem for each of the
others is listed in `PROJECT.json`. All proofs are for every value of the constants, under the assumptions named in the
modules and below.

### The core

`CxxMemoryProofs` proves for every set of storages and values, every `UsizeMax` and all builds:

- `TypeCorrect`: `Spec => []TypeOK`, without further assumptions.
- `Inductive`: `Spec => []IInv`, where `ReuseRefused` (debug assertions are on, or nobody calls `SlotStorage::new`).
- `LeakCheckHolds` from `Inductive`, under the same assumption, and `DropGuaranteeHolds`, under `~CfgTest` as well.

`LeakCheckExact` is not inductive: it speaks of storages that nobody borrows, and the tracker has to be right before
that. `IInv` says for each storage alone how tracker, memory and handle hang together (`RecordInv`: a fresh tracker is
all zero, a failed construction has count 1, a `MoveRef` is `Pending`), and `OwnerInv` ties the storages to the values:
a storage owns exactly the value its tracker accounts for. A storage with something in it is still there, or it went in
a unit test, where `double_panic` panics once and the scope ends (`NotGone`). Lemmas first compute what each tracker
method returns on a well-typed tracker; then there is one lemma per group of actions, with one step per action. The
assumptions are needed: `release` reaches states in which `IInv` fails, and under `cfg(test)` the storage goes although
it owns a value, which is what `DropGuarantee` denies.

`CxxMemorySoundness` goes on from `IInv` with what happens to the values:

- `AbortOnlyOnLeakHolds` (of programs in which no assertion has failed yet), `AssumeInitIsInitHolds` and
  `LeakPanicsHolds`, where `ReuseRefused`, in all builds. For the last, a storage goes only by its own drop
  (`DroppingStep`), the leak check is exact at that point, and outside a unit test `DropLeaking` aborts, so that the
  storage does not go.
- `SoundIfMatchedHolds` and `OnlyInitializeAssertsHolds`, where `ReuseRefused` and `~CfgTest`.
- For `~CfgTest`, `DestroyedOnceHolds`, `MoveRefTargetsLiveHolds` and `BlockFreedIffBoxHolds` for programs that use
  `let_cxx!` and `cxx!` only; `AssertionsHoldHolds` for those that use any of the macros. Where slots are made by hand,
  `dropping_slot` shows why the first three need it.
- `ImplementsPinnedSlotsHolds`, where `ReuseRefused` and `~CfgTest`: the operations refine `PinnedSlots`, provided that
  no storage is the string "outside", which the refinement mapping uses for values that are in no storage.

`IInv` determines what the tracker's methods answer, so the many operations come down to a few *effects* (`Effect`,
lemma `NextEffects`): nothing, a storage is born, is filled with a value or closed, a value is replaced, taken out,
destroyed or lost. The rest is about effects only. `SoundInv` adds to `IInv` where the heap blocks are (`BlockInv`: at
most one storage has a block, which is live until that storage frees it), which forms use which kind of storage
(`FormsFit`), that a macro's slot is the first of its storage (`SlotsFresh`), and `DestroyedOnce` as long as `Matched`.
For the refinement, each effect is one step of `PinnedSlots` or a stutter (`SlotsStep`).

`CxxMemoryReuse` drops the assumption `ReuseRefused` and is about programs that use a storage again in a release build,
where its tracker may come to say anything. Its two theorems assume only `~CfgTest`.

- `ReliableStoragesExactHolds`. The invariant `ReuseInv`, which holds in all builds, claims what `IInv` says only of the
  `Reliable` storages (`Exact`), and of every storage that a `MoveRef` into it points to a value that this storage owns
  (`HandleOK`). The second part is what keeps the damage local: a wrong tracker decides whether the value behind the
  `MoveRef` is destroyed, and never touches a value that another storage accounts for.
- `SilentLossHolds`. `LossInv` counts: as long as nothing was released from a storage, the values it owns and the
  constructor at work in it are together at most `references` (`Counted`), so that a storage that owns a value is
  leaking. `initialize` adds one to the counter before the value is there; `CounterBound` keeps it from wrapping.

### Construction on the heap

`EmplaceProofs` proves for any threads, any blocks, any of the three kinds and any `MaxRefs`, without assumptions of its
own, `EmplaceTypeCorrect`, `CountsExactHolds` and `SharedOwnersImplemented`. A strong count is a sum over threads, calls
and phases of calls, out of the provers' reach by induction; as the cardinality of the set `Pointers(b)` it is not: each
action takes pointers out of a set or puts some in, one at a time, and lemmas say what the changes to `held` and `calls`
do to the sets. The invariant `EmplaceInv` has four parts: types, `Exact` (the count is the cardinality, and the set is
finite), `BlockInv` (what content and count allow each other, and that a half-built block belongs to the one call that
builds it) and `CallInv` (what each phase of a call says about its blocks). In the refinement each action is one step of
`SharedOwners` or a stutter: birth at the end of a constructor, death with the last pointer.

### The generator

`AbiArtifactProofs` proves for every combination of what a C++ type's operators return, every set of traits, every
layout, any number of lifetimes with any bounds, and any number of edits:

- `AbiTypeCorrect`: `Spec => []AbiTypeOK`.
- `CompilesIffCoherentHolds` and `FreshBuildFaithfulHolds`, without further assumptions: the 2916 combinations and ten
  layouts of the run stand for all.
- `StaleBuildSupportedHolds` and `EditNoticedIffHolds`, where only types whose operators return `bool` are edited. The
  assumption is needed: whether the module implements `Ord` is decided by whether comparisons are *usable*, and whether
  it declares the functions behind `Ord` by whether they return `bool`.

The argument has two halves. `AbiInductive` says what a state of the life stands for: the module is the one generated
from the input recorded with it (`Generated(source)`), and "ok" and "error" are the compilers' answers about it and the
input now (`BuildInv`). With that, each property is a statement about one or two inputs, without steps. For these,
lemmas follow the five gates of a function in the order the code has them: `Decisions` and `Answers` for the header,
`Recorded` for the flags, `Emitted` for the impls, `Declared` and `Called` for the bridge and the bodies, `Provided` for
`requires`; `Agreement` puts them together.

`CxxCompareProofs` proves `CompareTypeCorrect`, `CmpLawful`, `PartialCmpTruthful` and `MethodsAgree` for types of any
set of values, finite or not, with any lawful operators (`Types` is what C++ asks of them). `Answers` computes what the
two templates return for each way two values can be related; the theorems compare that with what Rust asks of the
traits.

`ProcessingProofs` proves `ProcessingTypeCorrect`, `OutputExactHolds`, `CrateResolvesHolds` and `ArtifactsResolveHolds`
for every set of entries, every order of the walk, every number of runs and edits, and files left by runs that failed;
and `WrittenOnceHolds`, which assumes that the path of the abi directory has a component `abi` (`AbiInPath`). The three
properties about files assume `WellPlaced` in their statement. `EntriesAssumption` (paths are not empty, extensions
known) and `AbiDirAssumption` are what the file system supplies. `ProcessingInv` has a part for each stage. During the
walk (`WalkInv`), `walked` is the modules of `skip`, and nothing is missed: an entry of the tree is still waiting in
`pending`, was processed, or is below a directory that waits (`NothingMissed`); each module met has the file that one of
its entries makes (`MadeFrom`). When the walk has ended well, that holds of the whole tree, and the root calls all
modules (`GeneratedInv`); afterwards the called modules that are no longer in `todo` have their copy (`ArtifactsInv`).
Two steps go by induction, along a path from the root and over the length of paths, and are made by least
counterexample, since the library's induction theorems cannot be instantiated.

`CTypesProofs` proves `CTypesTypeCorrect`, `SurvivesIffHolds` and `OrderKeptIffHolds` for texts of any length over all
characters and for both signs of `char`. `Bytes` is a recursive function; that it is well defined (`EncodesUpTo`,
`BytesEncode`), and that a text has at least as many bytes as characters, and as many only if it is ASCII
(`BytesOfText`), are again proved by least counterexample. For the order, the encodings of two different characters
first differ in bytes that compare as the characters do, and neither is a prefix of the other; what stands before in the
texts shifts both alike. The two bytes lie on different sides of 128 exactly if one character is ASCII and the other is
not, and only then does a signed `char` turn their order around.

### What is only model-checked

`ValuesSettle` and `HalfBuiltSettles`: both rest on fairness, and with it on `ENABLED`, which TLAPS does not reason
about. The three runs that expect a violation are counterexamples, for which TLC is the right tool.

## Where code and text disagree

- `reuse_asserts`: `SlotStorage::slot` is safe and can be called again when the first slot and its `MoveRef` are gone.
  Nothing resets the tracker, so `initialize()` fails `debug_assert!(!self.is_initialized())` (`slot_storage.rs:60`).
- `uninitialized_drop`: the note at `slot_storage.rs:127` says that an uninitialised storage can only be dropped if it
  was created without the macros. A panic in the expression given to `let_cxx!` does it, too, and so does moving a
  `MoveRef` through `let_cxx!`, which leaves the slot unused (the test at `move_ref.rs:82` does that).
- `dropping_slot`: `release` inhibits the drop of the value (the test at `move_ref.rs:134` is named for it), but not in
  a `#[dropping]` slot that was given a `T`: `assume_init_drop` destroys the value behind the released pointer. The
  types do not keep a `T` out of such a slot.

## What is not modelled

- `build.rs`, `error.rs`, `cmake.cxx`: no state. The wrappers of `ctypes.rs` other than `c_char`, which carry an integer
  unchanged, and derived hashing and serialisation.
- Names, include paths, and the text of generated files.
- Threads around slots: a `SlotStorage` is neither shared nor sent, its tracker being made of `Cell`s. `Weak` pointers:
  no code of the crate makes one, and a client cannot get one to a block that `try_emplace` has not returned yet.
- A `New` that returns `Ok` without writing, and a pointer used after `release`: contracts of `unsafe` code.
- A `SlotStorage` made by hand is not forgotten, and not moved while nothing borrows it; the macros hide theirs.
- `walked_path_components` is a `Vec` in the code and a set in the model: a module that is met twice (see `Clean`) is
  called twice by the generated crate, which writes the same file again, and once in the model.
- A null `UniquePtr` moved into a slot is dereferenced without a check (`into_move.rs:63`). The module is private, and
  values of the model are never null.

Where the model allows more than Rust does: a storage may outlive the constructor in whose frame it was created;
`ConstructFails` while running is an `Err`, also for constructors that return none; `SlotStorageSlot` may be called on a
storage of any age; pinned and unpinned references are one.

## Plan

Done: the core and its abstract specification; in-place construction on the heap and its abstract specification;
detection, emission, comparison, processing, and the conversions of `c_char`; theorems for all safety properties. What
is left:

1. `SoundIfMatched`, `OnlyInitializeAsserts` and `AssertionsHold` under `cfg(test)`: `NextEffects` needs an effect for
   a storage that goes with a value.
2. The rank argument of the liveness properties as safety: `HalfBuiltSettles` from a measure that every `EmplaceStep`
   of a call lowers and no step of another thread raises.
