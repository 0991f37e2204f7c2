---------------------------- MODULE AbiArtifact ----------------------------
(***************************************************************************)
(* The life of one generated module (crates/cxx-memory-abi,                *)
(* src/cxx_abi_entry.rs and src/cxx_abi_artifact_info.rs): the artifact    *)
(* crate asks the header about the C++ type, writes a Rust module with the *)
(* impls it decided on and a cxx bridge for the functions they call, and   *)
(* the module is compiled against the header, which may have been edited   *)
(* since.                                                                  *)
(***************************************************************************)
EXTENDS AbiTraits, Sequences

CONSTANTS
    LifetimeNames,  \* the lifetimes that an entry may name, 'static aside
    Inputs,         \* what the header and the JSON entry may say
    Edited,         \* the inputs that come about by an edit, or are edited
    MaxEdits        \* how often they are edited

\* rust_lifetimes: the lifetimes the Rust type takes, each with the list of its bounds.
AreLifetimes(l) == \E D \in SUBSET LifetimeNames : l \in [D -> Seq(LifetimeNames \cup {"static"})]

IsInput(n) ==
    /\ n = [type |-> n.type, lifetimes |-> n.lifetimes]
    /\ n.type \in CxxType /\ LegalLayout(n.type.layout)
    /\ AreLifetimes(n.lifetimes)

ASSUME InputsAssumption   == \A n \in Inputs : IsInput(n)
ASSUME EditedAssumption   == Edited \subseteq Inputs
ASSUME MaxEditsAssumption == MaxEdits \in Nat

VARIABLES
    input,     \* the C++ type and its JSON entry as they are now
    source,    \* those the module was generated from
    module,    \* the generated module
    built,     \* what came of it: not compiled yet, "ok", "error", or generation panicked
    edits

vars == <<input, source, module, built, edits>>

Impls == {"Copy", "Drop", "Unpin", "Send", "Sync", "Default", "CopyNew", "MoveNew",
          "PartialEq", "Eq", "PartialOrd", "Ord", "Hash", "Debug", "Display"}

\* The struct: its recorded layout, its lifetime parameters, the lifetimes that their
\* bounds name, and those that its marker field uses.
Struct == [layout : Layout, params : SUBSET LifetimeNames,
           bounds : SUBSET (LifetimeNames \cup {"static"}), marked : SUBSET LifetimeNames]

\* Its tests: the numbers they expect of the struct, and the traits they assert it has.
Tests == [layout : Layout, asserts : SUBSET {"Copy", "Unpin"}]

Module == [struct : Struct, kind : {"Trivial", "Opaque"}, impls : SUBSET Impls,
           calls : SUBSET Functions, declares : SUBSET Functions, tests : Tests]

NoModule ==
    LET none == [align |-> 1, size |-> 0]
    IN  [struct |-> [layout |-> none, params |-> {}, bounds |-> {}, marked |-> {}],
         kind |-> "Opaque", impls |-> {}, calls |-> {}, declares |-> {},
         tests |-> [layout |-> none, asserts |-> {}]]

-----------------------------------------------------------------------------
(* artifact_info(): one question to the header after the other. *)

ArtifactInfo(n) ==
    [lifetimes |-> n.lifetimes,
     layout    |-> n.type.layout,
     has       |-> {o \in Operators : HasOperator(n.type, o)},
     is        |-> {f \in Flags : ShouldImpl(n.type)[f]}]

-----------------------------------------------------------------------------
(* emit_file: each emit_* function by the flags it looks at. *)

\* A second bound of one lifetime: Punctuated::push_value wants a comma before it.
EmitPanics(info) == \E x \in DOMAIN info.lifetimes : Len(info.lifetimes[x]) > 1

BoundNames(l) == UNION {{l[x][i] : i \in DOMAIN l[x]} : x \in DOMAIN l}

\* emit_struct, with the parameters and bounds of emit_generics.
EmitStruct(info) ==
    [layout |-> info.layout,
     params |-> DOMAIN info.lifetimes,
     bounds |-> BoundNames(info.lifetimes),
     marked |-> DOMAIN info.lifetimes]

\* The flag that gates each impl.
Gate == [Copy |-> "copy", Drop |-> "drop", Unpin |-> "unpin", Default |-> "default_new",
         CopyNew |-> "copy_new", MoveNew |-> "move_new", PartialEq |-> "partial_eq",
         Eq |-> "eq", PartialOrd |-> "partial_ord", Ord |-> "ord", Hash |-> "hash",
         Display |-> "display"]

\* Debug is always there.  One marker field takes Send and Sync away together, one Unpin.
EmitImpls(info) ==
    {i \in DOMAIN Gate : Gate[i] \in info.is}
    \cup {"Debug"}
    \cup (IF {"send", "sync"} \cap info.is = {} THEN {} ELSE {"Send", "Sync"})

\* The bridge functions in the bodies of an impl.
Calls(info, i) ==
    CASE i = "Drop"       -> {"destruct"}
      [] i = "Default"    -> {"default_new"}
      [] i = "CopyNew"    -> {"copy_new"}
      [] i = "MoveNew"    -> {"move_new"}
      [] i = "PartialEq"  -> {"equal"} \cup (info.has \cap {"not_equal"})
      [] i = "PartialOrd" -> {"three_way_comparison"} \cup (info.has \cap Relational)
      [] i = "Ord"        -> {"three_way_comparison"}
      [] i = "Hash"       -> {"hash"}
      [] i = "Debug"      -> info.is \cap {"debug"}
      [] i = "Display"    -> {"display"}
      [] OTHER            -> {}

\* The flag that gates each declaration; the relational operators go by has.
BridgeGate == [copy_new |-> "copy_new", move_new |-> "move_new", default_new |-> "default_new",
               destruct |-> "drop", equal |-> "eq", not_equal |-> "eq",
               three_way_comparison |-> "partial_ord", hash |-> "hash", debug |-> "debug",
               display |-> "display"]

\* A mistake to detect: a declaration is named after its flag.
EmitBridgeByFlag(info) == info.is \cup info.has

EmitBridge(info) ==
    {f \in DOMAIN BridgeGate : BridgeGate[f] \in info.is} \cup (info.has \cap Relational)

\* A mistake to detect: align and size are both literals, and change places.
EmitInfoTestModuleSwapped(info) ==
    [layout  |-> [align |-> info.layout.size, size |-> info.layout.align],
     asserts |-> {i \in {"Copy", "Unpin"} : Gate[i] \in info.is}]

\* It is given the same two literals as the struct.
EmitInfoTestModule(info) ==
    [layout  |-> info.layout,
     asserts |-> {i \in {"Copy", "Unpin"} : Gate[i] \in info.is}]

EmitFile(info) ==
    [struct   |-> EmitStruct(info),
     kind     |-> IF "extern_type_trivial" \in info.is THEN "Trivial" ELSE "Opaque",
     impls    |-> EmitImpls(info),
     calls    |-> UNION {Calls(info, i) : i \in EmitImpls(info)},
     declares |-> EmitBridge(info),
     tests    |-> EmitInfoTestModule(info)]

-----------------------------------------------------------------------------
(* The compilers: rustc on the module, the C++ compiler on its bridge. *)

Supertraits == [Eq |-> {"PartialEq"}, PartialOrd |-> {"PartialEq"}, Ord |-> {"Eq", "PartialOrd"}]

\* repr(C, align(align)) around [u8; size]; the marker fields have no size.
RustLayout(struct) ==
    LET a == struct.layout.align
    IN  [align |-> a, size |-> ((struct.layout.size + a - 1) \div a) * a]

RustAccepts(m) ==
    /\ IsPowerOfTwo(m.struct.layout.align)
    /\ m.struct.bounds \subseteq m.struct.params \cup {"static"}
    /\ m.struct.params \subseteq m.struct.marked
    /\ m.calls \subseteq m.declares
    /\ \A i \in DOMAIN Supertraits \cap m.impls : Supertraits[i] \subseteq m.impls
    /\ ~({"Copy", "Drop"} \subseteq m.impls)

CxxAccepts(m, t) == m.declares \subseteq Provides(t)

\* cargo test, on a module that compiles.
TestsPass(m) == RustLayout(m.struct) = m.tests.layout /\ m.tests.asserts \subseteq m.impls

-----------------------------------------------------------------------------
Init ==
    /\ input \in Inputs
    /\ source = input
    /\ module = NoModule
    /\ built = "no"
    /\ edits = 0

\* process_artifacts: ask, and write the module whatever was there.  A panic leaves it.
WriteModuleForFile ==
    LET info == ArtifactInfo(input)
    IN  /\ \/ /\ ~EmitPanics(info)
              /\ source' = input
              /\ module' = EmitFile(info)
              /\ built' = "no"
           \/ /\ EmitPanics(info)
              /\ built' = "panic"
              /\ UNCHANGED <<source, module>>
        /\ UNCHANGED <<input, edits>>

Build ==
    /\ module # NoModule
    /\ built' = IF RustAccepts(module) /\ CxxAccepts(module, input.type) THEN "ok" ELSE "error"
    /\ UNCHANGED <<input, source, module, edits>>

Edit ==
    /\ edits < MaxEdits
    /\ input \in Edited
    /\ input' \in Edited \ {input}
    /\ built' = "no"
    /\ edits' = edits + 1
    /\ UNCHANGED <<source, module>>

Next == WriteModuleForFile \/ Build \/ Edit

Spec == Init /\ [][Next]_vars

-----------------------------------------------------------------------------
Fresh == module # NoModule /\ source = input

\* Every variable keeps its type; the module is one emit_file can write.
AbiTypeOK ==
    /\ IsInput(input) /\ IsInput(source)
    /\ module \in Module
    /\ built \in {"no", "ok", "error", "panic"}
    /\ edits \in 0 .. MaxEdits

\* The operators of a type that the generator can serve: == and != both return bool
\* if the type can be compared for equality, a detected <=> comes with ==, and the
\* six operators of a total order come with a way to compare three ways.
Coherent(t) ==
    /\ HasOperator(t, "equal") \/ IsEqualityComparable(t) =>
          HasOperator(t, "equal") /\ HasOperator(t, "not_equal")
    /\ t.three_way \in {"partial", "strong"} => HasOperator(t, "equal")
    /\ IsTotallyOrdered(t) => t.three_way \in {"partial", "strong"} \/ HasOperator(t, "less_than")

\* Every bound is a lifetime of the type, or 'static.
Bounded(l) == BoundNames(l) \subseteq DOMAIN l \cup {"static"}

\* A module that is up to date compiles exactly if the type's operators are coherent
\* and its lifetimes bounded: the gates of impls, bridge declarations and requires clauses
\* agree on everything else, constructors, destructor, hash, formatting
\* (cxx_abi_artifact_info.rs).
CompilesIffCoherent ==
    Fresh =>
        /\ built = "ok" => Coherent(input.type) /\ Bounded(input.lifetimes)
        /\ built = "error" => ~(Coherent(input.type) /\ Bounded(input.lifetimes))

\* In an up-to-date module Rust never skips a C++ destructor that does something,
\* never runs one twice through a copy, moves a value bitwise only if C++ would, too,
\* and gives it the room and the alignment that C++ does.
FreshBuildFaithful ==
    Fresh /\ built = "ok" =>
        /\ "Drop" \in module.impls <=>
              Has(input.type, "destructible") /\ ~Has(input.type, "trivially_destructible")
        /\ "Copy" \in module.impls => Has(input.type, "trivially_copyable")
        /\ {"Copy", "Unpin"} \cap module.impls # {} \/ module.kind = "Trivial" =>
              Has(input.type, "trivially_move_constructible") /\ "Drop" \notin module.impls
        /\ RustLayout(module.struct) = input.type.layout

\* What an edit may not take away from the type s, so that its module still fits what the
\* type has become, t.
Keeps(s, t) ==
    /\ \A f \in {"default_constructible", "copy_constructible", "move_constructible",
                 "std_hash", "ostream_left_shift"} : Has(s, f) => Has(t, f)
    /\ Has(s, "destructible") /\ ~Has(s, "trivially_destructible") => Has(t, "destructible")
    /\ IsDisplayable(s) => IsDisplayable(t)
    /\ \A o \in Relational \cup {"equal"} : HasOperator(s, o) => HasOperator(t, o)
    /\ HasOperator(s, "equal") => HasOperator(t, "not_equal")
    /\ s.three_way \in {"partial", "strong"} =>
          t.three_way \in {"partial", "strong"} \/ HasOperator(t, "less_than")

\* The limit of what a build and the tests in the module notice of an edit: a module made
\* from one input and built against another passes both exactly if the first one was in
\* order and the type has lost no function that the module calls, if every operator
\* returns bool.  Size, alignment, a destructor that has begun to do something, triviality
\* and the entry's lifetimes are none of them: the tests compare what was written with
\* itself (emit_info_test_module, cxx_abi_artifact_info.rs:577-620).
EditNoticedIff ==
    built \in {"ok", "error"} =>
        (built = "ok" /\ TestsPass(module) <=>
            /\ Coherent(source.type) /\ Bounded(source.lifetimes)
            /\ Keeps(source.type, input.type))

ImplsOf(n) == EmitFile(ArtifactInfo(n)).impls

LayoutImpls == {"Copy", "Drop", "Unpin"}

\* A module generated from an earlier input that still compiles can be wrong only in
\* what no C++ function backs, Copy, Drop, Unpin and the layout: any other impl in it is
\* one the header of today would be given, if every operator returns bool.
StaleBuildSupported ==
    built = "ok" => module.impls \subseteq ImplsOf(input) \cup LayoutImpls

=============================================================================
