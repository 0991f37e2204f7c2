----------------------------- MODULE AbiTraits -----------------------------
(***************************************************************************)
(* What the C++ header of crates/cxx-memory-abi finds out about a type     *)
(* (cxx/include/cxx-memory-abi.hxx): the detection concepts, the cxx_*     *)
(* predicates, the rust_should_impl_* decisions, and the requires clauses  *)
(* of the functions a generated module may declare.                        *)
(***************************************************************************)
EXTENDS Naturals

Relational == {"less_than", "less_than_or_equal", "greater_than", "greater_than_or_equal"}
Operators  == {"equal", "not_equal"} \cup Relational

\* What an operator on two T const& returns: it is missing or deleted, it returns a
\* bool, or it returns something else that converts to one.
Returns == {"none", "bool", "other"}

\* The category that operator<=> returns.
Orderings == {"none", "partial", "weak", "strong"}

Lifecycle == {"destructible", "trivially_destructible", "default_constructible",
              "copy_constructible", "move_constructible", "trivially_move_constructible",
              "trivially_copyable"}
Printing  == {"std_hash", "ostream_left_shift", "to_string", "std_string", "std_string_view"}

\* cxx_abi_align and cxx_abi_size
Layout == [align : Nat, size : Nat]

CxxType == [operators : [Operators -> Returns], three_way : Orderings,
            facts : SUBSET (Lifecycle \cup Printing), layout : Layout]

\* The C++ rules among the type traits of the standard library.
LegalFacts(F) ==
    /\ "trivially_destructible" \in F => "destructible" \in F
    /\ F \cap {"default_constructible", "copy_constructible", "move_constructible"} # {}
          => "destructible" \in F
    /\ "trivially_move_constructible" \in F => "move_constructible" \in F
    /\ "trivially_copyable" \in F => "trivially_destructible" \in F

IsPowerOfTwo(n) == \E k \in 0 .. 29 : n = 2 ^ k

\* sizeof is a positive multiple of alignof.
LegalLayout(l) == IsPowerOfTwo(l.align) /\ \E k \in 1 .. l.size : l.size = k * l.align

-----------------------------------------------------------------------------
(* Detection and predicates. *)

Has(t, f) == f \in t.facts

HasOperator(t, o) == t.operators[o] = "bool"

\* A mistake to detect: the fallback does not ask for ==.
HasThreeWayComparisonByLess(t) ==
    t.three_way \in {"partial", "strong"} \/ HasOperator(t, "less_than")

\* std::weak_ordering is not among the detected categories.
HasOperatorThreeWayComparison(t) ==
    \/ t.three_way \in {"partial", "strong"}
    \/ HasOperator(t, "less_than") /\ HasOperator(t, "equal")

\* The standard's concepts ask for a condition, not for a bool.
Usable(t, o) == t.operators[o] # "none"

IsEqualityComparable(t) == Usable(t, "equal") /\ Usable(t, "not_equal")

IsTotallyOrdered(t) == IsEqualityComparable(t) /\ \A o \in Relational : Usable(t, o)

\* A mistake to detect: a nontrivial destructor does not stop a bitwise move.
IsTriviallyMovableDestroyed(t) == Has(t, "trivially_move_constructible")

IsTriviallyMovable(t) ==
    Has(t, "trivially_move_constructible") /\ Has(t, "trivially_destructible")

IsDisplayable(t) == t.facts \cap {"to_string", "std_string", "std_string_view"} # {}

-----------------------------------------------------------------------------
(* rust_should_impl_*. *)

ShouldImplDrop(t) == Has(t, "destructible") /\ ~Has(t, "trivially_destructible")

ShouldImplCopy(t) ==
    Has(t, "trivially_copyable") /\ IsTriviallyMovable(t) /\ ~ShouldImplDrop(t)

ShouldImplPartialOrd(t) ==
    \/ HasOperatorThreeWayComparison(t)
    \/ HasOperator(t, "less_than") /\ HasOperator(t, "equal")

ShouldImpl(t) ==
    [extern_type_trivial |-> IsTriviallyMovable(t),
     unpin       |-> IsTriviallyMovable(t),
     send        |-> FALSE,
     sync        |-> FALSE,
     drop        |-> ShouldImplDrop(t),
     copy        |-> ShouldImplCopy(t),
     default_new |-> Has(t, "default_constructible"),
     copy_new    |-> Has(t, "copy_constructible"),
     move_new    |-> Has(t, "move_constructible"),
     eq          |-> IsEqualityComparable(t),
     partial_eq  |-> HasOperator(t, "equal"),
     partial_ord |-> ShouldImplPartialOrd(t),
     ord         |-> IsTotallyOrdered(t),
     hash        |-> Has(t, "std_hash"),
     debug       |-> Has(t, "ostream_left_shift"),
     display     |-> IsDisplayable(t)]

Flags == {"extern_type_trivial", "unpin", "send", "sync", "drop", "copy", "default_new",
          "copy_new", "move_new", "eq", "partial_eq", "partial_ord", "ord", "hash", "debug",
          "display"}

-----------------------------------------------------------------------------
(* The functions of CXX_MEMORY_ABI_PRELUDE, each behind a requires clause. *)

Functions == Operators \cup {"three_way_comparison", "destruct", "default_new", "copy_new",
                             "move_new", "hash", "debug", "display"}

\* A mistake to detect: the templates take any type.
ProvidesUnconstrained(t) == Functions

Provides(t) ==
    {o \in Operators : HasOperator(t, o)}
    \cup {f \in Functions \ Operators :
            CASE f = "three_way_comparison" -> HasOperatorThreeWayComparison(t)
              [] f = "destruct"    -> Has(t, "destructible")
              [] f = "default_new" -> Has(t, "default_constructible")
              [] f = "copy_new"    -> Has(t, "copy_constructible")
              [] f = "move_new"    -> Has(t, "move_constructible")
              [] f = "hash"        -> Has(t, "std_hash")
              [] f = "debug"       -> Has(t, "ostream_left_shift")
              [] f = "display"     -> IsDisplayable(t)}

=============================================================================
