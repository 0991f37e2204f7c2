------------------------------- MODULE Emplace -------------------------------
(***************************************************************************)
(* In-place construction behind a Box, an Rc or an Arc                     *)
(* (crates/cxx-memory/src/emplace.rs).  try_emplace takes a pointer by     *)
(* value, constructs into a block of its own, and lets go of the pointer   *)
(* it was called on when it returns: the old value is not written over,    *)
(* and whoever shares it keeps it.  The constructor is client code: it may *)
(* use pointers, call emplace itself, fail or panic.  The pointers are the *)
(* standard library's; threads share the blocks of an Arc.                 *)
(***************************************************************************)
EXTENDS Naturals, FiniteSets, Sequences

CONSTANTS
    Threads,
    Blocks,   \* the heap blocks that can be allocated
    Kinds,    \* the pointers in use
    MaxRefs   \* bound of the models: how many pointers share a block

AllKinds == {"Box", "Rc", "Arc"}

ASSUME KindsAssumption   == Kinds \subseteq AllKinds
ASSUME MaxRefsAssumption == MaxRefs \in Nat \ {0}

VARIABLES
    block,    \* block[b]: its kind, its content, its strong count
    held,     \* held[t][b]: how many pointers to b the code of thread t has
    calls,    \* calls[t]: the calls of try_emplace that t is inside of, innermost last
    mode,     \* mode[t]: is t running or unwinding?
    leaked,   \* the blocks whose only pointer was lost in a return that panicked
    aborted   \* has the process stopped?

vars == <<block, held, calls, mode, leaked, aborted>>

Contents == {"free", "uninit", "alive", "dead", "discarded"}
Phases   == {"construct", "returning", "failing", "cleanup"}

Block == [kind : AllKinds, content : Contents, refs : 0 .. MaxRefs]
Call  == [self : Blocks, uninit : Blocks, phase : Phases]

Init ==
    /\ block = [b \in Blocks |-> [kind |-> "Box", content |-> "free", refs |-> 0]]
    /\ held = [t \in Threads |-> [b \in Blocks |-> 0]]
    /\ calls = [t \in Threads |-> <<>>]
    /\ mode = [t \in Threads |-> "running"]
    /\ leaked = {}
    /\ aborted = FALSE

-----------------------------------------------------------------------------
(* Box, Rc and Arc. *)

\* A block with its first pointer.
Allocated(k, c) == [kind |-> k, content |-> c, refs |-> 1]

\* The last pointer to go destroys a value; a MaybeUninit has nothing to destroy.
Dropped(r) ==
    [r EXCEPT !.refs = @ - 1,
              !.content = CASE r.refs > 1 -> @
                            [] r.refs = 1 /\ @ = "alive" -> "dead"
                            [] OTHER -> "discarded"]

\* The code of T runs, and may panic.
RunsDestructor(r) == r.refs = 1 /\ r.content = "alive"

Panics(t) ==
    IF mode[t] = "unwinding"
    THEN aborted' = TRUE /\ UNCHANGED mode
    ELSE mode' = [mode EXCEPT ![t] = "unwinding"] /\ UNCHANGED aborted

-----------------------------------------------------------------------------
(* The client: what threads do with their pointers, also inside a constructor. *)

Innermost(t) == calls[t][Len(calls[t])]
InPhase(t, p) == ~aborted /\ calls[t] # <<>> /\ Innermost(t).phase = p

ClientRuns(t) == ~aborted /\ (calls[t] = <<>> \/ InPhase(t, "construct"))

NewPointer(t, b, k) ==
    /\ ClientRuns(t) /\ mode[t] = "running"
    /\ block[b].content = "free"
    /\ block' = [block EXCEPT ![b] = Allocated(k, "alive")]
    /\ held' = [held EXCEPT ![t][b] = 1]
    /\ UNCHANGED <<calls, mode, leaked, aborted>>

Clone(t, b) ==
    /\ ClientRuns(t) /\ mode[t] = "running"
    /\ held[t][b] > 0
    /\ block[b].kind # "Box" /\ block[b].refs < MaxRefs
    /\ block' = [block EXCEPT ![b].refs = @ + 1]
    /\ held' = [held EXCEPT ![t][b] = @ + 1]
    /\ UNCHANGED <<calls, mode, leaked, aborted>>

\* An Rc stays on its thread.
Send(t, u, b) ==
    /\ ClientRuns(t) /\ mode[t] = "running" /\ t # u
    /\ held[t][b] > 0
    /\ block[b].kind # "Rc"
    /\ held' = [held EXCEPT ![t][b] = @ - 1, ![u][b] = @ + 1]
    /\ UNCHANGED <<block, calls, mode, leaked, aborted>>

DropPointer(t, b) ==
    /\ ClientRuns(t)
    /\ held[t][b] > 0
    /\ held' = [held EXCEPT ![t][b] = @ - 1]
    /\ block' = [block EXCEPT ![b] = Dropped(@)]
    /\ \/ UNCHANGED <<mode, aborted>>
       \/ RunsDestructor(block[b]) /\ Panics(t)
    /\ UNCHANGED <<calls, leaked>>

CatchUnwind(t) ==
    /\ ClientRuns(t) /\ mode[t] = "unwinding"
    /\ mode' = [mode EXCEPT ![t] = "running"]
    /\ UNCHANGED <<block, held, calls, leaked, aborted>>

ClientStep(t) ==
    \/ \E b \in Blocks :
          \/ \E k \in Kinds : NewPointer(t, b, k)
          \/ Clone(t, b) \/ DropPointer(t, b)
          \/ \E u \in Threads : Send(t, u, b)
    \/ CatchUnwind(t)

-----------------------------------------------------------------------------
(* try_emplace. *)

\* The pointer moves into the call; the new block is of its kind, and get_mut finds
\* no other pointer to it.
TryEmplace(t, b, n) ==
    /\ ClientRuns(t) /\ mode[t] = "running"
    /\ held[t][b] > 0
    /\ block[n].content = "free"
    /\ held' = [held EXCEPT ![t][b] = @ - 1]
    /\ block' = [block EXCEPT ![n] = Allocated(block[b].kind, "uninit")]
    /\ calls' = [calls EXCEPT ![t] = Append(@, [self |-> b, uninit |-> n, phase |-> "construct"])]
    /\ UNCHANGED <<mode, leaked, aborted>>

EnterPhase(t, p) == calls' = [calls EXCEPT ![t][Len(calls[t])].phase = p]
Return(t) == calls' = [calls EXCEPT ![t] = SubSeq(@, 1, Len(@) - 1)]

\* A mistake to detect: as_ptr instead of into_raw, and the MaybeUninit frees the block.
ConstructOkBorrowed(t) ==
    /\ InPhase(t, "construct") /\ mode[t] = "running"
    /\ block' = [block EXCEPT ![Innermost(t).uninit] = [Dropped(@) EXCEPT !.content = "alive"]]
    /\ EnterPhase(t, "returning")
    /\ UNCHANGED <<held, mode, leaked, aborted>>

\* The constructor has written the value, and the block is cast to hold a T.
ConstructOk(t) ==
    /\ InPhase(t, "construct") /\ mode[t] = "running"
    /\ block' = [block EXCEPT ![Innermost(t).uninit].content = "alive"]
    /\ EnterPhase(t, "returning")
    /\ UNCHANGED <<held, mode, leaked, aborted>>

\* A mistake to detect: the cast comes before the constructor, so a T is dropped.
ConstructFailsAfterCast(t) ==
    /\ InPhase(t, "construct")
    /\ block' = [block EXCEPT ![Innermost(t).uninit] = Dropped([@ EXCEPT !.content = "alive"])]
    /\ EnterPhase(t, "failing")
    /\ UNCHANGED <<held, leaked>>
    /\ UNCHANGED <<mode, aborted>> \/ (mode[t] = "running" /\ Panics(t))

\* A mistake to detect: the block is a raw pointer while the constructor runs.
ConstructFailsWhileRaw(t) ==
    /\ InPhase(t, "construct")
    /\ EnterPhase(t, "failing")
    /\ UNCHANGED <<block, held, leaked>>
    /\ UNCHANGED <<mode, aborted>> \/ (mode[t] = "running" /\ Panics(t))

\* It returns Err, or a panic goes through it: the new block is freed as it is.
ConstructFails(t) ==
    /\ InPhase(t, "construct")
    /\ block' = [block EXCEPT ![Innermost(t).uninit] = Dropped(@)]
    /\ EnterPhase(t, "failing")
    /\ UNCHANGED <<held, leaked>>
    /\ UNCHANGED <<mode, aborted>> \/ (mode[t] = "running" /\ Panics(t))

\* A mistake to detect: self is forgotten on the way out.
DropSelfForgotten(t) ==
    /\ InPhase(t, "returning") \/ InPhase(t, "failing")
    /\ held' = IF InPhase(t, "returning") THEN [held EXCEPT ![t][Innermost(t).uninit] = 1] ELSE held
    /\ Return(t)
    /\ UNCHANGED <<block, mode, leaked, aborted>>

\* A parameter is dropped after the locals.  Should the old value's destructor panic,
\* the caller gets nothing, and the result that was on its way is still there.
DropSelf(t) ==
    LET c == Innermost(t)
        r == block[c.self]
    IN  /\ InPhase(t, "returning") \/ InPhase(t, "failing")
        /\ block' = [block EXCEPT ![c.self] = Dropped(r)]
        /\ UNCHANGED leaked
        /\ \/ /\ held' = IF c.phase = "returning" THEN [held EXCEPT ![t][c.uninit] = 1] ELSE held
              /\ Return(t)
              /\ UNCHANGED <<mode, aborted>>
           \/ /\ RunsDestructor(r) /\ Panics(t)
              /\ UNCHANGED held
              /\ IF c.phase = "returning" THEN EnterPhase(t, "cleanup") ELSE Return(t)

\* Unwinding out of a return: the compiler's code may drop the result or lose it.
DropResult(t) ==
    LET n == Innermost(t).uninit
    IN  /\ InPhase(t, "cleanup")
        /\ Return(t)
        /\ UNCHANGED held
        /\ \/ /\ leaked' = leaked \cup {n}
              /\ UNCHANGED <<block, mode, aborted>>
           \/ /\ block' = [block EXCEPT ![n] = Dropped(@)]
              /\ UNCHANGED <<mode, aborted>> \/ Panics(t)
              /\ UNCHANGED leaked

EmplaceStep(t) == ConstructOk(t) \/ ConstructFails(t) \/ DropSelf(t) \/ DropResult(t)

Next ==
    \E t \in Threads :
        \/ ClientStep(t)
        \/ \E b, n \in Blocks : TryEmplace(t, b, n)
        \/ EmplaceStep(t)

Spec == Init /\ [][Next]_vars

\* A thread that is inside a call goes on, and constructors end; no thread has to call
\* anything, to drop a pointer or to catch a panic.
FairSpec == Spec /\ \A t \in Threads : WF_vars(EmplaceStep(t))

-----------------------------------------------------------------------------
(* Properties. *)

EmplaceTypeOK ==
    /\ block \in [Blocks -> Block]
    /\ held \in [Threads -> [Blocks -> 0 .. MaxRefs]]
    /\ calls \in [Threads -> Seq(Call)]
    /\ mode \in [Threads -> {"running", "unwinding"}]
    /\ leaked \subseteq Blocks
    /\ aborted \in BOOLEAN

\* The pointers to b: those that the code of a thread has, those of its running calls (a
\* call has its self until it drops it, and its new block from the start), and a lost one.
PointersOf(t, b) ==
    LET c == calls[t]
    IN  {<<"code", t, i>> : i \in 1 .. held[t][b]}
        \cup {<<"self", t, i>> : i \in {j \in DOMAIN c : c[j].self = b /\ c[j].phase # "cleanup"}}
        \cup {<<"new", t, i>> : i \in {j \in DOMAIN c : c[j].uninit = b /\ c[j].phase # "failing"}}

Pointers(b) ==
    (UNION {PointersOf(t, b) : t \in Threads}) \cup {<<"lost", x>> : x \in leaked \cap {b}}

\* The strong count of a block is the number of pointers to it, whatever calls have taken,
\* failed with or lost; a block under construction has one, as the unreachable! after
\* get_mut claims (emplace.rs:41 and 60), and no thread's code has it.
CountsExact ==
    \A b \in Blocks :
        /\ block[b].refs = Cardinality(Pointers(b))
        /\ block[b].content = "uninit" =>
              block[b].refs = 1 /\ \A t \in Threads : held[t][b] = 0

\* A block is not left half-built: it holds a value or is freed in the end.
HalfBuiltSettles ==
    \A b \in Blocks : block[b].content = "uninit" ~> (block[b].content # "uninit" \/ aborted)

-----------------------------------------------------------------------------
(* The abstract specification: a value lives as long as it has an owner. *)

Fate == [b \in Blocks |-> IF block[b].content \in {"alive", "dead"} THEN block[b].content ELSE "unborn"]

Owners == [b \in Blocks |-> IF Fate[b] = "unborn" THEN 0 ELSE Cardinality(Pointers(b))]

Shared == INSTANCE SharedOwners WITH Values <- Blocks, fate <- Fate, owners <- Owners

\* The pointers and the calls of try_emplace implement SharedOwners: a failed constructor
\* gives birth to nothing, an old value dies exactly when nobody shares it any more, and
\* no value dies twice.
ImplementsSharedOwners == Shared!Spec

=============================================================================
