------------------------------- MODULE CTypes -------------------------------
(***************************************************************************)
(* Text on its way through c_char (crates/cxx-memory-abi,                  *)
(* src/ffi/ctypes.rs): a program converts characters one by one or borrows *)
(* the bytes of a str as c_chars, converts back, and sorts texts by their  *)
(* c_chars.  A c_char wraps C's char, which is signed on some targets and  *)
(* unsigned on others; its order is the derived one.                       *)
(***************************************************************************)
EXTENDS Integers, Sequences

CONSTANTS
    Chars,     \* the Unicode scalar values in use
    MaxLength  \* the length of a text

CharMax == 1114111  \* char::MAX

ASSUME CharsAssumption     == \A c \in Chars : c \in 0 .. CharMax /\ c \notin 55296 .. 57343
ASSUME MaxLengthAssumption == MaxLength \in Nat

VARIABLES
    signed,  \* is C's char signed on this target?
    text,    \* what the program has
    data,    \* the c_chars it became
    from,    \* the conversion they come from
    back,    \* what was read out of them, as characters or as bytes
    other,   \* another text, and how the c_chars of the two compare
    order

vars == <<signed, text, data, from, back, other, order>>

Texts == UNION {[1 .. n -> Chars] : n \in 0 .. MaxLength}

-----------------------------------------------------------------------------
(* Casts between integers: the low eight bits, read as a number of the sort. *)

\* A mistake to detect: the byte is taken as it is.
AsCCharUnsigned(n) == n % 256

AsCChar(n) == IF signed /\ (n % 256) >= 128 THEN (n % 256) - 256 ELSE n % 256

\* A mistake to detect: the sign is dropped, not the high bits.
AsU8Absolute(v) == IF v < 0 THEN -v ELSE v

AsU8(v) == v % 256

\* UTF-8.
EncodeUtf8(c) ==
    LET rest(d) == 128 + ((c \div d) % 64)
    IN  CASE c < 128 -> <<c>>
          [] 128 <= c /\ c < 2048 -> <<192 + (c \div 64), rest(1)>>
          [] 2048 <= c /\ c < 65536 -> <<224 + (c \div 4096), rest(64), rest(1)>>
          [] 65536 <= c -> <<240 + (c \div 262144), rest(4096), rest(64), rest(1)>>

Bytes(s) ==
    LET upTo[n \in 0 .. Len(s)] ==
            IF n = 0 THEN <<>> ELSE upTo[n - 1] \o EncodeUtf8(s[n])
    IN  upTo[Len(s)]

Map(f(_), s) == [i \in DOMAIN s |-> f(s[i])]

\* A mistake to detect: the characters are converted, not the bytes.
OfStrByChars(s) == Map(AsCChar, s)

\* c_char::from_str and from_bytes: the bytes of the text, as they are.
OfStr(s) == Map(AsCChar, Bytes(s))

-----------------------------------------------------------------------------
(* Order: the derived one on c_chars, and the one of slices that comes of  *)
(* it.                                                                     *)

\* The first place where a and b differ decides; what has ended comes first.
Before(a, b) ==
    \E i \in 1 .. Len(b) :
        /\ i <= Len(a) + 1
        /\ \A j \in 1 .. i - 1 : a[j] = b[j]
        /\ i <= Len(a) => a[i] < b[i]

Cmp(a, b) == IF Before(a, b) THEN "Less" ELSE IF Before(b, a) THEN "Greater" ELSE "Equal"

-----------------------------------------------------------------------------
Init ==
    /\ signed \in BOOLEAN
    /\ text \in Texts
    /\ data = <<>> /\ from = "nothing" /\ back = <<>>
    /\ other = <<>> /\ order = "none"

\* c_char::from, for each character
FromChars ==
    /\ data' = Map(AsCChar, text)
    /\ from' = "chars"
    /\ back' = <<>> /\ other' = <<>> /\ order' = "none"
    /\ UNCHANGED <<signed, text>>

\* c_char::from_str
FromStr ==
    /\ data' = OfStr(text)
    /\ from' = "str"
    /\ back' = <<>> /\ other' = <<>> /\ order' = "none"
    /\ UNCHANGED <<signed, text>>

\* char::from for each c_char, which Debug and Display show, or c_char::into_bytes: the
\* same numbers, as characters or as bytes
ReadBack ==
    /\ from # "nothing"
    /\ back' = Map(AsU8, data)
    /\ other' = <<>> /\ order' = "none"
    /\ UNCHANGED <<signed, text, data, from>>

\* Slices made of two strs are compared, as a sort does.
Compare ==
    /\ from = "str" /\ order = "none"
    /\ \E t \in Texts : other' = t /\ order' = Cmp(data, OfStr(t))
    /\ UNCHANGED <<signed, text, data, from, back>>

\* The text that a program makes of the characters it has read.
Reuse ==
    /\ back # <<>> /\ Len(back) <= MaxLength
    /\ text' = back
    /\ data' = <<>> /\ from' = "nothing" /\ back' = <<>>
    /\ other' = <<>> /\ order' = "none"
    /\ UNCHANGED signed

Next == FromChars \/ FromStr \/ ReadBack \/ Compare \/ Reuse

Spec == Init /\ [][Next]_vars

-----------------------------------------------------------------------------
IsChar(v) == IF signed THEN v \in -128 .. 127 ELSE v \in 0 .. 255

\* Every variable keeps its type: in particular a c_char keeps the range of the target's char.
CTypesTypeOK ==
    /\ signed \in BOOLEAN
    /\ text \in Seq(0 .. CharMax)
    /\ \A i \in DOMAIN data : IsChar(data[i])
    /\ from \in {"nothing", "chars", "str"}
    /\ back \in Seq(0 .. 255)
    /\ other \in Texts
    /\ order \in {"none", "Less", "Equal", "Greater"}

AllBelow(n, s) == \A i \in DOMAIN s : s[i] < n

\* Characters come back as they went exactly if they are all Latin-1; a str read back
\* character by character, exactly if it is ASCII.  Its bytes always come back, so that a
\* text that survives one way may be lost the other (ctypes.rs:44-71).
SurvivesIff ==
    back # <<>> =>
        /\ from = "chars" => (back = text <=> AllBelow(256, text))
        /\ from = "str" => back = Bytes(text) /\ (back = text <=> AllBelow(128, text))

\* The first characters in which s and t differ are one in ASCII and one beyond.
AsciiMeetsOther(s, t) ==
    \E i \in DOMAIN s \cap DOMAIN t :
        /\ \A j \in 1 .. i - 1 : s[j] = t[j]
        /\ (s[i] < 128) # (t[i] < 128)

\* Texts are sorted by their c_chars as Rust sorts them, by character, where char is
\* unsigned; where it is signed, exactly those pairs come out in the wrong order whose
\* first difference is between an ASCII character and another one: the bytes of UTF-8
\* beyond ASCII turn negative, all of them (derive(Ord), ctypes.rs:2).
OrderKeptIff ==
    order # "none" =>
        (order = Cmp(text, other) <=> ~signed \/ ~AsciiMeetsOther(text, other))

=============================================================================
