-------------------------- MODULE ProcessingProofs --------------------------
(***************************************************************************)
(* Proofs about Processing, for every abi directory, every order of the    *)
(* walk and every number of runs: a run that ends well has written one     *)
(* whole file for each module, and the crate made of them resolves.        *)
(***************************************************************************)
EXTENDS Processing, SequenceTheorems, WellFoundedInduction, TLAPS

-----------------------------------------------------------------------------
(* Numbers and paths. *)

LEMMA Least ==
  ASSUME NEW T \in SUBSET Nat, T # {}
  PROVE  \E m \in T : \A n \in T : m <= n
<1>1. PICK m \in T : \A n \in T : ~(<<n, m>> \in OpToRel(<, Nat))
  BY NatLessThanWellFounded, WFMin, Zenon
<1>2. ASSUME NEW n \in T, n < m PROVE FALSE
  <2>1. n \in Nat /\ m \in Nat
    OBVIOUS
  <2>2. <<n, m>> \in OpToRel(<, Nat)
    BY <1>2, <2>1 DEF OpToRel
  <2> QED
    BY <1>1, <2>2, Zenon
<1>3. \A n \in T : m <= n
  BY <1>2
<1> QED
  BY <1>3

Path == Seq(STRING)

LEMMA PathOfEntry ==
  ASSUME NEW e \in Entries
  PROVE  /\ e \in [path : Path \ {<<>>}, ext : {"", "json", "other"}]
         /\ e.path \in Path /\ e.path # <<>> /\ Len(e.path) \in Nat \ {0}
  BY EntriesAssumption, EmptySeq DEF Extensions, Path

LEMMA PrefixOfPath ==
  ASSUME NEW p \in Path, NEW n \in 0 .. Len(p)
  PROVE  /\ SubSeq(p, 1, n) \in Path
         /\ Len(SubSeq(p, 1, n)) = n
         /\ \A i \in 1 .. n : SubSeq(p, 1, n)[i] = p[i]
  BY DEF Path

LEMMA SamePath ==
  ASSUME NEW p \in Path, NEW q \in Path, Len(p) = Len(q), \A i \in 1 .. Len(p) : p[i] = q[i]
  PROVE  p = q
  BY SeqEqual DEF Path

LEMMA PrefixOfPrefix ==
  ASSUME NEW p \in Path, NEW n \in 0 .. Len(p), NEW m \in 0 .. n
  PROVE  SubSeq(SubSeq(p, 1, n), 1, m) = SubSeq(p, 1, m)
<1>1. SubSeq(p, 1, n) \in Path /\ Len(SubSeq(p, 1, n)) = n
      /\ \A i \in 1 .. n : SubSeq(p, 1, n)[i] = p[i]
  BY PrefixOfPath
<1>2. m \in 0 .. Len(SubSeq(p, 1, n)) /\ m \in 0 .. Len(p) /\ Len(p) \in Nat
  BY <1>1 DEF Path
<1>3. /\ SubSeq(SubSeq(p, 1, n), 1, m) \in Path /\ Len(SubSeq(SubSeq(p, 1, n), 1, m)) = m
      /\ \A i \in 1 .. m : SubSeq(SubSeq(p, 1, n), 1, m)[i] = SubSeq(p, 1, n)[i]
  BY <1>1, <1>2, PrefixOfPath
<1>4. /\ SubSeq(p, 1, m) \in Path /\ Len(SubSeq(p, 1, m)) = m
      /\ \A i \in 1 .. m : SubSeq(p, 1, m)[i] = p[i]
  BY <1>2, PrefixOfPath
<1>5. \A i \in 1 .. m : i \in 1 .. n
  BY <1>2
<1> QED
  BY <1>1, <1>3, <1>4, <1>5, SamePath

\* The directory part and the last part of a path that is not empty.
LEMMA PathParts ==
  ASSUME NEW p \in Path, p # <<>>
  PROVE  /\ Len(p) \in Nat \ {0}
         /\ DirPart(p) \in Path /\ Len(DirPart(p)) = Len(p) - 1
         /\ \A i \in 1 .. Len(p) - 1 : DirPart(p)[i] = p[i]
         /\ LastPart(p) = p[Len(p)] /\ LastPart(p) \in STRING
<1>1. Len(p) \in Nat \ {0}
  BY EmptySeq DEF Path
<1>2. PICK n \in 0 .. Len(p) : n = Len(p) - 1
  BY <1>1, SMTT(60)
<1>3. DirPart(p) = SubSeq(p, 1, n)
  BY <1>2 DEF DirPart
<1>4. DirPart(p) \in Path /\ Len(DirPart(p)) = n /\ \A i \in 1 .. n : DirPart(p)[i] = p[i]
  BY <1>3, PrefixOfPath
<1>5. LastPart(p) = p[Len(p)] /\ LastPart(p) \in STRING
  BY <1>1, ElementOfSeq DEF LastPart, Path
<1> QED
  BY <1>1, <1>2, <1>4, <1>5

LEMMA PathFromParts ==
  ASSUME NEW p \in Path, NEW q \in Path, p # <<>>, q # <<>>,
         DirPart(p) = DirPart(q), LastPart(p) = LastPart(q)
  PROVE  p = q
<1>1. Len(p) = Len(q) /\ Len(p) \in Nat
  BY PathParts
<1>2. \A i \in 1 .. Len(p) : p[i] = q[i]
  <2> TAKE i \in 1 .. Len(p)
  <2>1. CASE i = Len(p)
    BY <1>1, <2>1, PathParts
  <2>2. CASE i \in 1 .. Len(p) - 1
    BY <1>1, <2>2, PathParts
  <2> QED
    BY <1>1, <2>1, <2>2
<1> QED
  BY <1>1, <1>2, SamePath

-----------------------------------------------------------------------------
(* The names of modules. *)

\* The path of the abi directory has a component called "abi".
AbiInPath == \E i \in 1 .. Len(AbiDir) : AbiDir[i] = "abi"

\* From there on, the components of a path are those of the module.
LEMMA Relativized ==
  ASSUME AbiInPath
  PROVE  \E n \in 1 .. Len(AbiDir) :
            /\ AbiDir[n] = "abi"
            /\ \A p \in Path :
                  LET k == RelativizedComponents(p)
                  IN  /\ k \in Path /\ Len(k) = Len(AbiDir) + Len(p) - n
                      /\ \A i \in 1 .. Len(AbiDir) + Len(p) - n : k[i] = (AbiDir \o p)[n + i]
<1> DEFINE A == {i \in 1 .. Len(AbiDir) : AbiDir[i] = "abi"}
<1>1. Len(AbiDir) \in Nat /\ AbiDir \in Path
  BY AbiDirAssumption DEF Path
<1>2. PICK n \in A : \A i \in A : n <= i
  <2>1. A \in SUBSET Nat /\ A # {}
    BY <1>1 DEF AbiInPath
  <2> QED
    BY <2>1, Least
<1>3. n \in 1 .. Len(AbiDir) /\ AbiDir[n] = "abi"
  BY <1>2
<1>4. ASSUME NEW p \in Path
      PROVE  LET k == RelativizedComponents(p)
             IN  /\ k \in Path /\ Len(k) = Len(AbiDir) + Len(p) - n
                 /\ \A i \in 1 .. Len(AbiDir) + Len(p) - n : k[i] = (AbiDir \o p)[n + i]
  <2> DEFINE full == AbiDir \o p
             abis == {i \in 1 .. Len(full) : full[i] = "abi"}
             m == Len(AbiDir) + Len(p)
  <2>1. /\ full \in Path /\ Len(full) = m /\ Len(p) \in Nat
        /\ \A i \in 1 .. m : full[i] = IF i <= Len(AbiDir) THEN AbiDir[i] ELSE p[i - Len(AbiDir)]
    BY <1>1, ConcatProperties DEF Path
  <2> HIDE DEF full
  <2>2. n \in abis
    BY <1>1, <1>3, <2>1
  <2>3. \A i \in abis : n <= i
    <3> TAKE i \in abis
    <3>1. CASE i <= Len(AbiDir)
      BY <1>1, <1>2, <2>1, <3>1
    <3>2. CASE i > Len(AbiDir)
      BY <1>1, <1>3, <2>1, <3>2
    <3> QED
      BY <1>1, <2>1, <3>1, <3>2
  <2>4. (CHOOSE i \in abis : \A j \in abis : i <= j) = n
    <3>1. ASSUME NEW i \in abis, \A j \in abis : i <= j PROVE i = n
      BY <1>1, <1>3, <2>1, <2>2, <2>3, <3>1
    <3> QED
      BY <2>2, <2>3, <3>1
  <2>5. RelativizedComponents(p) = SubSeq(full, n + 1, m)
    BY <2>1, <2>2, <2>4 DEF RelativizedComponents, full
  <2>6. \A i \in n + 1 .. m : full[i] \in STRING
    BY <1>1, <1>3, <2>1, ElementOfSeq DEF Path
  <2>7. /\ SubSeq(full, n + 1, m) \in Path
        /\ Len(SubSeq(full, n + 1, m)) = m - n
        /\ \A i \in 1 .. m - n : SubSeq(full, n + 1, m)[i] = full[n + i]
    <3>1. n + 1 \in Int /\ m \in Int /\ m - (n + 1) + 1 = m - n
      BY <1>1, <1>3, <2>1
    <3>2. /\ SubSeq(full, n + 1, m) \in Seq(STRING)
          /\ Len(SubSeq(full, n + 1, m)) = IF n + 1 <= m THEN m - (n + 1) + 1 ELSE 0
          /\ \A i \in 1 .. m - (n + 1) + 1 : SubSeq(full, n + 1, m)[i] = full[n + 1 + i - 1]
      BY <2>6, <3>1, SubSeqProperties
    <3> QED
      BY <1>1, <1>3, <2>1, <3>1, <3>2 DEF Path
  <2> QED
    BY <2>5, <2>7 DEF full
<1> QED
  BY <1>3, <1>4

\* So no two entries of different paths have a module in common, nor any with the root.
LEMMA RelativizedDistinct ==
  ASSUME AbiInPath, NEW p \in Path, NEW q \in Path
  PROVE  /\ RelativizedComponents(p) = RelativizedComponents(q) => p = q
         /\ p # <<>> => RelativizedComponents(p) # Root
<1>1. PICK n \in 1 .. Len(AbiDir) : \A r \in Path :
            LET k == RelativizedComponents(r)
            IN  /\ k \in Path /\ Len(k) = Len(AbiDir) + Len(r) - n
                /\ \A i \in 1 .. Len(AbiDir) + Len(r) - n : k[i] = (AbiDir \o r)[n + i]
  BY Relativized
<1>2. Len(AbiDir) \in Nat /\ Len(p) \in Nat /\ Len(q) \in Nat
  BY AbiDirAssumption DEF Path
<1>3. ASSUME RelativizedComponents(p) = RelativizedComponents(q) PROVE p = q
  <2>1. Len(p) = Len(q)
    BY <1>1, <1>2, <1>3
  <2>2. ASSUME NEW i \in 1 .. Len(p) PROVE p[i] = q[i]
    <3>1. PICK j \in 1 .. Len(AbiDir) + Len(p) - n : n + j = Len(AbiDir) + i
      <4>1. Len(AbiDir) + i - n \in 1 .. Len(AbiDir) + Len(p) - n
        BY <1>2
      <4> QED
        BY <1>2, <4>1
    <3>2. (AbiDir \o p)[Len(AbiDir) + i] = (AbiDir \o q)[Len(AbiDir) + i]
      <4>1. RelativizedComponents(p)[j] = (AbiDir \o p)[n + j]
        BY <1>1
      <4>2. RelativizedComponents(q)[j] = (AbiDir \o q)[n + j]
        BY <1>1, <2>1
      <4> QED
        BY <1>3, <3>1, <4>1, <4>2
    <3>3. /\ (AbiDir \o p)[Len(AbiDir) + i] = p[i]
          /\ (AbiDir \o q)[Len(AbiDir) + i] = q[i]
      BY <1>2, <2>1, AbiDirAssumption, ConcatProperties DEF Path
    <3> QED
      BY <3>2, <3>3
  <2> QED
    BY <2>1, <2>2, SamePath
<1>4. ASSUME p # <<>> PROVE RelativizedComponents(p) # Root
  <2>1. Len(p) > 0
    BY <1>2, <1>4, EmptySeq DEF Path
  <2>2. Len(RelativizedComponents(p)) > 0
    BY <1>1, <1>2, <2>1
  <2> QED
    BY <2>2 DEF Root
<1> QED
  BY <1>3, <1>4

\* In a directory that is the first to be called "abi", modules are called as the entries are.
LEMMA PlacedModules ==
  ASSUME WellPlaced
  PROVE  AbiInPath /\ \A p \in Path : RelativizedComponents(p) = p
<1>1. Len(AbiDir) \in Nat /\ AbiDir \in Path /\ DOMAIN AbiDir = 1 .. Len(AbiDir)
  BY AbiDirAssumption DEF Path
<1>2. Len(AbiDir) \in 1 .. Len(AbiDir) /\ AbiDir[Len(AbiDir)] = "abi"
      /\ \A i \in 1 .. Len(AbiDir) : AbiDir[i] = "abi" => i = Len(AbiDir)
  BY <1>1 DEF WellPlaced
<1>3. AbiInPath
  BY <1>2 DEF AbiInPath
<1>4. PICK n \in 1 .. Len(AbiDir) : 
         /\ AbiDir[n] = "abi"
         /\ \A p \in Path :
               LET k == RelativizedComponents(p)
               IN  /\ k \in Path /\ Len(k) = Len(AbiDir) + Len(p) - n
                   /\ \A i \in 1 .. Len(AbiDir) + Len(p) - n : k[i] = (AbiDir \o p)[n + i]
  BY <1>3, Relativized
<1>5. n = Len(AbiDir)
  BY <1>2, <1>4
<1>6. ASSUME NEW p \in Path PROVE RelativizedComponents(p) = p
  <2> DEFINE k == RelativizedComponents(p)
  <2>1. /\ k \in Path /\ Len(k) = Len(AbiDir) + Len(p) - Len(AbiDir)
        /\ \A i \in 1 .. Len(AbiDir) + Len(p) - Len(AbiDir) : k[i] = (AbiDir \o p)[Len(AbiDir) + i]
    BY <1>4, <1>5
  <2> HIDE DEF k
  <2>2. Len(p) \in Nat /\ Len(k) = Len(p)
    BY <1>1, <2>1 DEF Path
  <2>3. ASSUME NEW i \in 1 .. Len(p) PROVE k[i] = p[i]
    <3>1. k[i] = (AbiDir \o p)[Len(AbiDir) + i]
      BY <1>1, <2>1, <2>2
    <3>2. (AbiDir \o p)[Len(AbiDir) + i] = p[i]
      BY <1>1, <2>2, ConcatProperties DEF Path
    <3> QED
      BY <3>1, <3>2
  <2>4. k = p
    BY <2>1, <2>2, <2>3, SamePath
  <2> QED
    BY <2>4 DEF k
<1> QED
  BY <1>3, <1>6

-----------------------------------------------------------------------------
(* Type correctness. *)

\* The entries that open directories have still to yield.
Waiting(dirs) == UNION {dirs[i] : i \in DOMAIN dirs}

LEMMA WaitingOpen ==
  ASSUME NEW dirs \in Seq(SUBSET Entries), NEW d \in SUBSET Entries
  PROVE  /\ Open(d, dirs) \in Seq(SUBSET Entries)
         /\ Waiting(Open(d, dirs)) = d \cup Waiting(dirs)
<1>1. CASE d = {}
  BY <1>1 DEF Open
<1>2. CASE d # {}
  <2>1. Open(d, dirs) = <<d>> \o dirs
    BY <1>2 DEF Open
  <2>2. <<d>> \in Seq(SUBSET Entries) /\ Len(<<d>>) = 1 /\ <<d>>[1] = d /\ Len(dirs) \in Nat
    OBVIOUS
  <2> DEFINE s == <<d>> \o dirs
  <2>3. /\ s \in Seq(SUBSET Entries) /\ Len(s) = 1 + Len(dirs)
        /\ s[1] = d /\ \A i \in 1 .. Len(dirs) : s[i + 1] = dirs[i]
    <3>1. /\ s \in Seq(SUBSET Entries) /\ Len(s) = 1 + Len(dirs)
          /\ \A i \in 1 .. 1 + Len(dirs) : s[i] = IF i <= 1 THEN <<d>>[i] ELSE dirs[i - 1]
      BY <2>2, ConcatProperties
    <3> HIDE DEF s
    <3>2. \A i \in 1 .. Len(dirs) : i + 1 \in 1 .. 1 + Len(dirs) /\ ~(i + 1 <= 1) /\ i + 1 - 1 = i
      BY <2>2
    <3> QED
      BY <2>2, <3>1, <3>2
  <2> HIDE DEF s
  <2>4. Waiting(s) = d \cup Waiting(dirs)
    <3>1. DOMAIN s = 1 .. 1 + Len(dirs) /\ DOMAIN dirs = 1 .. Len(dirs)
      BY <2>3
    <3>2. ASSUME NEW x \in Waiting(s) PROVE x \in d \cup Waiting(dirs)
      <4>1. PICK i \in DOMAIN s : x \in s[i]
        BY <3>2 DEF Waiting
      <4>2. CASE i = 1
        BY <2>3, <4>1, <4>2
      <4>3. CASE i # 1
        <5>1. PICK j \in 1 .. Len(dirs) : i = j + 1
          <6>1. i - 1 \in 1 .. Len(dirs) /\ i = (i - 1) + 1
            BY <2>2, <3>1, <4>3
          <6> QED
            BY <6>1
        <5> QED
          BY <2>3, <3>1, <4>1, <5>1 DEF Waiting
      <4> QED
        BY <4>2, <4>3
    <3>3. ASSUME NEW x \in d PROVE x \in Waiting(s)
      <4>1. 1 \in DOMAIN s
        BY <2>2, <3>1
      <4> QED
        BY <2>3, <4>1 DEF Waiting
    <3>4. ASSUME NEW x \in Waiting(dirs) PROVE x \in Waiting(s)
      <4>1. PICK i \in 1 .. Len(dirs) : x \in dirs[i]
        BY <3>1 DEF Waiting
      <4>2. i + 1 \in DOMAIN s
        BY <2>2, <3>1
      <4> QED
        BY <2>3, <4>1, <4>2 DEF Waiting
    <3> QED
      BY <3>2, <3>3, <3>4
  <2> QED
    BY <2>1, <2>3, <2>4 DEF s
<1> QED
  BY <1>1, <1>2

LEMMA WaitingHead ==
  ASSUME NEW dirs \in Seq(SUBSET Entries), dirs # <<>>
  PROVE  /\ Head(dirs) \in SUBSET Entries /\ Tail(dirs) \in Seq(SUBSET Entries)
         /\ Waiting(dirs) = Head(dirs) \cup Waiting(Tail(dirs))
<1>1. /\ Head(dirs) \in SUBSET Entries /\ Tail(dirs) \in Seq(SUBSET Entries)
      /\ Len(Tail(dirs)) = Len(dirs) - 1 /\ Len(dirs) \in Nat \ {0}
      /\ \A i \in 1 .. Len(Tail(dirs)) : Tail(dirs)[i] = dirs[i + 1]
  BY HeadTailProperties, EmptySeq
<1>2. Head(dirs) = dirs[1] /\ DOMAIN dirs = 1 .. Len(dirs) /\ DOMAIN Tail(dirs) = 1 .. Len(dirs) - 1
  BY <1>1
<1>3. ASSUME NEW x \in Waiting(dirs) PROVE x \in Head(dirs) \cup Waiting(Tail(dirs))
  <2>1. PICK i \in 1 .. Len(dirs) : x \in dirs[i]
    BY <1>2, <1>3 DEF Waiting
  <2>2. CASE i = 1
    BY <1>2, <2>1, <2>2
  <2>3. CASE i # 1
    <3>1. PICK j \in 1 .. Len(dirs) - 1 : i = j + 1
      <4>1. i - 1 \in 1 .. Len(dirs) - 1 /\ i = (i - 1) + 1
        BY <1>1, <2>3
      <4> QED
        BY <4>1
    <3> QED
      BY <1>1, <1>2, <2>1, <3>1 DEF Waiting
  <2> QED
    BY <2>2, <2>3
<1>4. ASSUME NEW x \in Head(dirs) PROVE x \in Waiting(dirs)
  <2>1. 1 \in DOMAIN dirs
    BY <1>1, <1>2
  <2> QED
    BY <1>2, <1>4, <2>1 DEF Waiting
<1>5. ASSUME NEW x \in Waiting(Tail(dirs)) PROVE x \in Waiting(dirs)
  <2>1. PICK i \in 1 .. Len(dirs) - 1 : x \in Tail(dirs)[i]
    BY <1>2, <1>5 DEF Waiting
  <2>2. i + 1 \in DOMAIN dirs /\ Tail(dirs)[i] = dirs[i + 1]
    BY <1>1, <1>2
  <2> QED
    BY <2>1, <2>2 DEF Waiting
<1> QED
  BY <1>1, <1>3, <1>4, <1>5

\* What the walk does when it yields e: e goes, and what is in it comes.
LEMMA YieldEffect ==
  ASSUME pending \in Seq(SUBSET Entries), tree \in SUBSET Entries, NEW e \in Entries, Yield(e)
  PROVE  /\ run = "walking" /\ pending # <<>> /\ e \in Waiting(pending)
         /\ pending' \in Seq(SUBSET Entries)
         /\ Waiting(pending) \ {e} \subseteq Waiting(pending')
         /\ IsDir(e) => Children(tree, e.path) \subseteq Waiting(pending')
         /\ Waiting(pending') \subseteq
               Waiting(pending) \cup (IF IsDir(e) THEN Children(tree, e.path) ELSE {})
<1> DEFINE h == Head(pending) \ {e}
           rest == Open(h, Tail(pending))
           c == Children(tree, e.path)
<1>1. run = "walking" /\ pending # <<>> /\ e \in Head(pending)
      /\ pending' = IF IsDir(e) THEN Open(c, rest) ELSE rest
  BY DEF Yield
<1>2. /\ Head(pending) \in SUBSET Entries /\ Tail(pending) \in Seq(SUBSET Entries)
      /\ Waiting(pending) = Head(pending) \cup Waiting(Tail(pending))
  BY <1>1, WaitingHead
<1>3. rest \in Seq(SUBSET Entries) /\ Waiting(rest) = h \cup Waiting(Tail(pending))
  BY <1>2, WaitingOpen
<1>4. c \in SUBSET Entries /\ c \subseteq tree
  BY DEF Children
<1> HIDE DEF rest, c
<1>5. Open(c, rest) \in Seq(SUBSET Entries) /\ Waiting(Open(c, rest)) = c \cup Waiting(rest)
  BY <1>3, <1>4, WaitingOpen
<1> QED
  BY <1>1, <1>2, <1>3, <1>4, <1>5 DEF c

LEMMA FileTypes ==
  /\ Absent \in Files /\ Torn \in Files
  /\ \A f \in Files : ArtifactFile(f) \in Files
  /\ Root \in Modules /\ \A e \in Entries : RelativizedComponents(e.path) \in Modules
<1>1. Absent \in Files /\ Torn \in Files
  BY DEF Absent, Torn, Files, Extensions
<1>2. \A f \in Files : ArtifactFile(f) \in Files
  BY DEF ArtifactFile, Complete, Files
<1>3. Root \in Modules /\ \A e \in Entries : RelativizedComponents(e.path) \in Modules
  BY DEF Modules
<1> QED
  BY <1>1, <1>2, <1>3

LEMMA CompleteType ==
  ASSUME NEW T \in SUBSET Entries, NEW p, NEW f \in {""} \cup Extensions, NEW c \in SUBSET Modules,
         NEW m \in {{}, Descendants(T, p)}
  PROVE  Complete(f, m, c) \in Files
  BY DEF Complete, Files, Descendants, Children

LEMMA ModuleFileType ==
  ASSUME NEW T \in SUBSET Entries, NEW e \in Entries
  PROVE  ModuleFile(T, e) \in Files
<1> DEFINE f == PathFile(T, e)
           from == IF f = {} THEN "" ELSE (CHOOSE x \in f : TRUE).ext
           mods == IF PathDir(T, e) = {} THEN {} ELSE Descendants(T, e.path)
<1>1. f \subseteq Entries
  BY DEF PathFile
<1>2. from \in {""} \cup Extensions
  <2>1. \A x \in f : x.ext \in {""} \cup Extensions
    BY <1>1, EntriesAssumption
  <2>2. f # {} => (CHOOSE x \in f : TRUE) \in f
    OBVIOUS
  <2> QED
    BY <2>1, <2>2
<1>3. mods \in {{}, Descendants(T, e.path)} /\ {} \in SUBSET Modules
  OBVIOUS
<1>4. ModuleFile(T, e) = Complete(from, mods, {})
  BY DEF ModuleFile
<1> HIDE DEF from, mods
<1> QED
  BY <1>2, <1>3, <1>4, CompleteType

LEMMA ProcessingTypeInit == Init => ProcessingTypeOK
  BY FileTypes, MaxRunsAssumption DEF Init, ProcessingTypeOK

LEMMA ProcessingTypeStep == ProcessingTypeOK /\ [Next]_vars => ProcessingTypeOK'
<1> SUFFICES ASSUME ProcessingTypeOK, [Next]_vars PROVE ProcessingTypeOK'
  OBVIOUS
<1> USE DEF ProcessingTypeOK
<1>1. tree \in SUBSET Entries
  BY DEF Trees
<1>2. CASE StartRun
  <2>1. Children(tree, <<>>) \in SUBSET Entries /\ <<>> \in Seq(SUBSET Entries)
    BY <1>1 DEF Children
  <2>2. pending' \in Seq(SUBSET Entries)
    BY <1>2, <2>1, WaitingOpen DEF StartRun
  <2> QED
    BY <1>2, <2>2, MaxRunsAssumption DEF StartRun
<1>3. CASE FinishRun
  <2>1. RootFile \in Files
    <3>1. {Root} \cup walked \in SUBSET Modules /\ "" \in {""} \cup Extensions
      BY FileTypes
    <3> QED
      BY <1>1, <3>1, CompleteType DEF RootFile
  <2> QED
    BY <1>3, <2>1 DEF FinishRun
<1>4. CASE FailRun
  BY <1>4, FileTypes DEF FailRun
<1>5. ASSUME NEW e \in Entries, SkipEntry(e) PROVE ProcessingTypeOK'
  BY <1>1, <1>5, YieldEffect DEF SkipEntry
<1>6. ASSUME NEW e \in Entries, ProcessEntry(e) PROVE ProcessingTypeOK'
  <2>1. pending' \in Seq(SUBSET Entries)
    BY <1>1, <1>6, YieldEffect DEF ProcessEntry
  <2>2. Skipped(tree, e) \subseteq Entries
    BY <1>1 DEF Skipped, PathDir, PathFile
  <2>3. RelativizedComponents(e.path) \in Modules /\ ModuleFile(tree, e) \in Files
    BY <1>1, FileTypes, ModuleFileType
  <2> QED
    BY <1>6, <2>1, <2>2, <2>3 DEF ProcessEntry
<1>7. CASE StartArtifacts
  BY <1>7, FileTypes DEF StartArtifacts, Files
<1>8. CASE FinishArtifacts
  BY <1>8 DEF FinishArtifacts
<1>9. ASSUME NEW k \in Modules, WriteModule(k) \/ WriteModuleFails(k) PROVE ProcessingTypeOK'
  BY <1>9, FileTypes DEF WriteModule, WriteModuleFails
<1>10. CASE EditTree
  BY <1>10 DEF EditTree
<1>11. CASE UNCHANGED vars
  BY <1>11 DEF vars
<1> QED
  BY <1>2, <1>3, <1>4, <1>5, <1>6, <1>7, <1>8, <1>9, <1>10, <1>11 DEF Next

\* Type correctness: the walk only ever holds entries of the abi directory, and every file
\* it or process_artifacts() writes is a file of some module.
THEOREM ProcessingTypeCorrect == Spec => []ProcessingTypeOK
  BY ProcessingTypeInit, ProcessingTypeStep, PTL DEF Spec

-----------------------------------------------------------------------------
(* The walk. *)

Met == Waiting(pending) \cup skip

\* The file of every module seen so far is the one made of an entry of its path.
MadeFrom(T, files, seen) ==
    \A e \in seen : \E f \in seen :
        f.path = e.path /\ files[RelativizedComponents(e.path)] = ModuleFile(T, f)

\* Nothing is missed: the top level is met, so is what is in a directory that was processed
\* and is not to be yielded any more, and siblings are met together.
NothingMissed ==
    /\ Children(tree, <<>>) \subseteq Met
    /\ \A d \in skip \ Waiting(pending) : IsDir(d) => Children(tree, d.path) \subseteq Met
    /\ \A e \in Met : Children(tree, DirPart(e.path)) \subseteq Met

WalkInv ==
    /\ Waiting(pending) \subseteq tree /\ skip \subseteq tree
    /\ walked = {RelativizedComponents(e.path) : e \in skip}
    /\ NothingMissed
    /\ Clean(tree) => \A e \in skip : Skipped(tree, e) \subseteq skip
    /\ AbiInPath => MadeFrom(tree, written, skip)

GeneratedInv ==
    AbiInPath =>
        /\ written[Root] = Complete("", Descendants(tree, <<>>),
                                    {Root} \cup {RelativizedComponents(e.path) : e \in tree})
        /\ MadeFrom(tree, written, tree)

ArtifactsInv ==
    /\ todo \subseteq written[Root].calls
    /\ \A k \in written[Root].calls \ todo : artifacts[k] = ArtifactFile(written[k])
    /\ run = "done" => todo = {}

\* The inductive invariant: what the walk has left, what a run that ended well has written,
\* and which of it process_artifacts() has copied.
ProcessingInv ==
    /\ ProcessingTypeOK
    /\ run = "walking" => WalkInv
    /\ Generated => GeneratedInv
    /\ run \in {"writing", "done"} => ArtifactsInv

\* An entry that is processed marks itself and only entries of its own path, the JSON file
\* if there is one.
LEMMA SkippedPaths ==
  ASSUME NEW T \in SUBSET Entries, NEW e \in T
  PROVE  /\ e \in Skipped(T, e) /\ Skipped(T, e) \subseteq T
         /\ \A x \in Skipped(T, e) : x.path = e.path
<1>1. CASE IsDir(e)
  BY <1>1 DEF Skipped, PathDir, PathFile
<1>2. CASE ~IsDir(e)
  BY <1>2 DEF Skipped, PathDir, PathFile
<1> QED
  BY <1>1, <1>2

LEMMA SameEntry ==
  ASSUME NEW e \in Entries, NEW f \in Entries, e.path = f.path, e.ext = f.ext
  PROVE  e = f
<1>1. /\ e \in [path : Path \ {<<>>}, ext : {"", "json", "other"}]
      /\ f \in [path : Path \ {<<>>}, ext : {"", "json", "other"}]
  BY PathOfEntry
<1>2. e = [path |-> e.path, ext |-> e.ext] /\ f = [path |-> f.path, ext |-> f.ext]
  BY <1>1
<1> QED
  BY <1>2

\* In a directory without other files, entries of one path mark each other.
LEMMA SkippedTogether ==
  ASSUME NEW T \in SUBSET Entries, Clean(T), NEW e \in T, NEW f \in T, e.path = f.path
  PROVE  f \in Skipped(T, e)
<1>1. e.ext \in {"", "json"} /\ f.ext \in {"", "json"}
  BY PathOfEntry DEF Clean
<1>2. CASE IsDir(f)
  BY <1>2 DEF Skipped, PathDir
<1>3. CASE ~IsDir(f) /\ IsDir(e)
  BY <1>1, <1>3 DEF Skipped, PathFile, IsDir
<1>4. CASE ~IsDir(f) /\ ~IsDir(e)
  BY <1>1, <1>4, SameEntry DEF Skipped, PathFile, IsDir
<1> QED
  BY <1>2, <1>3, <1>4

\* What is met after a step of the walk that yields e and leaves it marked.
LEMMA MetGrows ==
  ASSUME ProcessingTypeOK, NothingMissed, Waiting(pending) \subseteq tree, skip \subseteq tree,
         NEW e \in Entries, Yield(e), tree' = tree,
         e \in skip', skip \subseteq skip', skip' \subseteq tree,
         \A x \in skip' \ skip : x.path = e.path
  PROVE  Waiting(pending') \subseteq tree /\ NothingMissed'
<1>1. pending \in Seq(SUBSET Entries) /\ tree \in SUBSET Entries
  BY DEF ProcessingTypeOK, Trees
<1>2. /\ e \in Waiting(pending)
      /\ Waiting(pending) \ {e} \subseteq Waiting(pending')
      /\ IsDir(e) => Children(tree, e.path) \subseteq Waiting(pending')
      /\ Waiting(pending') \subseteq
            Waiting(pending) \cup (IF IsDir(e) THEN Children(tree, e.path) ELSE {})
  BY <1>1, YieldEffect
<1>3. \A p : Children(tree, p) \subseteq tree /\ Children(tree', p) = Children(tree, p)
  BY DEF Children
<1>4. Met' = Waiting(pending') \cup skip'
  BY DEF Met
<1>5. Met \subseteq Met'
  BY <1>2, <1>4 DEF Met
<1>6. \A x \in tree : x.path = e.path => x \in Met
  BY <1>2 DEF NothingMissed, Met, Children
<1>7. Waiting(pending') \subseteq tree
  BY <1>2, <1>3
<1>8. Children(tree, <<>>) \subseteq Met'
  BY <1>5 DEF NothingMissed
<1>9. ASSUME NEW d \in skip' \ Waiting(pending'), IsDir(d)
      PROVE  Children(tree, d.path) \subseteq Met'
  <2>1. CASE d = e
    BY <1>2, <1>4, <1>9, <2>1
  <2>2. CASE d # e /\ d \in skip
    <3>1. d \in skip \ Waiting(pending)
      BY <1>2, <1>9, <2>2
    <3> QED
      BY <1>5, <1>9, <3>1 DEF NothingMissed
  <2>3. CASE d # e /\ d \notin skip
    <3>1. d \in Met
      BY <1>6, <1>9, <2>3
    <3> QED
      BY <1>2, <1>9, <2>3, <3>1 DEF Met
  <2> QED
    BY <2>1, <2>2, <2>3
<1>10. ASSUME NEW x \in Met' PROVE Children(tree, DirPart(x.path)) \subseteq Met'
  <2>1. CASE x \in Met
    BY <1>5, <2>1 DEF NothingMissed
  <2>2. CASE x \in skip' \ skip
    BY <1>5, <1>6, <2>2 DEF NothingMissed
  <2>3. CASE IsDir(e) /\ x \in Children(tree, e.path)
    <3>1. DirPart(x.path) = e.path
      BY <2>3 DEF Children
    <3> QED
      BY <1>2, <1>4, <2>3, <3>1
  <2> QED
    BY <1>2, <1>4, <1>10, <2>1, <2>2, <2>3 DEF Met
<1>11. NothingMissed'
  BY <1>3, <1>8, <1>9, <1>10 DEF NothingMissed
<1> QED
  BY <1>7, <1>11

LEMMA StartRunKeeps ==
  ASSUME ProcessingInv, StartRun
  PROVE  WalkInv'
<1>1. /\ pending' = Open(Children(tree, <<>>), <<>>) /\ tree' = tree
      /\ skip' = {} /\ walked' = {} /\ written' = written
  BY DEF StartRun
<1>2. Children(tree, <<>>) \in SUBSET Entries /\ <<>> \in Seq(SUBSET Entries) /\ DOMAIN <<>> = {}
  BY DEF Children, ProcessingInv, ProcessingTypeOK, Trees
<1>3. Waiting(pending') = Children(tree, <<>>)
  <2>1. Waiting(<<>>) = {}
    BY <1>2 DEF Waiting
  <2> QED
    BY <1>1, <1>2, <2>1, WaitingOpen, ZenonT(60)
<1>4. Met' = Children(tree', <<>>)
  BY <1>1, <1>3 DEF Met
<1>5. NothingMissed'
  BY <1>1, <1>4 DEF NothingMissed, Children
<1>6. Waiting(pending') \subseteq tree'
  BY <1>1, <1>3 DEF Children
<1>7. MadeFrom(tree', written', skip')
  BY <1>1 DEF MadeFrom
<1>8. \A e \in skip' : Skipped(tree', e) \subseteq skip'
  BY <1>1
<1> QED
  BY <1>1, <1>5, <1>6, <1>7, <1>8 DEF WalkInv

LEMMA SkipEntryKeeps ==
  ASSUME ProcessingInv, NEW e \in Entries, SkipEntry(e)
  PROVE  WalkInv'
<1>1. /\ Yield(e) /\ e \in skip /\ run = "walking"
      /\ UNCHANGED <<tree, skip, walked, written>>
  BY DEF SkipEntry, Yield
<1>2. ProcessingTypeOK /\ WalkInv
  BY <1>1 DEF ProcessingInv
<1>3. Waiting(pending') \subseteq tree /\ NothingMissed'
  <2>1. NothingMissed /\ Waiting(pending) \subseteq tree /\ skip \subseteq tree
    BY <1>2 DEF WalkInv
  <2>2. /\ tree' = tree /\ e \in skip' /\ skip \subseteq skip' /\ skip' \subseteq tree
        /\ \A x \in skip' \ skip : x.path = e.path
    BY <1>1, <2>1
  <2> QED
    BY <1>1, <1>2, <2>1, <2>2, MetGrows
<1>4. /\ MadeFrom(tree, written, skip) => MadeFrom(tree', written', skip')
      /\ Clean(tree') = Clean(tree) /\ \A x : Skipped(tree', x) = Skipped(tree, x)
  BY <1>1
<1> QED
  BY <1>1, <1>2, <1>3, <1>4 DEF WalkInv

LEMMA ProcessEntryKeeps ==
  ASSUME ProcessingInv, NEW e \in Entries, ProcessEntry(e)
  PROVE  WalkInv'
<1> DEFINE k == RelativizedComponents(e.path)
<1>1. /\ Yield(e) /\ e \notin skip /\ run = "walking" /\ tree' = tree
      /\ skip' = skip \cup Skipped(tree, e)
      /\ walked' = walked \cup {k}
      /\ written' = [written EXCEPT ![k] = ModuleFile(tree, e)]
  BY DEF ProcessEntry, Yield
<1>2. ProcessingTypeOK /\ WalkInv
  BY <1>1 DEF ProcessingInv
<1>3. /\ tree \in SUBSET Entries /\ pending \in Seq(SUBSET Entries)
      /\ Waiting(pending) \subseteq tree /\ skip \subseteq tree
  BY <1>2 DEF ProcessingTypeOK, Trees, WalkInv
<1>4. e \in tree
  BY <1>1, <1>3, YieldEffect
<1>5. /\ e \in Skipped(tree, e) /\ Skipped(tree, e) \subseteq tree
      /\ \A x \in Skipped(tree, e) : x.path = e.path
  BY <1>3, <1>4, SkippedPaths
<1>6. skip' \subseteq tree /\ Waiting(pending') \subseteq tree /\ NothingMissed'
  <2>1. /\ NothingMissed /\ e \in skip' /\ skip \subseteq skip' /\ skip' \subseteq tree
        /\ \A x \in skip' \ skip : x.path = e.path
    BY <1>1, <1>2, <1>3, <1>5 DEF WalkInv
  <2> QED
    BY <1>1, <1>2, <1>3, <2>1, MetGrows
<1>7. walked' = {RelativizedComponents(x.path) : x \in skip'}
  BY <1>1, <1>2, <1>5 DEF WalkInv
<1>8. ASSUME Clean(tree) PROVE \A x \in skip' : Skipped(tree, x) \subseteq skip'
  <2> SUFFICES ASSUME NEW x \in skip', NEW y \in Skipped(tree, x) PROVE y \in skip'
    OBVIOUS
  <2>1. CASE x \in skip
    BY <1>1, <1>2, <1>8, <2>1 DEF WalkInv
  <2>2. CASE x \in Skipped(tree, e)
    <3>1. x \in tree /\ x.path = e.path
      BY <1>5, <2>2
    <3>2. y \in tree /\ y.path = e.path
      BY <1>3, <3>1, SkippedPaths
    <3> QED
      BY <1>1, <1>3, <1>4, <1>8, <3>2, SkippedTogether
  <2> QED
    BY <1>1, <2>1, <2>2
<1>9. ASSUME AbiInPath PROVE MadeFrom(tree', written', skip')
  <2> SUFFICES ASSUME NEW x \in skip'
               PROVE  \E f \in skip' : /\ f.path = x.path
                                       /\ written'[RelativizedComponents(x.path)] = ModuleFile(tree, f)
    BY <1>1 DEF MadeFrom
  <2>1. k \in Modules /\ written \in [Modules -> Files] /\ x \in Entries
    BY <1>2, <1>3, <1>6, FileTypes DEF ProcessingTypeOK
  <2>2. CASE x.path = e.path
    BY <1>1, <1>5, <2>1, <2>2
  <2>3. CASE x.path # e.path
    <3>1. x \in skip
      BY <1>1, <1>5, <2>3
    <3>2. RelativizedComponents(x.path) # k
      BY <1>9, <2>1, <2>3, PathOfEntry, RelativizedDistinct
    <3>3. RelativizedComponents(x.path) \in Modules
      BY <2>1, FileTypes
    <3> QED
      BY <1>1, <1>2, <1>9, <2>1, <3>1, <3>2, <3>3 DEF WalkInv, MadeFrom
  <2> QED
    BY <2>2, <2>3
<1>10. Clean(tree') = Clean(tree) /\ \A x : Skipped(tree', x) = Skipped(tree, x)
  BY <1>1
<1>11. Clean(tree') => \A x \in skip' : Skipped(tree', x) \subseteq skip'
  BY <1>8, <1>10
<1>12. skip' \subseteq tree' /\ Waiting(pending') \subseteq tree'
  BY <1>1, <1>6
<1> QED
  BY <1>6, <1>7, <1>9, <1>11, <1>12 DEF WalkInv

\* When nothing is left to yield, everything in the directory has been seen: a shortest
\* path that was not would be on the top level, or in a directory that was.
LEMMA EverythingSeen ==
  ASSUME ProcessingTypeOK, WalkInv, pending = <<>>
  PROVE  skip = tree
<1>1. tree \in SUBSET Entries /\ tree \in Trees /\ skip \subseteq tree
  BY DEF ProcessingTypeOK, Trees, WalkInv
<1>2. Waiting(pending) = {} /\ Met = skip
  BY DEF Waiting, Met
<1>3. SUFFICES ASSUME tree \ skip # {} PROVE FALSE
  BY <1>1
<1> DEFINE L == {Len(e.path) : e \in tree \ skip}
<1>4. L \in SUBSET Nat /\ L # {}
  BY <1>1, <1>3, PathOfEntry
<1>5. PICK m \in L : \A n \in L : m <= n
  BY <1>4, Least
<1>6. PICK e \in tree \ skip : \A f \in tree \ skip : Len(e.path) <= Len(f.path)
  BY <1>5
<1>7. e \in Entries /\ e.path \in Path /\ e.path # <<>>
  BY <1>1, PathOfEntry
<1>8. CASE DirPart(e.path) = <<>>
  <2>1. e \in Children(tree, <<>>)
    BY <1>8 DEF Children
  <2> QED
    BY <1>2, <1>6, <2>1 DEF WalkInv, NothingMissed
<1>9. CASE DirPart(e.path) # <<>>
  <2>1. PICK d \in tree : IsDir(d) /\ d.path = DirPart(e.path)
    BY <1>1, <1>9 DEF Trees
  <2>2. Len(d.path) < Len(e.path)
    BY <1>7, <2>1, PathParts
  <2>3. d \in skip
    <3>1. Len(d.path) \in Nat /\ Len(e.path) \in Nat
      BY <1>1, <1>7, PathOfEntry
    <3> QED
      BY <1>6, <2>1, <2>2, <3>1
  <2>4. e \in Children(tree, d.path)
    BY <2>1 DEF Children
  <2> QED
    BY <1>2, <1>6, <2>1, <2>3, <2>4 DEF WalkInv, NothingMissed
<1> QED
  BY <1>8, <1>9

LEMMA FinishRunKeeps ==
  ASSUME ProcessingInv, FinishRun
  PROVE  GeneratedInv'
<1>1. /\ run = "walking" /\ pending = <<>> /\ tree' = tree
      /\ written' = [written EXCEPT ![Root] = RootFile]
  BY DEF FinishRun
<1>2. ProcessingTypeOK /\ WalkInv
  BY <1>1 DEF ProcessingInv
<1>3. skip = tree /\ tree \in SUBSET Entries
  BY <1>1, <1>2, EverythingSeen DEF ProcessingTypeOK, Trees
<1>4. SUFFICES ASSUME AbiInPath
               PROVE  /\ written'[Root] = Complete("", Descendants(tree, <<>>),
                                  {Root} \cup {RelativizedComponents(e.path) : e \in tree})
                      /\ MadeFrom(tree', written', tree')
  BY <1>1 DEF GeneratedInv, MadeFrom
<1>5. Root \in Modules /\ written \in [Modules -> Files]
  BY <1>2, FileTypes DEF ProcessingTypeOK
<1>6. written'[Root] = Complete("", Descendants(tree, <<>>),
                                {Root} \cup {RelativizedComponents(e.path) : e \in tree})
  BY <1>1, <1>2, <1>3, <1>5 DEF RootFile, WalkInv
<1>7. MadeFrom(tree, written, tree)
  BY <1>2, <1>3, <1>4 DEF WalkInv
<1>8. \A e \in tree : /\ RelativizedComponents(e.path) # Root
                      /\ RelativizedComponents(e.path) \in Modules
  BY <1>3, <1>4, PathOfEntry, RelativizedDistinct, FileTypes
<1>9. MadeFrom(tree', written', tree')
  BY <1>1, <1>5, <1>7, <1>8 DEF MadeFrom
<1> QED
  BY <1>6, <1>9

\* Both the walk and process_artifacts() leave alone what the other has written.
LEMMA ProcessingInvHolds == Spec => []ProcessingInv
<1>1. Init => ProcessingInv
  <2> SUFFICES ASSUME Init PROVE ProcessingInv
    OBVIOUS
  <2>1. ProcessingTypeOK
    BY ProcessingTypeInit
  <2> QED
    BY <2>1 DEF Init, ProcessingInv, Generated
<1>2. ProcessingInv /\ [Next]_vars => ProcessingInv'
  <2> SUFFICES ASSUME ProcessingInv, [Next]_vars PROVE ProcessingInv'
    OBVIOUS
  <2>1. ProcessingTypeOK /\ ProcessingTypeOK'
    BY ProcessingTypeStep DEF ProcessingInv
  <2>2. CASE StartRun
    <3>1. run' = "walking"
      BY <2>2 DEF StartRun
    <3> QED
      BY <2>1, <2>2, <3>1, StartRunKeeps DEF ProcessingInv, Generated
  <2>3. CASE FinishRun
    <3>1. run' = "ok"
      BY <2>3 DEF FinishRun
    <3> QED
      BY <2>1, <2>3, <3>1, FinishRunKeeps DEF ProcessingInv, Generated
  <2>4. CASE FailRun
    <3>1. run' = "failed"
      BY <2>4 DEF FailRun
    <3> QED
      BY <2>1, <3>1 DEF ProcessingInv, Generated
  <2>5. ASSUME NEW e \in Entries, SkipEntry(e) PROVE ProcessingInv'
    <3>1. run' = "walking"
      BY <2>5 DEF SkipEntry, Yield
    <3> QED
      BY <2>1, <2>5, <3>1, SkipEntryKeeps DEF ProcessingInv, Generated
  <2>6. ASSUME NEW e \in Entries, ProcessEntry(e) PROVE ProcessingInv'
    <3>1. run' = "walking"
      BY <2>6 DEF ProcessEntry, Yield
    <3> QED
      BY <2>1, <2>6, <3>1, ProcessEntryKeeps DEF ProcessingInv, Generated
  <2>7. CASE StartArtifacts
    <3>1. /\ run = "ok" /\ run' = "writing" /\ todo' = written[Root].calls
          /\ UNCHANGED <<tree, written, artifacts>>
      BY <2>7 DEF StartArtifacts
    <3>2. GeneratedInv'
      BY <3>1 DEF ProcessingInv, Generated, GeneratedInv
    <3>3. ArtifactsInv'
      BY <3>1 DEF ArtifactsInv
    <3> QED
      BY <2>1, <3>1, <3>2, <3>3 DEF ProcessingInv
  <2>8. CASE FinishArtifacts
    <3>1. /\ run = "writing" /\ run' = "done" /\ todo = {}
          /\ UNCHANGED <<tree, written, artifacts, todo>>
      BY <2>8 DEF FinishArtifacts
    <3>2. GeneratedInv'
      BY <3>1 DEF ProcessingInv, Generated, GeneratedInv
    <3>3. ArtifactsInv'
      BY <3>1 DEF ProcessingInv, ArtifactsInv
    <3> QED
      BY <2>1, <3>1, <3>2, <3>3 DEF ProcessingInv
  <2>9. ASSUME NEW k \in Modules, WriteModule(k) PROVE ProcessingInv'
    <3>1. /\ run = "writing" /\ run' = "writing" /\ k \in todo /\ todo' = todo \ {k}
          /\ artifacts' = [artifacts EXCEPT ![k] = ArtifactFile(written[k])]
          /\ UNCHANGED <<tree, written>>
      BY <2>9 DEF WriteModule, MayWrite
    <3>2. GeneratedInv'
      BY <3>1 DEF ProcessingInv, Generated, GeneratedInv
    <3>3. ArtifactsInv'
      <4>1. artifacts \in [Modules -> Files] /\ ArtifactsInv
        BY <2>1, <3>1 DEF ProcessingInv, ProcessingTypeOK
      <4>2. \A l \in written[Root].calls \ todo : artifacts'[l] = ArtifactFile(written[l])
        BY <3>1, <4>1 DEF ArtifactsInv
      <4>3. artifacts'[k] = ArtifactFile(written[k])
        BY <3>1, <4>1
      <4>4. \A l \in written'[Root].calls \ todo' : artifacts'[l] = ArtifactFile(written'[l])
        BY <3>1, <4>2, <4>3
      <4> QED
        BY <3>1, <4>1, <4>4 DEF ArtifactsInv
    <3> QED
      BY <2>1, <3>1, <3>2, <3>3 DEF ProcessingInv
  <2>10. ASSUME NEW k \in Modules, WriteModuleFails(k) PROVE ProcessingInv'
    <3>1. /\ run = "writing" /\ run' = "broken" /\ UNCHANGED <<tree, written>>
      BY <2>10 DEF WriteModuleFails, MayWrite
    <3>2. GeneratedInv'
      BY <3>1 DEF ProcessingInv, Generated, GeneratedInv
    <3> QED
      BY <2>1, <3>1, <3>2 DEF ProcessingInv
  <2>11. CASE EditTree
    <3>1. run' = "idle"
      BY <2>11 DEF EditTree
    <3> QED
      BY <2>1, <3>1 DEF ProcessingInv, Generated
  <2>12. CASE UNCHANGED vars
    <3>1. UNCHANGED <<tree, pending, skip, walked, written, artifacts, todo, run, runs>>
      BY <2>12 DEF vars
    <3>2. Waiting(pending') = Waiting(pending) /\ Met' = Met
      BY <3>1 DEF Met
    <3>3. WalkInv => WalkInv'
      BY <3>1, <3>2 DEF WalkInv, NothingMissed
    <3>4. (GeneratedInv => GeneratedInv') /\ (ArtifactsInv => ArtifactsInv')
      BY <3>1 DEF GeneratedInv, ArtifactsInv
    <3> QED
      BY <2>1, <3>1, <3>3, <3>4 DEF ProcessingInv, Generated
  <2> QED
    BY <2>2, <2>3, <2>4, <2>5, <2>6, <2>7, <2>8, <2>9, <2>10, <2>11, <2>12 DEF Next
<1> QED
  BY <1>1, <1>2, PTL DEF Spec

-----------------------------------------------------------------------------
(* What a run that ends well leaves behind. *)

\* Only a directory has something in it.
LEMMA OnlyDirectories ==
  ASSUME NEW T \in Trees, NEW e \in T, NEW x \in Children(T, e.path)
  PROVE  PathDir(T, e) # {}
<1>1. x \in T /\ DirPart(x.path) = e.path /\ e \in Entries /\ e.path # <<>>
  BY PathOfEntry DEF Children, Trees
<1> QED
  BY <1>1 DEF Trees, PathDir

\* A module's file declares what is in its directory, and includes its JSON file.
LEMMA ModuleFileExact ==
  ASSUME NEW T \in Trees, NEW e \in T
  PROVE  /\ ModuleFile(T, e).state = "complete" /\ ModuleFile(T, e).calls = {}
         /\ ModuleFile(T, e).mods = Descendants(T, e.path)
         /\ Clean(T) => ModuleFile(T, e).from =
                           IF \E f \in T : f.path = e.path /\ f.ext = "json" THEN "json" ELSE ""
<1> DEFINE f == PathFile(T, e)
           from == IF f = {} THEN "" ELSE (CHOOSE x \in f : TRUE).ext
           mods == IF PathDir(T, e) = {} THEN {} ELSE Descendants(T, e.path)
<1>1. ModuleFile(T, e) = [state |-> "complete", from |-> from, mods |-> mods, calls |-> {}]
  BY DEF ModuleFile, Complete
<1>2. T \in SUBSET Entries /\ e \in Entries
  BY DEF Trees
<1>3. mods = Descendants(T, e.path)
  <2>1. CASE PathDir(T, e) = {}
    <3>1. Children(T, e.path) = {}
      BY <2>1, OnlyDirectories
    <3> QED
      BY <2>1, <3>1 DEF Descendants
  <2> QED
    BY <2>1
<1>4. ASSUME Clean(T)
      PROVE  from = IF \E x \in T : x.path = e.path /\ x.ext = "json" THEN "json" ELSE ""
  <2>1. \A x \in T : x.ext \in {"", "json"}
    BY <1>2, <1>4, PathOfEntry DEF Clean
  <2>2. \A x \in f : x \in T /\ x.path = e.path /\ x.ext = "json"
    BY <2>1 DEF PathFile, IsDir
  <2>3. \A x \in T : x.path = e.path /\ x.ext = "json" => x \in f
    <3>1. CASE IsDir(e)
      BY <3>1 DEF PathFile
    <3>2. CASE ~IsDir(e)
      <4>1. e.ext = "json"
        BY <2>1, <3>2 DEF IsDir
      <4> QED
        BY <1>2, <3>2, <4>1, SameEntry DEF PathFile
    <3> QED
      BY <3>1, <3>2
  <2>4. f # {} => (CHOOSE x \in f : TRUE) \in f
    OBVIOUS
  <2> HIDE DEF f
  <2> QED
    BY <2>2, <2>3, <2>4
<1> DEFINE bridge == IF \E x \in T : x.path = e.path /\ x.ext = "json" THEN "json" ELSE ""
<1>5. Clean(T) => from = bridge
  BY <1>4
<1> HIDE DEF from, mods, bridge
<1>6. Clean(T) => ModuleFile(T, e).from = bridge
  BY <1>1, <1>5
<1>7. /\ ModuleFile(T, e).state = "complete" /\ ModuleFile(T, e).calls = {}
      /\ ModuleFile(T, e).mods = Descendants(T, e.path)
  BY <1>1, <1>3
<1> QED
  BY <1>6, <1>7 DEF bridge

\* The modules below k are the entries of its directory.
LEMMA ModulesBelow ==
  ASSUME NEW T \in SUBSET Entries, NEW k \in Path
  PROVE  {n[Len(k) + 1] : n \in {m \in Names(T) : Len(m) = Len(k) + 1 /\ IsAbove(k, m)}}
            = Descendants(T, k)
<1> DEFINE M == {m \in Names(T) : Len(m) = Len(k) + 1 /\ IsAbove(k, m)}
<1>0. Len(k) \in Nat
  BY DEF Path
<1>1. ASSUME NEW n \in M PROVE n[Len(k) + 1] \in Descendants(T, k)
  <2>1. n \in Names(T) /\ Len(n) = Len(k) + 1 /\ SubSeq(n, 1, Len(k)) = k
    BY <1>1 DEF IsAbove
  <2>2. n # Root
    BY <1>0, <2>1 DEF Root
  <2>3. PICK e \in T : n = e.path
    BY <2>1, <2>2 DEF Names
  <2>4. DirPart(e.path) = k /\ LastPart(e.path) = n[Len(k) + 1]
    <3>1. Len(e.path) - 1 = Len(k)
      BY <1>0, <2>1, <2>3
    <3> QED
      BY <2>1, <2>3, <3>1 DEF DirPart, LastPart
  <2> QED
    BY <2>4 DEF Descendants, Children
<1>2. ASSUME NEW x \in Descendants(T, k) PROVE \E n \in M : x = n[Len(k) + 1]
  <2>1. PICK e \in T : DirPart(e.path) = k /\ x = LastPart(e.path)
    BY <1>2 DEF Descendants, Children
  <2>2. e.path \in Path /\ e.path # <<>> /\ e.path \in Names(T)
    BY <2>1, PathOfEntry DEF Names
  <2>3. Len(k) = Len(e.path) - 1 /\ Len(e.path) \in Nat \ {0}
    BY <2>1, <2>2, PathParts
  <2>4. SubSeq(e.path, 1, Len(k)) = k /\ Len(e.path) = Len(k) + 1
    BY <2>1, <2>3 DEF DirPart
  <2>5. e.path \in M
    BY <2>2, <2>3, <2>4 DEF IsAbove
  <2>6. x = e.path[Len(k) + 1]
    BY <2>1, <2>4 DEF LastPart
  <2> QED
    BY <2>5, <2>6
<1> HIDE DEF M
<1>3. {n[Len(k) + 1] : n \in M} = Descendants(T, k)
  BY <1>1, <1>2
<1> QED
  BY <1>3 DEF M

LEMMA NamesArePaths ==
  ASSUME NEW T \in SUBSET Entries
  PROVE  Names(T) \subseteq Path /\ Root \in Names(T)
<1>1. Root \in Path
  BY DEF Root, Path
<1> QED
  BY <1>1, PathOfEntry DEF Names

\* Every module has its file.
LEMMA GeneratedFiles ==
  ASSUME ProcessingInv, Generated, WellPlaced, NEW k \in Names(tree)
  PROVE  /\ written[k].state = "complete" /\ written[k].mods = Descendants(tree, k)
         /\ Clean(tree) => written[k] = ExpectedFile(tree, k)
         /\ written[Root].calls = Names(tree)
<1>1. /\ tree \in Trees /\ tree \in SUBSET Entries
      /\ AbiInPath /\ \A e \in tree : RelativizedComponents(e.path) = e.path
      /\ GeneratedInv
  BY PathOfEntry, PlacedModules DEF ProcessingInv, ProcessingTypeOK, Trees
<1>2. written[Root] = Complete("", Descendants(tree, Root), Names(tree))
  <2>1. {RelativizedComponents(e.path) : e \in tree} = {e.path : e \in tree}
    BY <1>1
  <2> QED
    BY <1>1, <2>1 DEF GeneratedInv, Names, Root
<1>3. /\ written[Root].state = "complete" /\ written[Root].mods = Descendants(tree, Root)
      /\ written[Root].calls = Names(tree)
  <2> DEFINE d == Descendants(tree, Root)
             n == Names(tree)
  <2> HIDE DEF d, n
  <2>1. /\ Complete("", d, n).state = "complete" /\ Complete("", d, n).mods = d
        /\ Complete("", d, n).calls = n
    BY DEF Complete
  <2> QED
    BY <1>2, <2>1 DEF d, n
<1>4. k \in Path
  BY <1>1, NamesArePaths
<1>5. ExpectedFile(tree, k) =
        [state |-> "complete",
         from |-> IF \E e \in tree : e.path = k /\ e.ext = "json" THEN "json" ELSE "",
         mods |-> Descendants(tree, k), calls |-> IF k = Root THEN Names(tree) ELSE {}]
  BY <1>1, <1>4, ModulesBelow DEF ExpectedFile, Complete
<1>6. CASE k = Root
  <2>1. ~ \E e \in tree : e.path = k /\ e.ext = "json"
    BY <1>1, <1>6, PathOfEntry DEF Root
  <2>2. ExpectedFile(tree, k) = Complete("", Descendants(tree, Root), Names(tree))
    BY <1>5, <1>6, <2>1 DEF Complete
  <2>3. written[k] = Complete("", Descendants(tree, Root), Names(tree))
    BY <1>2, <1>6
  <2> QED
    BY <1>3, <1>6, <2>2, <2>3
<1>7. CASE k # Root
  <2>1. PICK e \in tree : k = e.path
    BY <1>7 DEF Names
  <2>2. PICK f \in tree : f.path = k /\ written[k] = ModuleFile(tree, f)
    BY <1>1, <2>1 DEF GeneratedInv, MadeFrom
  <2> DEFINE g == ModuleFile(tree, f)
  <2>3. /\ g.state = "complete" /\ g.calls = {} /\ g.mods = Descendants(tree, k)
        /\ Clean(tree) => g.from = IF \E x \in tree : x.path = k /\ x.ext = "json"
                                   THEN "json" ELSE ""
    BY <1>1, <2>2, ModuleFileExact, ZenonT(60)
  <2>4. g = [state |-> g.state, from |-> g.from, mods |-> g.mods, calls |-> g.calls]
    BY DEF ModuleFile, Complete
  <2> HIDE DEF g
  <2>5. written[k] = g
    BY <2>2 DEF g
  <2>6. ASSUME Clean(tree) PROVE g = ExpectedFile(tree, k)
    <3> DEFINE bridge == IF \E x \in tree : x.path = k /\ x.ext = "json" THEN "json" ELSE ""
    <3>1. g.from = bridge
      BY <2>3, <2>6
    <3>2. ExpectedFile(tree, k) = [state |-> "complete", from |-> bridge,
                                   mods |-> Descendants(tree, k), calls |-> {}]
      BY <1>5, <1>7
    <3> HIDE DEF bridge
    <3> QED
      BY <2>3, <2>4, <3>1, <3>2
  <2>7. written[k].state = "complete" /\ written[k].mods = Descendants(tree, k)
    BY <2>3, <2>5
  <2> QED
    BY <1>3, <2>5, <2>6, <2>7
<1> QED
  BY <1>6, <1>7

\* Whatever order the walk took and whatever earlier runs left, a run that ends well has
\* written each module as its directory and its JSON file say (process_src_abi_sub_module).
THEOREM OutputExactHolds == Spec => []OutputExact
<1>1. ProcessingInv => OutputExact
  BY GeneratedFiles DEF OutputExact
<1> QED
  BY <1>1, ProcessingInvHolds, PTL

\* Files that declare what is in the directories: from the root, the mod declarations lead
\* to the entries of the directory and to nothing else.
LEMMA DeclarationsResolve ==
  ASSUME NEW T \in Trees, NEW files, \A e \in Entries : RelativizedComponents(e.path) = e.path,
         \A k \in Names(T) : files[k].state = "complete" /\ files[k].mods = Descendants(T, k)
  PROVE  Resolves(files, T)
<1>1. T \in SUBSET Entries
  BY DEF Trees
<1>2. Names(T) \subseteq Path /\ Root \in Names(T) /\ Root \in Path /\ Len(Root) = 0
  BY <1>1, NamesArePaths DEF Root
<1>3. Modules = {Root} \cup {e.path : e \in Entries} /\ Modules \subseteq Path
  BY <1>2, PathOfEntry DEF Modules
<1>4. \A k \in Path : SubSeq(k, 1, 0) = Root
  BY DEF Path, Root
\* The directory of a module is a module.
<1>5. ASSUME NEW k \in Names(T), k # Root
      PROVE  DirPart(k) \in Names(T) /\ LastPart(k) \in Descendants(T, DirPart(k))
  <2>1. PICK e \in T : k = e.path
    BY <1>5 DEF Names
  <2>2. DirPart(k) \in Names(T)
    BY <2>1 DEF Trees, Names, Root
  <2>3. LastPart(k) \in Descendants(T, DirPart(k))
    BY <2>1 DEF Descendants, Children
  <2> QED
    BY <2>2, <2>3
\* So are all directories above it.
<1>6. ASSUME NEW k \in Names(T), NEW n \in 0 .. Len(k)
      PROVE  SubSeq(k, 1, n) \in Names(T)
  <2>1. k \in Path /\ Len(k) \in Nat
    BY <1>2 DEF Path
  <2> DEFINE L == {m \in 0 .. Len(k) : SubSeq(k, 1, m) \in Names(T) /\ n <= m}
  <2>2. L \in SUBSET Nat /\ Len(k) \in L
    <3>1. Len(k) \in 0 .. Len(k) /\ n <= Len(k)
      BY <2>1
    <3>2. SubSeq(k, 1, Len(k)) = k
      BY <2>1, <3>1, PrefixOfPath, SamePath
    <3>3. SubSeq(k, 1, Len(k)) \in Names(T)
      BY <3>2
    <3>4. Len(k) \in L
      BY <3>1, <3>3
    <3> QED
      BY <2>1, <3>4
  <2>3. PICK m \in L : \A l \in L : m <= l
    BY <2>2, Least
  <2>4. CASE m = n
    BY <2>4
  <2>5. CASE m # n
    <3>1. PICK l \in 0 .. Len(k) : l = m - 1 /\ n <= l /\ l \in 0 .. m
      <4>1. m - 1 \in 0 .. Len(k) /\ n <= m - 1 /\ m - 1 \in 0 .. m
        BY <2>1, <2>5
      <4> QED
        BY <4>1
    <3>2. SubSeq(k, 1, m) \in Names(T) /\ Len(SubSeq(k, 1, m)) = m /\ m # 0
      BY <2>1, <2>5, PrefixOfPath
    <3>3. DirPart(SubSeq(k, 1, m)) = SubSeq(k, 1, l)
      BY <2>1, <3>1, <3>2, PrefixOfPrefix DEF DirPart
    <3>4. SubSeq(k, 1, l) \in Names(T)
      BY <1>2, <1>5, <3>2, <3>3
    <3> QED
      BY <2>3, <3>1, <3>4
  <2> QED
    BY <2>4, <2>5
\* One declaration leads from a prefix to the next.
<1>7. ASSUME NEW k \in Path, NEW i \in 1 .. Len(k), SubSeq(k, 1, i - 1) \in Names(T)
      PROVE  k[i] \in files[SubSeq(k, 1, i - 1)].mods <=> SubSeq(k, 1, i) \in Names(T)
  <2>1. PICK l \in 0 .. Len(k) : l = i - 1 /\ l \in 0 .. i /\ i \in 0 .. Len(k)
    <3>1. Len(k) \in Nat
      BY DEF Path
    <3>2. i - 1 \in 0 .. Len(k) /\ i - 1 \in 0 .. i /\ i \in 0 .. Len(k)
      BY <3>1
    <3> QED
      BY <3>2
  <2> DEFINE p == SubSeq(k, 1, i)
             q == SubSeq(k, 1, l)
  <2>2. p \in Path /\ Len(p) = i /\ p[i] = k[i] /\ p # <<>>
    BY PrefixOfPath, <2>1 DEF Path
  <2>3. DirPart(p) = q /\ LastPart(p) = k[i]
    BY <2>1, <2>2, PrefixOfPrefix DEF DirPart, LastPart
  <2>4. files[q].mods = Descendants(T, q)
    BY <1>7, <2>1
  <2> HIDE DEF p, q
  <2>5. ASSUME k[i] \in Descendants(T, q) PROVE p \in Names(T)
    <3>1. PICK e \in T : DirPart(e.path) = q /\ LastPart(e.path) = k[i]
      BY <2>5 DEF Descendants, Children
    <3>2. e.path \in Path /\ e.path # <<>>
      BY <1>1, PathOfEntry
    <3>3. e.path = p
      BY <2>2, <2>3, <3>1, <3>2, PathFromParts
    <3> QED
      BY <3>3 DEF Names
  <2>6. ASSUME p \in Names(T) PROVE k[i] \in Descendants(T, q)
    BY <1>5, <2>2, <2>3, <2>6 DEF Root
  <2> QED
    BY <2>1, <2>4, <2>5, <2>6 DEF p, q
<1>8. ASSUME NEW k \in Names(T) PROVE k \in Reachable(files)
  <2>1. k \in Modules /\ k \in Path /\ Len(k) \in Nat
    BY <1>1, <1>2, <1>3 DEF Names, Path
  <2>2. ASSUME NEW i \in 1 .. Len(k) PROVE k[i] \in files[SubSeq(k, 1, i - 1)].mods
    <3>1. i - 1 \in 0 .. Len(k) /\ i \in 0 .. Len(k)
      BY <2>1
    <3> QED
      BY <1>6, <1>7, <2>1, <3>1
  <2> QED
    BY <2>1, <2>2 DEF Reachable
<1>9. ASSUME NEW k \in Reachable(files) PROVE k \in Names(T)
  <2>1. /\ k \in Path /\ Len(k) \in Nat
        /\ \A i \in 1 .. Len(k) : k[i] \in files[SubSeq(k, 1, i - 1)].mods
    BY <1>3 DEF Reachable, Path
  <2> DEFINE L == {m \in 0 .. Len(k) : SubSeq(k, 1, m) \notin Names(T)}
  <2>2. CASE L = {}
    <3>1. Len(k) \notin L /\ Len(k) \in 0 .. Len(k)
      BY <2>1, <2>2
    <3>2. SubSeq(k, 1, Len(k)) = k
      BY <2>1, <3>1, PrefixOfPath, SamePath
    <3> QED
      BY <3>1, <3>2
  <2>3. CASE L # {}
    <3>1. L \in SUBSET Nat
      BY <2>1
    <3>2. PICK m \in L : \A l \in L : m <= l
      BY <2>3, <3>1, Least
    <3>3. m # 0
      BY <1>2, <1>4, <2>1, <3>2
    <3>4. m \in 1 .. Len(k) /\ m - 1 \in 0 .. Len(k) /\ ~(m <= m - 1)
      BY <2>1, <3>2, <3>3
    <3>5. SubSeq(k, 1, m - 1) \in Names(T)
      BY <3>2, <3>4
    <3> QED
      BY <1>7, <2>1, <3>2, <3>4, <3>5
  <2> QED
    BY <2>2, <2>3
<1>10. Reachable(files) = Names(T)
  BY <1>8, <1>9
<1> QED
  BY <1>10 DEF Resolves

\* After a run that ends well every declared module has its file, whole, every entry of the
\* directory is compiled in, and nothing left over from an earlier run is.
THEOREM CrateResolvesHolds == Spec => []CrateResolves
<1>1. ASSUME ProcessingInv, Generated, WellPlaced PROVE Resolves(written, tree)
  <2>1. tree \in Trees /\ \A e \in Entries : RelativizedComponents(e.path) = e.path
    BY <1>1, PathOfEntry, PlacedModules DEF ProcessingInv, ProcessingTypeOK
  <2>2. \A k \in Names(tree) : /\ written[k].state = "complete"
                               /\ written[k].mods = Descendants(tree, k)
    BY <1>1, GeneratedFiles
  <2> QED
    BY <2>1, <2>2, DeclarationsResolve
<1>2. ProcessingInv => CrateResolves
  BY <1>1 DEF CrateResolves
<1> QED
  BY <1>2, ProcessingInvHolds, PTL

\* The same of src/abi once process_artifacts() has ended well, whatever runs and partial
\* writes of it came before.
THEOREM ArtifactsResolveHolds == Spec => []ArtifactsResolve
<1>1. ASSUME ProcessingInv, run = "done", WellPlaced PROVE Resolves(artifacts, tree)
  <2>1. tree \in Trees /\ \A e \in Entries : RelativizedComponents(e.path) = e.path
    BY <1>1, PathOfEntry, PlacedModules DEF ProcessingInv, ProcessingTypeOK
  <2>2. Generated /\ ArtifactsInv
    BY <1>1 DEF Generated, ProcessingInv
  <2>3. ASSUME NEW k \in Names(tree)
        PROVE  artifacts[k].state = "complete" /\ artifacts[k].mods = Descendants(tree, k)
    <3>1. /\ written[k].mods = Descendants(tree, k) /\ written[Root].calls = Names(tree)
      BY <1>1, <2>2, GeneratedFiles
    <3>2. artifacts[k] = ArtifactFile(written[k])
      BY <1>1, <2>2, <3>1 DEF ArtifactsInv
    <3>3. /\ ArtifactFile(written[k]).state = "complete"
          /\ ArtifactFile(written[k]).mods = written[k].mods
      BY DEF ArtifactFile, Complete
    <3> QED
      BY <3>1, <3>2, <3>3
  <2> QED
    BY <2>1, <2>3, DeclarationsResolve
<1>2. ProcessingInv => ArtifactsResolve
  BY <1>1 DEF ArtifactsResolve
<1> QED
  BY <1>2, ProcessingInvHolds, PTL

\* In a run no module is written twice: the directory foo and the file foo.json are one
\* module, whichever the walk meets first, and the root is not among them (skip_paths).
THEOREM WrittenOnceHolds ==
  ASSUME AbiInPath
  PROVE  Spec => WrittenOnce
<1>1. ASSUME ProcessingInv, [Next]_vars, run = "walking", Clean(tree), NEW k \in walked
      PROVE  written'[k] = written[k]
  <2>1. /\ ProcessingTypeOK /\ WalkInv /\ tree \in SUBSET Entries /\ skip \subseteq tree
        /\ written \in [Modules -> Files]
    BY <1>1 DEF ProcessingInv, ProcessingTypeOK, Trees, WalkInv
  <2>2. PICK f \in skip : k = RelativizedComponents(f.path)
    BY <1>1, <2>1 DEF WalkInv
  <2>3. f \in tree /\ f \in Entries /\ f.path \in Path /\ f.path # <<>>
    BY <2>1, PathOfEntry
  <2>4. k # Root
    BY <2>2, <2>3, RelativizedDistinct
  <2>5. ASSUME NEW e \in tree \ skip PROVE RelativizedComponents(e.path) # k
    <3>1. e \in Entries /\ e.path \in Path
      BY <2>1, PathOfEntry
    <3>2. SUFFICES ASSUME RelativizedComponents(e.path) = k PROVE FALSE
      OBVIOUS
    <3>3. e.path = f.path
      BY <2>2, <2>3, <3>1, <3>2, RelativizedDistinct
    <3>4. e \in Skipped(tree, f)
      BY <1>1, <2>1, <2>3, <3>3, SkippedTogether
    <3> QED
      BY <1>1, <2>1, <2>2, <2>5, <3>4 DEF WalkInv
  <2>6. CASE FinishRun
    BY <2>4, <2>6 DEF FinishRun
  <2>7. CASE FailRun
    <3>1. \A e \in Head(pending) : pending # <<>> => e \in tree
      <4>1. pending \in Seq(SUBSET Entries) /\ Waiting(pending) \subseteq tree
        BY <2>1 DEF ProcessingTypeOK, WalkInv
      <4> QED
        BY <4>1, WaitingHead
    <3>2. CASE UNCHANGED written
      BY <3>2
    <3>3. CASE written' = [written EXCEPT ![Root] = Torn]
      BY <2>4, <3>3
    <3>4. ASSUME pending # <<>>, NEW e \in Head(pending) \ skip,
                 written' = [written EXCEPT ![RelativizedComponents(e.path)] = Torn]
          PROVE  written'[k] = written[k]
      <4>1. RelativizedComponents(e.path) # k
        BY <2>5, <3>1, <3>4
      <4> QED
        BY <3>4, <4>1
    <3> QED
      BY <2>7, <3>2, <3>3, <3>4 DEF FailRun
  <2>8. ASSUME NEW e \in Entries, SkipEntry(e) PROVE written' = written
    BY <2>8 DEF SkipEntry
  <2>9. ASSUME NEW e \in Entries, ProcessEntry(e) PROVE written'[k] = written[k]
    <3>1. e \in tree \ skip
      <4>1. Yield(e) /\ e \notin skip
        BY <2>9 DEF ProcessEntry
      <4>2. pending \in Seq(SUBSET Entries) /\ Waiting(pending) \subseteq tree
        BY <2>1 DEF ProcessingTypeOK, WalkInv
      <4> QED
        BY <2>1, <4>1, <4>2, YieldEffect
    <3> QED
      BY <2>5, <2>9, <3>1 DEF ProcessEntry
  <2>10. CASE \/ StartRun \/ StartArtifacts \/ FinishArtifacts \/ EditTree
              \/ \E l \in Modules : WriteModule(l) \/ WriteModuleFails(l)
    BY <2>10 DEF StartRun, StartArtifacts, FinishArtifacts, EditTree, WriteModule, WriteModuleFails
  <2>11. CASE UNCHANGED vars
    BY <2>11 DEF vars
  <2> QED
    BY <1>1, <2>6, <2>7, <2>8, <2>9, <2>10, <2>11 DEF Next
<1>2. ProcessingInv /\ [Next]_vars =>
         [run = "walking" /\ Clean(tree) => \A k \in walked : written'[k] = written[k]]_vars
  BY <1>1
<1> QED
  BY <1>2, ProcessingInvHolds, PTL DEF WrittenOnce, Spec

=============================================================================
