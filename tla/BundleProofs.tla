---------------------------- MODULE BundleProofs ----------------------------
(***************************************************************************)
(* Theorems about Bundle and FlashSize, for all builds, sizes, widths of   *)
(* the word and numbers of faults.                                         *)
(***************************************************************************)
EXTENDS Bundle, FiniteSetTheorems, TLAPS

Inputs ==
    /\ build \in UNION {[ks -> Paths] : ks \in SUBSET Keys}
    /\ content \in [Paths -> Contents \cup {"none"}]
    /\ size \in Sizes

\* What damage does not change of an entry that Open goes by, and no digest covers.
Alike(e, f) ==
    /\ e.kind = f.kind
    /\ e.kind = "file" => e.name = f.name
    /\ e.kind = "manifest" =>
        /\ DOMAIN e.files = DOMAIN f.files
        /\ \A j \in DOMAIN e.files :
               e.files[j].name = f.files[j].name /\ e.files[j].sha = f.files[j].sha

\* The file is of bundle b, complete only if pack has said so.
CopyOf(b) ==
    /\ Len(archive) <= Len(Packing(b))
    /\ \A i \in DOMAIN archive : Alike(archive[i], Packing(b)[i])
    /\ faults = 0 => \A i \in DOMAIN archive : archive[i] = Packing(b)[i]
    /\ whole /\ faults = 0 => footer /\ Len(archive) = Len(Packing(b))

\* Open's bundle is the entries it has read.  Only the first is a manifest, and no
\* two are of one name.
ReadSoFar ==
    /\ read > 0 => bundle.files = archive[1].files /\ bundle.size = archive[1].size
    /\ DOMAIN bundle.data = {archive[i].name : i \in 2..read}
    /\ \A i \in 2..read : bundle.data[archive[i].name] = archive[i].data

AllIntact == \A i \in DOMAIN bundle.files : Intact(bundle, bundle.files[i])

Stages ==
    /\ DOMAIN bundle = {"size", "files", "data"}
    /\ step \in {"start", "packing"} => faults = 0 /\ ~whole
    /\ step \in {"start", "packing", "packed", "aborted"} => read = 0
    /\ step = "start" => archive = <<>> /\ bundle = NoBundle
    /\ step = "opened" => read = Len(archive) /\ AtEnd /\ AllIntact
    /\ step = "refused" /\ whole => read = Len(archive) /\ ~(AtEnd /\ AllIntact)

\* There is no file yet, and if FromBuildDir has failed there will be none.
NoFile == step = "start" \/ (step = "refused" /\ ~whole)

Reading == step \in {"reading", "opened", "refused"}

Copied ==
    /\ Readable
    /\ \E files \in Loaded :
        /\ CopyOf(FromFiles(files))
        /\ step = "packing" => bundle = FromFiles(files)
    /\ Reading => ReadSoFar

IInv ==
    /\ TypeOK /\ Inputs /\ Stages
    /\ NoFile \/ Copied

-----------------------------------------------------------------------------
(* Numbers and permutations.                                               *)

\* A set of numbers that is not empty has a least element.
LEMMA LeastNatural ==
    ASSUME NEW S, S \subseteq Nat, S # {}
    PROVE  \E n \in S : \A m \in S : n <= m
<1> DEFINE R == {ss \in Nat \X Nat : ss[1] < ss[2]}
<1>1. R = OpToRel(<, Nat)
  BY DEF OpToRel
<1>2. IsWellFoundedOn(R, Nat)
  BY <1>1, NatLessThanWellFounded
<1>3. \A m, n \in Nat : <<m, n>> \notin R => n <= m
  <2> TAKE m, n \in Nat
  <2>1. <<m, n>> \in Nat \X Nat /\ <<m, n>>[1] = m /\ <<m, n>>[2] = n
    OBVIOUS
  <2>2. ~(m < n) => n <= m
    OBVIOUS
  <2> QED
    BY <2>1, <2>2
<1> HIDE DEF R
<1>4. \E n \in S : \A m \in S : ~(<<m, n>> \in R)
  BY <1>2, WFMin
<1> QED
  BY <1>3, <1>4

\* And a set of indexes a greatest.
LEMMA GreatestIndex ==
    ASSUME NEW N \in Nat, NEW S, S \subseteq 1..N, S # {}
    PROVE  \E n \in S : \A m \in S : m <= n
<1> DEFINE T == {n \in Nat : N - n \in S}
<1>1. PICK i \in 1..N : i \in S
  OBVIOUS
<1>2. N - (N - i) = i /\ N - i \in Nat
  OBVIOUS
<1>3. T \subseteq Nat /\ T # {}
  BY <1>1, <1>2
<1>4. \A n \in T : n \in Nat /\ N - n \in S
  OBVIOUS
<1>5. \A m \in S : N - m \in Nat /\ N - (N - m) = m
  OBVIOUS
<1>6. \A m \in S : N - m \in T
  BY <1>5
<1> HIDE DEF T
<1>7. PICK n \in T : \A m \in T : n <= m
  BY <1>3, LeastNatural
<1>8. \A m \in S : m \in Nat /\ n <= N - m
  BY <1>6, <1>7
<1>9. n \in Nat /\ N - n \in S
  BY <1>4
<1>10. \A m \in S : m <= N - n
  BY <1>8, <1>9
<1> QED
  BY <1>9, <1>10

\* A sequence of the elements of a finite set, each once, has them all.
LEMMA Permutation ==
    ASSUME NEW S, IsFiniteSet(S), NEW s \in SetToSeqs(S)
    PROVE  /\ Cardinality(S) \in Nat /\ s \in [1..Cardinality(S) -> S]
           /\ DOMAIN s = 1..Cardinality(S)
           /\ s \in Seq(S) /\ Len(s) = Cardinality(S)
           /\ \A i \in 1..Cardinality(S) : s[i] \in S
           /\ \A i, j \in 1..Cardinality(S) : s[i] = s[j] => i = j
           /\ \A x \in S : \E i \in 1..Cardinality(S) : s[i] = x
<1> DEFINE n == Cardinality(S)
<1>1. n \in Nat /\ IsFiniteSet(1..n) /\ Cardinality(1..n) = n
  <2>1. n \in Nat
    BY FS_CardinalityType
  <2>2. \A k \in Nat : IsFiniteSet(1..k) /\ Cardinality(1..k) = IF 1 > k THEN 0 ELSE k - 1 + 1
    BY FS_Interval
  <2> QED
    BY <2>1, <2>2
<1>2. s \in [1..n -> S] /\ \A i, j \in 1..n : i # j => s[i] # s[j]
  BY DEF SetToSeqs
<1>3. s \in Injection(1..n, S)
  BY <1>2 DEF Injection, IsInjective
<1>4. s \in Surjection(1..n, S)
  BY <1>1, <1>3, FS_Injection
<1>5. \A x \in S : \E i \in 1..n : s[i] = x
  BY <1>4 DEF Surjection
<1> HIDE DEF n
<1>6. s \in Seq(S) /\ Len(s) = n /\ DOMAIN s = 1..n
  BY <1>1, <1>2
<1> QED
  BY <1>1, <1>2, <1>5, <1>6 DEF n

\* SetToSeq is one of these sequences.
LEMMA SetToSeqPermutes ==
    ASSUME NEW S, IsFiniteSet(S)
    PROVE  SetToSeq(S) \in SetToSeqs(S)
<1> DEFINE n == Cardinality(S)
<1>1. \E f \in [1..n -> S] : IsInjective(f)
  BY FS_CardinalityType DEF ExistsBijection, Bijection, Injection
<1>2. SetToSeq(S) \in [1..n -> S] /\ IsInjective(SetToSeq(S))
  BY <1>1, Zenon DEF SetToSeq
<1> QED
  BY <1>2 DEF SetToSeqs, IsInjective

\* So has a sorted one.
LEMMA Sorted ==
    ASSUME NEW S, IsFiniteSet(S), NEW at \in [S -> Nat], NEW s \in SortedBy(at)
    PROVE  /\ Cardinality(S) \in Nat /\ s \in SetToSeqs(S)
           /\ DOMAIN s = 1..Cardinality(S)
           /\ \A i \in 1..Cardinality(S) : s[i] \in S /\ at[s[i]] \in Nat
           /\ \A i, j \in 1..Cardinality(S) : s[i] = s[j] => i = j
           /\ \A x \in S : \E i \in 1..Cardinality(S) : s[i] = x
           /\ \A i, j \in 1..Cardinality(S) : i < j => at[s[i]] <= at[s[j]]
<1>1. DOMAIN at = S
  OBVIOUS
<1>2. s \in SetToSeqs(S) /\ \A i, j \in DOMAIN s : i < j => at[s[i]] <= at[s[j]]
  BY <1>1 DEF SortedBy
<1>3. /\ Cardinality(S) \in Nat /\ DOMAIN s = 1..Cardinality(S)
      /\ \A i \in 1..Cardinality(S) : s[i] \in S
      /\ \A i, j \in 1..Cardinality(S) : s[i] = s[j] => i = j
      /\ \A x \in S : \E i \in 1..Cardinality(S) : s[i] = x
  BY <1>2, Permutation
<1> QED
  BY <1>2, <1>3

\* A sorted sequence has no smaller element at a place than another one has.
LEMMA SortedLeq ==
    ASSUME NEW S, IsFiniteSet(S), NEW at \in [S -> Nat],
           NEW s \in SortedBy(at), NEW t \in SortedBy(at), NEW i \in 1..Cardinality(S)
    PROVE  at[s[i]] <= at[t[i]]
<1> DEFINE n == Cardinality(S)
<1>1. /\ n \in Nat /\ i \in 1..n
      /\ \A j \in 1..n : s[j] \in S /\ at[s[j]] \in Nat
      /\ \A x \in S : \E j \in 1..n : s[j] = x
      /\ \A j, k \in 1..n : j < k => at[s[j]] <= at[s[k]]
  BY Sorted
<1>2. /\ \A j \in 1..n : t[j] \in S /\ at[t[j]] \in Nat
      /\ \A j, k \in 1..n : t[j] = t[k] => j = k
      /\ \A j, k \in 1..n : j < k => at[t[j]] <= at[t[k]]
  BY Sorted
<1> HIDE DEF n
<1>3. i \in Nat /\ 1 <= i /\ i <= n /\ \A k \in 1..i : k \in 1..n
  BY <1>1
<1> SUFFICES ASSUME at[t[i]] < at[s[i]] PROVE FALSE
  BY <1>1, <1>2
<1> DEFINE f == [k \in 1..i |-> CHOOSE j \in 1..n : s[j] = t[k]]
<1>5. ASSUME NEW k \in 1..i PROVE k \in 1..n /\ f[k] \in 1..(i - 1) /\ s[f[k]] = t[k]
  <2>1. k \in 1..n /\ t[k] \in S /\ at[t[k]] \in Nat /\ at[t[i]] \in Nat /\ at[s[i]] \in Nat
    BY <1>1, <1>2, <1>3
  <2>2. f[k] \in 1..n /\ s[f[k]] = t[k]
    BY <1>1, <2>1
  <2>3. at[t[k]] <= at[t[i]]
    <3>1. CASE k = i
      BY <2>1, <3>1
    <3>2. CASE k # i
      <4>1. k < i
        BY <1>3, <3>2
      <4> QED
        BY <1>1, <1>2, <2>1, <4>1
    <3> QED
      BY <3>1, <3>2
  <2> HIDE DEF f
  <2>4. at[t[k]] < at[s[i]]
    BY <2>1, <2>3
  <2>5. ~(i < f[k]) /\ f[k] # i
    BY <1>1, <2>1, <2>2, <2>4
  <2>6. \A j \in 1..n : ~(i < j) /\ j # i => j \in 1..(i - 1)
    BY <1>3
  <2> QED
    BY <2>1, <2>2, <2>5, <2>6
<1>6. f \in [1..i -> 1..(i - 1)]
  BY <1>5
<1> HIDE DEF f
<1>7. /\ IsFiniteSet(1..i) /\ IsFiniteSet(1..(i - 1))
      /\ Cardinality(1..(i - 1)) < Cardinality(1..i)
  <2>1. i \in Int /\ i - 1 \in Int /\ 1 \in Int /\ i >= 1
    BY <1>3
  <2>2. IsFiniteSet(1..i) /\ Cardinality(1..i) = i
    BY <2>1, FS_Interval
  <2>3. /\ IsFiniteSet(1..(i - 1))
        /\ Cardinality(1..(i - 1)) = IF 1 > i - 1 THEN 0 ELSE (i - 1) - 1 + 1
    BY <2>1, FS_Interval
  <2> QED
    BY <2>1, <2>2, <2>3
<1>8. PICK k, l \in 1..i : k # l /\ f[k] = f[l]
  BY <1>6, <1>7, FS_PigeonHole
<1>9. k \in 1..n /\ l \in 1..n /\ t[k] = t[l]
  BY <1>5, <1>8
<1> QED
  BY <1>2, <1>8, <1>9

\* All sorted sequences of a set have the same values in the same places.
LEMMA SortedUnique ==
    ASSUME NEW S, IsFiniteSet(S), NEW at \in [S -> Nat],
           NEW s \in SortedBy(at), NEW t \in SortedBy(at), NEW i \in 1..Cardinality(S)
    PROVE  at[s[i]] = at[t[i]]
<1>1. at[s[i]] \in Nat /\ at[t[i]] \in Nat
  BY Sorted
<1>2. at[s[i]] <= at[t[i]] /\ at[t[i]] <= at[s[i]]
  BY SortedLeq
<1> QED
  BY <1>1, <1>2

\* So has a sorted sequence of indexes.
LEMMA SortedIndexes ==
    ASSUME NEW n \in Nat, NEW off \in [1..n -> Nat], NEW p \in SortedBy(off)
    PROVE  /\ DOMAIN p = 1..n
           /\ \A i \in 1..n : p[i] \in 1..n
           /\ \A i, j \in 1..n : p[i] = p[j] => i = j
           /\ \A i, j \in 1..n : i < j => off[p[i]] <= off[p[j]]
<1> DEFINE N == 1..n
<1>1. IsFiniteSet(N) /\ Cardinality(N) = IF 1 > n THEN 0 ELSE n - 1 + 1
  BY FS_Interval
<1>2. N = 1..Cardinality(N)
  BY <1>1
<1>3. off \in [N -> Nat]
  OBVIOUS
<1> HIDE DEF N
<1>4. /\ DOMAIN p = 1..Cardinality(N)
      /\ \A i \in 1..Cardinality(N) : p[i] \in N /\ off[p[i]] \in Nat
      /\ \A i, j \in 1..Cardinality(N) : p[i] = p[j] => i = j
      /\ \A i, j \in 1..Cardinality(N) : i < j => off[p[i]] <= off[p[j]]
  BY <1>1, <1>3, Sorted
<1> QED
  BY <1>2, <1>4 DEF N

\* off is the offsets of the elements of S in order t.
Offsets(S, off, at, t) == \A i \in 1..Cardinality(S) : off[i] = at[t[i]]

\* Sorting what is sorted permutes it like one more way of sorting the set.
LEMMA SortedAgain ==
    ASSUME NEW S, IsFiniteSet(S), NEW at \in [S -> Nat], NEW t \in SortedBy(at),
           NEW off \in [1..Cardinality(S) -> Nat],
           Offsets(S, off, at, t),
           NEW p \in SortedBy(off)
    PROVE  /\ DOMAIN p = 1..Cardinality(S)
           /\ \A i \in 1..Cardinality(S) : p[i] \in 1..Cardinality(S)
           /\ \E u \in SortedBy(at) : \A i \in 1..Cardinality(S) : t[p[i]] = u[i]
<1> DEFINE n == Cardinality(S)
           u == [i \in 1..n |-> t[p[i]]]
<1>1. \A i \in 1..n : off[i] = at[t[i]]
  BY DEF Offsets
<1>2. /\ n \in Nat /\ DOMAIN t = 1..n
      /\ \A j \in 1..n : t[j] \in S
      /\ \A j, k \in 1..n : t[j] = t[k] => j = k
  BY Sorted
<1>4. /\ DOMAIN p = 1..n
      /\ \A j \in 1..n : p[j] \in 1..n
      /\ \A j, k \in 1..n : p[j] = p[k] => j = k
      /\ \A j, k \in 1..n : j < k => off[p[j]] <= off[p[k]]
  BY <1>2, SortedIndexes
<1> HIDE DEF n
<1>6. u \in [1..n -> S] /\ \A j, k \in 1..n : j # k => u[j] # u[k]
  BY <1>2, <1>4
<1>7. u \in SetToSeqs(S)
  BY <1>6 DEF SetToSeqs, n
<1>8. \A j, k \in 1..n : j < k => at[u[j]] <= at[u[k]]
  BY <1>1, <1>4
<1>9. /\ DOMAIN u = 1..n /\ DOMAIN at = S
      /\ \A i \in 1..n : u[i] = t[p[i]]
  OBVIOUS
<1> HIDE DEF u
<1>10. u \in SortedBy(at)
  BY <1>7, <1>8, <1>9 DEF SortedBy
<1> QED
  BY <1>4, <1>9, <1>10 DEF n

\* And every way of sorting the set is one of these.
LEMMA SortedBefore ==
    ASSUME NEW S, IsFiniteSet(S), NEW at \in [S -> Nat], NEW t \in SortedBy(at),
           NEW off \in [1..Cardinality(S) -> Nat],
           Offsets(S, off, at, t),
           NEW u \in SortedBy(at)
    PROVE  \E p \in SortedBy(off) : \A i \in 1..Cardinality(S) : t[p[i]] = u[i]
<1> DEFINE n == Cardinality(S)
           p == [i \in 1..n |-> CHOOSE j \in 1..n : t[j] = u[i]]
<1>1. n \in Nat /\ \A x \in S : \E j \in 1..n : t[j] = x
  BY Sorted
<1>2. /\ \A j \in 1..n : u[j] \in S
      /\ \A j, k \in 1..n : u[j] = u[k] => j = k
      /\ \A j, k \in 1..n : j < k => at[u[j]] <= at[u[k]]
  BY Sorted, SMTT(20)
<1>3. IsFiniteSet(1..n) /\ Cardinality(1..n) = n
  <2>1. \A k \in Nat : IsFiniteSet(1..k) /\ Cardinality(1..k) = IF 1 > k THEN 0 ELSE k - 1 + 1
    BY FS_Interval
  <2> QED
    BY <1>1, <2>1
<1>5. \A i \in 1..n : off[i] = at[t[i]]
  BY DEF Offsets
<1> HIDE DEF n
<1>6. \A i \in 1..n : p[i] \in 1..n /\ t[p[i]] = u[i]
  BY <1>1, <1>2
<1>7. p \in [1..n -> 1..n] /\ DOMAIN p = 1..n
  BY <1>6
<1> HIDE DEF p
<1>8. \A j, k \in 1..n : j # k => p[j] # p[k]
  BY <1>2, <1>6
<1>9. p \in SetToSeqs(1..n)
  BY <1>3, <1>7, <1>8 DEF SetToSeqs
<1>10. \A j, k \in 1..n : j < k => off[p[j]] <= off[p[k]]
  BY <1>2, <1>5, <1>6
<1>11. DOMAIN off = 1..n
  BY DEF n
<1>12. p \in SortedBy(off)
  BY <1>7, <1>9, <1>10, <1>11 DEF SortedBy
<1> QED
  BY <1>6, <1>12 DEF n

LEMMA SortedEitherWay ==
    ASSUME NEW S, IsFiniteSet(S), NEW at \in [S -> Nat], NEW t \in SortedBy(at),
           NEW off \in [1..Cardinality(S) -> Nat],
           Offsets(S, off, at, t)
    PROVE  /\ \A p \in SortedBy(off) : \E u \in SortedBy(at) :
                  \A i \in 1..Cardinality(S) : t[p[i]] = u[i]
           /\ \A u \in SortedBy(at) : \E p \in SortedBy(off) :
                  \A i \in 1..Cardinality(S) : t[p[i]] = u[i]
<1>1. ASSUME NEW p \in SortedBy(off)
      PROVE  \E u \in SortedBy(at) : \A i \in 1..Cardinality(S) : t[p[i]] = u[i]
  BY SortedAgain
<1> QED
  BY <1>1, SortedBefore

-----------------------------------------------------------------------------
(* What FromBuildDir makes and Pack writes.                                *)

Number == Cardinality(DOMAIN build)
At == [k \in DOMAIN build |-> Offset[k]]
File(k) == [offset |-> Offset[k], name |-> EntryName(build[k]), data |-> content[build[k]]]

LEMMA BuildType ==
    ASSUME Inputs, Readable
    PROVE  /\ IsFiniteSet(DOMAIN build) /\ Number \in Nat
           /\ At \in [DOMAIN build -> Nat]
           /\ \A k \in DOMAIN build : File(k) \in [offset : Nat, name : Names, data : Contents]
<1>1. PICK ks \in SUBSET Keys : build \in [ks -> Paths]
  BY DEF Inputs
<1>2. DOMAIN build \subseteq Keys /\ \A k \in DOMAIN build : build[k] \in Paths
  BY <1>1
<1>3. IsFiniteSet(DOMAIN build) /\ Number \in Nat
  BY <1>2, FS_Subset, FS_CardinalityType, BundleAssumption DEF Number
<1>4. \A k \in DOMAIN build : Offset[k] \in Nat /\ content[build[k]] \in Contents
  BY <1>2, BundleAssumption DEF Readable, Inputs
<1>5. \A k \in DOMAIN build : EntryName(build[k]) \in Names
  BY <1>2, BundleAssumption DEF EntryName, Names, Range
<1> QED
  BY <1>3, <1>4, <1>5 DEF At, File

\* The images of a build are its keys in the order of their offsets.
LEMMA LoadedIs ==
    ASSUME Inputs, Readable, NEW files \in Loaded
    PROVE  \E s \in SortedBy(At) :
               files = [i \in 1..Number |-> File(s[i])] /\ \A i \in 1..Number : s[i] \in DOMAIN build
<1>1. PICK s \in SortedBy(At) : files = [i \in DOMAIN s |-> File(s[i])]
  BY Zenon DEF Loaded, At, File
<1>2. DOMAIN s = 1..Number /\ \A i \in 1..Number : s[i] \in DOMAIN build
  BY BuildType, Sorted DEF Number
<1> QED
  BY <1>1, <1>2

LEMMA FilesType ==
    ASSUME Inputs, Readable, NEW files \in Loaded
    PROVE  /\ Number \in Nat /\ DOMAIN files = 1..Number
           /\ \A i \in 1..Number : files[i] \in [offset : Nat, name : Names, data : Contents]
  BY BuildType, LoadedIs

\* Every image of a bundle is of one of the files, the last of its name.
LEMMA BundleIs ==
    ASSUME Inputs, Readable, NEW files \in Loaded, NEW b, b = FromFiles(files)
    PROVE  /\ b.size = size
           /\ b.files \in Seq(ManifestFile)
           /\ DOMAIN b.files = 1..Number /\ Len(b.files) = Number
           /\ \A i \in 1..Number : b.files[i].name = files[i].name /\ b.files[i].sha = files[i].data
           /\ IsFiniteSet(DOMAIN b.data)
           /\ \A i \in 1..Number : files[i].name \in DOMAIN b.data
           /\ \A n \in DOMAIN b.data : n \in Names /\ b.data[n] \in Contents
           /\ \A n \in DOMAIN b.data :
                  \E i \in 1..Number : files[i].name = n /\ b.data[n] = files[i].data
<1> DEFINE names == {files[i].name : i \in DOMAIN files}
           LastOf(n) == CHOOSE i \in DOMAIN files :
               files[i].name = n /\ \A j \in DOMAIN files : files[j].name = n => j <= i
           man == [i \in DOMAIN files |->
               [offset |-> files[i].offset, name |-> files[i].name, sha |-> files[i].data]]
           data == [n \in names |-> files[LastOf(n)].data]
<1>1. /\ Number \in Nat /\ DOMAIN files = 1..Number
      /\ \A i \in 1..Number : files[i] \in [offset : Nat, name : Names, data : Contents]
  BY FilesType
<1>2. b.size = size /\ b.files = man /\ b.data = data
  BY DEF FromFiles
<1>3. /\ man \in Seq(ManifestFile) /\ DOMAIN man = 1..Number /\ Len(man) = Number
      /\ \A i \in 1..Number : man[i].name = files[i].name /\ man[i].sha = files[i].data
  <2>1. \A i \in 1..Number : man[i] \in ManifestFile
    BY <1>1 DEF ManifestFile, Data
  <2>2. man \in [1..Number -> ManifestFile]
    BY <1>1, <2>1
  <2> QED
    BY <1>1, <2>2
<1>4. IsFiniteSet(names)
  <2> DEFINE f == [i \in 1..Number |-> files[i].name]
  <2>1. f \in [1..Number -> names] /\ \A n \in names : \E i \in 1..Number : f[i] = n
    BY <1>1
  <2> HIDE DEF f, names
  <2>2. f \in Surjection(1..Number, names)
    BY <2>1 DEF Surjection
  <2>3. ExistsSurjection(1..Number, names)
    BY <2>2 DEF ExistsSurjection
  <2> QED
    BY <1>1, <2>3, FS_NatSurjection
<1>5. ASSUME NEW n \in names
      PROVE  LastOf(n) \in 1..Number /\ files[LastOf(n)].name = n
  <2> DEFINE S == {i \in 1..Number : files[i].name = n}
  <2>1. S \subseteq 1..Number /\ S # {}
    BY <1>1
  <2> HIDE DEF S
  <2>2. PICK i \in S : \A j \in S : j <= i
    BY <1>1, <2>1, GreatestIndex
  <2>3. i \in DOMAIN files /\ files[i].name = n /\ \A j \in DOMAIN files : files[j].name = n => j <= i
    BY <1>1, <2>2 DEF S
  <2>4. LastOf(n) \in DOMAIN files /\ files[LastOf(n)].name = n
    <3> HIDE <1>1, <1>2, <1>3, <1>4, <2>1, <2>2
    <3> QED
      BY <2>3, Zenon
  <2> QED
    BY <1>1, <2>4
<1> HIDE DEF LastOf
<1>6. DOMAIN data = names /\ \A n \in names : data[n] = files[LastOf(n)].data
  OBVIOUS
<1>7. /\ \A i \in 1..Number : files[i].name \in names
      /\ \A n \in names : n \in Names
  BY <1>1
<1> HIDE DEF names, man, data
<1> QED
  BY <1>1, <1>2, <1>3, <1>4, <1>5, <1>6, <1>7

\* The file that Pack writes: the manifest, then one entry of each name.
LEMMA PackingIs ==
    ASSUME NEW b, IsFiniteSet(DOMAIN b.data)
    PROVE  /\ Len(Packing(b)) \in Nat \ {0} /\ DOMAIN Packing(b) = 1..Len(Packing(b))
           /\ Packing(b)[1] = ManifestEntry(b)
           /\ \A i \in 2..Len(Packing(b)) :
                  \E n \in DOMAIN b.data : Packing(b)[i] = FileEntry(n, b.data[n])
           /\ \A n \in DOMAIN b.data :
                  \E i \in 2..Len(Packing(b)) : Packing(b)[i] = FileEntry(n, b.data[n])
           /\ \A i, j \in 2..Len(Packing(b)) :
                  Packing(b)[i].name = Packing(b)[j].name => i = j
<1> DEFINE S == DOMAIN b.data
           q == SetToSeq(S)
           n == Cardinality(S)
           e == Files(b, q)
<1>1. /\ n \in Nat /\ DOMAIN q = 1..n
      /\ \A i \in 1..n : q[i] \in S
      /\ \A i, j \in 1..n : q[i] = q[j] => i = j
      /\ \A x \in S : \E i \in 1..n : q[i] = x
  BY SetToSeqPermutes, Permutation
<1>2. Packing(b) = <<ManifestEntry(b)>> \o e
  BY DEF Packing
<1> HIDE DEF n, q
<1>3. e \in Seq({e[i] : i \in 1..n}) /\ Len(e) = n /\ \A i \in 1..n : e[i] = FileEntry(q[i], b.data[q[i]])
  BY <1>1 DEF Files
<1> DEFINE p == Packing(b)
<1>4. Len(p) = n + 1 /\ DOMAIN p = 1..(n + 1) /\ p[1] = ManifestEntry(b) /\ \A i \in 1..n : p[i + 1] = e[i]
  BY <1>1, <1>2, <1>3
<1> HIDE DEF p, e
<1>5. \A i \in 2..(n + 1) : i - 1 \in 1..n /\ p[i] = FileEntry(q[i - 1], b.data[q[i - 1]])
  <2> TAKE i \in 2..(n + 1)
  <2>1. i - 1 \in 1..n /\ (i - 1) + 1 = i
    BY <1>1
  <2> QED
    BY <1>3, <1>4, <2>1
<1>6. \A i \in 1..n : i + 1 \in 2..(n + 1) /\ p[i + 1] = FileEntry(q[i], b.data[q[i]])
  BY <1>1, <1>3, <1>4
<1>7. \A i \in 2..(n + 1) : p[i].name = q[i - 1]
  <2>1. \A x, d : FileEntry(x, d).name = x
    BY DEF FileEntry
  <2> QED
    BY <1>5, <2>1
<1>8. \A i, j \in 2..(n + 1) : i - 1 = j - 1 => i = j
  BY <1>1
<1>9. \A i, j \in 2..(n + 1) : p[i].name = p[j].name => i = j
  BY <1>1, <1>5, <1>7, <1>8
<1>10. n + 1 \in Nat \ {0}
  BY <1>1
<1> HIDE DEF S
<1>11. \A i \in 2..(n + 1) : \E x \in S : p[i] = FileEntry(x, b.data[x])
  BY <1>1, <1>5
<1>12. \A x \in S : \E i \in 2..(n + 1) : p[i] = FileEntry(x, b.data[x])
  BY <1>1, <1>6
<1> QED
  BY <1>4, <1>9, <1>10, <1>11, <1>12 DEF p, S

\* Everything in it has the type of an entry.
LEMMA PackingType ==
    ASSUME Inputs, Readable, NEW files \in Loaded, NEW b, b = FromFiles(files)
    PROVE  /\ IsFiniteSet(DOMAIN b.data)
           /\ \A i \in 1..Len(Packing(b)) : Packing(b)[i] \in Entry
<1>1. /\ b.size = size /\ b.files \in Seq(ManifestFile)
      /\ IsFiniteSet(DOMAIN b.data)
      /\ \A n \in DOMAIN b.data : n \in Names /\ b.data[n] \in Contents
  BY BundleIs
<1>2. ManifestEntry(b) \in Entry
  BY <1>1 DEF ManifestEntry, Entry, Inputs
<1>3. \A n \in DOMAIN b.data : FileEntry(n, b.data[n]) \in Entry
  BY <1>1 DEF FileEntry, Entry, Data
<1>4. \A i \in 1..Len(Packing(b)) : i = 1 \/ i \in 2..Len(Packing(b))
  BY <1>1, PackingIs
<1> QED
  BY <1>1, <1>2, <1>3, <1>4, PackingIs

-----------------------------------------------------------------------------
(* Steps.  None changes the build.                                         *)

LEMMA Frame ==
    ASSUME UNCHANGED <<build, content, size>>
    PROVE  /\ Inputs' <=> Inputs
           /\ Readable' <=> Readable
           /\ Loaded' = Loaded
           /\ \A files : FromFiles(files)' = FromFiles(files)
<1>1. Inputs' <=> Inputs
  BY DEF Inputs
<1>2. Readable' <=> Readable
  BY DEF Readable
<1>3. Loaded' = Loaded
  BY DEF Loaded
<1>4. \A files : FromFiles(files)' = FromFiles(files)
  BY DEF FromFiles
<1> QED
  BY <1>1, <1>2, <1>3, <1>4

LEMMA StillCopied ==
    ASSUME UNCHANGED <<build, content, size>>, Readable,
           NEW files \in Loaded, NEW b, b = FromFiles(files), CopyOf(b)',
           step' = "packing" => bundle' = b, Reading' => ReadSoFar'
    PROVE  Copied'
<1>1. Readable' /\ files \in Loaded' /\ b = FromFiles(files)'
  BY Frame
<1> QED
  BY <1>1 DEF Copied

LEMMA CopiedIs ==
    ASSUME IInv, ~NoFile
    PROVE  /\ Inputs /\ Readable
           /\ Reading => ReadSoFar
           /\ \E files \in Loaded : \E b :
                  b = FromFiles(files) /\ CopyOf(b) /\ (step = "packing" => bundle = b)
  BY DEF IInv, Copied

\* An entry is the manifest or an image.
LEMMA EntryIs ==
    ASSUME NEW e \in Entry
    PROVE  /\ e.kind \in {"manifest", "file"}
           /\ e.kind = "manifest" =>
                  e.size \in Sizes /\ e.files \in Seq(ManifestFile)
           /\ e.kind = "file" => e.name \in Names /\ e.data \in Data
  BY DEF Entry

LEMMA PrefixIs ==
    ASSUME NEW S, NEW q \in Seq(S), NEW n \in 0..Len(q)
    PROVE  /\ SubSeq(q, 1, n) \in Seq(S) /\ Len(SubSeq(q, 1, n)) = n
           /\ \A i \in 1..n : i \in DOMAIN q /\ SubSeq(q, 1, n)[i] = q[i]
  OBVIOUS

LEMMA InitStep ==
    ASSUME Init PROVE IInv
<1>1. /\ bundle = NoBundle /\ archive = <<>> /\ read = 0 /\ step = "start"
      /\ faults = 0 /\ footer = FALSE /\ whole = FALSE
  BY DEF Init
<1>2. /\ NoBundle.files = <<>> /\ NoBundle.size = NoSize
      /\ DOMAIN NoBundle.data = {} /\ Range(NoBundle.data) = {}
  BY DEF NoBundle, Range
<1>3. TypeOK
  <2>1. /\ <<>> \in Seq(ManifestFile) /\ <<>> \in Seq(Entry)
        /\ 0 \in 0..Len(<<>>) /\ 0 \in 0..MaxFaults
    BY BundleAssumption
  <2>2. bundle.files \in Seq(ManifestFile) /\ bundle.size = NoSize
    BY <1>1, <1>2, <2>1
  <2>3. DOMAIN bundle.data = {} /\ Range(bundle.data) = {}
    BY <1>1, <1>2
  <2> QED
    BY <1>1, <2>1, <2>2, <2>3 DEF TypeOK
<1>4. DOMAIN bundle = {"size", "files", "data"}
  BY <1>1 DEF NoBundle
<1> QED
  BY <1>1, <1>3, <1>4 DEF Init, IInv, Inputs, Stages, NoFile

LEMMA FromBuildDirStep ==
    ASSUME IInv, FromBuildDir PROVE IInv'
<1>1. /\ step = "start" /\ Readable /\ step' = "packing"
      /\ archive = <<>> /\ read = 0 /\ faults = 0 /\ ~whole
      /\ UNCHANGED <<build, content, size, archive, footer, read, whole, faults>>
  BY DEF FromBuildDir, IInv, Stages
<1>2. PICK files \in Loaded : bundle' = FromFiles(files)
  BY DEF FromBuildDir
<1>3. PICK b : b = FromFiles(files)
  OBVIOUS
<1>4. Inputs /\ TypeOK
  BY DEF IInv
<1>5. /\ b.size = size /\ b.files \in Seq(ManifestFile)
      /\ IsFiniteSet(DOMAIN b.data)
      /\ \A n \in DOMAIN b.data : n \in Names /\ b.data[n] \in Contents
  BY <1>1, <1>3, <1>4, BundleIs
<1>6. TypeOK'
  BY <1>1, <1>2, <1>3, <1>4, <1>5 DEF TypeOK, Inputs, Range, Data
<1>7. CopyOf(b)'
  <2>1. Len(Packing(b)) \in Nat
    BY <1>5, PackingIs
  <2>2. archive' = <<>> /\ ~whole' /\ Len(<<>>) = 0 /\ DOMAIN archive' = {}
    BY <1>1
  <2> QED
    BY <2>1, <2>2 DEF CopyOf
<1>8. Copied'
  BY <1>1, <1>2, <1>3, <1>7, StillCopied DEF Reading
<1>9. DOMAIN bundle' = {"size", "files", "data"}
  BY <1>2 DEF FromFiles
<1> QED
  BY <1>1, <1>4, <1>6, <1>8, <1>9, Frame DEF IInv, Stages

LEMMA FromBuildDirFailsStep ==
    ASSUME IInv, FromBuildDirFails PROVE IInv'
<1>1. /\ step' = "refused" /\ ~whole'
      /\ UNCHANGED <<build, content, size, bundle, archive, footer, read, whole, faults>>
  BY DEF FromBuildDirFails, IInv, Stages
<1>2. TypeOK'
  BY <1>1 DEF IInv, TypeOK
<1> QED
  BY <1>1, <1>2, Frame DEF IInv, Stages, NoFile

LEMMA WriteEntryStep ==
    ASSUME IInv, WriteEntry PROVE IInv'
<1>1. /\ step = "packing" /\ Len(archive) < Len(Packing(bundle))
      /\ archive' = Append(archive, Packing(bundle)[Len(archive) + 1])
      /\ UNCHANGED <<build, content, size, step, bundle, footer, read, whole, faults>>
  BY DEF WriteEntry
<1>2. read = 0 /\ faults = 0 /\ ~whole
  BY <1>1 DEF IInv, Stages
<1>3. ~NoFile
  BY <1>1 DEF NoFile
<1>4. Inputs /\ Readable /\ TypeOK
  BY <1>3, CopiedIs DEF IInv
<1>5. PICK files \in Loaded : \E b : b = FromFiles(files) /\ CopyOf(b) /\ bundle = b
  BY <1>1, <1>3, CopiedIs
<1>6. PICK b : b = FromFiles(files) /\ CopyOf(b) /\ bundle = b
  BY <1>5
<1>7. /\ Len(Packing(b)) \in Nat
      /\ \A i \in 1..Len(Packing(b)) : Packing(b)[i] \in Entry
  BY <1>4, <1>6, PackingIs, PackingType
<1> DEFINE e == Packing(b)[Len(archive) + 1]
<1>8. archive \in Seq(Entry) /\ Len(archive) \in Nat /\ e \in Entry
  BY <1>1, <1>4, <1>6, <1>7 DEF TypeOK
<1>9. /\ archive' \in Seq(Entry) /\ Len(archive') = Len(archive) + 1
      /\ \A i \in DOMAIN archive : archive'[i] = archive[i]
      /\ archive'[Len(archive) + 1] = e
      /\ \A i \in DOMAIN archive' : i \in DOMAIN archive \/ i = Len(archive) + 1
  <2> HIDE DEF e
  <2>1. archive' = Append(archive, e)
    BY <1>1, <1>6 DEF e
  <2> QED
    BY <1>8, <2>1
<1>10. TypeOK'
  BY <1>1, <1>2, <1>4, <1>9 DEF TypeOK
<1>11. CopyOf(b)'
  <2>1. \A i \in DOMAIN archive : archive[i] = Packing(b)[i]
    BY <1>2, <1>6 DEF CopyOf
  <2>2. \A i \in DOMAIN archive' : archive'[i] = Packing(b)[i]
    BY <1>9, <2>1
  <2>3. \A f : Alike(f, f)
    BY DEF Alike
  <2>4. Len(archive') <= Len(Packing(b))
    BY <1>1, <1>6, <1>7, <1>8, <1>9
  <2> QED
    BY <1>1, <1>2, <2>2, <2>3, <2>4 DEF CopyOf
<1>12. Copied'
  BY <1>1, <1>4, <1>6, <1>11, StillCopied DEF Reading
<1> QED
  BY <1>1, <1>2, <1>4, <1>10, <1>12, Frame DEF IInv, Stages

LEMMA CloseStep ==
    ASSUME IInv, Close PROVE IInv'
<1>1. /\ step = "packing" /\ Len(archive) = Len(Packing(bundle))
      /\ footer' = TRUE /\ whole' = TRUE
      /\ step' = "packed" /\ bundle' = NoBundle
      /\ UNCHANGED <<build, content, size, archive, read, faults>>
  BY DEF Close
<1>2. read = 0
  BY <1>1 DEF IInv, Stages
<1>3. ~NoFile
  BY <1>1 DEF NoFile
<1>4. Inputs /\ Readable /\ TypeOK
  BY <1>3, CopiedIs DEF IInv
<1>5. PICK files \in Loaded : \E b : b = FromFiles(files) /\ CopyOf(b) /\ bundle = b
  BY <1>1, <1>3, CopiedIs
<1>6. PICK b : b = FromFiles(files) /\ CopyOf(b) /\ bundle = b
  BY <1>5
<1>7. /\ NoBundle.files = <<>> /\ NoBundle.size = NoSize
      /\ DOMAIN NoBundle.data = {} /\ Range(NoBundle.data) = {}
      /\ DOMAIN NoBundle = {"size", "files", "data"}
  BY DEF NoBundle, Range
<1>8. TypeOK'
  BY <1>1, <1>4, <1>7 DEF TypeOK
<1>9. CopyOf(b)'
  BY <1>1, <1>6 DEF CopyOf
<1>10. Copied'
  BY <1>1, <1>4, <1>6, <1>9, StillCopied DEF Reading
<1> QED
  BY <1>1, <1>2, <1>4, <1>7, <1>8, <1>10, Frame DEF IInv, Stages

\* What is left of the file when it is cut is of the same bundle, if nobody says
\* that it is whole.
LEMMA CutCopy ==
    ASSUME TypeOK, NEW b, CopyOf(b), NEW n \in 0..Len(archive),
           archive' = SubSeq(archive, 1, n),
           Len(Packing(b)) \in Nat, faults' = 0 => faults = 0 /\ ~whole'
    PROVE  /\ archive' \in Seq(Entry) /\ Len(archive') = n
           /\ CopyOf(b)'
<1>1. archive \in Seq(Entry) /\ Len(archive) \in Nat
  BY DEF TypeOK
<1>2. /\ archive' \in Seq(Entry) /\ Len(archive') = n
      /\ \A i \in 1..n : i \in DOMAIN archive /\ archive'[i] = archive[i]
  BY <1>1, PrefixIs
<1>3. DOMAIN archive' = 1..n /\ n <= Len(archive)
  BY <1>1, <1>2
<1>4. Len(archive) <= Len(Packing(b))
  BY DEF CopyOf
<1>5. Len(archive') <= Len(Packing(b))
  BY <1>1, <1>2, <1>3, <1>4
<1>6. \A i \in DOMAIN archive' : Alike(archive'[i], Packing(b)[i])
  BY <1>2, <1>3 DEF CopyOf
<1>7. faults' = 0 => \A i \in DOMAIN archive' : archive'[i] = Packing(b)[i]
  BY <1>2, <1>3 DEF CopyOf
<1> QED
  BY <1>2, <1>5, <1>6, <1>7 DEF CopyOf

LEMMA PackAbortsStep ==
    ASSUME IInv, PackAborts PROVE IInv'
<1>1. /\ step = "packing" /\ step' = "aborted" /\ bundle' = NoBundle
      /\ footer' \in BOOLEAN
      /\ UNCHANGED <<build, content, size, read, whole, faults>>
  BY DEF PackAborts
<1>2. PICK n \in 0..Len(archive) : archive' = SubSeq(archive, 1, n)
  BY DEF PackAborts
<1>3. read = 0 /\ faults = 0 /\ ~whole /\ ~NoFile
  BY <1>1 DEF IInv, Stages, NoFile
<1>4. Inputs /\ Readable /\ TypeOK
  BY <1>3, CopiedIs DEF IInv
<1>5. PICK files \in Loaded : \E b : b = FromFiles(files) /\ CopyOf(b)
  BY <1>3, CopiedIs
<1>6. PICK b : b = FromFiles(files) /\ CopyOf(b)
  BY <1>5
<1>7. Len(Packing(b)) \in Nat
  BY <1>4, <1>6, PackingIs, PackingType
<1>8. archive' \in Seq(Entry) /\ Len(archive') = n /\ CopyOf(b)'
  BY <1>1, <1>2, <1>3, <1>4, <1>6, <1>7, CutCopy
<1>9. /\ NoBundle.files = <<>> /\ NoBundle.size = NoSize
      /\ DOMAIN NoBundle.data = {} /\ Range(NoBundle.data) = {}
      /\ DOMAIN NoBundle = {"size", "files", "data"}
  BY DEF NoBundle, Range
<1>10. TypeOK'
  <2>1. read' \in 0..Len(archive')
    BY <1>1, <1>3, <1>8
  <2> QED
    BY <1>1, <1>4, <1>8, <1>9, <2>1 DEF TypeOK
<1>11. Copied'
  BY <1>1, <1>4, <1>6, <1>8, StillCopied DEF Reading
<1> QED
  BY <1>1, <1>3, <1>4, <1>9, <1>10, <1>11, Frame DEF IInv, Stages

LEMMA TruncateStep ==
    ASSUME IInv, Truncate PROVE IInv'
<1>1. /\ step \in {"packed", "aborted"} /\ faults < MaxFaults /\ faults' = faults + 1
      /\ footer' \in BOOLEAN
      /\ UNCHANGED <<build, content, size, step, bundle, read, whole>>
  BY DEF Truncate
<1>2. PICK n \in 0..Len(archive) : archive' = SubSeq(archive, 1, n)
  BY DEF Truncate
<1>3. read = 0 /\ ~NoFile
  BY <1>1 DEF IInv, Stages, NoFile
<1>4. Inputs /\ Readable /\ TypeOK
  BY <1>3, CopiedIs DEF IInv
<1>5. PICK files \in Loaded : \E b : b = FromFiles(files) /\ CopyOf(b)
  BY <1>3, CopiedIs
<1>6. PICK b : b = FromFiles(files) /\ CopyOf(b)
  BY <1>5
<1>7. Len(Packing(b)) \in Nat /\ faults' \in 0..MaxFaults /\ faults' # 0
  BY <1>1, <1>4, <1>6, PackingIs, PackingType, BundleAssumption DEF TypeOK
<1>8. archive' \in Seq(Entry) /\ Len(archive') = n /\ CopyOf(b)'
  BY <1>2, <1>4, <1>6, <1>7, CutCopy
<1>9. TypeOK'
  <2>1. read' \in 0..Len(archive')
    BY <1>1, <1>3, <1>8
  <2> QED
    BY <1>1, <1>4, <1>7, <1>8, <2>1 DEF TypeOK
<1>10. Copied'
  BY <1>1, <1>4, <1>6, <1>8, StillCopied DEF Reading
<1> QED
  BY <1>1, <1>3, <1>4, <1>9, <1>10, Frame DEF IInv, Stages

\* Damage of one entry leaves an entry of the same kind, for the same names.
LEMMA DamagedEntry ==
    ASSUME IInv, Damage
    PROVE  \E i \in DOMAIN archive : \E e \in Entry :
               archive' = [archive EXCEPT ![i] = e] /\ Alike(e, archive[i])
<1>1. archive \in Seq(Entry)
  BY DEF IInv, TypeOK
<1>2. PICK i \in DOMAIN archive :
        \/ /\ archive[i].kind = "file"
           /\ archive' = [archive EXCEPT ![i].data = Damaged]
        \/ /\ archive[i].kind = "manifest"
           /\ \E j \in DOMAIN archive[i].files, o \in Range(Offset) :
                  archive' = [archive EXCEPT ![i].files[j].offset = o]
        \/ /\ archive[i].kind = "manifest"
           /\ \E s \in Sizes : archive' = [archive EXCEPT ![i].size = s]
  BY DEF Damage
<1>3. PICK a \in Entry : a = archive[i]
  BY <1>1
<1>4. CASE /\ a.kind = "file"
           /\ archive' = [archive EXCEPT ![i].data = Damaged]
  <2>1. a \in [kind : {"file"}, name : Names, data : Data]
    BY <1>4 DEF Entry
  <2>2. [a EXCEPT !.data = Damaged] \in Entry /\ Alike([a EXCEPT !.data = Damaged], a)
    BY <2>1 DEF Entry, Alike, Data
  <2>3. archive' = [archive EXCEPT ![i] = [a EXCEPT !.data = Damaged]]
    BY <1>3, <1>4
  <2> QED
    BY <1>3, <2>2, <2>3
<1>5. ASSUME a.kind = "manifest", NEW j \in DOMAIN a.files, NEW o \in Range(Offset),
             archive' = [archive EXCEPT ![i].files[j].offset = o]
      PROVE  \E e \in Entry : archive' = [archive EXCEPT ![i] = e] /\ Alike(e, archive[i])
  <2> DEFINE f == [a.files[j] EXCEPT !.offset = o]
             fs == [a.files EXCEPT ![j] = f]
             e == [a EXCEPT !.files = fs]
  <2>1. a \in [kind : {"manifest"}, size : Sizes, files : Seq(ManifestFile)]
    BY <1>5 DEF Entry
  <2>2. a.files \in Seq(ManifestFile) /\ a.files[j] \in ManifestFile
    BY <1>5, <2>1
  <2>3. o \in Nat
    BY BundleAssumption DEF Range
  <2>4. f \in ManifestFile /\ f.name = a.files[j].name /\ f.sha = a.files[j].sha
    BY <2>2, <2>3 DEF ManifestFile
  <2>5. archive' = [archive EXCEPT ![i] = e]
    BY <1>3, <1>5
  <2> HIDE DEF f
  <2>6. /\ fs \in Seq(ManifestFile) /\ DOMAIN fs = DOMAIN a.files
        /\ \A k \in DOMAIN a.files : fs[k].name = a.files[k].name /\ fs[k].sha = a.files[k].sha
    BY <2>2, <2>4
  <2> HIDE DEF fs
  <2>7. e \in Entry /\ e.kind = a.kind /\ e.kind = "manifest" /\ e.files = fs
    BY <2>1, <2>6 DEF Entry
  <2> HIDE DEF e
  <2>8. Alike(e, a)
    BY <2>6, <2>7 DEF Alike
  <2> QED
    BY <1>3, <2>5, <2>7, <2>8
<1>6. ASSUME a.kind = "manifest", NEW s \in Sizes, archive' = [archive EXCEPT ![i].size = s]
      PROVE  \E e \in Entry : archive' = [archive EXCEPT ![i] = e] /\ Alike(e, archive[i])
  <2>1. a \in [kind : {"manifest"}, size : Sizes, files : Seq(ManifestFile)]
    BY <1>6 DEF Entry
  <2>2. [a EXCEPT !.size = s] \in Entry /\ Alike([a EXCEPT !.size = s], a)
    BY <2>1 DEF Entry, Alike
  <2>3. archive' = [archive EXCEPT ![i] = [a EXCEPT !.size = s]]
    BY <1>3, <1>6
  <2> QED
    BY <1>3, <2>2, <2>3
<1> QED
  BY <1>2, <1>3, <1>4, <1>5, <1>6

LEMMA DamageStep ==
    ASSUME IInv, Damage PROVE IInv'
<1>1. /\ step \in {"packed", "aborted"} /\ faults < MaxFaults /\ faults' = faults + 1
      /\ UNCHANGED <<build, content, size, step, bundle, footer, read, whole>>
  BY DEF Damage
<1>2. PICK i \in DOMAIN archive, e \in Entry :
          archive' = [archive EXCEPT ![i] = e] /\ Alike(e, archive[i])
  BY DamagedEntry
<1>3. read = 0 /\ ~NoFile
  BY <1>1 DEF IInv, Stages, NoFile
<1>4. Inputs /\ Readable /\ TypeOK
  BY <1>3, CopiedIs DEF IInv
<1>5. PICK files \in Loaded : \E b : b = FromFiles(files) /\ CopyOf(b)
  BY <1>3, CopiedIs
<1>6. PICK b : b = FromFiles(files) /\ CopyOf(b)
  BY <1>5
<1>7. archive \in Seq(Entry) /\ faults' \in 0..MaxFaults /\ faults' # 0
  BY <1>1, <1>4, BundleAssumption DEF TypeOK
<1>8. /\ archive' \in Seq(Entry) /\ Len(archive') = Len(archive)
      /\ DOMAIN archive' = DOMAIN archive
      /\ archive'[i] = e /\ \A j \in DOMAIN archive : j # i => archive'[j] = archive[j]
  BY <1>2, <1>7
<1>9. TypeOK'
  BY <1>1, <1>4, <1>7, <1>8 DEF TypeOK
<1>10. CopyOf(b)'
  <2>1. Alike(archive[i], Packing(b)[i])
    BY <1>6 DEF CopyOf
  <2>2. Alike(e, Packing(b)[i])
    <3> DEFINE f == Packing(b)[i]
               a == archive[i]
    <3>1. Alike(e, a) /\ Alike(a, f)
      BY <1>2, <2>1
    <3> HIDE DEF a, f
    <3>2. Alike(e, f)
      BY <3>1, Zenon DEF Alike
    <3> QED
      BY <3>2 DEF f
  <2>3. \A j \in DOMAIN archive' : Alike(archive'[j], Packing(b)[j])
    BY <1>6, <1>8, <2>2 DEF CopyOf
  <2> QED
    BY <1>6, <1>7, <1>8, <2>3 DEF CopyOf
<1>11. Copied'
  BY <1>1, <1>4, <1>6, <1>10, StillCopied DEF Reading
<1> QED
  BY <1>1, <1>3, <1>4, <1>9, <1>11, Frame DEF IInv, Stages

LEMMA StartOpenStep ==
    ASSUME IInv, StartOpen PROVE IInv'
<1>1. /\ step \in {"packed", "aborted"} /\ step' = "reading"
      /\ read' = 0 /\ bundle' = NoBundle
      /\ UNCHANGED <<build, content, size, archive, footer, whole, faults>>
  BY DEF StartOpen
<1>2. ~NoFile
  BY <1>1 DEF NoFile
<1>3. Inputs /\ Readable /\ TypeOK
  BY <1>2, CopiedIs DEF IInv
<1>4. PICK files \in Loaded : \E b : b = FromFiles(files) /\ CopyOf(b)
  BY <1>2, CopiedIs
<1>5. PICK b : b = FromFiles(files) /\ CopyOf(b)
  BY <1>4
<1>6. /\ NoBundle.files = <<>> /\ NoBundle.size = NoSize
      /\ DOMAIN NoBundle.data = {} /\ Range(NoBundle.data) = {}
      /\ DOMAIN NoBundle = {"size", "files", "data"}
  BY DEF NoBundle, Range
<1>7. TypeOK'
  BY <1>1, <1>3, <1>6 DEF TypeOK
<1>8. CopyOf(b)'
  BY <1>1, <1>5 DEF CopyOf
<1>9. ReadSoFar'
  <2>1. 2..read' = {} /\ DOMAIN bundle'.data = {} /\ ~(read' > 0)
    BY <1>1, <1>6
  <2> QED
    BY <2>1 DEF ReadSoFar
<1>10. Copied'
  BY <1>1, <1>3, <1>5, <1>8, <1>9, StillCopied
<1> QED
  BY <1>1, <1>3, <1>6, <1>7, <1>10, Frame DEF IInv, Stages

\* Whatever became of the file, what is left of it begins with the manifest, the
\* rest are images, and no two of one name.
LEMMA ArchiveIs ==
    ASSUME IInv, ~NoFile
    PROVE  /\ 1 \in DOMAIN archive => archive[1].kind = "manifest"
           /\ \A i \in 2..Len(archive) : archive[i].kind = "file"
           /\ \A i, j \in 2..Len(archive) : archive[i].name = archive[j].name => i = j
<1>1. Inputs /\ Readable /\ archive \in Seq(Entry)
  BY CopiedIs DEF IInv, TypeOK
<1>2. PICK files \in Loaded : \E b : b = FromFiles(files) /\ CopyOf(b)
  BY CopiedIs
<1>3. PICK b : b = FromFiles(files) /\ CopyOf(b)
  BY <1>2
<1> DEFINE p == Packing(b)
<1>4. /\ Len(p) \in Nat \ {0} /\ p[1] = ManifestEntry(b)
      /\ \A i \in 2..Len(p) : \E n \in DOMAIN b.data : p[i] = FileEntry(n, b.data[n])
      /\ \A i, j \in 2..Len(p) : p[i].name = p[j].name => i = j
  BY <1>1, <1>3, PackingIs, PackingType
<1>5. Len(archive) <= Len(p) /\ \A i \in DOMAIN archive : Alike(archive[i], p[i])
  BY <1>3 DEF CopyOf
<1>6. p[1].kind = "manifest"
  BY <1>4 DEF ManifestEntry
<1>7. \A i \in 2..Len(p) : p[i].kind = "file"
  <2>1. \A x, d : FileEntry(x, d).kind = "file"
    BY DEF FileEntry
  <2> QED
    BY <1>4, <2>1
<1> HIDE DEF p
<1>8. \A i \in 2..Len(archive) : i \in DOMAIN archive /\ i \in 2..Len(p)
  BY <1>1, <1>4, <1>5
<1>9. /\ 1 \in DOMAIN archive => archive[1].kind = "manifest"
      /\ \A i \in 2..Len(archive) : archive[i].kind = "file" /\ archive[i].name = p[i].name
  BY <1>5, <1>6, <1>7, <1>8 DEF Alike
<1>10. \A i, j \in 2..Len(archive) : archive[i].name = archive[j].name => i = j
  BY <1>4, <1>8, <1>9
<1> QED
  BY <1>9, <1>10

LEMMA ReadEntryStep ==
    ASSUME IInv, ReadEntry PROVE IInv'
<1> DEFINE e == archive[read + 1]
           newData == [n \in DOMAIN bundle.data \cup {e.name} |->
                          IF n = e.name THEN e.data ELSE bundle.data[n]]
<1>1. /\ step = "reading" /\ read < Len(archive) /\ read' = read + 1
      /\ UNCHANGED <<build, content, size, step, archive, footer, whole, faults>>
      /\ bundle' = IF e.kind = "manifest" THEN [bundle EXCEPT !.size = e.size, !.files = e.files]
                   ELSE [bundle EXCEPT !.data = newData]
  BY DEF ReadEntry
<1>2. ~NoFile
  BY <1>1 DEF NoFile
<1>3. Inputs /\ Readable /\ TypeOK /\ ReadSoFar /\ DOMAIN bundle = {"size", "files", "data"}
  BY <1>1, <1>2, CopiedIs DEF IInv, Stages, Reading
<1>4. PICK files \in Loaded : \E b : b = FromFiles(files) /\ CopyOf(b)
  BY <1>2, CopiedIs
<1>5. PICK b : b = FromFiles(files) /\ CopyOf(b)
  BY <1>4
<1>6. /\ archive \in Seq(Entry) /\ read \in Nat /\ read + 1 \in DOMAIN archive /\ e \in Entry
      /\ read' \in 0..Len(archive) /\ Len(archive) \in Nat
      /\ read = 0 \/ read + 1 \in 2..Len(archive)
  BY <1>1, <1>3 DEF TypeOK
<1>7. CopyOf(b)'
  BY <1>1, <1>5 DEF CopyOf
<1>8. ASSUME TypeOK', ReadSoFar', DOMAIN bundle' = {"size", "files", "data"}
      PROVE  IInv'
  <2>1. Copied'
    BY <1>1, <1>3, <1>5, <1>7, <1>8, StillCopied
  <2> QED
    BY <1>1, <1>3, <1>8, <2>1, Frame DEF IInv, Stages
<1>9. CASE read = 0
  <2>1. read + 1 = 1 /\ 1 \in DOMAIN archive
    BY <1>6, <1>9
  <2>2. e.kind = "manifest" /\ e = archive[1]
    BY <1>2, <2>1, ArchiveIs
  <2>3. e.size \in Sizes /\ e.files \in Seq(ManifestFile)
    BY <1>6, <2>2, EntryIs
  <2>4. /\ bundle'.size = e.size /\ bundle'.files = e.files /\ bundle'.data = bundle.data
        /\ DOMAIN bundle' = {"size", "files", "data"}
    <3> HIDE DEF e
    <3> QED
      BY <1>1, <1>3, <2>2
  <2>5. TypeOK'
    BY <1>1, <1>3, <1>6, <2>3, <2>4 DEF TypeOK
  <2>6. ReadSoFar'
    <3>1. 2..read = {} /\ 2..read' = {}
      BY <1>1, <1>9
    <3>2. DOMAIN bundle'.data = {}
      BY <1>3, <2>4, <3>1 DEF ReadSoFar
    <3> QED
      BY <1>1, <2>2, <2>4, <3>1, <3>2 DEF ReadSoFar
  <2> QED
    BY <1>8, <2>4, <2>5, <2>6
<1>10. CASE read # 0
  <2>1. read + 1 \in 2..Len(archive) /\ read > 0
    BY <1>6, <1>10
  <2>2. e.kind = "file"
    BY <1>2, <2>1, ArchiveIs
  <2>3. e.name \in Names /\ e.data \in Data
    BY <1>6, <2>2, EntryIs
  <2>4. /\ bundle'.size = bundle.size /\ bundle'.files = bundle.files
        /\ bundle'.data = newData
        /\ DOMAIN bundle' = {"size", "files", "data"}
    <3>1. bundle' = [bundle EXCEPT !.data = newData]
      BY <1>1, <2>2
    <3> HIDE DEF newData
    <3> QED
      BY <1>3, <3>1
  <2>5. /\ DOMAIN newData = DOMAIN bundle.data \cup {e.name}
        /\ newData[e.name] = e.data
        /\ \A n \in DOMAIN bundle.data : n # e.name => newData[n] = bundle.data[n]
    OBVIOUS
  <2> HIDE DEF newData
  <2>6. TypeOK'
    <3>1. DOMAIN newData \subseteq Names
      BY <1>3, <2>3, <2>5 DEF TypeOK
    <3>2. \A n \in DOMAIN newData : newData[n] \in Data
      BY <1>3, <2>3, <2>5 DEF TypeOK, Range
    <3>3. Range(newData) \subseteq Data
      BY <3>2 DEF Range
    <3> QED
      BY <1>1, <1>3, <1>6, <2>4, <3>1, <3>3 DEF TypeOK
  <2>7. ReadSoFar'
    <3>1. \A i \in 2..read' : i = read + 1 \/ i \in 2..read
      BY <1>1, <1>6
    <3>2. /\ read + 1 \in 2..read' /\ \A i \in 2..read : i \in 2..read' /\ i # read + 1
          /\ \A i \in 2..read' : i \in 2..Len(archive)
      BY <1>1, <1>6, <2>1
    <3>3. DOMAIN newData = {archive[i].name : i \in 2..read'}
      <4>1. DOMAIN bundle.data = {archive[i].name : i \in 2..read}
        BY <1>3 DEF ReadSoFar
      <4> QED
        BY <2>5, <3>1, <3>2, <4>1
    <3>4. ASSUME NEW i \in 2..read' PROVE newData[archive[i].name] = archive[i].data
      <4>1. CASE i = read + 1
        BY <2>5, <4>1
      <4>2. CASE i \in 2..read
        <5>1. archive[i].name # e.name
          BY <1>2, <2>1, <3>2, <4>2, ArchiveIs
        <5>2. archive[i].name \in DOMAIN bundle.data /\ bundle.data[archive[i].name] = archive[i].data
          BY <1>3, <4>2 DEF ReadSoFar
        <5> QED
          BY <2>5, <5>1, <5>2
      <4> QED
        BY <3>1, <4>1, <4>2
    <3>5. bundle'.files = archive[1].files /\ bundle'.size = archive[1].size
      BY <1>3, <2>1, <2>4 DEF ReadSoFar
    <3> QED
      BY <1>1, <2>4, <3>3, <3>4, <3>5 DEF ReadSoFar
  <2> QED
    BY <1>8, <2>4, <2>6, <2>7
<1> QED
  BY <1>9, <1>10

LEMMA VerifyStep ==
    ASSUME IInv, Verify PROVE IInv'
<1>1. /\ step = "reading" /\ read = Len(archive)
      /\ step' = IF AtEnd /\ AllIntact THEN "opened" ELSE "refused"
      /\ UNCHANGED <<build, content, size, bundle, archive, footer, read, whole, faults>>
  BY DEF Verify, AllIntact
<1>2. ~NoFile
  BY <1>1 DEF NoFile
<1>3. Inputs /\ Readable /\ TypeOK /\ ReadSoFar /\ DOMAIN bundle = {"size", "files", "data"}
  BY <1>1, <1>2, CopiedIs DEF IInv, Stages, Reading
<1>4. PICK files \in Loaded : \E b : b = FromFiles(files) /\ CopyOf(b)
  BY <1>2, CopiedIs
<1>5. PICK b : b = FromFiles(files) /\ CopyOf(b)
  BY <1>4
<1>6. CopyOf(b)' /\ ReadSoFar'
  BY <1>1, <1>3, <1>5 DEF CopyOf, ReadSoFar
<1>7. AllIntact' <=> AllIntact
  BY <1>1 DEF AllIntact, Intact
<1>8. AtEnd' <=> AtEnd
  BY <1>1 DEF AtEnd, HaveManifest
<1>9. TypeOK'
  BY <1>1, <1>3 DEF TypeOK
<1>10. Copied'
  BY <1>1, <1>3, <1>5, <1>6, StillCopied
<1> QED
  BY <1>1, <1>3, <1>7, <1>8, <1>9, <1>10, Frame DEF IInv, Stages

LEMMA Invariance == Spec => []IInv
<1>1. Init => IInv
  BY InitStep
<1>2. IInv /\ [Next]_vars => IInv'
  <2> SUFFICES ASSUME IInv, [Next]_vars PROVE IInv'
    OBVIOUS
  <2>1. CASE UNCHANGED vars
    <3>1. TypeOK' /\ Inputs'
      BY <2>1 DEF IInv, TypeOK, Inputs, vars
    <3>2. Stages'
      BY <2>1 DEF IInv, Stages, AtEnd, HaveManifest, AllIntact, Intact, vars
    <3>3. CASE NoFile
      BY <2>1, <3>1, <3>2, <3>3 DEF IInv, NoFile, vars
    <3>4. CASE ~NoFile
      <4>1. PICK files \in Loaded : \E b :
              b = FromFiles(files) /\ CopyOf(b) /\ (step = "packing" => bundle = b)
        BY <3>4, CopiedIs
      <4>2. PICK b : b = FromFiles(files) /\ CopyOf(b) /\ (step = "packing" => bundle = b)
        BY <4>1
      <4>3. CopyOf(b)' /\ (step' = "packing" => bundle' = b)
        BY <2>1, <4>2 DEF CopyOf, vars
      <4>4. Readable /\ (Reading' => ReadSoFar')
        BY <2>1, <3>4, CopiedIs DEF Reading, ReadSoFar, vars
      <4> QED
        BY <2>1, <3>1, <3>2, <4>2, <4>3, <4>4, StillCopied DEF IInv, vars
    <3> QED
      BY <3>3, <3>4
  <2> QED
    BY <2>1, FromBuildDirStep, FromBuildDirFailsStep, WriteEntryStep, CloseStep, PackAbortsStep,
       TruncateStep, DamageStep, StartOpenStep, ReadEntryStep, VerifyStep DEF Next
<1> QED
  BY <1>1, <1>2, PTL DEF Spec

-----------------------------------------------------------------------------
(* Type correctness. *)

\* Whatever is built, packed, damaged and read: names are base names, entries are
\* manifests and images, Open is within the file.
THEOREM TypeCorrect == Spec => []TypeOK
<1>1. IInv => TypeOK
  BY DEF IInv
<1> QED
  BY <1>1, Invariance, PTL

-----------------------------------------------------------------------------
(* A bundle that opens has the plan of the build.                          *)

\* What Open accepts has the names and digests of the build's images.
LEMMA OpenedIs ==
    ASSUME IInv, step = "opened", NEW files \in Loaded, NEW b, b = FromFiles(files), CopyOf(b)
    PROVE  /\ DOMAIN bundle.files = 1..Number
           /\ \A i \in 1..Number :
                  bundle.data[bundle.files[i].name] = files[i].data
           /\ faults = 0 => bundle.size = size
<1>1. ~NoFile /\ Reading
  BY DEF NoFile, Reading
<1>2. /\ Inputs /\ Readable /\ TypeOK /\ ReadSoFar
      /\ read = Len(archive) /\ AtEnd /\ AllIntact
  BY <1>1, CopiedIs DEF IInv, Stages
<1>3. 1 \in DOMAIN archive /\ read > 0
  BY <1>2 DEF AtEnd, HaveManifest, TypeOK
<1>4. archive[1].kind = "manifest" /\ bundle.files = archive[1].files /\ bundle.size = archive[1].size
  BY <1>1, <1>2, <1>3, ArchiveIs DEF ReadSoFar
<1>5. /\ b.size = size /\ DOMAIN b.files = 1..Number
      /\ \A i \in 1..Number : b.files[i].sha = files[i].data
      /\ Packing(b)[1] = ManifestEntry(b)
  <2>1. /\ b.size = size /\ DOMAIN b.files = 1..Number /\ IsFiniteSet(DOMAIN b.data)
        /\ \A i \in 1..Number : b.files[i].sha = files[i].data
    BY <1>2, BundleIs
  <2> QED
    BY <2>1, PackingIs
<1>6. Packing(b)[1].files = b.files /\ Packing(b)[1].size = size
  BY <1>5 DEF ManifestEntry
<1>7. /\ DOMAIN bundle.files = 1..Number
      /\ \A i \in 1..Number : bundle.files[i].sha = files[i].data
  <2>1. Alike(archive[1], Packing(b)[1])
    BY <1>3 DEF CopyOf
  <2>2. /\ DOMAIN bundle.files = DOMAIN b.files
        /\ \A i \in DOMAIN bundle.files : bundle.files[i].sha = b.files[i].sha
    BY <1>4, <1>6, <2>1 DEF Alike
  <2> QED
    BY <1>5, <2>2
<1>8. \A i \in 1..Number : bundle.data[bundle.files[i].name] = files[i].data
  BY <1>2, <1>7 DEF AllIntact, Intact
<1>9. faults = 0 => bundle.size = size
  BY <1>3, <1>4, <1>6 DEF CopyOf
<1> QED
  BY <1>7, <1>8, <1>9

LEMMA OpenedSamePlan ==
    ASSUME IInv, step = "opened", ManifestKept
    PROVE  FlashFiles = BuildPlans
<1>1. ~NoFile
  BY DEF NoFile
<1>2. Inputs /\ Readable /\ TypeOK
  BY <1>1, CopiedIs DEF IInv
<1>3. PICK files \in Loaded : \E b : b = FromFiles(files) /\ CopyOf(b)
  BY <1>1, CopiedIs
<1>4. /\ DOMAIN bundle.files = 1..Number
      /\ \A i \in 1..Number : bundle.data[bundle.files[i].name] = files[i].data
  BY <1>3, OpenedIs
<1>5. /\ IsFiniteSet(DOMAIN build) /\ Number \in Nat
      /\ At \in [DOMAIN build -> Nat]
  BY <1>2, BuildType
<1>6. PICK t \in SortedBy(At) : /\ files = [i \in 1..Number |-> File(t[i])]
                                /\ \A i \in 1..Number : t[i] \in DOMAIN build
  BY <1>2, LoadedIs
<1>7. PICK g \in Loaded : [i \in DOMAIN g |-> g[i].offset]
                              = [i \in DOMAIN bundle.files |-> bundle.files[i].offset]
  BY DEF ManifestKept
<1>8. PICK s \in SortedBy(At) : /\ g = [i \in 1..Number |-> File(s[i])]
                                /\ \A i \in 1..Number : s[i] \in DOMAIN build
  BY <1>2, LoadedIs
<1> DEFINE off == [i \in DOMAIN bundle.files |-> bundle.files[i].offset]
<1>9. ASSUME NEW k \in DOMAIN build PROVE File(k).offset = At[k]
  BY DEF File, At
<1>10. ASSUME NEW i \in 1..Number PROVE off[i] = At[t[i]] /\ off[i] \in Nat
  <2>1. off[i] = g[i].offset
    <3>1. DOMAIN g = 1..Number
      BY <1>8
    <3>2. [j \in DOMAIN g |-> g[j].offset][i] = g[i].offset
      BY <3>1
    <3> QED
      BY <1>7, <3>2
  <2>2. g[i].offset = At[s[i]] /\ s[i] \in DOMAIN build
    BY <1>8, <1>9
  <2>3. At[s[i]] = At[t[i]]
    BY <1>5, SortedUnique DEF Number
  <2> QED
    BY <1>5, <2>1, <2>2, <2>3
<1>11. off \in [1..Number -> Nat]
  BY <1>4, <1>10
<1>12. \A i \in 1..Number : off[i] = bundle.files[i].offset
  BY <1>4
<1>13. FlashFiles = {[i \in DOMAIN p |-> [offset |-> bundle.files[p[i]].offset,
                          data |-> bundle.data[bundle.files[p[i]].name]]] : p \in SortedBy(off)}
  BY Zenon DEF FlashFiles
<1> DEFINE Plan(u) == [i \in 1..Number |-> [offset |-> At[u[i]], data |-> content[build[u[i]]]]]
       Read(p) == [i \in DOMAIN p |-> [offset |-> bundle.files[p[i]].offset,
                          data |-> bundle.data[bundle.files[p[i]].name]]]
       Through(p, u) == \A i \in 1..Number : t[p[i]] = u[i]
<1> HIDE DEF off, Through
<1>14. ASSUME NEW p \in SortedBy(off), NEW u, Through(p, u)
       PROVE  Read(p) = Plan(u)
  <2>1. DOMAIN p = 1..Number /\ \A i \in 1..Number : p[i] \in 1..Number
    BY <1>5, <1>11, SortedIndexes
  <2>2. ASSUME NEW i \in 1..Number
        PROVE  /\ bundle.files[p[i]].offset = At[u[i]]
               /\ bundle.data[bundle.files[p[i]].name] = content[build[u[i]]]
    <3>1. p[i] \in 1..Number /\ t[p[i]] = u[i]
      BY <1>14, <2>1 DEF Through
    <3>2. files[p[i]].data = content[build[u[i]]]
      BY <1>6, <3>1 DEF File
    <3> QED
      BY <1>4, <1>10, <1>12, <3>1, <3>2
  <2> QED
    BY <2>1, <2>2
<1>15. BuildPlans = {Plan(u) : u \in SortedBy(At)}
  <2>1. ASSUME NEW u \in SortedBy(At)
        PROVE  /\ DOMAIN u = 1..Number
               /\ [i \in DOMAIN u |-> File(u[i])] \in Loaded
               /\ LET l == [i \in DOMAIN u |-> File(u[i])]
                  IN  [i \in DOMAIN l |-> [offset |-> l[i].offset, data |-> l[i].data]] = Plan(u)
    <3>1. DOMAIN u = 1..Number /\ \A i \in 1..Number : u[i] \in DOMAIN build
      BY <1>5, Sorted DEF Number
    <3>2. [i \in DOMAIN u |-> File(u[i])] \in Loaded
      BY Zenon DEF Loaded, File, At
    <3> DEFINE l == [i \in DOMAIN u |-> File(u[i])]
    <3>3. DOMAIN l = 1..Number
      BY <3>1
    <3>4. \A i \in 1..Number : l[i].offset = At[u[i]] /\ l[i].data = content[build[u[i]]]
      BY <1>9, <3>1 DEF File
    <3> HIDE DEF l
    <3>5. [i \in DOMAIN l |-> [offset |-> l[i].offset, data |-> l[i].data]] = Plan(u)
      BY <3>3, <3>4
    <3> QED
      BY <3>1, <3>2, <3>5 DEF l
  <2>2. \A l \in Loaded : \E u \in SortedBy(At) : l = [i \in DOMAIN u |-> File(u[i])]
    BY Zenon DEF Loaded, File, At
  <2> DEFINE Planned(l) == [i \in DOMAIN l |-> [offset |-> l[i].offset, data |-> l[i].data]]
             InOrder(u) == [i \in DOMAIN u |-> File(u[i])]
  <2>3. BuildPlans = {Planned(l) : l \in Loaded}
    BY Zenon DEF BuildPlans
  <2>4. \A u \in SortedBy(At) : InOrder(u) \in Loaded /\ Planned(InOrder(u)) = Plan(u)
    BY <2>1
  <2>5. \A l \in Loaded : \E u \in SortedBy(At) : l = InOrder(u)
    BY <2>2
  <2> HIDE DEF Plan, Planned, InOrder
  <2> QED
    BY <2>3, <2>4, <2>5
<1>16. /\ \A p \in SortedBy(off) : \E u \in SortedBy(At) : Through(p, u)
       /\ \A u \in SortedBy(At) : \E p \in SortedBy(off) : Through(p, u)
  <2>1. Offsets(DOMAIN build, off, At, t)
    BY <1>10 DEF Offsets, Number
  <2> QED
    BY <1>5, <1>11, <2>1, SortedEitherWay DEF Number, Through
<1>17. /\ \A p \in SortedBy(off) : \E u \in SortedBy(At) : Read(p) = Plan(u)
       /\ \A u \in SortedBy(At) : \E p \in SortedBy(off) : Read(p) = Plan(u)
  <2> HIDE DEF Read, Plan
  <2> QED
    BY <1>14, <1>16
<1>18. FlashFiles = {Read(p) : p \in SortedBy(off)}
  BY <1>13
<1> HIDE DEF Read, Plan
<1> QED
  BY <1>15, <1>17, <1>18

\* A bundle that opens flashes what the build directory would, whatever became of
\* the file and of pack, unless an offset in the manifest was damaged.
THEOREM SamePlanCorrect == Spec => []SamePlan
<1>1. IInv => SamePlan
  BY OpenedSamePlan DEF SamePlan
<1> QED
  BY <1>1, Invariance, PTL

-----------------------------------------------------------------------------
(* A bundle that was packed and not damaged is refused only for a clash.   *)

LEMMA RefusedIsClash ==
    ASSUME IInv, step = "refused", whole, faults = 0
    PROVE  Clash
<1>1. ~NoFile /\ Reading
  BY DEF NoFile, Reading
<1>2. /\ Inputs /\ Readable /\ TypeOK /\ ReadSoFar
      /\ read = Len(archive) /\ ~(AtEnd /\ AllIntact)
  BY <1>1, CopiedIs DEF IInv, Stages
<1>3. PICK files \in Loaded : \E b : b = FromFiles(files) /\ CopyOf(b)
  BY <1>1, CopiedIs
<1>4. PICK b : b = FromFiles(files) /\ CopyOf(b)
  BY <1>3
<1>5. /\ IsFiniteSet(DOMAIN b.data) /\ DOMAIN b.files = 1..Number
      /\ \A i \in 1..Number : b.files[i].name = files[i].name /\ b.files[i].sha = files[i].data
      /\ \A i \in 1..Number : files[i].name \in DOMAIN b.data
      /\ \A n \in DOMAIN b.data :
             \E i \in 1..Number : files[i].name = n /\ b.data[n] = files[i].data
  BY <1>2, <1>4, BundleIs
<1>6. /\ Len(Packing(b)) \in Nat \ {0} /\ Packing(b)[1] = ManifestEntry(b)
      /\ \A n \in DOMAIN b.data :
             \E i \in 2..Len(Packing(b)) : Packing(b)[i] = FileEntry(n, b.data[n])
  BY <1>5, PackingIs
<1>7. /\ footer /\ Len(archive) = Len(Packing(b)) /\ archive \in Seq(Entry)
      /\ \A i \in DOMAIN archive : archive[i] = Packing(b)[i]
  BY <1>2, <1>4 DEF CopyOf, TypeOK
<1>8. 1 \in DOMAIN archive /\ archive[1] = ManifestEntry(b) /\ read > 0
  BY <1>2, <1>6, <1>7
<1>9. AtEnd /\ bundle.files = b.files
  BY <1>2, <1>7, <1>8 DEF AtEnd, HaveManifest, ManifestEntry, ReadSoFar
<1>10. PICK i \in 1..Number : ~Intact(bundle, b.files[i])
  BY <1>2, <1>5, <1>9 DEF AllIntact
<1> DEFINE n == files[i].name
<1>11. b.files[i].name = n /\ b.files[i].sha = files[i].data
  BY <1>5
<1>12. PICK j \in 2..Len(archive) : archive[j] = FileEntry(n, b.data[n])
  <2>1. PICK j \in 2..Len(Packing(b)) : Packing(b)[j] = FileEntry(n, b.data[n])
    BY <1>5, <1>6
  <2>2. j \in DOMAIN archive /\ j \in 2..Len(archive)
    BY <1>7
  <2> QED
    BY <1>7, <2>1, <2>2
<1>13. n \in DOMAIN bundle.data /\ bundle.data[n] = b.data[n]
  <2>1. archive[j].name = n /\ archive[j].data = b.data[n]
    BY <1>12 DEF FileEntry
  <2> HIDE DEF n
  <2> QED
    BY <1>2, <1>12, <2>1 DEF ReadSoFar
<1>14. b.data[n] # files[i].data
  BY <1>10, <1>11, <1>13 DEF Intact
<1>15. PICK k \in 1..Number : files[k].name = n /\ b.data[n] = files[k].data
  BY <1>5
<1>16. PICK t \in SortedBy(At) : /\ files = [l \in 1..Number |-> File(t[l])]
                                 /\ \A l \in 1..Number : t[l] \in DOMAIN build
  BY <1>2, LoadedIs
<1>17. \A l \in 1..Number : files[l].name = Base[build[t[l]]] /\ files[l].data = content[build[t[l]]]
  BY <1>16 DEF File, EntryName
<1>18. /\ t[i] \in DOMAIN build /\ t[k] \in DOMAIN build
       /\ Base[build[t[i]]] = Base[build[t[k]]]
       /\ content[build[t[i]]] # content[build[t[k]]]
  BY <1>14, <1>15, <1>16, <1>17
<1> QED
  BY <1>18 DEF Clash

\* What pack reported and nothing damaged, Open refuses only if two images of one
\* base name differ.
THEOREM RefusedCorrect == Spec => []RefusedForCause
<1>1. IInv => RefusedForCause
  <2> SUFFICES ASSUME IInv, step = "refused", whole, ~(faults > 0) PROVE Clash
    BY DEF RefusedForCause
  <2>1. faults = 0
    BY DEF IInv, TypeOK
  <2> QED
    BY <2>1, RefusedIsClash
<1> QED
  BY <1>1, Invariance, PTL

-----------------------------------------------------------------------------
(* The flash size. *)

\* A unit is a positive number.
LEMMA MultType == ASSUME NEW u \in Units PROVE Mult(u) \in Nat \ {0}
<1>1. ASSUME NEW k \in Nat \ {0}, NEW l \in Nat \ {0} PROVE k <= k * l /\ k * l \in Nat
  BY Z3
<1>2. Kilo * Kilo \in Nat \ {0}
  BY <1>1, SizeAssumption
<1> DEFINE mega == Kilo * Kilo
<1>3. Mult(u) = IF u = "" THEN 1 ELSE IF u = "KB" THEN Kilo ELSE mega
  BY DEF Mult, Units
<1>4. mega \in Nat \ {0} /\ Kilo \in Nat \ {0} /\ 1 \in Nat \ {0}
  BY <1>2, SizeAssumption
<1> HIDE DEF mega
<1> QED
  BY <1>3, <1>4

\* FlashSizeBytes is exact for every size below 4 GiB: the conversion to uint32
\* before the product loses nothing that the product keeps.
THEOREM FlashSizeCorrect ==
    ASSUME NEW s \in FlashSize, Fits(s)
    PROVE  FlashSizeBytes(s) = s.n * Mult(s.unit)
<1> DEFINE n == s.n
           m == Mult(s.unit)
<1>1. n \in Nat /\ m \in Nat \ {0} /\ Word \in Nat \ {0} /\ n * m < Word
  BY MultType, SizeAssumption DEF FlashSize, Fits
<1>2. FlashSizeBytes(s) = ((n % Word) * m) % Word
  BY DEF FlashSizeBytes, Uint32, Fits
<1> HIDE DEF n, m
<1>3. n <= n * m /\ n * m \in Nat
  BY <1>1, Z3
<1>4. n % Word = n /\ (n * m) % Word = n * m
  <2>1. \A i \in Nat : i < Word => i % Word = i
    BY <1>1, Z3
  <2> QED
    BY <1>1, <1>3, <2>1
<1>5. FlashSizeBytes(s) = n * m
  BY <1>2, <1>4
<1> QED
  BY <1>5 DEF n, m

\* The flash is set up with the size of the build, the size as it is written if a
\* uint32 holds it.
THEOREM ExactCorrect == Spec => []Exact
<1>1. IInv => Exact
  <2> SUFFICES ASSUME IInv, step = "opened", faults = 0
               PROVE  /\ FlashSizeBytes(bundle.size) = FlashSizeBytes(size)
                      /\ Fits(size) => FlashSizeBytes(bundle.size) = size.n * Mult(size.unit)
    BY DEF Exact
  <2>1. ~NoFile
    BY DEF NoFile
  <2>2. PICK files \in Loaded : \E b : b = FromFiles(files) /\ CopyOf(b)
    BY <2>1, CopiedIs
  <2>3. bundle.size = size
    BY <2>2, OpenedIs
  <2>4. size \in FlashSize
    BY BundleAssumption DEF IInv, Inputs
  <2> QED
    BY <2>3, <2>4, FlashSizeCorrect
<1> QED
  BY <1>1, Invariance, PTL
=============================================================================
