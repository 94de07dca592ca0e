-------------------------- MODULE FilePathsProofs --------------------------
(***************************************************************************)
(* What the functions of FilePaths return, for every string that is        *)
(* shorter than a size_t can count; what a fold computes, step by step;    *)
(* and the folders that CreatePath makes.                                  *)
(***************************************************************************)
EXTENDS FilePaths, FiniteSetTheorems, SequenceTheorems, WellFoundedInduction, TLAPS

\* Where something is in a range of numbers, it is somewhere last: the sets i..n
\* are well founded by inclusion, and the least of them begins there.
LEMMA LastOne ==
  ASSUME NEW n \in Nat, NEW P, P \subseteq 1..n, P # {}
  PROVE  \E i \in P : \A j \in P : j <= i
<1> DEFINE R == StrictSubsetOrdering(1..n)
           F == FiniteSubsetsOf(1..n)
           T == {i..n : i \in P}
<1>1. IsWellFoundedOn(R, F)
  BY FS_StrictSubsetOrderingWellFounded
<1>2. T \subseteq SUBSET (1..n) /\ T # {}
  <2>1. PICK k \in P : TRUE
    OBVIOUS
  <2>2. k..n \in T
    OBVIOUS
  <2>3. \A i \in P : i..n \subseteq 1..n
    OBVIOUS
  <2> QED BY <2>2, <2>3
<1>3. IsFiniteSet(1..n)
  BY FS_Interval
<1>4. T \subseteq F
  BY <1>2, <1>3, FS_FiniteSubsetsOfFinite
<1> HIDE DEF R, F
<1>5. PICK x \in T : \A y \in T : ~(<<y, x>> \in R)
  BY <1>1, <1>2, <1>4, WFMin
<1>6. PICK i \in P : x = i..n
  OBVIOUS
<1>7. ASSUME NEW j \in P, i < j PROVE FALSE
  <2>1. j..n \in T /\ j..n \subseteq i..n /\ i \notin j..n /\ i \in i..n
    BY <1>7
  <2>2. <<j..n, i..n>> \in R
    BY <1>2, <1>6, <2>1 DEF R, StrictSubsetOrdering
  <2> QED BY <1>5, <1>6, <2>1, <2>2
<1> QED BY <1>7

-----------------------------------------------------------------------------
\* rfind finds the last occurrence, or reports that there is none.
LEMMA RfindFinds ==
  ASSUME NEW S, NEW str \in Seq(S), NEW c
  PROVE  \/ \E i \in 1..Len(str) : rfind(str, c) = i - 1 /\ IsLast(str, c, i)
         \/ /\ \A i \in 1..Len(str) : str[i] # c
            /\ rfind(str, c) = npos
<1> DEFINE P == {i \in 1..Len(str) : str[i] = c}
<1>1. CASE P = {}
  <2>1. \A i \in 1..Len(str) : str[i] # c
    BY <1>1
  <2>2. \A i \in 1..Len(str) : ~IsLast(str, c, i)
    BY <2>1 DEF IsLast
  <2> QED BY <2>1, <2>2 DEF rfind
<1>2. CASE P # {}
  <2>0. Len(str) \in Nat /\ P \subseteq 1..Len(str)
    OBVIOUS
  <2>1. PICK i \in P : \A j \in P : j <= i
    <3> HIDE DEF P
    <3> QED BY <1>2, <2>0, LastOne
  <2>2. IsLast(str, c, i)
    BY <2>1 DEF IsLast
  <2> DEFINE k == CHOOSE j \in 1..Len(str) : IsLast(str, c, j)
  <2>3. k \in 1..Len(str) /\ IsLast(str, c, k)
    BY <2>2
  <2>4. rfind(str, c) = k - 1
    BY <2>2 DEF rfind
  <2> QED BY <2>3, <2>4
<1> QED BY <1>1, <1>2

\* What wrapping does to the numbers that occur.
LEMMA WrapIs ==
  ASSUME NEW n \in Int
  PROVE  /\ n \in 0..SizeMod - 1 => Wrapped(n) = n
         /\ n \in -SizeMod..-1 => Wrapped(n) = n + SizeMod
         /\ n = SizeMod => Wrapped(n) = 0
BY FilePathsAssumption DEF Wrapped

\* The position after the last occurrence; it is 0 if there is none.
LEMMA AfterLast ==
  ASSUME NEW S, NEW str \in Seq(S), Len(str) < SizeMod, NEW c
  PROVE  \E i \in 0..Len(str) :
           /\ IsLast(str, c, i)
           /\ Wrapped(rfind(str, c) + 1) = i
           /\ rfind(str, c) = (IF i = 0 THEN npos ELSE i - 1)
<1>0. Len(str) \in Nat /\ SizeMod \in Nat
  BY FilePathsAssumption
<1>1. ASSUME NEW i \in 1..Len(str), rfind(str, c) = i - 1 /\ IsLast(str, c, i)
      PROVE  /\ Wrapped(rfind(str, c) + 1) = i
             /\ i \in 0..Len(str) /\ i # 0
  <2>1. i \in Int /\ i \in 0..SizeMod - 1
    BY <1>0
  <2> QED BY <1>0, <1>1, <2>1, WrapIs
<1>2. CASE (\A i \in 1..Len(str) : str[i] # c) /\ rfind(str, c) = npos
  <2>1. IsLast(str, c, 0)
    BY <1>0, <1>2 DEF IsLast
  <2>2. Wrapped(npos + 1) = 0
    BY <1>0, WrapIs DEF npos
  <2> QED BY <1>0, <1>2, <2>1, <2>2
<1>3. CASE \E i \in 1..Len(str) : rfind(str, c) = i - 1 /\ IsLast(str, c, i)
  BY <1>1, <1>3
<1> QED BY <1>2, <1>3, RfindFinds

\* i is the position after which c does not occur: the parts of str around it.
Found(str, c, i) ==
  /\ IsLast(str, c, i)
  /\ Wrapped(rfind(str, c) + 1) = i
  /\ rfind(str, c) = (IF i = 0 THEN npos ELSE i - 1)

\* What getFileName returns, by the places of the last slash and the last dot.
LEMMA NameIs ==
  ASSUME NEW S, NEW str \in Seq(S), Len(str) < SizeMod,
         NEW i \in 0..Len(str), Found(str, Slash, i),
         NEW j \in 0..Len(str), Found(str, Dot, j)
  PROVE  getFileName(str) = SubSeq(str, i + 1, IF i < j THEN j - 1 ELSE Len(str))
<1>0. Len(str) \in Nat /\ SizeMod \in Nat
  BY FilePathsAssumption
<1>1. getFileName(str) = substr(str, i, Wrapped(rfind(str, Dot) - i))
  BY DEF getFileName, Found
<1>2. CASE i < j
  <2>1. Wrapped(rfind(str, Dot) - i) = j - 1 - i
    BY <1>0, <1>2, WrapIs DEF Found
  <2> QED BY <1>0, <1>1, <1>2, <2>1 DEF substr
<1>3. CASE j <= i
  <2>1. Wrapped(rfind(str, Dot) - i) \in Int /\ Wrapped(rfind(str, Dot) - i) >= Len(str) - i
    <3>1. CASE j = 0
      BY <1>0, <3>1, WrapIs DEF npos, Found
    <3>2. CASE j # 0
      BY <1>0, <1>3, <3>2, WrapIs DEF Found
    <3> QED BY <3>1, <3>2
  <2> QED BY <1>0, <1>1, <1>3, <2>1 DEF substr
<1> QED BY <1>2, <1>3

\* getFileName returns the base name up to its last dot.
LEMMA NameIsBase ==
  ASSUME NEW S, NEW str \in Seq(S), Len(str) < SizeMod
  PROVE  IsBaseName(str, getFileName(str))
<1>0. Len(str) \in Nat
  OBVIOUS
<1>1. PICK i \in 0..Len(str) : Found(str, Slash, i)
  BY AfterLast DEF Found
<1>2. PICK j \in 0..Len(str) : Found(str, Dot, j)
  BY AfterLast DEF Found
<1>3. CASE i < j
  <2>1. getFileName(str) = SubSeq(str, i + 1, j - 1)
    BY <1>1, <1>2, <1>3, NameIs
  <2> QED BY <1>0, <1>1, <1>2, <1>3, <2>1 DEF IsBaseName, Found
<1>4. CASE j <= i
  <2>1. \A k \in i+1..Len(str) : str[k] # Dot
    BY <1>0, <1>2, <1>4 DEF IsLast, Found
  <2>2. Len(str) + 1 \in i+1..Len(str)+1 /\ ~(Len(str) + 1 <= Len(str))
    BY <1>0
  <2>3. getFileName(str) = SubSeq(str, i + 1, (Len(str) + 1) - 1)
    BY <1>0, <1>1, <1>2, <1>4, NameIs
  <2> HIDE DEF getFileName
  <2> QED BY <1>1, <2>1, <2>2, <2>3 DEF IsBaseName, Found
<1> QED BY <1>3, <1>4

\* A part of a text, cut at a character and put together again.
LEMMA Rejoined ==
  ASSUME NEW S, NEW str \in Seq(S), NEW k \in 1..Len(str), NEW b \in 1..k
  PROVE  SubSeq(str, b, Len(str)) =
           SubSeq(str, b, k - 1) \o <<str[k]>> \o SubSeq(str, k + 1, Len(str))
<1>0. /\ Len(str) \in Nat /\ k \in Int /\ b \in Int /\ (k - 1) + 1 = k
      /\ b \in 1..Len(str)+1 /\ k - 1 \in b-1..Len(str) /\ k \in k-1..Len(str)
      /\ k \in b-1..Len(str) /\ Len(str) \in k..Len(str)
  OBVIOUS
<1>1. SubSeq(str, k, k) = <<str[k]>>
  <2>1. /\ SubSeq(str, k, k) \in Seq(S) /\ Len(SubSeq(str, k, k)) = 1
        /\ SubSeq(str, k, k)[1] = str[k]
    BY <1>0
  <2>2. <<str[k]>> \in Seq(S) /\ Len(<<str[k]>>) = 1 /\ <<str[k]>>[1] = str[k]
    BY <1>0
  <2>3. \A n \in 1..Len(SubSeq(str, k, k)) : SubSeq(str, k, k)[n] = <<str[k]>>[n]
    BY <2>1, <2>2
  <2> QED
    <3> DEFINE s == SubSeq(str, k, k)
               t == <<str[k]>>
    <3>1. s \in Seq(S) /\ t \in Seq(S) /\ Len(s) = Len(t) /\ \A n \in 1..Len(s) : s[n] = t[n]
      BY <2>1, <2>2, <2>3
    <3>2. s = t
      <4> HIDE DEF s, t
      <4> QED BY <3>1, SeqEqual
    <3> QED BY <3>2
<1>2. SubSeq(str, b, k - 1) \o SubSeq(str, k, k) = SubSeq(str, b, k)
  <2>1. SubSeq(str, b, k - 1) \o SubSeq(str, (k - 1) + 1, k) = SubSeq(str, b, k)
    BY <1>0, ConcatAdjacentSubSeq
  <2> QED BY <1>0, <2>1
<1>3. SubSeq(str, b, k) \o SubSeq(str, k + 1, Len(str)) = SubSeq(str, b, Len(str))
  BY <1>0, ConcatAdjacentSubSeq
<1> QED BY <1>1, <1>2, <1>3

\* What the functions return where the character occurs, and where it does not.
LEMMA PartsAre ==
  ASSUME NEW S, NEW str \in Seq(S), NEW c, NEW i \in 0..Len(str), Found(str, c, i)
  PROVE  /\ Contains(str, c) <=> i # 0
         /\ i # 0 => substr(str, 0, rfind(str, c)) = SubSeq(str, 1, i - 1) /\ str[i] = c
         /\ substr(str, Wrapped(rfind(str, c) + 1), Len(str)) = SubSeq(str, i + 1, Len(str))
<1>1. Contains(str, c) <=> i # 0
  BY DEF Contains, Found, IsLast
<1>2. i # 0 => substr(str, 0, rfind(str, c)) = SubSeq(str, 1, i - 1) /\ str[i] = c
  BY DEF substr, Found, IsLast
<1>3. substr(str, Wrapped(rfind(str, c) + 1), Len(str)) = SubSeq(str, i + 1, Len(str))
  BY DEF substr, Found
<1> QED BY <1>1, <1>2, <1>3

\* A string that starts with a name and a character begins with that name.
LEMMA StartsWithName ==
  ASSUME NEW S, NEW str \in Seq(S), NEW name \in Seq(S), NEW c \in S,
         startsWith(str, name \o <<c>>)
  PROVE  /\ Len(name) + 1 \in 1..Len(str)
         /\ str[Len(name) + 1] = c
         /\ SubSeq(str, 1, Len(name)) = name
<1> DEFINE n == Len(name)
           p == name \o <<c>>
           q == SubSeq(str, 1, n)
<1>1. n \in Nat /\ Len(str) \in Nat
  OBVIOUS
<1>2. Len(p) = n + 1 /\ p[n + 1] = c /\ \A i \in 1..n : p[i] = name[i]
  <2>1. <<c>> \in Seq(S) /\ Len(<<c>>) = 1 /\ <<c>>[1] = c
    OBVIOUS
  <2>2. /\ Len(p) = n + 1
        /\ \A i \in 1..n + 1 : p[i] = IF i <= n THEN name[i] ELSE <<c>>[i - n]
    BY <2>1, ConcatProperties
  <2> HIDE DEF p, n
  <2> QED BY <1>1, <2>1, <2>2
<1>3. n + 1 <= Len(str) /\ \A i \in 1..n + 1 : str[i] = p[i]
  <2> HIDE DEF p
  <2> QED BY <1>2 DEF startsWith, p
<1>4. q \in Seq(S) /\ Len(q) = n /\ \A i \in 1..n : q[i] = str[i]
  <2>1. \A i \in 1..n : str[i] \in S
    BY <1>1, <1>3, ElementOfSeq
  <2> HIDE DEF n
  <2> QED BY <1>1, <2>1, SubSeqProperties
<1>5. q = name
  <2>1. \A i \in 1..Len(q) : q[i] = name[i]
    <3> HIDE DEF p, q, n
    <3> QED BY <1>1, <1>2, <1>3, <1>4
  <2> HIDE DEF q
  <2> QED BY <1>4, <2>1, SeqEqual
<1> HIDE DEF p
<1> QED BY <1>1, <1>2, <1>3, <1>5

-----------------------------------------------------------------------------
\* A set of numbers that has one has a least one.
LEMMA LeastNumber ==
  ASSUME NEW T \in SUBSET Nat, T # {}
  PROVE  \E m \in T : \A n \in T : m <= n
<1> DEFINE R == {ss \in Nat \X Nat : ss[1] < ss[2]}
<1>1. IsWellFoundedOn(R, Nat)
  BY NatLessThanWellFounded DEF OpToRel
<1>2. \A m, n \in Nat : <<n, m>> \notin R => m <= n
  OBVIOUS
<1> HIDE DEF R
<1>3. PICK m \in T : \A n \in T : ~(<<n, m>> \in R)
  BY <1>1, WFMin
<1>4. QED
  BY <1>2, <1>3

\* What holds of 0, and of a number up to n when it holds of the one before,
\* holds of all of them.
LEMMA UpTo ==
  ASSUME NEW n \in Nat, NEW P, 0 \in P, \A k \in 1..n : k - 1 \in P => k \in P
  PROVE  0..n \subseteq P
<1> DEFINE T == {k \in 0..n : k \notin P}
<1>1. SUFFICES ASSUME T # {} PROVE FALSE
  OBVIOUS
<1>2. PICK m \in T : \A k \in T : m <= k
  <2>1. T \in SUBSET Nat
    OBVIOUS
  <2> HIDE DEF T
  <2> QED BY <1>1, <2>1, LeastNumber
<1>3. m \in 1..n /\ m - 1 \in 0..n /\ ~(m <= m - 1)
  BY <1>2
<1>4. m - 1 \in P
  BY <1>2, <1>3
<1> QED BY <1>2, <1>3, <1>4

\* The last of the first k numbers, and the others.
LEMMA MaxOfInterval ==
  ASSUME NEW n \in Nat, NEW k \in 1..n
  PROVE  /\ Max(1..k) = k /\ (1..k) \ {k} = 1..(k - 1)
         /\ 1..k # {} /\ 1..k \in SUBSET (1..n)
<1>1. k \in 1..k /\ \A y \in 1..k : k >= y
  OBVIOUS
<1>2. \A x \in 1..k : (\A y \in 1..k : x >= y) => x = k
  BY <1>1
<1>3. Max(1..k) = k
  BY <1>1, <1>2 DEF Max
<1>4. (1..k) \ {k} = 1..(k - 1) /\ 1..k # {}
  <2>1. k \in Nat \ {0}
    OBVIOUS
  <2>2. (1..k) \ {k} = 1..(k - 1)
    BY <2>1
  <2> QED BY <1>1, <2>2
<1>5. 1..k \in SUBSET (1..n)
  OBVIOUS
<1> QED BY <1>3, <1>4, <1>5

\* A set of some of the first n numbers has a greatest one.
LEMMA MaxIn ==
  ASSUME NEW n \in Nat, NEW t \in SUBSET (1..n), t # {}
  PROVE  Max(t) \in t /\ \A y \in t : Max(t) >= y
<1>1. PICK i \in t : \A j \in t : j <= i
  BY LastOne
<1>2. \A j \in t : i >= j
  BY <1>1
<1> QED BY <1>2 DEF Max

\* g folds the places 1 to n: step goes from the result for the places before the
\* last one to the result for all of them.
Folds(g, base, n, step) ==
  \A t \in SUBSET (1..n) :
    g[t] = IF t = {} THEN base ELSE step[<<g[t \ {Max(t)}], Max(t)>>]

\* There is such a function, for any step; so what FoldLeft chooses exists.
LEMMA FoldExists ==
  ASSUME NEW D, NEW base \in D, NEW n \in Nat, NEW step \in [D \X (1..n) -> D]
  PROVE  \E g \in [SUBSET (1..n) -> D] : Folds(g, base, n, step)
<1> DEFINE Fold(g, k) == g \in [SUBSET (1..k) -> D] /\ Folds(g, base, k, step)
           P == {k \in 0..n : \E g : Fold(g, k)}
<1>1. 0 \in P
  <2>1. Fold([t \in SUBSET (1..0) |-> base], 0)
    <3>1. \A t \in SUBSET (1..0) : t = {}
      OBVIOUS
    <3> QED BY <3>1 DEF Folds
  <2>2. \E g : Fold(g, 0)
    BY <2>1
  <2> HIDE DEF Fold
  <2> QED BY <2>2
<1>2. ASSUME NEW k \in 1..n, k - 1 \in P
      PROVE  k \in P
  <2>1. PICK g : Fold(g, k - 1)
    BY <1>2
  <2> DEFINE f == [t \in SUBSET (1..k) |-> IF k \in t THEN step[<<g[t \ {k}], k>>] ELSE g[t]]
  <2>2. \A t \in SUBSET (1..k) : /\ t \ {k} \in SUBSET (1..(k - 1))
                                 /\ k \notin t => t \in SUBSET (1..(k - 1))
                                 /\ k \in t => Max(t) = k /\ t # {}
    <3> SUFFICES ASSUME NEW t \in SUBSET (1..k)
                 PROVE  /\ t \ {k} \in SUBSET (1..(k - 1))
                        /\ k \notin t => t \in SUBSET (1..(k - 1))
                        /\ k \in t => Max(t) = k /\ t # {}
      OBVIOUS
    <3>1. \A x \in t : x # k => x \in 1..(k - 1)
      OBVIOUS
    <3>2. k \in t => Max(t) = k /\ t # {}
      <4>1. ASSUME k \in t PROVE Max(t) = k
        <5>1. t # {} /\ k \in Nat
          BY <4>1
        <5>2. Max(t) \in t /\ Max(t) >= k
          BY <4>1, <5>1, MaxIn
        <5>3. Max(t) \in 1..k
          BY <5>2
        <5> QED BY <5>2, <5>3
      <4> QED BY <4>1
    <3> QED BY <3>1, <3>2
  <2>3. f \in [SUBSET (1..k) -> D]
    <3>1. ASSUME NEW t \in SUBSET (1..k)
          PROVE  f[t] \in D
      <4>1. CASE k \in t
        <5>1. g[t \ {k}] \in D
          BY <2>1, <2>2
        <5>2. <<g[t \ {k}], k>> \in D \X (1..n)
          BY <5>1
        <5>3. step[<<g[t \ {k}], k>>] \in D
          BY <5>2
        <5> QED BY <4>1, <5>3
      <4>2. CASE k \notin t
        BY <2>1, <2>2, <4>2
      <4> QED BY <4>1, <4>2
    <3> QED BY <3>1
  <2>4. ASSUME NEW t \in SUBSET (1..k)
        PROVE  f[t] = IF t = {} THEN base ELSE step[<<f[t \ {Max(t)}], Max(t)>>]
    <3>1. CASE k \in t
      <4>1. t \ {k} \in SUBSET (1..k) /\ k \notin t \ {k}
        OBVIOUS
      <4>2. f[t \ {k}] = g[t \ {k}]
        BY <4>1
      <4>3. f[t] = step[<<g[t \ {k}], k>>]
        BY <3>1
      <4>4. Max(t) = k /\ t # {}
        BY <2>2, <3>1
      <4> HIDE DEF f
      <4> QED BY <4>2, <4>3, <4>4
    <3>2. CASE k \notin t /\ t # {}
      <4>1. t \in SUBSET (1..(k - 1)) /\ t \ {Max(t)} \in SUBSET (1..k) /\ k \notin t \ {Max(t)}
        BY <2>2, <3>2
      <4>2. f[t] = g[t] /\ f[t \ {Max(t)}] = g[t \ {Max(t)}]
        BY <3>2, <4>1
      <4> HIDE DEF f
      <4> QED BY <2>1, <3>2, <4>1, <4>2 DEF Folds
    <3>3. CASE t = {}
      <4>1. f[{}] = g[{}] /\ {} \in SUBSET (1..(k - 1))
        OBVIOUS
      <4> HIDE DEF f
      <4> QED BY <2>1, <3>3, <4>1 DEF Folds
    <3> QED BY <3>1, <3>2, <3>3
  <2>5. Fold(f, k)
    <3> HIDE DEF f
    <3> QED BY <2>3, <2>4 DEF Folds
  <2>6. \E h : Fold(h, k)
    BY <2>5
  <2> HIDE DEF Fold
  <2> QED BY <2>6
<1> HIDE DEF P
<1>3. 0..n \subseteq P
  BY <1>1, <1>2, UpTo
<1>4. n \in P
  BY <1>3
<1> QED BY <1>4 DEF P

\* h runs through the results for the places up to 0, 1, ... n.
Runs(h, D, base, n, step) ==
  /\ h \in [0..n -> D]
  /\ h[0] = base /\ \A k \in 1..n : h[k] = step[<<h[k - 1], k>>]

\* g goes from the first places to the first one more by step, as long as it stays in D.
Chains(g, D, base, n, step) ==
  /\ step \in [D \X (1..n) -> D]
  /\ g[{}] = base
  /\ \A k \in 1..n : g[1..(k - 1)] \in D => g[1..k] = step[<<g[1..(k - 1)], k>>]

\* What such a function returns for the first places, for the first one more, and
\* so on, is a run of step.
LEMMA FoldRuns ==
  ASSUME NEW D, NEW base \in D, NEW n \in Nat, NEW step, NEW g, Chains(g, D, base, n, step)
  PROVE  \E h : Runs(h, D, base, n, step) /\ h[n] = g[1..n]
<1> DEFINE P == {k \in 0..n : g[1..k] \in D}
<1>1. 0 \in P /\ g[1..0] = base
  <2>1. 1..0 = {}
    OBVIOUS
  <2> QED BY <2>1 DEF Chains
<1>2. ASSUME NEW k \in 1..n, k - 1 \in P PROVE k \in P
  <2>1. g[1..(k - 1)] \in D
    BY <1>2
  <2>2. step[<<g[1..(k - 1)], k>>] \in D
    BY <2>1 DEF Chains
  <2> QED BY <1>2, <2>1, <2>2 DEF Chains
<1>3. 0..n \subseteq P
  <2> HIDE DEF P
  <2> QED BY <1>1, <1>2, UpTo
<1> DEFINE h == [k \in 0..n |-> g[1..k]]
<1>4. h \in [0..n -> D] /\ \A k \in 0..n : h[k] = g[1..k]
  BY <1>3
<1> HIDE DEF h
<1>5. \A k \in 1..n : k - 1 \in 0..n /\ h[k] = step[<<h[k - 1], k>>]
  BY <1>4 DEF Chains
<1> QED BY <1>1, <1>4, <1>5 DEF Runs

-----------------------------------------------------------------------------
\* h goes through the folders that lead to the one that names name.
LEMMA NamedRun ==
  ASSUME NEW A, NEW names \in Seq(A)
  PROVE  \E h \in [0..Len(names) -> Seq(A)] :
           /\ h[0] = <<>> /\ h[Len(names)] = FoldLeft(Below, <<>>, names)
           /\ \A k \in 1..Len(names) : h[k] = Below(h[k - 1], names[k])
<1> DEFINE n == Len(names)
           D == Seq(A)
           Eq(g) == g = [t \in SUBSET DOMAIN names |->
                           IF t = {} THEN <<>> ELSE Below(g[t \ {Max(t)}], names[Max(t)])]
           step == [p \in D \X (1..n) |-> Below(p[1], names[p[2]])]
           G == CHOOSE g : Eq(g)
<1>1. n \in Nat /\ DOMAIN names = 1..n /\ \A k \in 1..n : names[k] \in A
  OBVIOUS
<1>2. /\ <<>> \in D /\ step \in [D \X (1..n) -> D]
      /\ \A d \in D, k \in 1..n : step[<<d, k>>] = Below(d, names[k])
  BY <1>1 DEF Below
<1>3. FoldLeft(Below, <<>>, names) = G[1..n]
  BY <1>1 DEF FoldLeft, MapThenFoldSet
<1> HIDE DEF n, D, step
<1>4. PICK f \in [SUBSET (1..n) -> D] : Folds(f, <<>>, n, step)
  BY <1>1, <1>2, FoldExists
<1>5. Eq(f)
  <2>1. ASSUME NEW t \in SUBSET (1..n), t # {}
        PROVE  f[t] = Below(f[t \ {Max(t)}], names[Max(t)])
    <3>1. Max(t) \in 1..n /\ f[t \ {Max(t)}] \in D
      BY <1>1, <2>1, MaxIn
    <3> QED BY <1>2, <1>4, <2>1, <3>1 DEF Folds
  <2> QED BY <1>1, <1>4, <2>1 DEF Folds
<1>6. G = [t \in SUBSET (1..n) |->
             IF t = {} THEN <<>> ELSE Below(G[t \ {Max(t)}], names[Max(t)])]
  <2>1. Eq(G)
    <3> HIDE DEF Eq
    <3> QED BY <1>5
  <2> QED BY <1>1, <2>1
<1> HIDE DEF G
<1>7. G[{}] = <<>> /\ \A k \in 1..n : G[1..k] = Below(G[1..(k - 1)], names[k])
  <2>1. \A k \in 1..n : /\ Max(1..k) = k /\ (1..k) \ {k} = 1..(k - 1)
                         /\ 1..k # {} /\ 1..k \in SUBSET (1..n)
    BY <1>1, MaxOfInterval
  <2> QED BY <1>6, <2>1
<1>8. Chains(G, D, <<>>, n, step)
  BY <1>2, <1>7 DEF Chains
<1>9. PICK h : Runs(h, D, <<>>, n, step) /\ h[n] = G[1..n]
  BY <1>1, <1>2, <1>8, FoldRuns
<1>10. \A k \in 1..n : h[k] = Below(h[k - 1], names[k])
  <2> SUFFICES ASSUME NEW k \in 1..n PROVE h[k] = Below(h[k - 1], names[k])
    OBVIOUS
  <2>1. h[k - 1] \in D /\ h[k] = step[<<h[k - 1], k>>]
    BY <1>1, <1>9 DEF Runs
  <2> QED BY <1>2, <2>1
<1>11. h \in [0..n -> D] /\ h[0] = <<>> /\ h[n] = FoldLeft(Below, <<>>, names)
  BY <1>3, <1>9 DEF Runs
<1> QED BY <1>10, <1>11 DEF n, D

\* A string up to its first 0 is a string.
LEMMA CStrType ==
  ASSUME NEW S, NEW str \in Seq(S)
  PROVE  c_str(str) \in Seq(S)
<1> DEFINE I == {i \in 1..Len(str) : str[i] = 0}
<1>1. CASE I = {}
  BY <1>1 DEF c_str, SelectInSeq
<1>2. CASE I # {}
  <2>1. I \in SUBSET Nat /\ Len(str) \in Nat
    OBVIOUS
  <2>2. PICK m \in I : \A i \in I : m <= i
    <3> HIDE DEF I
    <3> QED BY <1>2, <2>1, LeastNumber
  <2>3. Min(I) \in I
    BY <2>2 DEF Min
  <2>4. c_str(str) = SubSeq(str, 1, Min(I) - 1) \/ c_str(str) = str
    BY <1>2 DEF c_str, SelectInSeq
  <2>5. Min(I) \in 1..Len(str)
    BY <2>3
  <2> HIDE DEF I
  <2>6. SubSeq(str, 1, Min(I) - 1) \in Seq(S)
    BY <2>1, <2>5
  <2> QED BY <2>4, <2>6
<1> QED BY <1>1, <1>2

\* The pieces that getline returns are strings.
LEMMA SplitType ==
  ASSUME NEW S, NEW in \in Seq(S), NEW delim
  PROVE  StringSplit(in, delim) \in Seq(Seq(S))
<1> DEFINE str == c_str(in)
           n == Len(str)
           D == [out : Seq(Seq(S)), tmp : Seq(S)]
           base == [out |-> <<>>, tmp |-> <<>>]
           Get(acc, c) == IF c = delim
                            THEN [out |-> Append(acc.out, acc.tmp), tmp |-> <<>>]
                            ELSE [acc EXCEPT !.tmp = Append(@, c)]
           Eq(g) == g = [t \in SUBSET DOMAIN str |->
                           IF t = {} THEN base ELSE Get(g[t \ {Max(t)}], str[Max(t)])]
           step == [p \in D \X (1..n) |-> Get(p[1], str[p[2]])]
           G == CHOOSE g : Eq(g)
<1>1. n \in Nat /\ DOMAIN str = 1..n /\ \A k \in 1..n : str[k] \in S
  <2> HIDE DEF str
  <2> QED BY CStrType DEF str
<1>2. /\ base \in D /\ step \in [D \X (1..n) -> D]
      /\ \A d \in D, k \in 1..n : step[<<d, k>>] = Get(d, str[k])
  <2>1. ASSUME NEW d \in D, NEW c \in S PROVE Get(d, c) \in D
    <3>1. d.out \in Seq(Seq(S)) /\ d.tmp \in Seq(S) /\ d = [out |-> d.out, tmp |-> d.tmp]
      OBVIOUS
    <3>2. Append(d.out, d.tmp) \in Seq(Seq(S)) /\ Append(d.tmp, c) \in Seq(S) /\ <<>> \in Seq(S)
      BY <3>1
    <3>3. \A x : [d EXCEPT !.tmp = x] = [out |-> d.out, tmp |-> x]
      OBVIOUS
    <3> QED BY <3>1, <3>2, <3>3
  <2> HIDE DEF D, n, str, Get
  <2>2. \A p \in D \X (1..n) : Get(p[1], str[p[2]]) \in D
    BY <1>1, <2>1
  <2>3. base \in D
    BY DEF D
  <2> QED BY <2>2, <2>3
<1>3. StringSplit(in, delim) = IF G[1..n].tmp = <<>> THEN G[1..n].out
                               ELSE Append(G[1..n].out, G[1..n].tmp)
  <2> HIDE DEF str, n
  <2> QED BY <1>1 DEF StringSplit, FoldLeft, MapThenFoldSet, str
<1> HIDE DEF n, D, step, base, Get, str
<1>4. PICK f \in [SUBSET (1..n) -> D] : Folds(f, base, n, step)
  BY <1>1, <1>2, FoldExists
<1>5. Eq(f)
  <2>1. ASSUME NEW t \in SUBSET (1..n), t # {}
        PROVE  f[t] = Get(f[t \ {Max(t)}], str[Max(t)])
    <3>1. Max(t) \in 1..n /\ f[t \ {Max(t)}] \in D
      BY <1>1, <2>1, MaxIn
    <3> QED BY <1>2, <1>4, <2>1, <3>1 DEF Folds
  <2> QED BY <1>1, <1>4, <2>1 DEF Folds
<1>6. G = [t \in SUBSET (1..n) |->
             IF t = {} THEN base ELSE Get(G[t \ {Max(t)}], str[Max(t)])]
  <2>1. Eq(G)
    <3> HIDE DEF Eq
    <3> QED BY <1>5
  <2> QED BY <1>1, <2>1
<1> HIDE DEF G
<1>7. G[{}] = base /\ \A k \in 1..n : G[1..k] = Get(G[1..(k - 1)], str[k])
  <2>1. \A k \in 1..n : /\ Max(1..k) = k /\ (1..k) \ {k} = 1..(k - 1)
                         /\ 1..k # {} /\ 1..k \in SUBSET (1..n)
    BY <1>1, MaxOfInterval
  <2> QED BY <1>6, <2>1
<1>8. Chains(G, D, base, n, step)
  BY <1>2, <1>7 DEF Chains
<1>9. PICK h : Runs(h, D, base, n, step) /\ h[n] = G[1..n]
  BY <1>1, <1>2, <1>8, FoldRuns
<1>10. G[1..n] \in D
  BY <1>1, <1>9 DEF Runs
<1>11. G[1..n].out \in Seq(Seq(S)) /\ G[1..n].tmp \in Seq(S)
  BY <1>10 DEF D
<1> QED BY <1>3, <1>11

\* The folder a path names is a sequence of names.
LEMMA NamedType ==
  ASSUME NEW S, NEW path \in Seq(S)
  PROVE  Named(path) \in Seq(Seq(S))
<1> DEFINE A == Seq(S)
           names == StringSplit(path, Slash)
<1>1. names \in Seq(A)
  BY SplitType
<1> HIDE DEF names, A
<1>2. PICK f \in [0..Len(names) -> Seq(A)] : f[Len(names)] = FoldLeft(Below, <<>>, names)
  BY <1>1, NamedRun
<1>3. Len(names) \in 0..Len(names)
  BY <1>1
<1>4. FoldLeft(Below, <<>>, names) \in Seq(A)
  BY <1>2, <1>3
<1> QED BY <1>4 DEF Named, names, A

\* h is a run of CreatePath: how far down it is, and what exists by then.
LevelRuns(h, A, path, dirs, refused) ==
  LET names == StringSplit(path, Slash)
  IN  /\ h \in [0..Len(names) -> [curpath : Seq(A), dirs : SUBSET Seq(A)]]
      /\ h[0] = [curpath |-> <<>>, dirs |-> dirs]
      /\ \A k \in 1..Len(names) :
           LET folder == Below(h[k - 1].curpath, names[k])
           IN  /\ h[k].curpath = folder
               /\ h[k].dirs = IF Exists(folder, h[k - 1].dirs) THEN h[k - 1].dirs
                              ELSE mkdir(folder, h[k - 1].dirs, refused)
      /\ CreatePath(path, dirs, refused) =
           IF path # <<>> /\ Exists(Named(path), dirs) THEN dirs ELSE h[Len(names)].dirs

\* CreatePath has such a run.
LEMMA LevelRun ==
  ASSUME NEW A, NEW path, StringSplit(path, Slash) \in Seq(A),
         NEW dirs, dirs \in SUBSET Seq(A), NEW refused
  PROVE  \E h : LevelRuns(h, A, path, dirs, refused)
<1> DEFINE names == StringSplit(path, Slash)
           n == Len(names)
           D == [curpath : Seq(A), dirs : SUBSET Seq(A)]
           base == [curpath |-> <<>>, dirs |-> dirs]
           Level(acc, name) ==
             [curpath |-> Below(acc.curpath, name),
              dirs |-> IF Exists(Below(acc.curpath, name), acc.dirs) THEN acc.dirs
                       ELSE mkdir(Below(acc.curpath, name), acc.dirs, refused)]
           Eq(g) == g = [t \in SUBSET DOMAIN names |->
                           IF t = {} THEN base ELSE Level(g[t \ {Max(t)}], names[Max(t)])]
           step == [p \in D \X (1..n) |-> Level(p[1], names[p[2]])]
           G == CHOOSE g : Eq(g)
<1>1. n \in Nat /\ DOMAIN names = 1..n /\ \A k \in 1..n : names[k] \in A
  <2> HIDE DEF names
  <2> QED BY DEF names
<1>2. /\ base \in D /\ step \in [D \X (1..n) -> D]
      /\ \A d \in D, k \in 1..n : step[<<d, k>>] = Level(d, names[k])
  <2>1. ASSUME NEW d \in D, NEW name \in A PROVE Level(d, name) \in D
    <3>1. d.curpath \in Seq(A) /\ d.dirs \in SUBSET Seq(A)
      OBVIOUS
    <3>2. Below(d.curpath, name) \in Seq(A)
      BY <3>1 DEF Below
    <3>3. mkdir(Below(d.curpath, name), d.dirs, refused) \in SUBSET Seq(A)
      BY <3>1, <3>2 DEF mkdir
    <3> QED BY <3>1, <3>2, <3>3
  <2>2. base \in D
    OBVIOUS
  <2> HIDE DEF D, n, Level
  <2>3. \A p \in D \X (1..n) : Level(p[1], names[p[2]]) \in D
    BY <1>1, <2>1
  <2> QED BY <2>2, <2>3
<1>3. CreatePath(path, dirs, refused) =
        IF path # <<>> /\ Exists(Named(path), dirs) THEN dirs ELSE G[1..n].dirs
  <2> HIDE DEF n
  <2> QED BY <1>1 DEF CreatePath, FoldLeft, MapThenFoldSet
<1> HIDE DEF n, D, step, base, Level, names
<1>4. PICK f \in [SUBSET (1..n) -> D] : Folds(f, base, n, step)
  BY <1>1, <1>2, FoldExists
<1>5. Eq(f)
  <2>1. ASSUME NEW t \in SUBSET (1..n), t # {}
        PROVE  f[t] = Level(f[t \ {Max(t)}], names[Max(t)])
    <3>1. Max(t) \in 1..n /\ f[t \ {Max(t)}] \in D
      BY <1>1, <2>1, MaxIn
    <3> QED BY <1>2, <1>4, <2>1, <3>1 DEF Folds
  <2> QED BY <1>1, <1>4, <2>1 DEF Folds
<1>6. G = [t \in SUBSET (1..n) |->
             IF t = {} THEN base ELSE Level(G[t \ {Max(t)}], names[Max(t)])]
  <2>1. Eq(G)
    <3> HIDE DEF Eq
    <3> QED BY <1>5
  <2> QED BY <1>1, <2>1
<1> HIDE DEF G
<1>7. G[{}] = base /\ \A k \in 1..n : G[1..k] = Level(G[1..(k - 1)], names[k])
  <2>1. \A k \in 1..n : /\ Max(1..k) = k /\ (1..k) \ {k} = 1..(k - 1)
                         /\ 1..k # {} /\ 1..k \in SUBSET (1..n)
    BY <1>1, MaxOfInterval
  <2> QED BY <1>6, <2>1
<1>8. Chains(G, D, base, n, step)
  BY <1>2, <1>7 DEF Chains
<1>9. PICK h : Runs(h, D, base, n, step) /\ h[n] = G[1..n]
  BY <1>1, <1>2, <1>8, FoldRuns
<1>10. h \in [0..n -> D] /\ h[0] = base /\ \A k \in 1..n : h[k] = Level(h[k - 1], names[k])
  <2>1. h \in [0..n -> D] /\ h[0] = base
    BY <1>9 DEF Runs
  <2>2. ASSUME NEW k \in 1..n PROVE h[k] = Level(h[k - 1], names[k])
    <3>1. h[k - 1] \in D /\ h[k] = step[<<h[k - 1], k>>]
      BY <1>1, <1>9 DEF Runs
    <3> QED BY <1>2, <3>1
  <2> QED BY <2>1, <2>2
<1>11. ASSUME NEW k \in 1..n
       PROVE  LET folder == Below(h[k - 1].curpath, names[k])
              IN  /\ h[k].curpath = folder
                  /\ h[k].dirs = IF Exists(folder, h[k - 1].dirs) THEN h[k - 1].dirs
                                 ELSE mkdir(folder, h[k - 1].dirs, refused)
  <2>1. h[k] = Level(h[k - 1], names[k])
    BY <1>10
  <2> QED BY <2>1 DEF Level
<1>12. CreatePath(path, dirs, refused) =
         IF path # <<>> /\ Exists(Named(path), dirs) THEN dirs ELSE h[n].dirs
  BY <1>3, <1>9
<1> QED BY <1>10, <1>11, <1>12 DEF n, D, base, names, LevelRuns

\* The folder m levels down on the way to P, and what there is when the way is
\* gone down to level l: the first n levels, and below them what was not refused
\* or behind something refused.
Way(P, m) == SubSeq(P, 1, m)
Free(P, n, refused, d) == \A e \in n+1..d : Way(P, e) \notin refused
Made(P, n, refused, l) ==
  {Way(P, d) : d \in {e \in 1..Len(P) : e <= n \/ (e <= l /\ Free(P, n, refused, e))}}

\* The levels are different folders, and each is in the one above it.
LEMMA WayIs ==
  ASSUME NEW S, NEW P \in Seq(S), NEW m \in 0..Len(P)
  PROVE  /\ Way(P, m) \in Seq(S) /\ Len(Way(P, m)) = m
         /\ Way(P, m) = <<>> <=> m = 0
         /\ m # 0 => Front(Way(P, m)) = Way(P, m - 1)
         /\ Way(P, Len(P)) = P
<1>1. Len(P) \in Nat /\ m \in Int /\ m <= Len(P) /\ m >= 0
  OBVIOUS
<1>2. Way(P, m) \in Seq(S) /\ Len(Way(P, m)) = m /\ \A i \in 1..m : Way(P, m)[i] = P[i]
  BY <1>1 DEF Way
<1>3. Way(P, m) = <<>> <=> m = 0
  <2>1. Way(P, m) = <<>> => m = 0
    BY <1>2
  <2>2. m = 0 => Way(P, m) = <<>>
    BY <1>2, EmptySeq
  <2> QED BY <2>1, <2>2
<1>4. ASSUME m # 0 PROVE Front(Way(P, m)) = Way(P, m - 1)
  <2> DEFINE s == Front(Way(P, m))
             t == Way(P, m - 1)
  <2>1. t \in Seq(S) /\ Len(t) = m - 1 /\ \A i \in 1..(m - 1) : t[i] = P[i]
    BY <1>1, <1>4 DEF Way
  <2>2. s = SubSeq(Way(P, m), 1, m - 1)
    BY <1>2 DEF Front
  <2>3. s \in Seq(S) /\ Len(s) = m - 1 /\ \A i \in 1..(m - 1) : s[i] = P[i]
    <3> HIDE DEF s
    <3> QED BY <1>1, <1>2, <1>4, <2>2
  <2> HIDE DEF s, t
  <2>4. s = t
    BY <2>1, <2>3, SeqEqual
  <2> QED BY <2>4 DEF s, t
<1>5. Way(P, Len(P)) = P
  BY <1>1 DEF Way
<1> QED BY <1>2, <1>3, <1>4, <1>5

\* One name of the path: the folder is one level further down, or the same.
LEMMA LevelMakes ==
  ASSUME NEW S, NEW P \in Seq(S), NEW n \in 0..Len(P), NEW refused,
         NEW l \in 0..Len(P), NEW m \in {l, l + 1}, m <= Len(P)
  PROVE  Made(P, n, refused, m) =
           IF Exists(Way(P, m), Made(P, n, refused, l)) THEN Made(P, n, refused, l)
           ELSE mkdir(Way(P, m), Made(P, n, refused, l), refused)
<1> DEFINE W(d) == Way(P, d)
           F(d) == Free(P, n, refused, d)
           M(k) == {W(d) : d \in {e \in 1..Len(P) : e <= n \/ (e <= k /\ F(e))}}
<1>0. Len(P) \in Nat /\ m \in 0..Len(P)
  OBVIOUS
<1>1. \A d \in 0..Len(P) : Len(W(d)) = d /\ (W(d) = <<>> <=> d = 0)
  BY WayIs
<1>2. m # 0 => Front(W(m)) = W(m - 1)
  BY <1>0, WayIs
<1>3. \A d \in 1..Len(P) : d > n => (F(d) <=> W(d) \notin refused /\ (d - 1 > n => F(d - 1)))
  BY <1>0 DEF Free
<1> HIDE DEF W, F
<1>4. \A k, d \in 0..Len(P) : W(d) \in M(k) <=> d # 0 /\ (d <= n \/ (d <= k /\ F(d)))
  BY <1>0, <1>1
<1>5. \A d \in 0..Len(P) : Exists(W(d), M(l)) <=> d = 0 \/ d <= n \/ (d <= l /\ F(d))
  BY <1>1, <1>4 DEF Exists
<1>6. CASE m = 0 \/ m <= n \/ (m <= l /\ F(m))
  <2>1. M(m) = M(l)
    BY <1>0, <1>6
  <2>2. Exists(W(m), M(l))
    BY <1>0, <1>5, <1>6
  <2> QED BY <2>1, <2>2 DEF Made, W, F
<1>7. CASE m # 0 /\ m > n /\ ~(m <= l /\ F(m))
  <2>1. ~Exists(W(m), M(l))
    BY <1>0, <1>5, <1>7
  <2>2. Exists(W(m - 1), M(l)) <=> m - 1 <= n \/ F(m - 1)
    BY <1>0, <1>5, <1>7
  <2>3. mkdir(W(m), M(l), refused) = IF F(m) THEN M(l) \cup {W(m)} ELSE M(l)
    BY <1>0, <1>2, <1>3, <1>7, <2>2 DEF mkdir
  <2>4. M(m) = IF F(m) THEN M(l) \cup {W(m)} ELSE M(l)
    BY <1>0, <1>7
  <2> HIDE DEF M
  <2>5. M(m) = mkdir(W(m), M(l), refused)
    BY <2>3, <2>4
  <2> QED BY <2>1, <2>5 DEF Made, W, F, M
<1> QED BY <1>0, <1>6, <1>7

\* A folder, from the one that a name leads to.
LEMMA BelowBack ==
  ASSUME NEW S, NEW P \in Seq(S), NEW m \in 0..Len(P),
         NEW s \in Seq(S), NEW name \in S, Below(s, name) = Way(P, m)
  PROVE  \E l \in 0..Len(P) : s = Way(P, l) /\ m \in {l, l + 1}
<1>1. CASE Below(s, name) = s
  BY <1>1
<1>2. CASE Below(s, name) = Append(s, name)
  <2>1. Len(Append(s, name)) = Len(s) + 1 /\ Len(s) \in Nat /\ \A i \in 1..Len(s) : Append(s, name)[i] = s[i]
    BY AppendProperties
  <2>2. m = Len(s) + 1 /\ Len(P) \in Nat
    <3>1. Len(Way(P, m)) = m /\ Len(P) \in Nat
      BY WayIs
    <3> QED BY <1>2, <2>1, <3>1
  <2>3. \A i \in 1..m : Way(P, m)[i] = P[i]
    BY <2>2 DEF Way
  <2> DEFINE t == Way(P, m - 1)
  <2>4. m - 1 \in 0..Len(P)
    BY <2>1, <2>2
  <2>5. t \in Seq(S) /\ Len(t) = m - 1 /\ \A i \in 1..(m - 1) : t[i] = P[i]
    BY <2>2, <2>4 DEF Way
  <2> HIDE DEF t
  <2>6. Len(s) = Len(t) /\ \A i \in 1..Len(s) : s[i] = t[i]
    BY <1>2, <2>1, <2>2, <2>3, <2>5
  <2>7. s = t
    BY <2>5, <2>6, SeqEqual
  <2> QED BY <2>1, <2>2, <2>4, <2>7 DEF t
<1> QED BY <1>1, <1>2 DEF Below

\* What CreatePath makes, when the first n levels are there.
LEMMA CreatePathMakes ==
  ASSUME NEW S, NEW path \in Seq(S), NEW n \in 0..Len(Named(path)), NEW refused
  PROVE  CreatePath(path, {Way(Named(path), d) : d \in 1..n}, refused) =
           Made(Named(path), n, refused, Len(Named(path)))
<1> DEFINE A == Seq(S)
           names == StringSplit(path, Slash)
           N == Len(names)
           P == Named(path)
           dirs == {Way(P, d) : d \in 1..n}
           M(l) == Made(P, n, refused, l)
<1>1. /\ names \in Seq(A) /\ N \in Nat
      /\ \A k \in 1..N : names[k] \in A
  <2>1. names \in Seq(A)
    BY SplitType
  <2> HIDE DEF names, A
  <2> QED BY <2>1, ElementOfSeq
<1>2. PICK f \in [0..N -> Seq(A)] :
        f[0] = <<>> /\ f[N] = P /\ \A k \in 1..N : f[k] = Below(f[k - 1], names[k])
  <2> HIDE DEF A, names
  <2> QED BY <1>1, NamedRun DEF Named, names
<1>3. P \in Seq(A) /\ Len(P) \in Nat
  <2> HIDE DEF A, names, P
  <2>1. P \in Seq(A)
    BY <1>1, <1>2
  <2> QED BY <2>1
<1>4. dirs \in SUBSET Seq(A)
  <2>1. \A d \in 1..n : Way(P, d) \in Seq(A)
    <3> HIDE DEF P, A
    <3> QED BY <1>3, WayIs DEF P
  <2> QED BY <2>1
<1> HIDE DEF A, names, P, dirs
<1>5. PICK h : LevelRuns(h, A, path, dirs, refused)
  BY <1>1, <1>4, LevelRun DEF names
<1>6. \A k \in 0..N : h[k].curpath = f[k]
  <2> DEFINE Q == {k \in 0..N : h[k].curpath = f[k]}
  <2>1. 0 \in Q
    BY <1>1, <1>2, <1>5 DEF LevelRuns, names
  <2>2. \A k \in 1..N : k - 1 \in Q => k \in Q
    BY <1>1, <1>2, <1>5 DEF LevelRuns, names
  <2> HIDE DEF Q
  <2>3. 0..N \subseteq Q
    BY <1>1, <2>1, <2>2, UpTo
  <2> QED BY <2>3 DEF Q
<1>7. \A k \in 0..N : \E l \in 0..Len(P) : f[k] = Way(P, l)
  <2> DEFINE Q == {j \in 0..N : \E l \in 0..Len(P) : f[N - j] = Way(P, l)}
  <2>1. 0 \in Q
    <3>1. f[N - 0] = Way(P, Len(P)) /\ Len(P) \in 0..Len(P)
      BY <1>1, <1>2, <1>3, WayIs
    <3> QED BY <1>1, <3>1
  <2>2. ASSUME NEW j \in 1..N, j - 1 \in Q PROVE j \in Q
    <3>1. PICK m \in 0..Len(P) : f[N - (j - 1)] = Way(P, m)
      BY <2>2
    <3>2. N - (j - 1) \in 1..N /\ (N - (j - 1)) - 1 = N - j /\ N - j \in 0..N
      <4> HIDE DEF N
      <4> QED BY <1>1
    <3>3. /\ f[N - j] \in Seq(A) /\ names[N - (j - 1)] \in A
          /\ f[N - (j - 1)] = Below(f[N - j], names[N - (j - 1)])
      <4> HIDE DEF N
      <4> QED BY <1>1, <1>2, <3>2
    <3>4. Below(f[N - j], names[N - (j - 1)]) = Way(P, m)
      BY <3>1, <3>3
    <3>5. \E l \in 0..Len(P) : f[N - j] = Way(P, l)
      BY <1>3, <3>3, <3>4, BelowBack
    <3> QED BY <3>2, <3>5
  <2> HIDE DEF Q
  <2>3. 0..N \subseteq Q
    BY <1>1, <2>1, <2>2, UpTo
  <2>4. \A k \in 0..N : N - k \in Q /\ N - (N - k) = k
    BY <1>1, <2>3
  <2> QED BY <2>4 DEF Q
<1>8. ASSUME NEW k \in 0..N
      PROVE  h[k].dirs = M(Len(f[k]))
  <2> DEFINE Q == {j \in 0..N : h[j].dirs = M(Len(f[j]))}
  <2>1. 0 \in Q
    <3>1. M(0) = dirs
      BY <1>3 DEF Made, dirs, P
    <3> QED BY <1>1, <1>2, <1>5, <3>1 DEF LevelRuns, names
  <2>2. ASSUME NEW j \in 1..N, j - 1 \in Q PROVE j \in Q
    <3>1. PICK m \in 0..Len(P) : f[j] = Way(P, m)
      BY <1>7
    <3>2. f[j - 1] \in Seq(A) /\ names[j] \in A /\ Below(f[j - 1], names[j]) = f[j]
      <4>1. j - 1 \in 0..N /\ j \in 1..N
        BY <1>1
      <4> HIDE DEF N
      <4> QED BY <1>1, <1>2, <4>1
    <3>3. PICK l \in 0..Len(P) : f[j - 1] = Way(P, l) /\ m \in {l, l + 1}
      <4>1. Below(f[j - 1], names[j]) = Way(P, m)
        BY <3>1, <3>2
      <4> QED BY <1>3, <3>2, <4>1, BelowBack
    <3>4. Len(f[j]) = m /\ Len(f[j - 1]) = l
      BY <1>3, <3>1, <3>3, WayIs
    <3>5. M(m) = IF Exists(Way(P, m), M(l)) THEN M(l) ELSE mkdir(Way(P, m), M(l), refused)
      BY <1>3, <3>3, LevelMakes DEF P
    <3>6. h[j - 1].dirs = M(l) /\ h[j - 1].curpath = f[j - 1]
      BY <1>6, <2>2, <3>4
    <3> HIDE DEF M
    <3>7. h[j].dirs = IF Exists(f[j], M(l)) THEN M(l) ELSE mkdir(f[j], M(l), refused)
      BY <1>5, <3>2, <3>6 DEF LevelRuns, names
    <3> QED BY <3>1, <3>4, <3>5, <3>7
  <2> HIDE DEF Q
  <2>3. 0..N \subseteq Q
    BY <1>1, <2>1, <2>2, UpTo
  <2> QED BY <2>3 DEF Q
<1>9. h[N].dirs = M(Len(P))
  BY <1>1, <1>2, <1>8
<1>10. ASSUME Exists(P, dirs) PROVE dirs = M(Len(P))
  <2>1. n = Len(P)
    <3>1. CASE P = <<>>
      BY <1>3, <3>1 DEF P
    <3>2. CASE P \in dirs
      <4>1. PICK d \in 1..n : P = Way(P, d)
        BY <3>2 DEF dirs
      <4>2. Len(P) = d
        BY <1>3, <4>1, WayIs DEF P
      <4> QED BY <1>3, <4>2 DEF P
    <3> QED BY <1>10, <3>1, <3>2 DEF Exists
  <2> QED BY <1>3, <2>1 DEF dirs, Made
<1>11. CreatePath(path, dirs, refused) = M(Len(P))
  BY <1>5, <1>9, <1>10 DEF LevelRuns, names, P
<1> QED BY <1>11 DEF P, dirs
=============================================================================
