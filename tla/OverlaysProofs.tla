--------------------------- MODULE OverlaysProofs ---------------------------
(***************************************************************************)
(* Proofs about Debver, AppleFixes and Overlays for any versions, CVEs,    *)
(* peers, aliases, products, advisories and Debian sheets.                 *)
(*                                                                         *)
(* Three arguments carry them.  From any two places of two versions on,    *)
(* the comparison and the policy agree, by induction over what is left     *)
(* behind the places: a step of the code either decides between the two    *)
(* blocks that begin there, or passes the same characters, or the same     *)
(* number, on both sides.  A map of fixes in the making is the best of     *)
(* what has been read so far, in either pass: the index is read in the     *)
(* order of its versions, so that what is still to come is no earlier.     *)
(* And what the purge has selected stays unspared until it is deleted: no  *)
(* overlay is written while it runs.                                       *)
(***************************************************************************)
EXTENDS Overlays, SequenceTheorems, WellFoundedInduction, TLAPS

-----------------------------------------------------------------------------
(* Induction.  A recursive function is a CHOOSE of a solution: what it       *)
(* computes can be proved once a solution exists, and a set of numbers with  *)
(* 0 and all successors has them all because every set has a least one.      *)

\* Every set of natural numbers with a member has a least one.
LEMMA LeastNumber ==
  ASSUME NEW S \in SUBSET Nat, S # {}
  PROVE  \E m \in S : \A n \in S : m <= n
  <1> DEFINE Less == {ss \in Nat \X Nat : ss[1] < ss[2]}
  <1>1. IsWellFoundedOn(Less, Nat)
    BY NatLessThanWellFounded DEF OpToRel
  <1>2. PICK m \in S : \A n \in S : ~(<<n, m>> \in Less)
    <2>1. S \subseteq Nat
      OBVIOUS
    <2> HIDE DEF Less
    <2> QED
      BY <1>1, <2>1, WFMin, Zenon
  <1>3. ASSUME NEW n \in S
        PROVE  m <= n
    <2>1. m \in Nat /\ n \in Nat /\ ~(<<n, m>> \in Less)
      BY <1>2
    <2> QED
      BY <2>1
  <1> QED
    BY <1>3

\* Induction over the natural numbers, for a set of them.
LEMMA SetInduction ==
  ASSUME NEW S, 0 \in S, \A n \in Nat : n \in S => n + 1 \in S
  PROVE  \A n \in Nat : n \in S
  <1> DEFINE missing == Nat \ S
  <1> SUFFICES ASSUME missing # {}
               PROVE  FALSE
    OBVIOUS
  <1>1. PICK m \in missing : \A n \in missing : m <= n
    BY LeastNumber
  <1>2. m # 0 /\ m - 1 \in Nat /\ m - 1 \notin missing
    BY <1>1
  <1> QED
    BY <1>1, <1>2

\* Induction over the places of a set D by their rank.
LEMMA RankInduction ==
  ASSUME NEW D, NEW rank \in [D -> Nat], NEW T,
         \A p \in D : (\A q \in D : rank[q] < rank[p] => q \in T) => p \in T
  PROVE  D \subseteq T
  <1> DEFINE missing == D \ T
             ranks == {rank[p] : p \in missing}
  <1> SUFFICES ASSUME missing # {}
               PROVE  FALSE
    OBVIOUS
  <1>1. ranks \in SUBSET Nat /\ ranks # {}
    OBVIOUS
  <1>2. PICK n \in ranks : \A k \in ranks : n <= k
    BY <1>1, LeastNumber
  <1>3. PICK p \in missing : n = rank[p]
    BY <1>2
  <1>4. ASSUME NEW q \in D, rank[q] < rank[p]
        PROVE  q \in T
    <2> SUFFICES ASSUME q \in missing PROVE FALSE
      OBVIOUS
    <2>1. rank[q] \in ranks /\ rank[q] \in Nat /\ rank[p] \in Nat
      OBVIOUS
    <2>2. rank[p] <= rank[q]
      BY <1>2, <1>3, <2>1
    <2> QED
      BY <1>4, <2>1, <2>2
  <1> QED
    BY <1>3, <1>4

\* B gives a function on D from one, by looking back: its value at a place
\* depends on those at places of lower rank only, and the ranks are bounded.
LooksBack(B, D, R, rank, top) ==
  /\ R # {}
  /\ top \in Nat
  /\ rank \in [D -> 0 .. top]
  /\ B \in [[D -> R] -> [D -> R]]
  /\ \A f, g \in [D -> R] : \A p \in D :
       (\A q \in D : rank[q] < rank[p] => f[q] = g[q]) => B[f][p] = B[g][p]

HasSolution(B, D, R) == \E f \in [D -> R] : B[f] = f

\* A recursive definition that looks back defines a function.
LEMMA RecursionHasSolution ==
  ASSUME NEW B, NEW D, NEW R, NEW rank, NEW top, LooksBack(B, D, R, rank, top)
  PROVE  HasSolution(B, D, R)
  <1> USE DEF LooksBack
  <1> DEFINE S == {n \in Nat : \E f \in [D -> R] :
                     \A p \in D : rank[p] < n => f[p] = B[f][p]}
  <1>1. 0 \in S
    <2>1. PICK r \in R : TRUE
      OBVIOUS
    <2>2. [p \in D |-> r] \in [D -> R]
      OBVIOUS
    <2>3. ASSUME NEW p \in D
          PROVE  ~(rank[p] < 0)
      OBVIOUS
    <2> QED
      BY <2>2, <2>3, Zenon
  <1>2. ASSUME NEW n \in Nat, n \in S
        PROVE  n + 1 \in S
    <2>1. PICK f \in [D -> R] : \A p \in D : rank[p] < n => f[p] = B[f][p]
      BY <1>2
    <2>2. B[f] \in [D -> R]
      OBVIOUS
    <2>3. ASSUME NEW p \in D, rank[p] < n + 1
          PROVE  B[f][p] = B[B[f]][p]
      <3>1. \A q \in D : rank[q] < rank[p] => f[q] = B[f][q]
        BY <2>1, <2>3
      <3> QED
        BY <2>2, <3>1
    <2> QED
      BY <2>2, <2>3
  <1>3. \A n \in Nat : n \in S
    <2> HIDE DEF S
    <2> QED
      BY <1>1, <1>2, SetInduction
  <1>4. PICK f \in [D -> R] : \A p \in D : rank[p] < top + 1 => f[p] = B[f][p]
    <2>1. top + 1 \in S
      BY <1>3
    <2> QED
      BY <2>1, Zenon
  <1>5. ASSUME NEW p \in D
        PROVE  f[p] = B[f][p]
    <2>1. rank[p] < top + 1
      OBVIOUS
    <2> QED
      BY <1>4, <2>1
  <1> QED
    BY <1>5 DEF HasSolution

-----------------------------------------------------------------------------
(* Runs of characters.                                                     *)

Chars == 0 .. 127

\* A run ends at the first character that is not of it.
LEMMA RunEndIs ==
  ASSUME NEW s \in Seq(Chars), NEW i \in 1 .. Len(s) + 1, NEW chars
  PROVE  /\ RunEnd(s, i, chars) \in i .. Len(s) + 1
         /\ \A n \in i .. RunEnd(s, i, chars) - 1 : s[n] \in chars
         /\ RunEnd(s, i, chars) <= Len(s) => s[RunEnd(s, i, chars)] \notin chars
  <1>1. Len(s) \in Nat
    OBVIOUS
  <1> DEFINE S == {k \in Nat : i <= k /\ k <= Len(s) + 1
                                /\ (k <= Len(s) => s[k] \notin chars)}
  <1>2. Len(s) + 1 \in S
    BY <1>1
  <1>3. PICK k \in S : \A n \in S : k <= n
    BY <1>2, LeastNumber
  <1>4. ASSUME NEW n \in i .. k - 1
        PROVE  s[n] \in chars
    <2>1. n \in Nat /\ n < k
      BY <1>1, <1>3
    <2> QED
      BY <1>1, <1>3, <2>1
  <1>5. k \in i .. Len(s) + 1 /\ (k <= Len(s) => s[k] \notin chars)
    BY <1>1, <1>3
  <1> HIDE DEF S
  <1> QED
    BY <1>4, <1>5 DEF RunEnd

\* There is no other place like it.
LEMMA RunEndAt ==
  ASSUME NEW s \in Seq(Chars), NEW i \in 1 .. Len(s) + 1, NEW chars,
         NEW k \in i .. Len(s) + 1, \A n \in i .. k - 1 : s[n] \in chars,
         k <= Len(s) => s[k] \notin chars
  PROVE  RunEnd(s, i, chars) = k
  <1> DEFINE r == RunEnd(s, i, chars)
  <1>1. Len(s) \in Nat
    OBVIOUS
  <1>2. /\ r \in i .. Len(s) + 1
        /\ \A n \in i .. r - 1 : s[n] \in chars
        /\ r <= Len(s) => s[r] \notin chars
    BY RunEndIs
  <1> HIDE DEF r
  <1>3. ~(k < r)
    <2> SUFFICES ASSUME k < r PROVE FALSE
      OBVIOUS
    <2>1. k \in i .. r - 1 /\ k <= Len(s)
      BY <1>1, <1>2
    <2> QED
      BY <1>2, <2>1
  <1>4. ~(r < k)
    <2> SUFFICES ASSUME r < k PROVE FALSE
      OBVIOUS
    <2>1. r \in i .. k - 1 /\ r <= Len(s)
      BY <1>1, <1>2
    <2> QED
      BY <1>2, <2>1
  <1> QED
    BY <1>1, <1>2, <1>3, <1>4 DEF r

\* What a run is that begins with a character of it, or not.
LEMMA RunEndStep ==
  ASSUME NEW s \in Seq(Chars), NEW i \in 1 .. Len(s), NEW chars
  PROVE  RunEnd(s, i, chars)
           = IF s[i] \in chars THEN RunEnd(s, i + 1, chars) ELSE i
  <1>1. Len(s) \in Nat
    OBVIOUS
  <1>2. CASE s[i] \in chars
    <2> DEFINE k == RunEnd(s, i + 1, chars)
    <2>1. i + 1 \in 1 .. Len(s) + 1
      BY <1>1
    <2>2. /\ k \in i + 1 .. Len(s) + 1
          /\ \A n \in i + 1 .. k - 1 : s[n] \in chars
          /\ k <= Len(s) => s[k] \notin chars
      BY <2>1, RunEndIs
    <2> HIDE DEF k
    <2>3. k \in i .. Len(s) + 1 /\ i \in 1 .. Len(s) + 1
      BY <1>1, <2>2
    <2>4. ASSUME NEW n \in i .. k - 1 PROVE s[n] \in chars
      <3>1. n = i \/ n \in i + 1 .. k - 1
        BY <2>3
      <3> QED
        BY <1>2, <2>2, <3>1
    <2>5. RunEnd(s, i, chars) = k
      BY <2>2, <2>3, <2>4, RunEndAt
    <2> QED
      BY <1>2, <2>5 DEF k
  <1>3. CASE s[i] \notin chars
    <2>1. i \in i .. Len(s) + 1 /\ i \in 1 .. Len(s) + 1
      BY <1>1
    <2>2. \A n \in i .. i - 1 : s[n] \in chars
      OBVIOUS
    <2> QED
      BY <1>3, <2>1, <2>2, RunEndAt
  <1> QED
    BY <1>2, <1>3

\* Zeros are digits: after them the run of digits ends where it would have.
LEMMA ZerosAreDigits ==
  ASSUME NEW s \in Seq(Chars), NEW i \in 1 .. Len(s) + 1
  PROVE  RunEnd(s, RunEnd(s, i, {Zero}), Digit) = RunEnd(s, i, Digit)
  <1> DEFINE x == RunEnd(s, i, {Zero})
             m == RunEnd(s, x, Digit)
  <1>1. Len(s) \in Nat
    OBVIOUS
  <1>2. x \in i .. Len(s) + 1 /\ \A n \in i .. x - 1 : s[n] \in {Zero}
    BY RunEndIs
  <1>3. x \in 1 .. Len(s) + 1
    BY <1>1, <1>2
  <1>4. /\ m \in x .. Len(s) + 1
        /\ \A n \in x .. m - 1 : s[n] \in Digit
        /\ m <= Len(s) => s[m] \notin Digit
    BY <1>3, RunEndIs
  <1> HIDE DEF x, m
  <1>5. m \in i .. Len(s) + 1
    BY <1>1, <1>2, <1>4
  <1>6. ASSUME NEW n \in i .. m - 1 PROVE s[n] \in Digit
    <2>1. n \in i .. x - 1 \/ n \in x .. m - 1
      BY <1>1, <1>2, <1>4
    <2> QED
      BY <1>2, <1>4, <2>1 DEF Zero, Digit
  <1>7. RunEnd(s, i, Digit) = m
    BY <1>4, <1>5, <1>6, RunEndAt
  <1> QED
    BY <1>7 DEF m, x

-----------------------------------------------------------------------------
(* Numbers.                                                                *)

\* The recursion of Values has a solution.
LEMMA ValuesAre ==
  ASSUME NEW d \in Seq(Digit)
  PROVE  /\ Values(d) \in [0 .. Len(d) -> Nat]
         /\ Values(d)[0] = 0
         /\ \A n \in 1 .. Len(d) : Values(d)[n] = 10 * Values(d)[n - 1] + d[n] - Zero
  <1>1. Len(d) \in Nat /\ \A n \in 1 .. Len(d) : d[n] \in 48 .. 57
    BY DEF Digit
  <1> DEFINE D == 0 .. Len(d)
             Body(f) == [n \in D |-> IF n = 0 THEN 0
                                     ELSE 10 * f[n - 1] + d[n] - Zero]
             B == [f \in [D -> Nat] |-> Body(f)]
             rank == [n \in D |-> n]
  <1>2. rank \in [D -> 0 .. Len(d)] /\ rank \in [D -> Nat]
    OBVIOUS
  <1>3. ASSUME NEW n \in D, n # 0
        PROVE  /\ n - 1 \in D /\ rank[n - 1] < rank[n]
               /\ \A v \in Nat : 10 * v + d[n] - Zero \in Nat
    <2>1. n \in 1 .. Len(d) /\ n - 1 \in D
      BY <1>1, <1>3
    <2>2. d[n] \in 48 .. 57
      BY <1>1, <2>1
    <2> QED
      BY <2>1, <2>2, SMTT(30) DEF Zero
  <1>4. B \in [[D -> Nat] -> [D -> Nat]]
    BY <1>3
  <1>5. ASSUME NEW f \in [D -> Nat], NEW g \in [D -> Nat], NEW n \in D,
               \A k \in D : rank[k] < rank[n] => f[k] = g[k]
        PROVE  B[f][n] = B[g][n]
    <2>1. n # 0 => f[n - 1] = g[n - 1]
      BY <1>3, <1>5
    <2> QED
      BY <2>1
  <1>6. \E f \in [D -> Nat] : B[f] = f
    <2>1. LooksBack(B, D, Nat, rank, Len(d))
      BY <1>1, <1>2, <1>4, <1>5 DEF LooksBack
    <2> HIDE DEF B, rank, D
    <2>2. HasSolution(B, D, Nat)
      BY <2>1, RecursionHasSolution
    <2> QED
      BY <2>2 DEF HasSolution
  <1>7. \E f : f = Body(f)
    <2>1. PICK f \in [D -> Nat] : B[f] = f
      BY <1>6
    <2>2. f = Body(f)
      BY <2>1
    <2> QED
      BY <2>2
  <1>8. Values(d) = Body(Values(d))
    BY <1>7, Zenon DEF Values
  <1> DEFINE f == Values(d)
  <1> HIDE DEF f
  <1>9. DOMAIN f = D /\ f = [n \in D |-> f[n]] /\ f[0] = 0
          /\ \A n \in D : n # 0 => f[n] = 10 * f[n - 1] + d[n] - Zero
    BY <1>1, <1>8 DEF f
  <1>10. \A n \in D : f[n] \in Nat
    <2> DEFINE T == {n \in D : f[n] \in Nat}
    <2>1. ASSUME NEW n \in D, \A k \in D : rank[k] < rank[n] => k \in T
          PROVE  n \in T
      <3>1. CASE n = 0
        BY <1>9, <3>1
      <3>2. CASE n # 0
        <4>1. n - 1 \in T
          BY <1>3, <2>1, <3>2
        <4>2. f[n] = 10 * f[n - 1] + d[n] - Zero
          BY <1>9, <3>2
        <4>3. f[n - 1] \in Nat
          BY <4>1
        <4>4. 10 * f[n - 1] + d[n] - Zero \in Nat
          BY <1>3, <3>2, <4>3
        <4> QED
          BY <4>2, <4>4
      <3> QED
        BY <3>1, <3>2
    <2>2. D \subseteq T
      <3> HIDE DEF T, D, rank
      <3> QED
        BY <1>2, <2>1, RankInduction
    <2> QED
      BY <2>2
  <1>11. f \in [D -> Nat]
    BY <1>9, <1>10
  <1>12. ASSUME NEW n \in 1 .. Len(d)
         PROVE  f[n] = 10 * f[n - 1] + d[n] - Zero
    BY <1>1, <1>9
  <1> QED
    BY <1>9, <1>11, <1>12 DEF f

\* A run of digits writes a natural number.
LEMMA ValueIsNat ==
  ASSUME NEW d \in Seq(Digit)
  PROVE  Value(d) \in Nat
  <1>1. Len(d) \in 0 .. Len(d)
    OBVIOUS
  <1> QED
    BY <1>1, ValuesAre DEF Value

\* Of two numbers that continue with the same digits, none overtakes the other.
LEMMA SameDigitsOn ==
  ASSUME NEW x \in Seq(Digit), NEW y \in Seq(Digit),
         NEW p \in 0 .. Len(x), NEW q \in 0 .. Len(y),
         Values(x)[p] = Values(y)[q],
         NEW k \in Nat, p + k <= Len(x), q + k <= Len(y),
         \A j \in 1 .. k : x[p + j] = y[q + j]
  PROVE  Values(x)[p + k] = Values(y)[q + k]
  <1>1. Len(x) \in Nat /\ Len(y) \in Nat
    OBVIOUS
  <1> DEFINE S == {n \in Nat : n <= k => Values(x)[p + n] = Values(y)[q + n]}
  <1>2. 0 \in S
    OBVIOUS
  <1>3. ASSUME NEW n \in Nat, n \in S
        PROVE  n + 1 \in S
    <2> SUFFICES ASSUME n + 1 <= k
                 PROVE  Values(x)[p + (n + 1)] = Values(y)[q + (n + 1)]
      OBVIOUS
    <2> DEFINE i == p + (n + 1)
               j == q + (n + 1)
    <2>1. i \in 1 .. Len(x) /\ j \in 1 .. Len(y) /\ i - 1 = p + n /\ j - 1 = q + n
      BY <1>1
    <2>2. Values(x)[i - 1] = Values(y)[j - 1]
      <3>1. Values(x)[p + n] = Values(y)[q + n]
        BY <1>3
      <3> QED
        BY <2>1, <3>1
    <2>3. x[i] = y[j]
      <3>1. n + 1 \in 1 .. k
        OBVIOUS
      <3> QED
        BY <3>1
    <2> HIDE DEF i, j
    <2>4. /\ Values(x)[i] = 10 * Values(x)[i - 1] + x[i] - Zero
          /\ Values(y)[j] = 10 * Values(y)[j - 1] + y[j] - Zero
      BY <2>1, ValuesAre
    <2> QED
      BY <2>2, <2>3, <2>4 DEF i, j
  <1>4. \A n \in Nat : n \in S
    <2> HIDE DEF S
    <2> QED
      BY <1>2, <1>3, SetInduction
  <1> QED
    BY <1>4

\* What one more digit makes of a number.
LEMMA OneMoreDigit ==
  ASSUME NEW u \in Nat, NEW v \in Nat, NEW c \in 48 .. 57, NEW d \in 48 .. 57
  PROVE  /\ u < v => 10 * u + c - Zero < 10 * v + d - Zero
         /\ v > 0 => 10 * v + d - Zero > 0
         /\ c < d => 10 * u + c - Zero < 10 * u + d - Zero
  BY DEF Zero

\* A number that is ahead stays ahead, whatever digits follow.
LEMMA StaysAhead ==
  ASSUME NEW x \in Seq(Digit), NEW y \in Seq(Digit),
         NEW p \in 0 .. Len(x), NEW q \in 0 .. Len(y),
         Values(x)[p] < Values(y)[q],
         NEW k \in Nat, p + k <= Len(x), q + k <= Len(y)
  PROVE  Values(x)[p + k] < Values(y)[q + k]
  <1>1. Len(x) \in Nat /\ Len(y) \in Nat
    OBVIOUS
  <1> DEFINE S == {n \in Nat : n <= k => Values(x)[p + n] < Values(y)[q + n]}
  <1>2. 0 \in S
    OBVIOUS
  <1>3. ASSUME NEW n \in Nat, n \in S
        PROVE  n + 1 \in S
    <2> SUFFICES ASSUME n + 1 <= k
                 PROVE  Values(x)[p + (n + 1)] < Values(y)[q + (n + 1)]
      OBVIOUS
    <2> DEFINE i == p + (n + 1)
               j == q + (n + 1)
    <2>1. i \in 1 .. Len(x) /\ j \in 1 .. Len(y) /\ i - 1 = p + n /\ j - 1 = q + n
      BY <1>1
    <2>2. Values(x)[i - 1] < Values(y)[j - 1]
      <3>1. Values(x)[p + n] < Values(y)[q + n]
        BY <1>3
      <3> QED
        BY <2>1, <3>1
    <2>3. x[i] \in 48 .. 57 /\ y[j] \in 48 .. 57
      BY <2>1, SMTT(30) DEF Digit
    <2> HIDE DEF i, j
    <2>4. /\ Values(x)[i] = 10 * Values(x)[i - 1] + x[i] - Zero
          /\ Values(y)[j] = 10 * Values(y)[j - 1] + y[j] - Zero
          /\ Values(x)[i - 1] \in Nat /\ Values(y)[j - 1] \in Nat
      <3>1. i - 1 \in 0 .. Len(x) /\ j - 1 \in 0 .. Len(y)
        BY <1>1, <2>1
      <3> QED
        BY <2>1, <3>1, ValuesAre
    <2>5. Values(x)[i] < Values(y)[j]
      BY <2>2, <2>3, <2>4, OneMoreDigit
    <2> QED
      BY <2>5 DEF i, j
  <1>4. \A n \in Nat : n \in S
    <2> HIDE DEF S
    <2> QED
      BY <1>2, <1>3, SetInduction
  <1> QED
    BY <1>4

\* Leading zeros write nothing.
LEMMA ZerosWriteNothing ==
  ASSUME NEW x \in Seq(Digit), NEW k \in 0 .. Len(x), \A j \in 1 .. k : x[j] = Zero
  PROVE  Values(x)[k] = 0
  <1>1. Len(x) \in Nat
    OBVIOUS
  <1> DEFINE S == {n \in Nat : n <= k => Values(x)[n] = 0}
  <1>2. 0 \in S
    BY ValuesAre
  <1>3. ASSUME NEW n \in Nat, n \in S
        PROVE  n + 1 \in S
    <2> SUFFICES ASSUME n + 1 <= k
                 PROVE  Values(x)[n + 1] = 0
      OBVIOUS
    <2>1. n + 1 \in 1 .. Len(x) /\ (n + 1) - 1 = n /\ x[n + 1] = Zero
      BY <1>1
    <2>2. Values(x)[n + 1] = 10 * Values(x)[n] + x[n + 1] - Zero
      <3>1. Values(x)[n + 1] = 10 * Values(x)[(n + 1) - 1] + x[n + 1] - Zero
        BY <2>1, ValuesAre
      <3> QED
        BY <2>1, <3>1
    <2>3. Values(x)[n] = 0
      BY <1>3
    <2> QED
      BY <2>1, <2>2, <2>3 DEF Zero
  <1>4. \A n \in Nat : n \in S
    <2> HIDE DEF S
    <2> QED
      BY <1>2, <1>3, SetInduction
  <1> QED
    BY <1>4

\* Any other digit does, and what follows never makes it nothing.
LEMMA NonzeroWrites ==
  ASSUME NEW y \in Seq(Digit), NEW k \in 1 .. Len(y), y[1] # Zero
  PROVE  Values(y)[k] > 0
  <1>1. Len(y) \in Nat
    OBVIOUS
  <1> DEFINE S == {n \in Nat : n + 1 <= k => Values(y)[n + 1] > 0}
  <1>2. 0 \in S
    <2>1. 1 \in 1 .. Len(y) /\ 1 - 1 = 0
      BY <1>1
    <2>2. Values(y)[1] = 10 * Values(y)[0] + y[1] - Zero /\ Values(y)[0] = 0
      <3>1. Values(y)[1] = 10 * Values(y)[1 - 1] + y[1] - Zero
        BY <2>1, ValuesAre
      <3> QED
        BY <2>1, <3>1, ValuesAre
    <2>3. y[1] \in 48 .. 57
      BY <2>1 DEF Digit
    <2> QED
      BY <2>2, <2>3 DEF Zero
  <1>3. ASSUME NEW n \in Nat, n \in S
        PROVE  n + 1 \in S
    <2> SUFFICES ASSUME (n + 1) + 1 <= k
                 PROVE  Values(y)[(n + 1) + 1] > 0
      OBVIOUS
    <2> DEFINE i == (n + 1) + 1
    <2>1. i \in 1 .. Len(y) /\ i - 1 = n + 1 /\ i - 1 \in 0 .. Len(y)
      BY <1>1
    <2>2. Values(y)[i - 1] > 0 /\ y[i] \in 48 .. 57
      <3>1. Values(y)[n + 1] > 0
        BY <1>3
      <3> QED
        BY <2>1, <3>1 DEF Digit
    <2> HIDE DEF i
    <2>3. /\ Values(y)[i] = 10 * Values(y)[i - 1] + y[i] - Zero
          /\ Values(y)[i - 1] \in Nat
      BY <2>1, ValuesAre
    <2>4. Values(y)[i] > 0
      BY <2>2, <2>3, OneMoreDigit
    <2> QED
      BY <2>4 DEF i
  <1>4. \A n \in Nat : n \in S
    <2> HIDE DEF S
    <2> QED
      BY <1>2, <1>3, SetInduction
  <1>5. k - 1 \in S
    BY <1>1, <1>4
  <1> QED
    BY <1>1, <1>5

\* Sign tells the lesser of two numbers.
LEMMA SignIs ==
  ASSUME NEW u \in Int, NEW v \in Int
  PROVE  /\ Sign(u, v) \in {-1, 0, 1}
         /\ Sign(u, v) = -1 <=> u < v
         /\ Sign(u, v) = 1 <=> v < u
         /\ Sign(u, v) = 0 <=> u = v
  BY DEF Sign

NoLeadingZero(x) == Len(x) > 0 => x[1] # Zero

\* Two runs of digits compare like the numbers they write.
LEMMA CmpDigitsCompares ==
  ASSUME NEW x \in Seq(Digit), NEW y \in Seq(Digit),
         NoLeadingZero(x), NoLeadingZero(y)
  PROVE  CmpDigits(x, y) = Sign(Value(x), Value(y))
  <1>1. Len(x) \in Nat /\ Len(y) \in Nat
    OBVIOUS
  <1>2. Value(x) \in Nat /\ Value(y) \in Nat
    BY ValueIsNat
  <1>3. ASSUME NEW u \in Seq(Digit), NEW v \in Seq(Digit),
               NoLeadingZero(v), Len(u) < Len(v)
        PROVE  Value(u) < Value(v)
    <2>1. Len(u) \in Nat /\ Len(v) \in Nat
      OBVIOUS
    <2> DEFINE k == Len(v) - Len(u)
    <2>2. k \in 1 .. Len(v) /\ v[1] # Zero
      BY <1>3, <2>1 DEF NoLeadingZero
    <2>3. Values(v)[k] > 0 /\ Values(u)[0] = 0
      BY <2>2, NonzeroWrites, ValuesAre
    <2>4. Values(v)[k] \in Nat
      <3>1. k \in 0 .. Len(v)
        BY <2>1, <2>2
      <3> QED
        BY <3>1, ValuesAre
    <2>5. Values(u)[0] < Values(v)[k]
      BY <2>3, <2>4
    <2>6. /\ 0 \in 0 .. Len(u) /\ k \in 0 .. Len(v)
          /\ 0 + Len(u) = Len(u) /\ k + Len(u) = Len(v)
      BY <2>1, <2>2
    <2>7. Values(u)[0 + Len(u)] < Values(v)[k + Len(u)]
      <3> HIDE DEF k
      <3> QED
        BY <2>1, <2>5, <2>6, StaysAhead
    <2> HIDE DEF k
    <2> QED
      BY <2>6, <2>7 DEF Value
  <1>4. CASE Len(x) # Len(y)
    <2>1. Value(x) < Value(y) <=> Len(x) < Len(y)
      BY <1>1, <1>2, <1>3, <1>4
    <2>2. Value(x) > Value(y) <=> Len(x) > Len(y)
      BY <1>1, <1>2, <1>3, <1>4
    <2> QED
      BY <1>4, <2>1, <2>2 DEF CmpDigits, Sign
  <1>5. CASE x = y
    BY <1>2, <1>5 DEF CmpDigits, Sign
  <1>6. CASE Len(x) = Len(y) /\ x # y
    <2> DEFINE differ == {n \in Nat : n \in 1 .. Len(x) /\ x[n] # y[n]}
    <2>1. differ # {}
      <3>1. (\A n \in 1 .. Len(x) : x[n] = y[n]) => x = y
        BY <1>6, SeqEqual
      <3> QED
        BY <1>1, <1>6, <3>1
    <2>2. PICK m \in differ : \A n \in differ : m <= n
      BY <2>1, LeastNumber
    <2> DEFINE k == CHOOSE n \in 1 .. Len(x) :
                      x[n] # y[n] /\ \A i \in 1 .. n - 1 : x[i] = y[i]
    <2>3. m \in 1 .. Len(x) /\ x[m] # y[m] /\ \A i \in 1 .. m - 1 : x[i] = y[i]
      BY <1>1, <2>2
    <2>4. k \in 1 .. Len(x) /\ x[k] # y[k] /\ \A i \in 1 .. k - 1 : x[i] = y[i]
      BY <2>3
    <2>5. CmpDigits(x, y) = Sign(x[k], y[k])
      BY <1>6 DEF CmpDigits
    <2> HIDE DEF k, differ
    <2>6. x[k] \in 48 .. 57 /\ y[k] \in 48 .. 57
      BY <1>6, <2>4 DEF Digit
    <2>7. /\ k \in Nat /\ k - 1 \in Nat /\ 0 + (k - 1) = k - 1
          /\ k - 1 <= Len(x) /\ k - 1 <= Len(y)
          /\ k \in 0 .. Len(x) /\ k \in 0 .. Len(y)
          /\ k - 1 \in 0 .. Len(x) /\ 0 \in 0 .. Len(x) /\ 0 \in 0 .. Len(y)
      BY <1>1, <1>6, <2>4
    <2>8. Values(x)[k - 1] = Values(y)[k - 1]
      <3>1. Values(x)[0] = Values(y)[0]
        BY ValuesAre
      <3>2. \A j \in 1 .. k - 1 : x[0 + j] = y[0 + j]
        BY <2>4
      <3>3. Values(x)[0 + (k - 1)] = Values(y)[0 + (k - 1)]
        BY <2>7, <3>1, <3>2, SameDigitsOn
      <3> QED
        BY <2>7, <3>3
    <2>9. /\ Values(x)[k] = 10 * Values(x)[k - 1] + x[k] - Zero
          /\ Values(y)[k] = 10 * Values(x)[k - 1] + y[k] - Zero
          /\ Values(x)[k - 1] \in Nat
      BY <1>6, <2>4, <2>7, <2>8, ValuesAre
    <2> DEFINE r == Len(x) - k
    <2>10. /\ r \in Nat /\ k + r = Len(x) /\ k + r = Len(y)
           /\ k + r <= Len(x) /\ k + r <= Len(y)
      BY <1>1, <1>6, <2>4
    <2> HIDE DEF r
    <2>11. ASSUME x[k] < y[k]
           PROVE  Value(x) < Value(y)
      <3>1. Values(x)[k] < Values(y)[k]
        BY <2>6, <2>9, <2>11, OneMoreDigit
      <3>2. Values(x)[k + r] < Values(y)[k + r]
        BY <2>7, <2>10, <3>1, StaysAhead
      <3> QED
        BY <2>10, <3>2 DEF Value
    <2>12. ASSUME y[k] < x[k]
           PROVE  Value(y) < Value(x)
      <3>1. Values(y)[k] < Values(x)[k]
        BY <2>6, <2>9, <2>12, OneMoreDigit
      <3>2. Values(y)[k + r] < Values(x)[k + r]
        BY <2>7, <2>10, <3>1, StaysAhead
      <3> QED
        BY <2>10, <3>2 DEF Value
    <2>13. x[k] < y[k] \/ y[k] < x[k]
      BY <2>4, <2>6, SMTT(30)
    <2>14. x[k] \in Int /\ y[k] \in Int /\ Value(x) \in Int /\ Value(y) \in Int
      BY <1>2, <2>6, SMTT(30)
    <2>15. CASE x[k] < y[k]
      <3>1. Sign(x[k], y[k]) = -1 /\ Sign(Value(x), Value(y)) = -1
        BY <2>11, <2>15, <2>14, SignIs, Zenon
      <3> QED
        BY <2>5, <3>1
    <2>16. CASE y[k] < x[k]
      <3>1. Value(y) < Value(x)
        BY <2>12, <2>16
      <3>2. Sign(x[k], y[k]) = 1 /\ Sign(Value(x), Value(y)) = 1
        BY <2>16, <2>14, <3>1, SignIs, Zenon
      <3> QED
        BY <2>5, <3>2
    <2> QED
      BY <2>13, <2>15, <2>16
  <1> QED
    BY <1>4, <1>5, <1>6

\* A part of a sequence, without cases.
LEMMA PartIs ==
  ASSUME NEW S, NEW s \in Seq(S), NEW i \in Nat, NEW k \in Nat,
         1 <= i, i <= k, k <= Len(s) + 1
  PROVE  /\ SubSeq(s, i, k - 1) \in Seq(S)
         /\ Len(SubSeq(s, i, k - 1)) = k - i
         /\ \A j \in 1 .. k - i : SubSeq(s, i, k - 1)[j] = s[i + j - 1]
  <1>1. \A j \in i .. k - 1 : s[j] \in S
    <2> SUFFICES ASSUME NEW j \in i .. k - 1 PROVE s[j] \in S
      OBVIOUS
    <2>1. j \in 1 .. Len(s)
      OBVIOUS
    <2> QED
      BY <2>1, ElementOfSeq
  <1>2. i \in Int /\ k - 1 \in Int
    OBVIOUS
  <1>3. /\ SubSeq(s, i, k - 1) \in Seq(S)
        /\ Len(SubSeq(s, i, k - 1)) = IF i <= k - 1 THEN (k - 1) - i + 1 ELSE 0
        /\ \A j \in 1 .. (k - 1) - i + 1 : SubSeq(s, i, k - 1)[j] = s[i + j - 1]
    BY <1>1, <1>2, SubSeqProperties
  <1>4. k - i = (k - 1) - i + 1 /\ (~(i <= k - 1) => k - i = 0)
    OBVIOUS
  <1> QED
    BY <1>3, <1>4

\* A part without anything but digits.
LEMMA RunOfDigits ==
  ASSUME NEW s \in Seq(Chars), NEW i \in Nat, NEW k \in Nat,
         1 <= i, i <= k, k <= Len(s) + 1, \A n \in i .. k - 1 : s[n] \in Digit
  PROVE  /\ SubSeq(s, i, k - 1) \in Seq(Digit)
         /\ Len(SubSeq(s, i, k - 1)) = k - i
         /\ \A j \in 1 .. k - i : SubSeq(s, i, k - 1)[j] = s[i + j - 1]
  <1> DEFINE d == SubSeq(s, i, k - 1)
  <1>1. /\ d \in Seq(Chars) /\ Len(d) = k - i
        /\ \A j \in 1 .. k - i : d[j] = s[i + j - 1]
    BY PartIs
  <1> HIDE DEF d
  <1>2. ASSUME NEW j \in 1 .. Len(d) PROVE d[j] \in Digit
    <2>1. j \in 1 .. k - i /\ i + j - 1 \in i .. k - 1
      BY <1>1
    <2> QED
      BY <1>1, <2>1
  <1>3. d \in Seq(Digit)
    BY <1>1, <1>2
  <1> QED
    BY <1>1, <1>3 DEF d

\* The digits from i to m, with and without the zeros up to x.
SameNumber(s, i, x, m) ==
  /\ SubSeq(s, i, m - 1) \in Seq(Digit)
  /\ SubSeq(s, x, m - 1) \in Seq(Digit)
  /\ NoLeadingZero(SubSeq(s, x, m - 1))
  /\ Value(SubSeq(s, i, m - 1)) = Value(SubSeq(s, x, m - 1))
  /\ m = RunEnd(s, x, Digit)

\* The digits at a place, with and without leading zeros, write the same number.
LEMMA NumberAt ==
  ASSUME NEW s \in Seq(Chars), NEW i \in 1 .. Len(s) + 1,
         NEW x \in Nat, x = RunEnd(s, i, {Zero}), NEW m \in Nat, m = RunEnd(s, i, Digit)
  PROVE  SameNumber(s, i, x, m)
  <1> DEFINE long == SubSeq(s, i, m - 1)
             short == SubSeq(s, x, m - 1)
  <1>1. Len(s) \in Nat
    OBVIOUS
  <1>2. /\ x \in i .. Len(s) + 1
        /\ \A n \in i .. x - 1 : s[n] = Zero
        /\ x <= Len(s) => s[x] # Zero
    <2>1. /\ RunEnd(s, i, {Zero}) \in i .. Len(s) + 1
          /\ \A n \in i .. RunEnd(s, i, {Zero}) - 1 : s[n] \in {Zero}
          /\ RunEnd(s, i, {Zero}) <= Len(s) => s[RunEnd(s, i, {Zero})] \notin {Zero}
      BY RunEndIs
    <2> QED
      BY <2>1
  <1>3. m = RunEnd(s, x, Digit)
    BY ZerosAreDigits
  <1>4. x \in 1 .. Len(s) + 1
    BY <1>1, <1>2
  <1>5. /\ m \in x .. Len(s) + 1
        /\ \A n \in x .. m - 1 : s[n] \in Digit
    BY <1>3, <1>4, RunEndIs
  <1>6. /\ i \in Nat /\ x \in Nat /\ m \in Nat
        /\ 1 <= i /\ i <= x /\ x <= m /\ m <= Len(s) + 1 /\ i <= m /\ 1 <= x
    BY <1>1, <1>2, <1>5
  <1>7. \A n \in i .. m - 1 : s[n] \in Digit
    <2> SUFFICES ASSUME NEW n \in i .. m - 1 PROVE s[n] \in Digit
      OBVIOUS
    <2>1. n \in i .. x - 1 \/ n \in x .. m - 1
      BY <1>6
    <2> QED
      BY <1>2, <1>5, <2>1 DEF Zero, Digit
  <1>8. /\ long \in Seq(Digit) /\ Len(long) = m - i
        /\ \A j \in 1 .. m - i : long[j] = s[i + j - 1]
    BY <1>6, <1>7, RunOfDigits
  <1>9. /\ short \in Seq(Digit) /\ Len(short) = m - x
        /\ \A j \in 1 .. m - x : short[j] = s[x + j - 1]
    BY <1>5, <1>6, RunOfDigits
  <1> HIDE DEF long, short
  <1>10. NoLeadingZero(short)
    <2> SUFFICES ASSUME Len(short) > 0 PROVE short[1] # Zero
      BY DEF NoLeadingZero
    <2>1. 1 \in 1 .. m - x /\ x + 1 - 1 = x /\ x <= Len(s)
      BY <1>1, <1>6, <1>9
    <2> QED
      BY <1>2, <1>9, <2>1
  <1>11. Value(long) = Value(short)
    <2> DEFINE z == x - i
               k == m - x
    <2>1. /\ z \in 0 .. Len(long) /\ 0 \in 0 .. Len(short) /\ k \in Nat
          /\ z + k = Len(long) /\ 0 + k = Len(short) /\ z + k <= Len(long) /\ 0 + k <= Len(short)
      BY <1>6, <1>8, <1>9, SMTT(30)
    <2>2. \A j \in 1 .. z : long[j] = Zero
      <3> SUFFICES ASSUME NEW j \in 1 .. z PROVE long[j] = Zero
        OBVIOUS
      <3>1. j \in 1 .. m - i /\ i + j - 1 \in i .. x - 1
        BY <1>6
      <3> QED
        BY <1>2, <1>8, <3>1
    <2>3. ASSUME NEW j \in 1 .. k PROVE long[z + j] = short[0 + j]
      <3>1. /\ j \in 1 .. m - x /\ z + j \in 1 .. m - i
            /\ i + (z + j) - 1 = x + j - 1 /\ 0 + j = j
        BY <1>6, SMTT(30)
      <3> HIDE DEF z, k
      <3> QED
        BY <1>8, <1>9, <3>1
    <2> HIDE DEF z, k
    <2>4. Values(long)[z] = Values(short)[0]
      BY <1>8, <1>9, <2>1, <2>2, ZerosWriteNothing, ValuesAre
    <2>5. Values(long)[z + k] = Values(short)[0 + k]
      BY <1>8, <1>9, <2>1, <2>3, <2>4, SameDigitsOn
    <2> QED
      BY <2>1, <2>5 DEF Value
  <1> QED
    BY <1>3, <1>8, <1>9, <1>10, <1>11 DEF long, short, SameNumber

-----------------------------------------------------------------------------
(* Blocks: a text without digits and a number.                             *)

NonDigit == (0 .. 127) \ Digit
Block == [text : Seq(Chars), number : Nat]

\* The block that begins at the place i, and the place behind it.
TextEnd(s, i) == RunEnd(s, i, NonDigit)
NextBlock(s, i) == RunEnd(s, TextEnd(s, i), Digit)
BlockOf(s, i) ==
  [text |-> SubSeq(s, i, TextEnd(s, i) - 1),
   number |-> Value(SubSeq(s, TextEnd(s, i), NextBlock(s, i) - 1))]

\* A block ends within the version, and behind the place it begins at.
LEMMA BlockOfIs ==
  ASSUME NEW s \in Seq(Chars), NEW i \in 1 .. Len(s) + 1
  PROVE  /\ TextEnd(s, i) \in i .. Len(s) + 1
         /\ NextBlock(s, i) \in TextEnd(s, i) .. Len(s) + 1
         /\ i <= Len(s) => i < NextBlock(s, i)
         /\ BlockOf(s, i) \in Block
  <1> DEFINE j == TextEnd(s, i)
             k == NextBlock(s, i)
  <1>1. Len(s) \in Nat
    OBVIOUS
  <1>2. j \in i .. Len(s) + 1 /\ (j <= Len(s) => s[j] \notin NonDigit)
    BY RunEndIs DEF TextEnd
  <1>3. j \in 1 .. Len(s) + 1 /\ i \in Nat /\ j \in Nat /\ 1 <= i /\ 1 <= j
    BY <1>1, <1>2
  <1>4. /\ k \in j .. Len(s) + 1
        /\ \A n \in j .. k - 1 : s[n] \in Digit
        /\ k <= Len(s) => s[k] \notin Digit
    BY <1>3, RunEndIs DEF NextBlock
  <1>5. i <= Len(s) => i < k
    <2> SUFFICES ASSUME i <= Len(s), k = i PROVE FALSE
      BY <1>1, <1>2, <1>3, <1>4
    <2>1. j = i
      BY <1>2, <1>3, <1>4
    <2>2. s[i] \in Chars /\ s[i] \notin NonDigit /\ s[i] \notin Digit
      BY <1>1, <1>2, <1>3, <1>4, <2>1
    <2> QED
      BY <2>2 DEF NonDigit, Chars
  <1>6. k \in Nat
    BY <1>1, <1>3, <1>4
  <1>7. SubSeq(s, i, j - 1) \in Seq(Chars)
    <2>1. i <= j /\ j <= Len(s) + 1
      BY <1>1, <1>2, <1>3
    <2> QED
      BY <1>3, <2>1, PartIs
  <1>8. Value(SubSeq(s, j, k - 1)) \in Nat
    <2>1. j <= k /\ k <= Len(s) + 1
      BY <1>1, <1>3, <1>4, <1>6
    <2>2. SubSeq(s, j, k - 1) \in Seq(Digit)
      BY <1>3, <1>4, <1>6, <2>1, RunOfDigits
    <2> QED
      BY <2>2, ValueIsNat
  <1> HIDE DEF j, k
  <1>9. [text |-> SubSeq(s, i, j - 1), number |-> Value(SubSeq(s, j, k - 1))]
          \in Block
    BY <1>7, <1>8 DEF Block
  <1> QED
    BY <1>2, <1>4, <1>5, <1>9 DEF j, k, BlockOf

\* A step of the recursion of Blocks.
LEMMA BlockAtIs ==
  ASSUME NEW s \in Seq(Chars), NEW i \in 1 .. Len(s), NEW f
  PROVE  BlockAt(s, f, i) = <<BlockOf(s, i)>> \o f[NextBlock(s, i)]
  BY DEF BlockAt, BlockOf, NextBlock, TextEnd, NonDigit

\* A sequence of one.
LEMMA SingletonIs ==
  ASSUME NEW S, NEW e \in S
  PROVE  <<e>> \in Seq(S) /\ Len(<<e>>) = 1 /\ <<e>>[1] = e
  OBVIOUS

\* The lists of the blocks from every place on.
LEMMA BlocksAre ==
  ASSUME NEW s \in Seq(Chars)
  PROVE  /\ BlocksFrom(s) \in [1 .. Len(s) + 1 -> Seq(Block)]
         /\ BlocksFrom(s)[Len(s) + 1] = <<>>
         /\ \A i \in 1 .. Len(s) :
              BlocksFrom(s)[i] = <<BlockOf(s, i)>> \o BlocksFrom(s)[NextBlock(s, i)]
  <1> DEFINE D == 1 .. Len(s) + 1
             R == Seq(Block)
             Body(f) == [i \in D |-> BlockAt(s, f, i)]
             B == [f \in [D -> R] |-> Body(f)]
             rank == [i \in D |-> Len(s) + 1 - i]
  <1>1. Len(s) \in Nat
    OBVIOUS
  <1>2. rank \in [D -> 0 .. Len(s)] /\ rank \in [D -> Nat]
    BY <1>1
  <1>3. ASSUME NEW i \in D, i <= Len(s)
        PROVE  /\ i \in 1 .. Len(s)
               /\ NextBlock(s, i) \in D
               /\ rank[NextBlock(s, i)] < rank[i]
               /\ BlockOf(s, i) \in Block
    <2>1. i \in 1 .. Len(s)
      BY <1>1, <1>3
    <2>2. /\ TextEnd(s, i) \in i .. Len(s) + 1
          /\ NextBlock(s, i) \in TextEnd(s, i) .. Len(s) + 1
          /\ i < NextBlock(s, i)
          /\ BlockOf(s, i) \in Block
      BY <1>3, BlockOfIs
    <2> QED
      BY <1>1, <2>1, <2>2
  <1>4. ASSUME NEW i \in D, ~(i <= Len(s)), NEW f
        PROVE  BlockAt(s, f, i) = <<>>
    BY <1>1, <1>4 DEF BlockAt
  <1>5. ASSUME NEW i \in D, NEW v \in R, i <= Len(s)
        PROVE  <<BlockOf(s, i)>> \o v \in R
    <2>1. <<BlockOf(s, i)>> \in R
      BY <1>3, <1>5, SingletonIs
    <2> QED
      BY <2>1, ConcatProperties
  <1>6. ASSUME NEW f \in [D -> R], NEW i \in D
        PROVE  BlockAt(s, f, i) \in R
    <2>1. CASE i <= Len(s)
      <3>1. f[NextBlock(s, i)] \in R
        BY <1>3, <2>1
      <3>2. BlockAt(s, f, i) = <<BlockOf(s, i)>> \o f[NextBlock(s, i)]
        BY <1>3, <2>1, BlockAtIs
      <3> QED
        BY <1>5, <2>1, <3>1, <3>2
    <2>2. CASE ~(i <= Len(s))
      BY <1>4, <2>2, EmptySeq
    <2> QED
      BY <2>1, <2>2
  <1>7. B \in [[D -> R] -> [D -> R]]
    BY <1>6
  <1>8. ASSUME NEW f \in [D -> R], NEW g \in [D -> R], NEW i \in D,
               \A k \in D : rank[k] < rank[i] => f[k] = g[k]
        PROVE  B[f][i] = B[g][i]
    <2>1. BlockAt(s, f, i) = BlockAt(s, g, i)
      <3>1. CASE i <= Len(s)
        <4>1. f[NextBlock(s, i)] = g[NextBlock(s, i)]
          BY <1>3, <1>8, <3>1
        <4>2. BlockAt(s, f, i) = <<BlockOf(s, i)>> \o f[NextBlock(s, i)]
          BY <1>3, <3>1, BlockAtIs
        <4>3. BlockAt(s, g, i) = <<BlockOf(s, i)>> \o g[NextBlock(s, i)]
          BY <1>3, <3>1, BlockAtIs
        <4> QED
          BY <4>1, <4>2, <4>3
      <3>2. CASE ~(i <= Len(s))
        BY <1>4, <3>2
      <3> QED
        BY <3>1, <3>2
    <2> QED
      BY <2>1
  <1>9. \E f \in [D -> R] : B[f] = f
    <2>1. R # {}
      BY EmptySeq
    <2>2. LooksBack(B, D, R, rank, Len(s))
      BY <1>1, <1>2, <1>7, <1>8, <2>1 DEF LooksBack
    <2> HIDE DEF B, rank, D, R
    <2>3. HasSolution(B, D, R)
      BY <2>2, RecursionHasSolution
    <2> QED
      BY <2>3 DEF HasSolution
  <1>10. \E f : f = Body(f)
    <2>1. PICK f \in [D -> R] : B[f] = f
      BY <1>9
    <2>2. f = Body(f)
      BY <2>1
    <2> QED
      BY <2>2
  <1>11. BlocksFrom(s) = Body(BlocksFrom(s))
    BY <1>10, Zenon DEF BlocksFrom
  <1> DEFINE f == BlocksFrom(s)
  <1> HIDE DEF f
  <1>12. /\ DOMAIN f = D /\ f = [i \in D |-> f[i]]
         /\ \A i \in D : f[i] = BlockAt(s, f, i)
    BY <1>11 DEF f
  <1>13. ASSUME NEW i \in D, i <= Len(s)
         PROVE  f[i] = <<BlockOf(s, i)>> \o f[NextBlock(s, i)]
    BY <1>3, <1>12, <1>13, BlockAtIs
  <1>14. \A i \in D : f[i] \in R
    <2> DEFINE T == {i \in D : f[i] \in R}
    <2>1. ASSUME NEW i \in D, \A k \in D : rank[k] < rank[i] => k \in T
          PROVE  i \in T
      <3>1. CASE i <= Len(s)
        <4>1. f[NextBlock(s, i)] \in R
          <5>1. NextBlock(s, i) \in T
            BY <1>3, <2>1, <3>1
          <5> QED
            BY <5>1
        <4> QED
          BY <1>5, <1>13, <3>1, <4>1
      <3>2. CASE ~(i <= Len(s))
        BY <1>4, <1>12, <3>2, EmptySeq
      <3> QED
        BY <3>1, <3>2
    <2>2. D \subseteq T
      <3> HIDE DEF T, D, rank
      <3> QED
        BY <1>2, <2>1, RankInduction
    <2> QED
      BY <2>2
  <1>15. f \in [D -> R]
    BY <1>12, <1>14
  <1>16. f[Len(s) + 1] = <<>>
    <2>1. Len(s) + 1 \in D /\ ~(Len(s) + 1 <= Len(s))
      BY <1>1
    <2> QED
      BY <1>4, <1>12, <2>1
  <1>17. \A i \in 1 .. Len(s) : f[i] = <<BlockOf(s, i)>> \o f[NextBlock(s, i)]
    BY <1>1, <1>13
  <1> QED
    BY <1>15, <1>16, <1>17 DEF f

NoBlock == [text |-> <<>>, number |-> 0]
BlockNo(s, i, n) == At(BlocksFrom(s)[i], n, NoBlock)

\* Behind the end there are blocks as well, all empty.
LEMMA BlocksBehindTheEnd ==
  ASSUME NEW s \in Seq(Chars)
  PROVE  /\ BlockOf(s, Len(s) + 1) = NoBlock
         /\ NextBlock(s, Len(s) + 1) = Len(s) + 1
  <1> DEFINE i == Len(s) + 1
  <1>1. Len(s) \in Nat /\ i \in 1 .. Len(s) + 1
    OBVIOUS
  <1>2. TextEnd(s, i) = i /\ NextBlock(s, i) = i
    <2>1. /\ TextEnd(s, i) \in i .. Len(s) + 1
          /\ NextBlock(s, i) \in TextEnd(s, i) .. Len(s) + 1
      BY <1>1, BlockOfIs
    <2> QED
      BY <1>1, <2>1
  <1>3. SubSeq(s, i, i - 1) = <<>>
    BY <1>1, SubSeqEmpty
  <1>4. Value(<<>>) = 0
    <2>1. <<>> \in Seq(Digit) /\ Len(<<>>) = 0
      BY EmptySeq
    <2> QED
      BY <2>1, ValuesAre DEF Value
  <1> QED
    BY <1>2, <1>3, <1>4 DEF BlockOf, NoBlock

\* The list from a place on is the block there and the list from the next on.
LEMMA BlockNoIs ==
  ASSUME NEW s \in Seq(Chars), NEW i \in 1 .. Len(s) + 1
  PROVE  /\ BlockNo(s, i, 1) = BlockOf(s, i)
         /\ \A n \in Nat \ {0} : BlockNo(s, i, n + 1) = BlockNo(s, NextBlock(s, i), n)
  <1> DEFINE list == BlocksFrom(s)[i]
             rest == BlocksFrom(s)[NextBlock(s, i)]
  <1>1. Len(s) \in Nat
    OBVIOUS
  <1>2. CASE i <= Len(s)
    <2>1. i \in 1 .. Len(s)
      BY <1>1, <1>2
    <2>2. NextBlock(s, i) \in 1 .. Len(s) + 1 /\ BlockOf(s, i) \in Block
      <3>1. /\ TextEnd(s, i) \in i .. Len(s) + 1
            /\ NextBlock(s, i) \in TextEnd(s, i) .. Len(s) + 1
            /\ BlockOf(s, i) \in Block
        BY BlockOfIs
      <3> QED
        BY <1>1, <3>1
    <2>3. rest \in Seq(Block) /\ list = <<BlockOf(s, i)>> \o rest
      BY <2>1, <2>2, BlocksAre
    <2>4. /\ <<BlockOf(s, i)>> \in Seq(Block) /\ Len(<<BlockOf(s, i)>>) = 1
          /\ <<BlockOf(s, i)>>[1] = BlockOf(s, i)
      BY <2>2, SingletonIs
    <2>5. /\ list \in Seq(Block) /\ Len(list) = 1 + Len(rest)
          /\ \A n \in 1 .. 1 + Len(rest) :
               list[n] = IF n <= 1 THEN <<BlockOf(s, i)>>[n] ELSE rest[n - 1]
      BY <2>3, <2>4, ConcatProperties
    <2>6. Len(rest) \in Nat /\ DOMAIN rest = 1 .. Len(rest)
            /\ DOMAIN list = 1 .. 1 + Len(rest)
      BY <2>3, <2>5, LenProperties
    <2> HIDE DEF list, rest
    <2>7. At(list, 1, NoBlock) = BlockOf(s, i)
      <3>1. 1 \in 1 .. 1 + Len(rest)
        BY <2>6
      <3> QED
        BY <2>4, <2>5, <2>6, <3>1 DEF At
    <2>8. ASSUME NEW n \in Nat \ {0}
          PROVE  At(list, n + 1, NoBlock) = At(rest, n, NoBlock)
      <3>1. n + 1 \in DOMAIN list <=> n \in DOMAIN rest
        BY <2>6
      <3>2. ASSUME n + 1 \in DOMAIN list PROVE list[n + 1] = rest[n]
        <4>1. n + 1 \in 1 .. 1 + Len(rest) /\ ~(n + 1 <= 1) /\ (n + 1) - 1 = n
          BY <2>6, <3>2
        <4> QED
          BY <2>5, <4>1
      <3> QED
        BY <3>1, <3>2 DEF At
    <2> QED
      BY <2>7, <2>8 DEF list, rest, BlockNo
  <1>3. CASE i = Len(s) + 1
    <2>1. BlockOf(s, i) = NoBlock /\ NextBlock(s, i) = i
      BY <1>3, BlocksBehindTheEnd
    <2>2. BlocksFrom(s)[i] = <<>>
      BY <1>3, BlocksAre
    <2>3. \A n \in Nat \ {0} : At(<<>>, n, NoBlock) = NoBlock
      BY DEF At
    <2>4. \A n \in Nat \ {0} : BlockNo(s, i, n) = NoBlock
      BY <2>2, <2>3 DEF BlockNo
    <2>5. 1 \in Nat \ {0} /\ \A n \in Nat \ {0} : n + 1 \in Nat \ {0}
      OBVIOUS
    <2> QED
      BY <2>1, <2>4, <2>5
  <1> QED
    BY <1>1, <1>2, <1>3

-----------------------------------------------------------------------------
(* The order of characters, texts and blocks.                              *)

TextBefore(x, y) == ListBefore(x, y, End, CharBefore)
CharNo(x, n) == At(x, n, End)

\* The order of the code and that of the policy agree on characters, the end of
\* a text being one.
Weight(c) == IF c = End THEN 0 ELSE Order(c)

\* Characters weigh in the order of the policy.
LEMMA WeightIsOrder ==
  ASSUME NEW c \in NonDigit \cup {End}, NEW d \in NonDigit \cup {End}
  PROVE  /\ Weight(c) \in Int
         /\ CharBefore(c, d) <=> Weight(c) < Weight(d)
         /\ Weight(c) = Weight(d) <=> c = d
  BY DEF NonDigit, End, Weight, Order, CharBefore, Class, Digit, Letter, Tilde

\* No character comes before itself.
LEMMA NotBeforeItself ==
  ASSUME NEW c \in Chars \cup {End}
  PROVE  ~CharBefore(c, c)
  BY DEF Chars, CharBefore, Class, End, Letter, Tilde

\* Which of two lists is the lesser does not depend on how far one looks.
LEMMA TextBeforeIs ==
  ASSUME NEW x \in Seq(Chars), NEW y \in Seq(Chars)
  PROVE  TextBefore(x, y)
           <=> \E n \in Nat \ {0} :
                 /\ \A m \in 1 .. n - 1 : CharNo(x, m) = CharNo(y, m)
                 /\ CharBefore(CharNo(x, n), CharNo(y, n))
  <1>1. /\ Len(x) \in Nat /\ Len(y) \in Nat
        /\ DOMAIN x = 1 .. Len(x) /\ DOMAIN y = 1 .. Len(y)
    OBVIOUS
  <1>2. ASSUME NEW n \in Nat \ {0}, CharBefore(CharNo(x, n), CharNo(y, n))
        PROVE  n \in 1 .. Len(x) + Len(y)
    <2> SUFFICES ASSUME n > Len(x) + Len(y) PROVE FALSE
      BY <1>1
    <2>1. n \notin DOMAIN x /\ n \notin DOMAIN y
      BY <1>1
    <2>2. CharNo(x, n) = End /\ CharNo(y, n) = End
      BY <2>1 DEF CharNo, At
    <2> QED
      BY <1>2, <2>2, NotBeforeItself
  <1>3. \A n \in 1 .. Len(x) + Len(y) : n \in Nat \ {0}
    BY <1>1
  <1> QED
    BY <1>2, <1>3 DEF TextBefore, ListBefore, CharNo

\* Behind the end of a text there are ends.
LEMMA CharNoIs ==
  ASSUME NEW x \in Seq(Chars), NEW n \in Nat \ {0}
  PROVE  /\ CharNo(x, n) \in Chars \cup {End}
         /\ CharNo(x, n) = IF n <= Len(x) THEN x[n] ELSE End
  <1>1. Len(x) \in Nat /\ DOMAIN x = 1 .. Len(x)
    OBVIOUS
  <1>2. n \in DOMAIN x <=> n <= Len(x)
    BY <1>1
  <1>3. n \in DOMAIN x => x[n] \in Chars
    BY <1>1
  <1> QED
    BY <1>2, <1>3 DEF CharNo, At

\* One character more at the front moves the others by one place.
LEMMA AfterFirstCharacter ==
  ASSUME NEW c \in Chars, NEW x \in Seq(Chars)
  PROVE  /\ <<c>> \o x \in Seq(Chars)
         /\ CharNo(<<c>> \o x, 1) = c
         /\ \A n \in Nat \ {0} : CharNo(<<c>> \o x, n + 1) = CharNo(x, n)
  <1> DEFINE y == <<c>> \o x
  <1>1. <<c>> \in Seq(Chars) /\ Len(<<c>>) = 1 /\ <<c>>[1] = c
    BY SingletonIs
  <1>2. /\ y \in Seq(Chars) /\ Len(y) = 1 + Len(x) /\ Len(x) \in Nat
        /\ \A i \in 1 .. 1 + Len(x) : y[i] = IF i <= 1 THEN <<c>>[i] ELSE x[i - 1]
    BY <1>1, ConcatProperties, LenProperties
  <1> HIDE DEF y
  <1>3. CharNo(y, 1) = c
    <2>1. 1 <= Len(y) /\ 1 \in 1 .. 1 + Len(x)
      BY <1>2
    <2>2. y[1] = c
      BY <1>1, <1>2, <2>1
    <2> QED
      BY <1>2, <2>1, <2>2, CharNoIs
  <1>4. ASSUME NEW n \in Nat \ {0}
        PROVE  CharNo(y, n + 1) = CharNo(x, n)
    <2>1. n + 1 \in Nat \ {0} /\ (n + 1 <= Len(y) <=> n <= Len(x))
      BY <1>2
    <2>2. ASSUME n <= Len(x) PROVE y[n + 1] = x[n]
      <3>1. n + 1 \in 1 .. 1 + Len(x) /\ ~(n + 1 <= 1) /\ (n + 1) - 1 = n
        BY <1>2, <2>2
      <3> QED
        BY <1>2, <3>1
    <2>3. CharNo(y, n + 1) = IF n + 1 <= Len(y) THEN y[n + 1] ELSE End
      BY <1>2, <2>1, CharNoIs
    <2>4. CharNo(x, n) = IF n <= Len(x) THEN x[n] ELSE End
      BY CharNoIs
    <2> QED
      BY <2>1, <2>2, <2>3, <2>4
  <1> QED
    BY <1>2, <1>3, <1>4 DEF y

\* A common first character does not count.
LEMMA SameFirstCharacter ==
  ASSUME NEW c \in Chars, NEW x \in Seq(Chars), NEW y \in Seq(Chars)
  PROVE  TextBefore(<<c>> \o x, <<c>> \o y) <=> TextBefore(x, y)
  <1> DEFINE cx == <<c>> \o x
             cy == <<c>> \o y
             Here(u, v, n) == /\ \A m \in 1 .. n - 1 : CharNo(u, m) = CharNo(v, m)
                              /\ CharBefore(CharNo(u, n), CharNo(v, n))
  <1>1. /\ cx \in Seq(Chars) /\ CharNo(cx, 1) = c
        /\ \A n \in Nat \ {0} : CharNo(cx, n + 1) = CharNo(x, n)
    BY AfterFirstCharacter
  <1>2. /\ cy \in Seq(Chars) /\ CharNo(cy, 1) = c
        /\ \A n \in Nat \ {0} : CharNo(cy, n + 1) = CharNo(y, n)
    BY AfterFirstCharacter
  <1> HIDE DEF cx, cy
  <1>3. ASSUME NEW n \in Nat \ {0}, Here(cx, cy, n)
        PROVE  n - 1 \in Nat \ {0} /\ Here(x, y, n - 1)
    <2>1. n # 1
      <3>1. c \in Chars \cup {End}
        OBVIOUS
      <3> QED
        BY <1>1, <1>2, <1>3, <3>1, NotBeforeItself
    <2>2. n - 1 \in Nat \ {0} /\ (n - 1) + 1 = n
      BY <2>1
    <2>3. CharNo(cx, n) = CharNo(x, n - 1) /\ CharNo(cy, n) = CharNo(y, n - 1)
      BY <1>1, <1>2, <2>2
    <2>4. ASSUME NEW m \in 1 .. (n - 1) - 1
          PROVE  CharNo(x, m) = CharNo(y, m)
      <3>1. m \in Nat \ {0} /\ m + 1 \in 1 .. n - 1
        BY <2>2
      <3> QED
        BY <1>1, <1>2, <1>3, <3>1
    <2> QED
      BY <1>3, <2>2, <2>3, <2>4
  <1>4. ASSUME NEW n \in Nat \ {0}, Here(x, y, n)
        PROVE  n + 1 \in Nat \ {0} /\ Here(cx, cy, n + 1)
    <2>1. ASSUME NEW m \in 1 .. (n + 1) - 1
          PROVE  CharNo(cx, m) = CharNo(cy, m)
      <3>1. CASE m = 1
        BY <1>1, <1>2, <3>1
      <3>2. CASE m # 1
        <4>1. m - 1 \in Nat \ {0} /\ m - 1 \in 1 .. n - 1 /\ (m - 1) + 1 = m
          BY <3>2
        <4>2. CharNo(cx, m) = CharNo(x, m - 1) /\ CharNo(cy, m) = CharNo(y, m - 1)
          BY <1>1, <1>2, <4>1
        <4> QED
          BY <1>4, <4>1, <4>2
      <3> QED
        BY <3>1, <3>2
    <2>2. CharBefore(CharNo(cx, n + 1), CharNo(cy, n + 1))
      BY <1>1, <1>2, <1>4
    <2> QED
      BY <2>1, <2>2
  <1>5. TextBefore(cx, cy) <=> \E n \in Nat \ {0} : Here(cx, cy, n)
    BY <1>1, <1>2, TextBeforeIs
  <1>6. TextBefore(x, y) <=> \E n \in Nat \ {0} : Here(x, y, n)
    BY TextBeforeIs
  <1> HIDE DEF Here
  <1> QED
    BY <1>3, <1>4, <1>5, <1>6 DEF cx, cy

\* Different first characters decide.
LEMMA FirstCharacterDecides ==
  ASSUME NEW x \in Seq(Chars), NEW y \in Seq(Chars), CharNo(x, 1) # CharNo(y, 1)
  PROVE  TextBefore(x, y) <=> CharBefore(CharNo(x, 1), CharNo(y, 1))
  <1>1. ASSUME NEW n \in Nat \ {0}, \A m \in 1 .. n - 1 : CharNo(x, m) = CharNo(y, m)
        PROVE  n = 1
    <2> SUFFICES ASSUME n # 1 PROVE FALSE
      OBVIOUS
    <2>1. 1 \in 1 .. n - 1
      OBVIOUS
    <2> QED
      BY <1>1, <2>1
  <1>2. 1 \in Nat \ {0} /\ \A m \in 1 .. 1 - 1 : CharNo(x, m) = CharNo(y, m)
    OBVIOUS
  <1> QED
    BY <1>1, <1>2, TextBeforeIs

\* No text comes before itself.
LEMMA TextNotBeforeItself ==
  ASSUME NEW x \in Seq(Chars)
  PROVE  ~TextBefore(x, x)
  <1>1. \A n \in Nat \ {0} : CharNo(x, n) \in Chars \cup {End}
    BY CharNoIs
  <1> QED
    BY <1>1, TextBeforeIs, NotBeforeItself

\* No block comes before itself.
LEMMA BlockNotBeforeItself ==
  ASSUME NEW b \in Block
  PROVE  ~BlockBefore(b, b)
  <1>1. b.text \in Seq(Chars) /\ b.number \in Nat
    BY DEF Block
  <1>2. ~TextBefore(b.text, b.text)
    BY <1>1, TextNotBeforeItself
  <1> QED
    BY <1>1, <1>2 DEF BlockBefore, TextBefore

\* The rest of s from i on comes before the rest of t from j on.
Precedes(s, i, t, j) ==
  ListBefore(BlocksFrom(s)[i], BlocksFrom(t)[j], NoBlock, BlockBefore)

PrecedesAt(s, i, t, j, n) ==
  /\ \A m \in 1 .. n - 1 : BlockNo(s, i, m) = BlockNo(t, j, m)
  /\ BlockBefore(BlockNo(s, i, n), BlockNo(t, j, n))

\* Nor for lists of blocks.
LEMMA PrecedesIs ==
  ASSUME NEW s \in Seq(Chars), NEW i \in 1 .. Len(s) + 1,
         NEW t \in Seq(Chars), NEW j \in 1 .. Len(t) + 1
  PROVE  Precedes(s, i, t, j) <=> \E n \in Nat \ {0} : PrecedesAt(s, i, t, j, n)
  <1> DEFINE x == BlocksFrom(s)[i]
             y == BlocksFrom(t)[j]
  <1>1. x \in Seq(Block) /\ y \in Seq(Block)
    BY BlocksAre
  <1>2. /\ Len(x) \in Nat /\ Len(y) \in Nat
        /\ DOMAIN x = 1 .. Len(x) /\ DOMAIN y = 1 .. Len(y)
    BY <1>1, LenProperties
  <1>3. NoBlock \in Block
    <2>1. <<>> \in Seq(Chars)
      BY EmptySeq
    <2> QED
      BY <2>1 DEF NoBlock, Block
  <1> HIDE DEF x, y
  <1>4. ASSUME NEW n \in Nat \ {0}, BlockBefore(At(x, n, NoBlock), At(y, n, NoBlock))
        PROVE  n \in 1 .. Len(x) + Len(y)
    <2> SUFFICES ASSUME n > Len(x) + Len(y) PROVE FALSE
      BY <1>2
    <2>1. n \notin DOMAIN x /\ n \notin DOMAIN y
      BY <1>2
    <2>2. At(x, n, NoBlock) = NoBlock /\ At(y, n, NoBlock) = NoBlock
      BY <2>1 DEF At
    <2> QED
      BY <1>3, <1>4, <2>2, BlockNotBeforeItself
  <1>5. \A n \in 1 .. Len(x) + Len(y) : n \in Nat \ {0}
    BY <1>2
  <1>6. ListBefore(x, y, NoBlock, BlockBefore)
          <=> \E n \in Nat \ {0} :
                /\ \A m \in 1 .. n - 1 : At(x, m, NoBlock) = At(y, m, NoBlock)
                /\ BlockBefore(At(x, n, NoBlock), At(y, n, NoBlock))
    BY <1>4, <1>5 DEF ListBefore
  <1> QED
    BY <1>6 DEF Precedes, PrecedesAt, BlockNo, x, y

\* It is decided by the first block or, if they are the same, by the rest.
LEMMA PrecedesStep ==
  ASSUME NEW s \in Seq(Chars), NEW i \in 1 .. Len(s) + 1,
         NEW t \in Seq(Chars), NEW j \in 1 .. Len(t) + 1
  PROVE  Precedes(s, i, t, j)
           <=> \/ BlockBefore(BlockOf(s, i), BlockOf(t, j))
               \/ /\ BlockOf(s, i) = BlockOf(t, j)
                  /\ Precedes(s, NextBlock(s, i), t, NextBlock(t, j))
  <1> DEFINE si == NextBlock(s, i)
             tj == NextBlock(t, j)
  <1>1. si \in 1 .. Len(s) + 1 /\ tj \in 1 .. Len(t) + 1
    <2>1. Len(s) \in Nat /\ Len(t) \in Nat
      OBVIOUS
    <2>2. TextEnd(s, i) \in i .. Len(s) + 1 /\ si \in TextEnd(s, i) .. Len(s) + 1
      BY BlockOfIs
    <2>3. TextEnd(t, j) \in j .. Len(t) + 1 /\ tj \in TextEnd(t, j) .. Len(t) + 1
      BY BlockOfIs
    <2> QED
      BY <2>1, <2>2, <2>3
  <1>2. /\ BlockNo(s, i, 1) = BlockOf(s, i)
        /\ \A n \in Nat \ {0} : BlockNo(s, i, n + 1) = BlockNo(s, si, n)
    BY BlockNoIs
  <1>3. /\ BlockNo(t, j, 1) = BlockOf(t, j)
        /\ \A n \in Nat \ {0} : BlockNo(t, j, n + 1) = BlockNo(t, tj, n)
    BY BlockNoIs
  <1> HIDE DEF si, tj
  <1>4. BlockBefore(BlockOf(s, i), BlockOf(t, j)) => PrecedesAt(s, i, t, j, 1)
    BY <1>2, <1>3 DEF PrecedesAt
  <1>5. ASSUME NEW n \in Nat \ {0}, n # 1, PrecedesAt(s, i, t, j, n)
        PROVE  /\ n - 1 \in Nat \ {0}
               /\ BlockOf(s, i) = BlockOf(t, j)
               /\ PrecedesAt(s, si, t, tj, n - 1)
    <2>1. n - 1 \in Nat \ {0} /\ (n - 1) + 1 = n /\ 1 \in 1 .. n - 1
      BY <1>5
    <2>2. BlockOf(s, i) = BlockOf(t, j)
      BY <1>2, <1>3, <1>5, <2>1 DEF PrecedesAt
    <2>3. BlockNo(s, i, n) = BlockNo(s, si, n - 1)
            /\ BlockNo(t, j, n) = BlockNo(t, tj, n - 1)
      BY <1>2, <1>3, <2>1
    <2>4. ASSUME NEW m \in 1 .. (n - 1) - 1
          PROVE  BlockNo(s, si, m) = BlockNo(t, tj, m)
      <3>1. m \in Nat \ {0} /\ m + 1 \in 1 .. n - 1
        BY <2>1
      <3> QED
        BY <1>2, <1>3, <1>5, <3>1 DEF PrecedesAt
    <2> QED
      BY <1>5, <2>1, <2>2, <2>3, <2>4 DEF PrecedesAt
  <1>6. ASSUME NEW n \in Nat \ {0}, BlockOf(s, i) = BlockOf(t, j),
               PrecedesAt(s, si, t, tj, n)
        PROVE  n + 1 \in Nat \ {0} /\ PrecedesAt(s, i, t, j, n + 1)
    <2>1. ASSUME NEW m \in 1 .. (n + 1) - 1
          PROVE  BlockNo(s, i, m) = BlockNo(t, j, m)
      <3>1. CASE m = 1
        BY <1>2, <1>3, <1>6, <3>1
      <3>2. CASE m # 1
        <4>1. m - 1 \in Nat \ {0} /\ m - 1 \in 1 .. n - 1 /\ (m - 1) + 1 = m
          BY <3>2
        <4>2. BlockNo(s, i, m) = BlockNo(s, si, m - 1)
                /\ BlockNo(t, j, m) = BlockNo(t, tj, m - 1)
          BY <1>2, <1>3, <4>1
        <4> QED
          BY <1>6, <4>1, <4>2 DEF PrecedesAt
      <3> QED
        BY <3>1, <3>2
    <2>2. BlockBefore(BlockNo(s, i, n + 1), BlockNo(t, j, n + 1))
      BY <1>2, <1>3, <1>6 DEF PrecedesAt
    <2> QED
      BY <2>1, <2>2 DEF PrecedesAt
  <1>7. PrecedesAt(s, i, t, j, 1) => BlockBefore(BlockOf(s, i), BlockOf(t, j))
    BY <1>2, <1>3 DEF PrecedesAt
  <1>8. Precedes(s, i, t, j) <=> \E n \in Nat \ {0} : PrecedesAt(s, i, t, j, n)
    BY PrecedesIs
  <1>9. Precedes(s, si, t, tj) <=> \E n \in Nat \ {0} : PrecedesAt(s, si, t, tj, n)
    BY <1>1, PrecedesIs
  <1>10. 1 \in Nat \ {0}
    OBVIOUS
  <1> QED
    BY <1>4, <1>5, <1>6, <1>7, <1>8, <1>9, <1>10 DEF si, tj

\* A block that begins with a character of its text.
LEMMA TextStep ==
  ASSUME NEW s \in Seq(Chars), NEW i \in 1 .. Len(s), s[i] \notin Digit
  PROVE  /\ i + 1 \in 1 .. Len(s) + 1
         /\ BlockOf(s, i).text = <<s[i]>> \o BlockOf(s, i + 1).text
         /\ BlockOf(s, i).number = BlockOf(s, i + 1).number
         /\ NextBlock(s, i) = NextBlock(s, i + 1)
  <1>1. Len(s) \in Nat
    OBVIOUS
  <1>2. s[i] \in NonDigit
    <2>1. s[i] \in Chars
      BY <1>1
    <2> QED
      BY <2>1 DEF NonDigit, Chars
  <1>3. TextEnd(s, i) = TextEnd(s, i + 1)
    BY <1>2, RunEndStep DEF TextEnd
  <1>4. NextBlock(s, i) = NextBlock(s, i + 1)
    BY <1>3 DEF NextBlock
  <1>5. i + 1 \in 1 .. Len(s) + 1
    BY <1>1
  <1>6. TextEnd(s, i) \in i + 1 .. Len(s) + 1
    BY <1>3, <1>5, BlockOfIs
  <1>7. TextEnd(s, i) - 1 \in i .. Len(s)
    BY <1>1, <1>6
  <1>8. SubSeq(s, i, TextEnd(s, i) - 1)
          = <<s[i]>> \o SubSeq(s, i + 1, TextEnd(s, i) - 1)
    BY <1>7, SubSeqRecursiveFirst
  <1> QED
    BY <1>3, <1>4, <1>5, <1>8 DEF BlockOf

\* A block without a text.
LEMMA DigitStep ==
  ASSUME NEW s \in Seq(Chars), NEW i \in 1 .. Len(s) + 1,
         i <= Len(s) => s[i] \in Digit
  PROVE  /\ BlockOf(s, i).text = <<>>
         /\ BlockOf(s, i).number = Value(SubSeq(s, i, RunEnd(s, i, Digit) - 1))
         /\ NextBlock(s, i) = RunEnd(s, i, Digit)
  <1>1. Len(s) \in Nat
    OBVIOUS
  <1>2. TextEnd(s, i) = i
    <2>1. i \in i .. Len(s) + 1 /\ \A n \in i .. i - 1 : s[n] \in NonDigit
      BY <1>1
    <2>2. i <= Len(s) => s[i] \notin NonDigit
      BY DEF NonDigit
    <2> QED
      BY <2>1, <2>2, RunEndAt DEF TextEnd
  <1>3. NextBlock(s, i) = RunEnd(s, i, Digit)
    BY <1>2 DEF NextBlock
  <1>4. SubSeq(s, i, i - 1) = <<>>
    BY <1>1, SubSeqEmpty
  <1> QED
    BY <1>2, <1>3, <1>4 DEF BlockOf

-----------------------------------------------------------------------------
(* One step of the comparison.                                             *)

\* The character of the text at i, the end of the text if a digit or the end of
\* the version is there.
InText(s, i) == i <= Len(s) /\ s[i] \notin Digit
First(s, i) == IF InText(s, i) THEN s[i] ELSE End

\* A character that is no digit is one of a text.
LEMMA CharOfText ==
  ASSUME NEW c \in Chars, c \notin Digit
  PROVE  c \in NonDigit /\ c # End
  BY DEF NonDigit, Chars, End

\* A block is its text and its number.
LEMMA SameBlock ==
  ASSUME NEW x \in Block, NEW y \in Block
  PROVE  x = y <=> x.text = y.text /\ x.number = y.number
  <1>1. /\ x = [text |-> x.text, number |-> x.number]
        /\ y = [text |-> y.text, number |-> y.number]
    BY DEF Block
  <1> QED
    BY <1>1

\* The block at i begins with that character, and OrderAt is its weight.
LEMMA FirstIs ==
  ASSUME NEW s \in Seq(Chars), NEW i \in 1 .. Len(s) + 1
  PROVE  /\ First(s, i) \in NonDigit \cup {End}
         /\ OrderAt(s, i) = Weight(First(s, i))
         /\ CharNo(BlockOf(s, i).text, 1) = First(s, i)
  <1>1. Len(s) \in Nat
    OBVIOUS
  <1>2. CASE InText(s, i)
    <2>1. i \in 1 .. Len(s) /\ s[i] \notin Digit
      BY <1>1, <1>2 DEF InText
    <2>2. s[i] \in Chars
      BY <1>1, <2>1
    <2>3. s[i] \in NonDigit /\ s[i] # End
      BY <2>1, <2>2, CharOfText
    <2>4. First(s, i) = s[i]
      BY <1>2 DEF First
    <2>5. OrderAt(s, i) = Order(s[i])
      BY <1>1, <2>1 DEF OrderAt
    <2>6. CharNo(BlockOf(s, i).text, 1) = s[i]
      <3>1. i + 1 \in 1 .. Len(s) + 1 /\ BlockOf(s, i).text = <<s[i]>> \o BlockOf(s, i + 1).text
        BY <2>1, TextStep
      <3>2. BlockOf(s, i + 1).text \in Seq(Chars)
        BY <3>1, BlockOfIs DEF Block
      <3>3. CharNo(<<s[i]>> \o BlockOf(s, i + 1).text, 1) = s[i]
        BY <2>2, <3>2, AfterFirstCharacter
      <3> QED
        BY <3>1, <3>3
    <2> QED
      BY <2>3, <2>4, <2>5, <2>6 DEF Weight
  <1>3. CASE ~InText(s, i)
    <2>1. First(s, i) = End
      BY <1>3 DEF First
    <2>2. i <= Len(s) => s[i] \in Digit
      BY <1>3 DEF InText
    <2>3. OrderAt(s, i) = 0
      <3>1. ASSUME NEW c \in Digit PROVE Order(c) = 0
        <4>1. c \notin Letter /\ c # Tilde
          BY DEF Digit, Letter, Tilde
        <4> QED
          BY <4>1 DEF Order
      <3>2. i > Len(s) <=> ~(i <= Len(s))
        BY <1>1
      <3>3. i <= Len(s) => Order(s[i]) = 0
        BY <2>2, <3>1
      <3> QED
        BY <3>2, <3>3 DEF OrderAt
    <2>4. BlockOf(s, i).text = <<>>
      BY <2>2, DigitStep
    <2>5. CharNo(<<>>, 1) = End
      BY DEF CharNo, At
    <2> QED
      BY <2>1, <2>3, <2>4, <2>5 DEF Weight
  <1> QED
    BY <1>2, <1>3

\* OrderAt orders the beginnings of two blocks as the policy does.
LEMMA OrderAtIs ==
  ASSUME NEW a \in Seq(Chars), NEW i \in 1 .. Len(a) + 1,
         NEW b \in Seq(Chars), NEW j \in 1 .. Len(b) + 1
  PROVE  /\ OrderAt(a, i) \in Int
         /\ CharBefore(First(a, i), First(b, j)) <=> OrderAt(a, i) < OrderAt(b, j)
         /\ OrderAt(a, i) = OrderAt(b, j) <=> First(a, i) = First(b, j)
  BY FirstIs, WeightIsOrder

\* At the end of both neither comes first.
LEMMA NothingLeft ==
  ASSUME NEW a \in Seq(Chars), NEW b \in Seq(Chars)
  PROVE  ~Precedes(a, Len(a) + 1, b, Len(b) + 1)
  <1>1. BlocksFrom(a)[Len(a) + 1] = <<>> /\ BlocksFrom(b)[Len(b) + 1] = <<>>
    BY BlocksAre
  <1>2. ~ListBefore(<<>>, <<>>, NoBlock, BlockBefore)
    BY DEF ListBefore
  <1> QED
    BY <1>1, <1>2 DEF Precedes

\* Different characters of the texts decide.
LEMMA TextsDecide ==
  ASSUME NEW a \in Seq(Chars), NEW i \in 1 .. Len(a) + 1,
         NEW b \in Seq(Chars), NEW j \in 1 .. Len(b) + 1,
         OrderAt(a, i) # OrderAt(b, j)
  PROVE  Precedes(a, i, b, j) <=> OrderAt(a, i) < OrderAt(b, j)
  <1> DEFINE x == BlockOf(a, i)
             y == BlockOf(b, j)
  <1>1. x.text \in Seq(Chars) /\ y.text \in Seq(Chars)
    BY BlockOfIs DEF Block
  <1>2. CharNo(x.text, 1) = First(a, i) /\ CharNo(y.text, 1) = First(b, j)
    BY FirstIs
  <1>3. First(a, i) # First(b, j)
    BY OrderAtIs
  <1>4. CharBefore(First(a, i), First(b, j)) <=> OrderAt(a, i) < OrderAt(b, j)
    BY OrderAtIs
  <1>5. x.text # y.text
    BY <1>2, <1>3
  <1>6. Precedes(a, i, b, j)
          <=> \/ BlockBefore(x, y)
              \/ x = y /\ Precedes(a, NextBlock(a, i), b, NextBlock(b, j))
    BY PrecedesStep
  <1> HIDE DEF x, y
  <1>7. TextBefore(x.text, y.text) <=> CharBefore(First(a, i), First(b, j))
    BY <1>1, <1>2, <1>3, FirstCharacterDecides
  <1>8. BlockBefore(x, y) <=> TextBefore(x.text, y.text)
    BY <1>5 DEF BlockBefore, TextBefore
  <1> QED
    BY <1>4, <1>5, <1>6, <1>7, <1>8

\* Texts that begin alike are the same if their rests are.
LEMMA SameBehindFirst ==
  ASSUME NEW c \in Chars, NEW x \in Seq(Chars), NEW y \in Seq(Chars)
  PROVE  <<c>> \o x = <<c>> \o y <=> x = y
  <1> SUFFICES ASSUME <<c>> \o x = <<c>> \o y PROVE x = y
    OBVIOUS
  <1>1. <<c>> \in Seq(Chars) /\ Len(<<c>>) = 1
    BY SingletonIs
  <1>2. /\ Len(<<c>> \o x) = 1 + Len(x) /\ Len(x) \in Nat
        /\ \A n \in 1 .. 1 + Len(x) :
             (<<c>> \o x)[n] = IF n <= 1 THEN <<c>>[n] ELSE x[n - 1]
    BY <1>1, ConcatProperties, LenProperties
  <1>3. /\ Len(<<c>> \o y) = 1 + Len(y) /\ Len(y) \in Nat
        /\ \A n \in 1 .. 1 + Len(y) :
             (<<c>> \o y)[n] = IF n <= 1 THEN <<c>>[n] ELSE y[n - 1]
    BY <1>1, ConcatProperties, LenProperties
  <1>4. Len(x) = Len(y)
    BY <1>2, <1>3
  <1>5. ASSUME NEW n \in 1 .. Len(x) PROVE x[n] = y[n]
    <2>1. n + 1 \in 1 .. 1 + Len(x) /\ ~(n + 1 <= 1) /\ (n + 1) - 1 = n
      BY <1>2
    <2> QED
      BY <1>2, <1>3, <1>4, <2>1
  <1> QED
    BY <1>4, <1>5, SeqEqual

\* The same character of a text on both sides decides nothing.
LEMMA SameCharacter ==
  ASSUME NEW a \in Seq(Chars), NEW i \in 1 .. Len(a) + 1, InText(a, i),
         NEW b \in Seq(Chars), NEW j \in 1 .. Len(b) + 1, InText(b, j),
         a[i] = b[j]
  PROVE  /\ i + 1 \in 1 .. Len(a) + 1 /\ j + 1 \in 1 .. Len(b) + 1
         /\ Precedes(a, i, b, j) <=> Precedes(a, i + 1, b, j + 1)
  <1> DEFINE x == BlockOf(a, i)
             y == BlockOf(b, j)
             u == BlockOf(a, i + 1)
             v == BlockOf(b, j + 1)
             c == a[i]
  <1>1. /\ i \in 1 .. Len(a) /\ a[i] \notin Digit /\ Len(a) \in Nat
        /\ j \in 1 .. Len(b) /\ b[j] \notin Digit /\ Len(b) \in Nat
    BY DEF InText
  <1>2. /\ i + 1 \in 1 .. Len(a) + 1
        /\ x.text = <<c>> \o u.text /\ x.number = u.number
        /\ NextBlock(a, i) = NextBlock(a, i + 1)
    BY <1>1, TextStep
  <1>3. /\ j + 1 \in 1 .. Len(b) + 1
        /\ y.text = <<c>> \o v.text /\ y.number = v.number
        /\ NextBlock(b, j) = NextBlock(b, j + 1)
    BY <1>1, TextStep
  <1>4. x \in Block /\ y \in Block /\ u \in Block /\ v \in Block
    BY <1>2, <1>3, BlockOfIs
  <1>5. c \in Chars
    BY <1>1
  <1>6. Precedes(a, i, b, j)
          <=> \/ BlockBefore(x, y)
              \/ x = y /\ Precedes(a, NextBlock(a, i), b, NextBlock(b, j))
    BY PrecedesStep
  <1>7. Precedes(a, i + 1, b, j + 1)
          <=> \/ BlockBefore(u, v)
              \/ u = v /\ Precedes(a, NextBlock(a, i + 1), b, NextBlock(b, j + 1))
    BY <1>2, <1>3, PrecedesStep
  <1> HIDE DEF x, y, u, v, c
  <1>8. u.text \in Seq(Chars) /\ v.text \in Seq(Chars)
    BY <1>4 DEF Block
  <1>9. TextBefore(x.text, y.text) <=> TextBefore(u.text, v.text)
    BY <1>2, <1>3, <1>5, <1>8, SameFirstCharacter
  <1>10. x.text = y.text <=> u.text = v.text
    <2>1. <<c>> \o u.text = <<c>> \o v.text <=> u.text = v.text
      BY <1>5, <1>8, SameBehindFirst
    <2> QED
      BY <1>2, <1>3, <2>1
  <1>11. x = y <=> u = v
    <2>1. x = y <=> x.text = y.text /\ x.number = y.number
      BY <1>4, SameBlock
    <2>2. u = v <=> u.text = v.text /\ u.number = v.number
      BY <1>4, SameBlock
    <2> QED
      BY <1>2, <1>3, <1>10, <2>1, <2>2
  <1>12. BlockBefore(x, y) <=> BlockBefore(u, v)
    BY <1>2, <1>3, <1>9, <1>10 DEF BlockBefore, TextBefore
  <1> QED
    BY <1>2, <1>3, <1>6, <1>7, <1>11, <1>12

\* Of numbers that differ the lesser comes first.
LEMMA NumbersDecide ==
  ASSUME NEW a \in Seq(Chars), NEW i \in 1 .. Len(a) + 1, ~InText(a, i),
         NEW b \in Seq(Chars), NEW j \in 1 .. Len(b) + 1, ~InText(b, j),
         NEW m \in Nat, m = RunEnd(a, i, Digit), NEW n \in Nat, n = RunEnd(b, j, Digit),
         NEW u \in Nat, u = Value(SubSeq(a, i, m - 1)),
         NEW v \in Nat, v = Value(SubSeq(b, j, n - 1))
  PROVE  Precedes(a, i, b, j) <=> u < v \/ (u = v /\ Precedes(a, m, b, n))
  <1> DEFINE x == BlockOf(a, i)
             y == BlockOf(b, j)
  <1>1. i <= Len(a) => a[i] \in Digit
    BY DEF InText
  <1>2. j <= Len(b) => b[j] \in Digit
    BY DEF InText
  <1>3. x.text = <<>> /\ x.number = u /\ NextBlock(a, i) = m
    BY <1>1, DigitStep
  <1>4. y.text = <<>> /\ y.number = v /\ NextBlock(b, j) = n
    BY <1>2, DigitStep
  <1>5. x \in Block /\ y \in Block
    BY BlockOfIs
  <1>6. Precedes(a, i, b, j)
          <=> \/ BlockBefore(x, y)
              \/ x = y /\ Precedes(a, NextBlock(a, i), b, NextBlock(b, j))
    BY PrecedesStep
  <1> HIDE DEF x, y
  <1>7. ~TextBefore(x.text, y.text)
    <2>1. <<>> \in Seq(Chars)
      BY EmptySeq
    <2> QED
      BY <1>3, <1>4, <2>1, TextNotBeforeItself
  <1>8. BlockBefore(x, y) <=> u < v
    BY <1>3, <1>4, <1>7 DEF BlockBefore, TextBefore
  <1>9. x = y <=> u = v
    <2>1. x = y <=> x.text = y.text /\ x.number = y.number
      BY <1>5, SameBlock
    <2> QED
      BY <1>3, <1>4, <2>1
  <1> QED
    BY <1>3, <1>4, <1>6, <1>8, <1>9

-----------------------------------------------------------------------------
(* The four cases of a step of the code.                                   *)

\* Both versions are at their ends.
LEMMA CmpAtEnd ==
  ASSUME NEW a \in Seq(Chars), NEW b \in Seq(Chars), NEW f
  PROVE  CmpAt(a, b, f, Len(a) + 1, Len(b) + 1) = 0
  <1>1. Len(a) + 1 > Len(a) /\ Len(b) + 1 > Len(b)
    OBVIOUS
  <1> QED
    BY <1>1 DEF CmpAt

\* A character of a text is compared with another, a digit or an end.
LEMMA CmpAtDiffers ==
  ASSUME NEW a \in Seq(Chars), NEW i \in 1 .. Len(a) + 1,
         NEW b \in Seq(Chars), NEW j \in 1 .. Len(b) + 1, NEW f,
         InText(a, i) \/ InText(b, j), OrderAt(a, i) # OrderAt(b, j)
  PROVE  CmpAt(a, b, f, i, j) = Sign(OrderAt(a, i), OrderAt(b, j))
  <1>1. ~(i > Len(a) /\ j > Len(b))
    BY DEF InText
  <1> QED
    BY <1>1 DEF CmpAt, InText

\* It is compared with itself: the comparison goes on behind both.
LEMMA CmpAtSame ==
  ASSUME NEW a \in Seq(Chars), NEW i \in 1 .. Len(a) + 1,
         NEW b \in Seq(Chars), NEW j \in 1 .. Len(b) + 1, NEW f,
         InText(a, i) \/ InText(b, j), OrderAt(a, i) = OrderAt(b, j)
  PROVE  /\ InText(a, i) /\ InText(b, j) /\ a[i] = b[j]
         /\ CmpAt(a, b, f, i, j) = f[<<i + 1, j + 1>>]
  <1>1. ~(i > Len(a) /\ j > Len(b))
    BY DEF InText
  <1>2. First(a, i) = First(b, j)
    BY OrderAtIs
  <1>3. InText(a, i) => First(a, i) = a[i] /\ a[i] # End
    <2> SUFFICES ASSUME InText(a, i) PROVE a[i] # End
      BY DEF First
    <2>1. i \in 1 .. Len(a) /\ a[i] \notin Digit
      BY DEF InText
    <2>2. a[i] \in Chars
      BY <2>1
    <2> QED
      BY <2>1, <2>2, CharOfText
  <1>4. InText(b, j) => First(b, j) = b[j] /\ b[j] # End
    <2> SUFFICES ASSUME InText(b, j) PROVE b[j] # End
      BY DEF First
    <2>1. j \in 1 .. Len(b) /\ b[j] \notin Digit
      BY DEF InText
    <2>2. b[j] \in Chars
      BY <2>1
    <2> QED
      BY <2>1, <2>2, CharOfText
  <1>5. (~InText(a, i) => First(a, i) = End) /\ (~InText(b, j) => First(b, j) = End)
    BY DEF First
  <1>6. InText(a, i) /\ InText(b, j) /\ a[i] = b[j]
    BY <1>2, <1>3, <1>4, <1>5
  <1>7. CmpAt(a, b, f, i, j) = f[<<i + 1, j + 1>>]
    BY <1>1 DEF CmpAt, InText
  <1> QED
    BY <1>6, <1>7

\* Digits are compared with digits or with an end, as the numbers they write.
LEMMA CmpAtNumbers ==
  ASSUME NEW a \in Seq(Chars), NEW i \in 1 .. Len(a) + 1,
         NEW b \in Seq(Chars), NEW j \in 1 .. Len(b) + 1, NEW f,
         ~InText(a, i), ~InText(b, j), i <= Len(a) \/ j <= Len(b),
         NEW m \in Nat, m = RunEnd(a, i, Digit), NEW n \in Nat, n = RunEnd(b, j, Digit),
         NEW u \in Nat, u = Value(SubSeq(a, i, m - 1)),
         NEW v \in Nat, v = Value(SubSeq(b, j, n - 1))
  PROVE  CmpAt(a, b, f, i, j) = IF u # v THEN Sign(u, v) ELSE f[<<m, n>>]
  <1> DEFINE x == RunEnd(a, i, {Zero})
             y == RunEnd(b, j, {Zero})
             c == CmpDigits(SubSeq(a, x, m - 1), SubSeq(b, y, n - 1))
  <1>1. x \in Nat /\ y \in Nat
    <2>1. x \in i .. Len(a) + 1 /\ y \in j .. Len(b) + 1
      BY RunEndIs
    <2> QED
      BY <2>1, SMTT(30)
  <1>2. /\ SubSeq(a, x, m - 1) \in Seq(Digit)
        /\ NoLeadingZero(SubSeq(a, x, m - 1))
        /\ u = Value(SubSeq(a, x, m - 1))
        /\ m = RunEnd(a, x, Digit)
    <2>1. x = RunEnd(a, i, {Zero})
      OBVIOUS
    <2> HIDE DEF x
    <2>2. SameNumber(a, i, x, m)
      BY <1>1, <2>1, NumberAt
    <2> QED
      BY <2>2 DEF SameNumber
  <1>3. /\ SubSeq(b, y, n - 1) \in Seq(Digit)
        /\ NoLeadingZero(SubSeq(b, y, n - 1))
        /\ v = Value(SubSeq(b, y, n - 1))
        /\ n = RunEnd(b, y, Digit)
    <2>1. y = RunEnd(b, j, {Zero})
      OBVIOUS
    <2> HIDE DEF y
    <2>2. SameNumber(b, j, y, n)
      BY <1>1, <2>1, NumberAt
    <2> QED
      BY <2>2 DEF SameNumber
  <1>4. c = Sign(u, v)
    BY <1>2, <1>3, CmpDigitsCompares
  <1>5. ~(i > Len(a) /\ j > Len(b))
    BY SMTT(30)
  <1>6. CmpAt(a, b, f, i, j) = IF c # 0 THEN c ELSE f[<<m, n>>]
    BY <1>2, <1>3, <1>5 DEF CmpAt, InText
  <1> HIDE DEF c
  <1>7. Sign(u, v) = 0 <=> u = v
    BY SignIs, SMTT(30)
  <1> QED
    BY <1>4, <1>6, <1>7

-----------------------------------------------------------------------------
(* The comparison of two parts.                                            *)

Signs == {-1, 0, 1}

\* r says which of the two rests comes before the other.
Settles(r, a, i, b, j) ==
  /\ r \in Signs
  /\ r = -1 <=> Precedes(a, i, b, j)
  /\ r = 1 <=> Precedes(b, j, a, i)

\* A step of the code either tells the order of the rests from i and j on, ...
Told(a, i, b, j) ==
  \E r \in Signs : Settles(r, a, i, b, j) /\ \A f : CmpAt(a, b, f, i, j) = r

\* ... or goes on to two places behind from which the rests have the same order.
Passed(a, i, b, j) ==
  \E k \in 1 .. Len(a) + 1, l \in 1 .. Len(b) + 1 :
    /\ i <= k /\ j <= l /\ i + j < k + l
    /\ \A f : CmpAt(a, b, f, i, j) = f[<<k, l>>]
    /\ \A r : Settles(r, a, i, b, j) <=> Settles(r, a, k, b, l)

\* The sign of two numbers settles an order they decide.
LEMMA SignSettles ==
  ASSUME NEW a, NEW b, NEW i, NEW j, NEW u \in Int, NEW v \in Int,
         Precedes(a, i, b, j) <=> u < v, Precedes(b, j, a, i) <=> v < u
  PROVE  Settles(Sign(u, v), a, i, b, j)
  <1>1. /\ Sign(u, v) \in Signs
        /\ Sign(u, v) = -1 <=> u < v
        /\ Sign(u, v) = 1 <=> v < u
    BY SignIs DEF Signs
  <1> QED
    BY <1>1 DEF Settles

\* At both ends the step tells that neither comes first.
LEMMA ToldAtEnd ==
  ASSUME NEW a \in Seq(Chars), NEW b \in Seq(Chars)
  PROVE  Told(a, Len(a) + 1, b, Len(b) + 1)
  <1>1. ~Precedes(a, Len(a) + 1, b, Len(b) + 1) /\ ~Precedes(b, Len(b) + 1, a, Len(a) + 1)
    BY NothingLeft
  <1>2. 0 \in Signs /\ 0 # -1 /\ 0 # 1
    BY DEF Signs
  <1>3. Settles(0, a, Len(a) + 1, b, Len(b) + 1)
    BY <1>1, <1>2 DEF Settles
  <1>4. \A f : CmpAt(a, b, f, Len(a) + 1, Len(b) + 1) = 0
    BY CmpAtEnd
  <1> QED
    BY <1>2, <1>3, <1>4 DEF Told

\* Characters that differ tell it.
LEMMA TextsTold ==
  ASSUME NEW a \in Seq(Chars), NEW i \in 1 .. Len(a) + 1,
         NEW b \in Seq(Chars), NEW j \in 1 .. Len(b) + 1,
         InText(a, i) \/ InText(b, j), OrderAt(a, i) # OrderAt(b, j)
  PROVE  Told(a, i, b, j)
  <1>1. OrderAt(a, i) \in Int /\ OrderAt(b, j) \in Int
    BY OrderAtIs
  <1>2. Precedes(a, i, b, j) <=> OrderAt(a, i) < OrderAt(b, j)
    BY TextsDecide
  <1>3. Precedes(b, j, a, i) <=> OrderAt(b, j) < OrderAt(a, i)
    BY TextsDecide
  <1>4. Settles(Sign(OrderAt(a, i), OrderAt(b, j)), a, i, b, j)
    BY <1>1, <1>2, <1>3, SignSettles
  <1>5. \A f : CmpAt(a, b, f, i, j) = Sign(OrderAt(a, i), OrderAt(b, j))
    BY CmpAtDiffers
  <1> QED
    BY <1>4, <1>5 DEF Told, Settles

\* The same character is passed.
LEMMA TextsPassed ==
  ASSUME NEW a \in Seq(Chars), NEW i \in 1 .. Len(a) + 1,
         NEW b \in Seq(Chars), NEW j \in 1 .. Len(b) + 1,
         InText(a, i) \/ InText(b, j), OrderAt(a, i) = OrderAt(b, j)
  PROVE  Passed(a, i, b, j)
  <1>1. /\ InText(a, i) /\ InText(b, j) /\ a[i] = b[j]
        /\ \A f : CmpAt(a, b, f, i, j) = f[<<i + 1, j + 1>>]
    <2>1. ASSUME NEW f
          PROVE  /\ InText(a, i) /\ InText(b, j) /\ a[i] = b[j]
                 /\ CmpAt(a, b, f, i, j) = f[<<i + 1, j + 1>>]
      BY CmpAtSame
    <2> QED
      BY <2>1
  <1>2. /\ i + 1 \in 1 .. Len(a) + 1 /\ j + 1 \in 1 .. Len(b) + 1
        /\ Precedes(a, i, b, j) <=> Precedes(a, i + 1, b, j + 1)
    BY <1>1, SameCharacter
  <1>3. Precedes(b, j, a, i) <=> Precedes(b, j + 1, a, i + 1)
    BY <1>1, SameCharacter
  <1>4. \A r : Settles(r, a, i, b, j) <=> Settles(r, a, i + 1, b, j + 1)
    BY <1>2, <1>3 DEF Settles
  <1>5. i <= i + 1 /\ j <= j + 1 /\ i + j < (i + 1) + (j + 1)
    OBVIOUS
  <1> QED
    BY <1>1, <1>2, <1>4, <1>5 DEF Passed

\* Numbers tell it if they differ and are passed if not.
LEMMA NumbersToldOrPassed ==
  ASSUME NEW a \in Seq(Chars), NEW i \in 1 .. Len(a) + 1,
         NEW b \in Seq(Chars), NEW j \in 1 .. Len(b) + 1,
         ~InText(a, i), ~InText(b, j), i <= Len(a) \/ j <= Len(b)
  PROVE  Told(a, i, b, j) \/ Passed(a, i, b, j)
  <1> DEFINE m == RunEnd(a, i, Digit)
             n == RunEnd(b, j, Digit)
             u == Value(SubSeq(a, i, m - 1))
             v == Value(SubSeq(b, j, n - 1))
  <1>1. m \in i .. Len(a) + 1 /\ n \in j .. Len(b) + 1
    BY RunEndIs
  <1>2. m \in Nat /\ n \in Nat /\ m \in 1 .. Len(a) + 1 /\ n \in 1 .. Len(b) + 1
    BY <1>1
  <1>3. u \in Nat /\ v \in Nat
    <2>1. RunEnd(a, i, {Zero}) \in Nat /\ RunEnd(b, j, {Zero}) \in Nat
      <3>1. RunEnd(a, i, {Zero}) \in i .. Len(a) + 1 /\ RunEnd(b, j, {Zero}) \in j .. Len(b) + 1
        BY RunEndIs
      <3> QED
        BY <3>1
    <2>2. SameNumber(a, i, RunEnd(a, i, {Zero}), m)
      BY <1>2, <2>1, NumberAt
    <2>3. SameNumber(b, j, RunEnd(b, j, {Zero}), n)
      BY <1>2, <2>1, NumberAt
    <2> QED
      BY <2>2, <2>3, ValueIsNat DEF SameNumber
  <1>4. /\ m = RunEnd(a, i, Digit) /\ n = RunEnd(b, j, Digit)
        /\ u = Value(SubSeq(a, i, m - 1)) /\ v = Value(SubSeq(b, j, n - 1))
    OBVIOUS
  <1>5. m + n > i + j
    <2>1. i <= Len(a) => i < m
      <3> SUFFICES ASSUME i <= Len(a), m = i PROVE FALSE
        BY <1>1
      <3>1. m <= Len(a) => a[m] \notin Digit
        BY RunEndIs
      <3> QED
        BY <3>1 DEF InText
    <2>2. j <= Len(b) => j < n
      <3> SUFFICES ASSUME j <= Len(b), n = j PROVE FALSE
        BY <1>1
      <3>1. n <= Len(b) => b[n] \notin Digit
        BY RunEndIs
      <3> QED
        BY <3>1 DEF InText
    <2> QED
      BY <1>1, <2>1, <2>2
  <1> HIDE DEF m, n, u, v
  <1>6. Precedes(a, i, b, j) <=> u < v \/ (u = v /\ Precedes(a, m, b, n))
    BY <1>2, <1>3, <1>4, NumbersDecide, SMTT(30)
  <1>7. Precedes(b, j, a, i) <=> v < u \/ (v = u /\ Precedes(b, n, a, m))
    BY <1>2, <1>3, <1>4, NumbersDecide, SMTT(30)
  <1>8. ASSUME NEW f
        PROVE  CmpAt(a, b, f, i, j) = IF u # v THEN Sign(u, v) ELSE f[<<m, n>>]
    BY <1>2, <1>3, <1>4, CmpAtNumbers, SMTT(30)
  <1>9. CASE u # v
    <2>1. Precedes(a, i, b, j) <=> u < v
      BY <1>6, <1>9
    <2>2. Precedes(b, j, a, i) <=> v < u
      BY <1>7, <1>9
    <2>3. Settles(Sign(u, v), a, i, b, j)
      BY <1>3, <2>1, <2>2, SignSettles
    <2>4. \A f : CmpAt(a, b, f, i, j) = Sign(u, v)
      BY <1>8, <1>9
    <2> QED
      BY <2>3, <2>4 DEF Told, Settles
  <1>10. CASE u = v
    <2>1. Precedes(a, i, b, j) <=> Precedes(a, m, b, n)
      BY <1>3, <1>6, <1>10
    <2>2. Precedes(b, j, a, i) <=> Precedes(b, n, a, m)
      BY <1>3, <1>7, <1>10
    <2>3. \A r : Settles(r, a, i, b, j) <=> Settles(r, a, m, b, n)
      BY <2>1, <2>2 DEF Settles
    <2>4. \A f : CmpAt(a, b, f, i, j) = f[<<m, n>>]
      BY <1>8, <1>10
    <2>5. i <= m /\ j <= n /\ i + j < m + n
      BY <1>1, <1>5
    <2> QED
      BY <1>2, <2>3, <2>4, <2>5 DEF Passed
  <1> QED
    BY <1>9, <1>10

\* There is no other step.
LEMMA ToldOrPassed ==
  ASSUME NEW a \in Seq(Chars), NEW i \in 1 .. Len(a) + 1,
         NEW b \in Seq(Chars), NEW j \in 1 .. Len(b) + 1
  PROVE  Told(a, i, b, j) \/ Passed(a, i, b, j)
  <1>1. CASE InText(a, i) \/ InText(b, j)
    BY <1>1, TextsTold, TextsPassed
  <1>2. CASE ~InText(a, i) /\ ~InText(b, j) /\ (i <= Len(a) \/ j <= Len(b))
    BY <1>2, NumbersToldOrPassed
  <1>3. CASE ~(i <= Len(a)) /\ ~(j <= Len(b))
    <2>1. i = Len(a) + 1 /\ j = Len(b) + 1
      BY <1>3
    <2> QED
      BY <2>1, ToldAtEnd
  <1> QED
    BY <1>1, <1>2, <1>3

\* How much is left behind a place.
LeftBehind(a, b) ==
  [at \in Places(a, b) |-> (Len(a) + 1 - at[1]) + (Len(b) + 1 - at[2])]

\* Less is left behind a place further on.
LEMMA PlaceIs ==
  ASSUME NEW a \in Seq(Chars), NEW b \in Seq(Chars), NEW at \in Places(a, b)
  PROVE  /\ at[1] \in 1 .. Len(a) + 1 /\ at[2] \in 1 .. Len(b) + 1
         /\ LeftBehind(a, b)[at] \in 0 .. Len(a) + Len(b)
         /\ \A k \in 1 .. Len(a) + 1, l \in 1 .. Len(b) + 1 :
              /\ <<k, l>> \in Places(a, b)
              /\ <<k, l>>[1] = k /\ <<k, l>>[2] = l
              /\ at[1] + at[2] < k + l
                   => LeftBehind(a, b)[<<k, l>>] < LeftBehind(a, b)[at]
  <1>1. at[1] \in 1 .. Len(a) + 1 /\ at[2] \in 1 .. Len(b) + 1
    BY DEF Places
  <1>2. Len(a) \in Nat /\ Len(b) \in Nat
    OBVIOUS
  <1>3. LeftBehind(a, b)[at] = (Len(a) + 1 - at[1]) + (Len(b) + 1 - at[2])
    BY DEF LeftBehind
  <1>4. ASSUME NEW k \in 1 .. Len(a) + 1, NEW l \in 1 .. Len(b) + 1
        PROVE  /\ <<k, l>> \in Places(a, b)
               /\ LeftBehind(a, b)[<<k, l>>] = (Len(a) + 1 - k) + (Len(b) + 1 - l)
    <2>1. <<k, l>> \in Places(a, b)
      BY DEF Places
    <2> QED
      BY <2>1 DEF LeftBehind
  <1>5. ASSUME NEW k \in 1 .. Len(a) + 1, NEW l \in 1 .. Len(b) + 1,
               at[1] + at[2] < k + l
        PROVE  LeftBehind(a, b)[<<k, l>>] < LeftBehind(a, b)[at]
    <2>1. (Len(a) + 1 - k) + (Len(b) + 1 - l)
            < (Len(a) + 1 - at[1]) + (Len(b) + 1 - at[2])
      BY <1>1, <1>2, <1>5, SMTT(30)
    <2> QED
      BY <1>3, <1>4, <2>1
  <1>6. LeftBehind(a, b)[at] \in 0 .. Len(a) + Len(b)
    BY <1>1, <1>2, <1>3, SMTT(30)
  <1> QED
    BY <1>1, <1>4, <1>5, <1>6

\* The step at a place tells r, or passes on to the place q.
Tells(a, b, at, r) ==
  /\ Settles(r, a, at[1], b, at[2])
  /\ \A f : CmpAt(a, b, f, at[1], at[2]) = r

PassesOn(a, b, at, q) ==
  /\ LeftBehind(a, b)[q] < LeftBehind(a, b)[at]
  /\ \A f : CmpAt(a, b, f, at[1], at[2]) = f[q]
  /\ \A r : Settles(r, a, at[1], b, at[2]) <=> Settles(r, a, q[1], b, q[2])

\* A step depends on the places behind only.
LEMMA StepsAre ==
  ASSUME NEW a \in Seq(Chars), NEW b \in Seq(Chars), NEW at \in Places(a, b)
  PROVE  \/ \E r \in Signs : Tells(a, b, at, r)
         \/ \E q \in Places(a, b) : PassesOn(a, b, at, q)
  <1>1. at[1] \in 1 .. Len(a) + 1 /\ at[2] \in 1 .. Len(b) + 1
    BY PlaceIs
  <1>2. Told(a, at[1], b, at[2]) \/ Passed(a, at[1], b, at[2])
    BY <1>1, ToldOrPassed
  <1>3. ASSUME Passed(a, at[1], b, at[2])
        PROVE  \E q \in Places(a, b) : PassesOn(a, b, at, q)
    <2>1. PICK k \in 1 .. Len(a) + 1, l \in 1 .. Len(b) + 1 :
            /\ at[1] + at[2] < k + l
            /\ \A f : CmpAt(a, b, f, at[1], at[2]) = f[<<k, l>>]
            /\ \A r : Settles(r, a, at[1], b, at[2]) <=> Settles(r, a, k, b, l)
      BY <1>3, Zenon DEF Passed
    <2>2. /\ <<k, l>> \in Places(a, b) /\ <<k, l>>[1] = k /\ <<k, l>>[2] = l
          /\ LeftBehind(a, b)[<<k, l>>] < LeftBehind(a, b)[at]
      BY <2>1, PlaceIs
    <2> QED
      BY <2>1, <2>2, Zenon DEF PassesOn
  <1> QED
    BY <1>2, <1>3, Zenon DEF Told, Tells

\* The recursion of CmpStr has a solution, and by induction over what is left
\* behind a place it settles the order of the rests from there on.
LEMMA CmpStrSettles ==
  ASSUME NEW a \in Seq(Chars), NEW b \in Seq(Chars)
  PROVE  Settles(CmpStr(a, b), a, 1, b, 1)
  <1> DEFINE D == Places(a, b)
             Body(f) == [at \in D |-> CmpAt(a, b, f, at[1], at[2])]
             B == [f \in [D -> Signs] |-> Body(f)]
             rank == LeftBehind(a, b)
  <1>1. Len(a) \in Nat /\ Len(b) \in Nat /\ Len(a) + Len(b) \in Nat
    OBVIOUS
  <1>2. rank \in [D -> 0 .. Len(a) + Len(b)] /\ rank \in [D -> Nat]
    <2>1. \A at \in D : rank[at] \in 0 .. Len(a) + Len(b) /\ rank[at] \in Nat
      BY <1>1, PlaceIs
    <2>2. DOMAIN rank = D /\ rank = [at \in D |-> rank[at]]
      BY DEF LeftBehind
    <2> HIDE DEF rank, D
    <2> QED
      BY <2>1, <2>2
  <1>3. ASSUME NEW f \in [D -> Signs], NEW at \in D
        PROVE  CmpAt(a, b, f, at[1], at[2]) \in Signs
    <2>1. ASSUME NEW r \in Signs, Tells(a, b, at, r)
          PROVE  CmpAt(a, b, f, at[1], at[2]) \in Signs
      BY <2>1, Zenon DEF Tells
    <2>2. ASSUME NEW q \in D, PassesOn(a, b, at, q)
          PROVE  CmpAt(a, b, f, at[1], at[2]) \in Signs
      <3>1. CmpAt(a, b, f, at[1], at[2]) = f[q]
        BY <2>2, Zenon DEF PassesOn
      <3> QED
        BY <3>1
    <2> QED
      BY <2>1, <2>2, StepsAre
  <1>4. ASSUME NEW f \in [D -> Signs], NEW g \in [D -> Signs], NEW at \in D,
               \A q \in D : rank[q] < rank[at] => f[q] = g[q]
        PROVE  CmpAt(a, b, f, at[1], at[2]) = CmpAt(a, b, g, at[1], at[2])
    <2>1. ASSUME NEW r \in Signs, Tells(a, b, at, r)
          PROVE  CmpAt(a, b, f, at[1], at[2]) = CmpAt(a, b, g, at[1], at[2])
      BY <2>1, Zenon DEF Tells
    <2>2. ASSUME NEW q \in D, PassesOn(a, b, at, q)
          PROVE  CmpAt(a, b, f, at[1], at[2]) = CmpAt(a, b, g, at[1], at[2])
      <3>1. /\ CmpAt(a, b, f, at[1], at[2]) = f[q]
            /\ CmpAt(a, b, g, at[1], at[2]) = g[q]
            /\ rank[q] < rank[at]
        BY <2>2, Zenon DEF PassesOn
      <3> QED
        BY <1>4, <3>1
    <2> QED
      BY <2>1, <2>2, StepsAre
  <1>5. \E f \in [D -> Signs] : B[f] = f
    <2>1. B \in [[D -> Signs] -> [D -> Signs]]
      BY <1>3
    <2>2. ASSUME NEW f \in [D -> Signs], NEW g \in [D -> Signs], NEW at \in D,
                 \A q \in D : rank[q] < rank[at] => f[q] = g[q]
          PROVE  B[f][at] = B[g][at]
      BY <1>4, <2>2
    <2>3. Signs # {}
      BY DEF Signs
    <2> HIDE DEF B, rank, D
    <2>4. LooksBack(B, D, Signs, rank, Len(a) + Len(b))
      BY <1>1, <1>2, <2>1, <2>2, <2>3 DEF LooksBack
    <2>5. HasSolution(B, D, Signs)
      BY <2>4, RecursionHasSolution
    <2> QED
      BY <2>5 DEF HasSolution
  <1>6. \E f : f = Body(f)
    <2>1. PICK f \in [D -> Signs] : B[f] = f
      BY <1>5
    <2>2. f = Body(f)
      BY <2>1
    <2> QED
      BY <2>2
  <1>7. \E f : f = Body(f) /\ CmpStr(a, b) = f[<<1, 1>>]
    BY <1>6, Zenon DEF CmpStr
  <1>8. PICK f : f = Body(f) /\ CmpStr(a, b) = f[<<1, 1>>]
    BY <1>7, Zenon
  <1>9. \A at \in D : f[at] = CmpAt(a, b, f, at[1], at[2])
    BY <1>8
  <1> DEFINE T == {at \in D : Settles(f[at], a, at[1], b, at[2])}
  <1>10. ASSUME NEW at \in D, \A q \in D : rank[q] < rank[at] => q \in T
         PROVE  at \in T
    <2>1. Settles(f[at], a, at[1], b, at[2])
      <3>1. ASSUME NEW r \in Signs, Tells(a, b, at, r)
            PROVE  Settles(f[at], a, at[1], b, at[2])
        BY <1>9, <3>1, Zenon DEF Tells
      <3>2. ASSUME NEW q \in D, PassesOn(a, b, at, q)
            PROVE  Settles(f[at], a, at[1], b, at[2])
        <4>1. q \in T
          BY <1>10, <3>2 DEF PassesOn
        <4>2. f[at] = f[q]
          BY <1>9, <3>2, Zenon DEF PassesOn
        <4>3. Settles(f[q], a, q[1], b, q[2])
          BY <4>1
        <4> QED
          BY <3>2, <4>2, <4>3, Zenon DEF PassesOn
      <3> QED
        BY <3>1, <3>2, StepsAre
    <2> QED
      BY <2>1
  <1>11. D \subseteq T
    <2> HIDE DEF T, D, rank
    <2> QED
      BY <1>2, <1>10, RankInduction
  <1>12. <<1, 1>> \in D
    BY <1>1 DEF Places
  <1>13. Settles(f[<<1, 1>>], a, <<1, 1>>[1], b, <<1, 1>>[2])
    BY <1>11, <1>12
  <1> QED
    BY <1>8, <1>13

\* For any two parts of versions _cmp_str says -1 when the policy puts the first
\* before the second, 1 when it puts it behind, and 0 when it does neither.
THEOREM PartsCompare ==
  ASSUME NEW a \in Seq(Chars), NEW b \in Seq(Chars)
  PROVE  /\ CmpStr(a, b) \in Signs
         /\ CmpStr(a, b) = -1 <=> PartBefore(a, b)
         /\ CmpStr(a, b) = 1 <=> PartBefore(b, a)
  <1>1. PartBefore(a, b) <=> Precedes(a, 1, b, 1)
    BY DEF PartBefore, Precedes, Blocks, NoBlock
  <1>2. PartBefore(b, a) <=> Precedes(b, 1, a, 1)
    BY DEF PartBefore, Precedes, Blocks, NoBlock
  <1>3. Settles(CmpStr(a, b), a, 1, b, 1)
    BY CmpStrSettles
  <1> QED
    BY <1>1, <1>2, <1>3 DEF Settles

-----------------------------------------------------------------------------
(* Versions.                                                               *)

\* Every set of numbers up to a bound with a member has a greatest one.
LEMMA GreatestNumber ==
  ASSUME NEW top \in Nat, NEW S \in SUBSET (1 .. top), S # {}
  PROVE  \E m \in S : \A n \in S : n <= m
  <1> DEFINE T == {top - n : n \in S}
  <1>1. T \in SUBSET Nat /\ T # {}
    <2>1. ASSUME NEW n \in S PROVE top - n \in Nat
      <3>1. n \in 1 .. top
        OBVIOUS
      <3> QED
        BY <3>1
    <2> QED
      BY <2>1
  <1>2. PICK t \in T : \A u \in T : t <= u
    BY <1>1, LeastNumber
  <1>3. PICK m \in S : t = top - m
    BY <1>2
  <1>4. ASSUME NEW n \in S PROVE n <= m
    <2>1. top - m <= top - n
      BY <1>2, <1>3
    <2> QED
      BY <2>1
  <1> QED
    BY <1>4

\* What is before a place of a version and what is behind it.
LEMMA AroundIs ==
  ASSUME NEW v \in Seq(Chars), NEW i \in 1 .. Len(v)
  PROVE  /\ SubSeq(v, 1, i - 1) \in Seq(Chars)
         /\ Len(SubSeq(v, 1, i - 1)) = i - 1
         /\ SubSeq(v, i + 1, Len(v)) \in Seq(Chars)
  <1>1. Len(v) \in Nat
    OBVIOUS
  <1>2. i \in Nat /\ 1 <= i /\ i <= Len(v) + 1
    BY <1>1
  <1>3. /\ SubSeq(v, 1, i - 1) \in Seq(Chars)
        /\ Len(SubSeq(v, 1, i - 1)) = i - 1
    BY <1>2, PartIs
  <1>4. /\ i + 1 \in Nat /\ Len(v) + 1 \in Nat /\ 1 <= i + 1 /\ i + 1 <= Len(v) + 1
        /\ Len(v) + 1 <= Len(v) + 1 /\ (Len(v) + 1) - 1 = Len(v)
    BY <1>1
  <1>5. SubSeq(v, i + 1, (Len(v) + 1) - 1) \in Seq(Chars)
    BY <1>4, PartIs
  <1> QED
    BY <1>3, <1>4, <1>5

\* An epoch is a natural number, and what follows it a version.
LEMMA SplitEpochIs ==
  ASSUME NEW v \in Seq(Chars)
  PROVE  SplitEpoch(v).epoch \in Nat /\ SplitEpoch(v).rest \in Seq(Chars)
  <1> DEFINE colons == {k \in DOMAIN v : v[k] = Colon}
             i == CHOOSE k \in colons : \A n \in colons : k <= n
             before == SubSeq(v, 1, i - 1)
             epoch == IF RunEnd(before, 1, Digit) = i THEN Value(before) ELSE 0
             rest == SubSeq(v, i + 1, Len(v))
  <1>1. DOMAIN v = 1 .. Len(v) /\ Len(v) \in Nat
    OBVIOUS
  <1>2. CASE colons = {}
    <2>1. SplitEpoch(v) = [epoch |-> 0, rest |-> v]
      BY <1>2 DEF SplitEpoch
    <2> QED
      BY <2>1
  <1>3. CASE colons # {}
    <2>1. SplitEpoch(v) = [epoch |-> epoch, rest |-> rest]
      BY <1>3 DEF SplitEpoch
    <2>2. colons \in SUBSET Nat
      BY <1>1
    <2>3. \E k \in colons : \A n \in colons : k <= n
      BY <1>3, <2>2, LeastNumber
    <2>4. i \in colons
      BY <2>3
    <2>5. i \in 1 .. Len(v)
      BY <1>1, <2>4
    <2> HIDE DEF i
    <2>6. /\ before \in Seq(Chars) /\ Len(before) = i - 1
          /\ rest \in Seq(Chars)
      BY <2>5, AroundIs
    <2> HIDE DEF before, rest
    <2>7. ASSUME RunEnd(before, 1, Digit) = i
          PROVE  Value(before) \in Nat
      <3>1. 1 \in 1 .. Len(before) + 1
        BY <2>5, <2>6
      <3>2. \A n \in 1 .. i - 1 : before[n] \in Digit
        BY <2>6, <2>7, <3>1, RunEndIs
      <3>3. DOMAIN before = 1 .. i - 1 /\ i - 1 \in Nat
        BY <2>5, <2>6
      <3>4. before \in Seq(Digit)
        BY <2>6, <3>2, <3>3, IsASeq
      <3> QED
        BY <3>4, ValueIsNat
    <2>8. epoch \in Nat
      BY <2>7
    <2> QED
      BY <2>1, <2>6, <2>8
  <1> QED
    BY <1>2, <1>3

\* The parts around the last hyphen are texts of versions.
LEMMA SplitRevIs ==
  ASSUME NEW v \in Seq(Chars)
  PROVE  SplitRev(v).upstream \in Seq(Chars) /\ SplitRev(v).rev \in Seq(Chars)
  <1> DEFINE hyphens == {k \in DOMAIN v : v[k] = Hyphen}
             i == CHOOSE k \in hyphens : \A n \in hyphens : n <= k
  <1>1. DOMAIN v = 1 .. Len(v) /\ Len(v) \in Nat
    OBVIOUS
  <1>2. CASE hyphens = {}
    <2>1. SplitRev(v) = [upstream |-> v, rev |-> <<>>]
      BY <1>2 DEF SplitRev
    <2>2. <<>> \in Seq(Chars)
      BY EmptySeq
    <2> QED
      BY <2>1, <2>2
  <1>3. CASE hyphens # {}
    <2>1. SplitRev(v) = [upstream |-> SubSeq(v, 1, i - 1),
                         rev |-> SubSeq(v, i + 1, Len(v))]
      BY <1>3 DEF SplitRev
    <2>2. hyphens \in SUBSET (1 .. Len(v))
      BY <1>1
    <2>3. \E k \in hyphens : \A n \in hyphens : n <= k
      BY <1>1, <1>3, <2>2, GreatestNumber
    <2>4. i \in hyphens
      BY <2>3
    <2>5. i \in 1 .. Len(v)
      BY <1>1, <2>4
    <2> HIDE DEF i
    <2>6. SubSeq(v, 1, i - 1) \in Seq(Chars) /\ SubSeq(v, i + 1, Len(v)) \in Seq(Chars)
      BY <2>5, AroundIs
    <2> QED
      BY <2>1, <2>6
  <1> QED
    BY <1>2, <1>3

\* So does compare for any two whole versions: with epochs, leading zeros, tildes
\* and empty parts, however long they are.
THEOREM VersionsCompare ==
  ASSUME NEW v \in Seq(Chars), NEW w \in Seq(Chars)
  PROVE  /\ Compare(v, w) \in Signs
         /\ Compare(v, w) = -1 <=> PolicyBefore(v, w)
         /\ Compare(v, w) = 1 <=> PolicyBefore(w, v)
  <1> DEFINE ev == SplitEpoch(v)
             ew == SplitEpoch(w)
             rv == SplitRev(ev.rest)
             rw == SplitRev(ew.rest)
             c == CmpStr(rv.upstream, rw.upstream)
             d == CmpStr(rv.rev, rw.rev)
  <1>1. ev.epoch \in Nat /\ ew.epoch \in Nat
    BY SplitEpochIs
  <1>2. ev.rest \in Seq(Chars) /\ ew.rest \in Seq(Chars)
    BY SplitEpochIs
  <1>3. /\ rv.upstream \in Seq(Chars) /\ rv.rev \in Seq(Chars)
        /\ rw.upstream \in Seq(Chars) /\ rw.rev \in Seq(Chars)
    BY <1>2, SplitRevIs
  <1>4. Compare(v, w) = IF ev.epoch # ew.epoch THEN Sign(ev.epoch, ew.epoch)
                        ELSE IF c # 0 THEN c ELSE d
    BY DEF Compare
  <1>5. PolicyBefore(v, w)
          <=> \/ ev.epoch < ew.epoch
              \/ ev.epoch = ew.epoch /\ PartBefore(rv.upstream, rw.upstream)
              \/ /\ ev.epoch = ew.epoch
                 /\ ~PartBefore(rw.upstream, rv.upstream)
                 /\ PartBefore(rv.rev, rw.rev)
    BY DEF PolicyBefore
  <1>6. PolicyBefore(w, v)
          <=> \/ ew.epoch < ev.epoch
              \/ ew.epoch = ev.epoch /\ PartBefore(rw.upstream, rv.upstream)
              \/ /\ ew.epoch = ev.epoch
                 /\ ~PartBefore(rv.upstream, rw.upstream)
                 /\ PartBefore(rw.rev, rv.rev)
    BY DEF PolicyBefore
  <1>7. /\ c \in Signs
        /\ c = -1 <=> PartBefore(rv.upstream, rw.upstream)
        /\ c = 1 <=> PartBefore(rw.upstream, rv.upstream)
    BY <1>3, PartsCompare
  <1>8. /\ d \in Signs
        /\ d = -1 <=> PartBefore(rv.rev, rw.rev)
        /\ d = 1 <=> PartBefore(rw.rev, rv.rev)
    BY <1>3, PartsCompare
  <1> HIDE DEF ev, ew, rv, rw, c, d
  <1>9. /\ Sign(ev.epoch, ew.epoch) \in Signs
        /\ Sign(ev.epoch, ew.epoch) = -1 <=> ev.epoch < ew.epoch
        /\ Sign(ev.epoch, ew.epoch) = 1 <=> ew.epoch < ev.epoch
    <2>1. ev.epoch \in Int /\ ew.epoch \in Int
      BY <1>1
    <2> QED
      BY <2>1, SignIs DEF Signs
  <1>10. CASE ev.epoch # ew.epoch
    BY <1>4, <1>5, <1>6, <1>9, <1>10
  <1>11. CASE ev.epoch = ew.epoch /\ c # 0
    <2>1. Compare(v, w) = c
      BY <1>4, <1>11
    <2>2. c = -1 \/ c = 1
      BY <1>7, <1>11 DEF Signs
    <2>3. ~(ev.epoch < ew.epoch) /\ ~(ew.epoch < ev.epoch)
      BY <1>1, <1>11
    <2>4. -1 # 1
      OBVIOUS
    <2> QED
      BY <1>5, <1>6, <1>7, <1>11, <2>1, <2>2, <2>3, <2>4, Zenon
  <1>12. CASE ev.epoch = ew.epoch /\ c = 0
    <2>1. Compare(v, w) = d
      BY <1>4, <1>12
    <2>2. ~PartBefore(rv.upstream, rw.upstream) /\ ~PartBefore(rw.upstream, rv.upstream)
      BY <1>7, <1>12
    <2>3. ~(ev.epoch < ew.epoch) /\ ~(ew.epoch < ev.epoch)
      BY <1>1, <1>12
    <2> QED
      BY <1>5, <1>6, <1>8, <1>12, <2>1, <2>2, <2>3, Zenon
  <1> QED
    BY <1>10, <1>11, <1>12

\* No fix is taken to be there by a version that comes before it, nor to be
\* missing from one that does not.
THEOREM NoneMisjudged == Misjudged = {}
  <1> SUFFICES ASSUME NEW v \in DebVersions, NEW w \in DebVersions
               PROVE  ~(Kge(v, w) <=> PolicyBefore(v, w))
    BY DEF Misjudged
  <1>1. v \in Seq(Chars) /\ w \in Seq(Chars)
    BY DebverAssumption DEF Chars
  <1>2. Compare(v, w) \in Signs /\ (Compare(v, w) = -1 <=> PolicyBefore(v, w))
    BY <1>1, VersionsCompare
  <1>3. Kge(v, w) <=> Compare(v, w) # -1
    BY <1>2 DEF Kge, Signs
  <1> QED
    BY <1>2, <1>3

-----------------------------------------------------------------------------
(* Apple's two passes.                                                     *)

\* The map m of product p records the earliest fix among the advisories b.
Best(p, m, b) ==
  \A c \in Cves :
    /\ m[c] # NoAdvisory => Product[m[c]] = p /\ c \in Fixes[m[c]]
    /\ \A a \in b : c \in Fixes[a]
         => m[c] # NoAdvisory /\ Version[m[c]] <= Version[a]

\* What is in the making comes from advisories that have been read, and those
\* of the index that are still to be read are no earlier.
InOrder ==
  /\ \A c \in Cves : fixed[c] # NoAdvisory => fixed[c] \in read
  /\ \A a \in read, b \in todo \ Old : Version[a] <= Version[b]
  /\ \A a \in todo \ Old : Product[a] = product
  /\ todo \cap Old = {} \/ todo \subseteq Old

\* The recorded maps, those of the open transaction, and the one in the making.
MapsInv ==
  /\ \A p \in Products : Best(p, apple[p], basis[p])
  /\ \A p \in Products :
       replaced[p] # NoProduct => Best(p, replaced[p].map, replaced[p].basis)
  /\ product # NoProduct => Best(product, fixed, read)

AppleInv == AppleTypeOK /\ InOrder /\ MapsInv

\* A blank map is the best of nothing.
LEMMA BlankIsBest == ASSUME NEW p PROVE Best(p, Blank, {})
  BY DEF Best, Blank

LEMMA AppleInitInvariant == AppleInit => AppleInv
  <1> SUFFICES ASSUME AppleInit
               PROVE  AppleInv
    OBVIOUS
  <1> USE DEF AppleInit
  <1>1. AppleTypeOK
    BY DEF AppleTypeOK, Maps, Blank, Written, NothingWritten
  <1>2. InOrder
    BY DEF InOrder, Blank
  <1>3. MapsInv
    BY BlankIsBest DEF MapsInv, NothingWritten
  <1> QED
    BY <1>1, <1>2, <1>3 DEF AppleInv

LEMMA StartStep ==
  ASSUME AppleInv, NEW p \in Products, NEW past \in BOOLEAN,
         AppleStart(p, past)
  PROVE  AppleInv'
  <1> USE DEF AppleInv, AppleStart
  <1>1. AppleTypeOK'
    BY AppleAssumption DEF AppleTypeOK, Indexed, Maps, Blank
  <1>2. InOrder'
    BY DEF InOrder, Indexed, Blank
  <1>3. MapsInv'
    BY BlankIsBest DEF MapsInv
  <1> QED
    BY <1>1, <1>2, <1>3

LEMMA IndexStep ==
  ASSUME AppleInv, NEW a \in Advisories, ReadIndexed(a)
  PROVE  AppleInv'
  <1> USE DEF AppleInv, ReadIndexed, Reads, NextRow
  <1>1. Product[a] = product /\ a \notin Old
    BY DEF InOrder
  <1>2. product # NoProduct
    BY DEF AppleTypeOK
  <1>3. AppleTypeOK'
    BY <1>2 DEF AppleTypeOK, Maps
  <1>4. InOrder'
    <2>1. \A c \in Cves : fixed'[c] # NoAdvisory => fixed'[c] \in read'
      BY <1>1 DEF InOrder, AppleTypeOK, Maps
    <2>2. ASSUME NEW b \in read', NEW d \in todo' \ Old
          PROVE  Version[b] <= Version[d]
      BY <1>1, <2>2 DEF InOrder
    <2> QED
      BY <2>1, <2>2 DEF InOrder
  <1>5. Best(product, fixed', read')
    <2> SUFFICES ASSUME NEW c \in Cves
                 PROVE  /\ fixed'[c] # NoAdvisory
                             => Product[fixed'[c]] = product
                                  /\ c \in Fixes[fixed'[c]]
                        /\ \A b \in read' : c \in Fixes[b]
                             => fixed'[c] # NoAdvisory
                                  /\ Version[fixed'[c]] <= Version[b]
      BY DEF Best
    <2>1. CASE c \in Fixes[a] /\ fixed[c] = NoAdvisory
      <3>1. fixed'[c] = a
        BY <2>1
      <3>2. \A b \in read : c \notin Fixes[b]
        BY <1>2, <2>1 DEF MapsInv, Best
      <3>3. Version[a] \in Nat /\ a # NoAdvisory
        BY AppleAssumption
      <3>4. read' = read \cup {a}
        BY <1>1
      <3> QED
        BY <1>1, <2>1, <3>1, <3>2, <3>3, <3>4
    <2>2. CASE c \in Fixes[a] /\ fixed[c] # NoAdvisory
      <3>1. fixed'[c] = fixed[c]
        BY <2>2
      <3>2. Version[fixed[c]] <= Version[a]
        BY <2>2 DEF InOrder
      <3> QED
        BY <1>2, <2>2, <3>1, <3>2 DEF MapsInv, Best
    <2>3. CASE c \notin Fixes[a]
      <3>1. fixed'[c] = fixed[c]
        BY <2>3
      <3> QED
        BY <1>2, <2>3, <3>1 DEF MapsInv, Best
    <2> QED
      BY <2>1, <2>2, <2>3
  <1>6. MapsInv'
    BY <1>5 DEF MapsInv
  <1> QED
    BY <1>3, <1>4, <1>6

LEMMA OldStep ==
  ASSUME AppleInv, NEW a \in Advisories, ReadOld(a)
  PROVE  AppleInv'
  <1> USE DEF AppleInv, ReadOld, Reads
  <1>1. product # NoProduct
    BY DEF AppleTypeOK
  <1>2. todo \subseteq Old
    BY DEF InOrder
  <1>3. AppleTypeOK'
    BY <1>1 DEF AppleTypeOK, Maps
  <1>4. InOrder'
    <2>1. \A c \in Cves : fixed'[c] # NoAdvisory => fixed'[c] \in read'
      BY DEF InOrder, AppleTypeOK, Maps
    <2>2. todo' \subseteq Old
      BY <1>2
    <2> QED
      BY <2>1, <2>2 DEF InOrder
  <1>5. Best(product, fixed', read')
    <2> SUFFICES ASSUME NEW c \in Cves
                 PROVE  /\ fixed'[c] # NoAdvisory
                             => Product[fixed'[c]] = product
                                  /\ c \in Fixes[fixed'[c]]
                        /\ \A b \in read' : c \in Fixes[b]
                             => fixed'[c] # NoAdvisory
                                  /\ Version[fixed'[c]] <= Version[b]
      BY DEF Best
    <2>1. /\ \A b \in Advisories : Version[b] \in Nat
          /\ read \subseteq Advisories
          /\ fixed[c] # NoAdvisory => fixed[c] \in Advisories
      BY AppleAssumption DEF AppleTypeOK, Maps
    <2>2. /\ fixed[c] # NoAdvisory
               => Product[fixed[c]] = product /\ c \in Fixes[fixed[c]]
          /\ \A b \in read : c \in Fixes[b]
               => fixed[c] # NoAdvisory /\ Version[fixed[c]] <= Version[b]
      BY <1>1 DEF MapsInv, Best
    <2>3. CASE /\ Product[a] = product
               /\ c \in Fixes[a]
               /\ fixed[c] = NoAdvisory \/ Version[a] < Version[fixed[c]]
      <3>1. fixed'[c] = a
        BY <2>3
      <3>2. a # NoAdvisory
        BY AppleAssumption
      <3>3. ASSUME NEW b \in read, c \in Fixes[b]
            PROVE  Version[a] <= Version[b]
        BY <2>1, <2>2, <2>3, <3>3
      <3> QED
        BY <2>1, <2>3, <3>1, <3>2, <3>3
    <2>4. CASE ~(/\ Product[a] = product
                 /\ c \in Fixes[a]
                 /\ fixed[c] = NoAdvisory \/ Version[a] < Version[fixed[c]])
      <3>1. fixed'[c] = fixed[c]
        BY <2>4
      <3> QED
        BY <2>1, <2>2, <2>4, <3>1
    <2> QED
      BY <2>3, <2>4
  <1>6. MapsInv'
    BY <1>5 DEF MapsInv
  <1> QED
    BY <1>3, <1>4, <1>6

\* The steps that end a pass, a map or the command.
LEMMA EndingStep ==
  ASSUME AppleInv, AppleHistory \/ HistoryFails \/ AppleReplace \/ AppleDies
  PROVE  AppleInv'
  <1> USE DEF AppleInv
  <1>1. CASE AppleHistory
    BY <1>1, AppleAssumption
      DEF AppleHistory, AppleTypeOK, InOrder, MapsInv
  <1>2. CASE HistoryFails
    BY <1>2 DEF HistoryFails, AppleTypeOK, InOrder, MapsInv
  <1>3. CASE AppleReplace
    <2> USE <1>3 DEF AppleReplace
    <2>1. AppleTypeOK'
      BY DEF AppleTypeOK, Maps, Blank, Written
    <2>2. InOrder'
      BY DEF InOrder, Blank
    <2>3. ASSUME NEW p \in Products, replaced'[p] # NoProduct
          PROVE  Best(p, replaced'[p].map, replaced'[p].basis)
      <3>1. CASE p = product
        BY <3>1 DEF MapsInv, AppleTypeOK
      <3>2. CASE p # product
        BY <2>3, <3>2 DEF MapsInv, AppleTypeOK
      <3> QED
        BY <3>1, <3>2
    <2>4. MapsInv'
      BY <2>3 DEF MapsInv
    <2> QED
      BY <2>1, <2>2, <2>4
  <1>4. CASE AppleDies
    <2> USE <1>4 DEF AppleDies
    <2>1. AppleTypeOK'
      BY DEF AppleTypeOK, Maps, Blank, Written, NothingWritten
    <2>2. InOrder'
      BY DEF InOrder, Blank
    <2>3. MapsInv'
      BY DEF MapsInv, NothingWritten
    <2> QED
      BY <2>1, <2>2, <2>3
  <1> QED
    BY <1>1, <1>2, <1>3, <1>4

LEMMA PageFailsStep ==
  ASSUME AppleInv, NEW a \in Advisories, PageFails(a)
  PROVE  AppleInv'
  BY DEF PageFails, AppleInv, AppleTypeOK, InOrder, MapsInv

LEMMA CommitStep ==
  ASSUME AppleInv, AppleCommit
  PROVE  AppleInv'
  <1> USE DEF AppleInv, AppleCommit, appleTick
  <1>1. AppleTypeOK'
    BY DEF AppleTypeOK, Maps, Written, NothingWritten
  <1>2. InOrder'
    BY DEF InOrder
  <1>3. ASSUME NEW p \in Products
        PROVE  Best(p, apple'[p], basis'[p])
    BY <1>3 DEF MapsInv
  <1>4. MapsInv'
    BY <1>3 DEF MapsInv, NothingWritten
  <1> QED
    BY <1>1, <1>2, <1>4

LEMMA AppleStep == ASSUME AppleInv, AppleNext PROVE AppleInv'
  BY StartStep, IndexStep, OldStep, EndingStep, PageFailsStep, CommitStep
    DEF AppleNext

LEMMA AppleUnchanged == ASSUME AppleInv, UNCHANGED appleVars PROVE AppleInv'
  BY DEF AppleInv, AppleTypeOK, InOrder, MapsInv, appleVars, appleTick

-----------------------------------------------------------------------------
(* The overlays and the purge.                                             *)

\* What the purge has selected is spared by no overlay.
SelectionInv == purging \cap Spared = {}

CatalogTypes ==
  /\ defects \subseteq Ids
  /\ seenIds \subseteq Ids
  /\ crosswalk \subseteq Ids \X Ids
  /\ kev \subseteq Cves
  /\ epss \in [Cves -> Likelihood]
  /\ debian \in [Sheets -> [Cves -> DebianStatus]]
  /\ ubuntu \in [Cves -> UbuntuStatus]
  /\ purging \subseteq Ids

IInv == AppleInv /\ CatalogTypes /\ NoOrphans /\ SelectionInv

\* Spared is a matter of the overlays and of Apple's table.
LEMMA SparedUnchanged ==
  ASSUME UNCHANGED <<overlays, apple>>
  PROVE  Spared' = Spared
  BY DEF Spared, HighlyLikely, DebianOpen, UbuntuOpen, AppleFixed, overlays

LEMMA InitInvariant == Init => IInv
  <1> SUFFICES ASSUME Init
               PROVE  IInv
    OBVIOUS
  <1> USE DEF Init
  <1>1. AppleInv
    BY AppleInitInvariant
  <1>2. CatalogTypes
    BY DEF CatalogTypes, Likelihood, DebianStatus, UbuntuStatus
  <1>3. NoOrphans
    BY DEF NoOrphans
  <1>4. SelectionInv
    BY DEF SelectionInv
  <1> QED
    BY <1>1, <1>2, <1>3, <1>4 DEF IInv

\* A row comes with its sighting and its edges in both directions.
LEMMA TakeRowStep ==
  ASSUME IInv, NEW i \in Ids, TakeRow(i)
  PROVE  IInv'
  <1> DEFINE aliases == IF i \in Peers THEN AliasOf[i] ELSE {}
  <1> USE DEF IInv, TakeRow
  <1>1. aliases \subseteq Ids
    BY OverlayAssumption DEF Ids
  <1>2. crosswalk' = crosswalk \cup ({i} \X aliases) \cup (aliases \X {i})
    OBVIOUS
  <1> HIDE DEF aliases
  <1>3. AppleInv'
    BY AppleUnchanged
  <1>4. CatalogTypes'
    BY <1>1, <1>2 DEF CatalogTypes, overlays
  <1>5. NoOrphans'
    <2>1. seenIds' = defects'
      BY DEF NoOrphans
    <2>2. ASSUME NEW e \in crosswalk'
          PROVE  <<e[2], e[1]>> \in crosswalk' /\ {e[1], e[2]} \cap defects' # {}
      <3>1. CASE e \in crosswalk
        BY <1>2, <3>1 DEF NoOrphans
      <3>2. CASE e \in ({i} \X aliases) \cup (aliases \X {i})
        BY <1>2, <3>2
      <3> QED
        BY <1>2, <2>2, <3>1, <3>2
    <2> QED
      BY <2>1, <2>2 DEF NoOrphans
  <1>6. SelectionInv'
    BY SparedUnchanged DEF SelectionInv, appleVars
  <1> QED
    BY <1>3, <1>4, <1>5, <1>6

\* The feeds that write an overlay do so while no purge runs.
LEMMA FeedStep ==
  ASSUME IInv, purging = {}, UNCHANGED <<catalog, purging, appleVars>>,
         kev' \subseteq Cves,
         epss' \in [Cves -> Likelihood],
         debian' \in [Sheets -> [Cves -> DebianStatus]],
         ubuntu' \in [Cves -> UbuntuStatus]
  PROVE  IInv'
  BY AppleUnchanged DEF IInv, CatalogTypes, NoOrphans, SelectionInv, catalog

LEMMA FeedsStep ==
  ASSUME IInv, purging = {}, Feeds
  PROVE  IInv'
  <1> USE DEF IInv, CatalogTypes
  <1>1. CASE \E i \in Ids : TakeRow(i)
    BY <1>1, TakeRowStep
  <1>2. CASE \E cves \in SUBSET Cves : KevTick(cves)
    BY <1>2, FeedStep DEF KevTick, UpsertKev
  <1>3. CASE \E sheet \in [Cves -> UbuntuStatus] : UbuntuTick(sheet)
    BY <1>3, FeedStep DEF UbuntuTick
  <1>4. CASE \E snapshot \in [Cves -> Likelihood] : EpssTick(snapshot)
    BY <1>4, FeedStep DEF EpssTick, ReplaceEpss
  <1>5. CASE \E scope \in SUBSET Sheets,
                sheets \in [Sheets -> [Cves -> DebianStatus]] :
               DebianTick(scope, sheets)
    BY <1>5, FeedStep DEF DebianTick, ReplaceDebianFixes
  <1> QED
    BY <1>1, <1>2, <1>3, <1>4, <1>5 DEF Feeds

LEMMA AppleCommandStep ==
  ASSUME IInv, purging = {}, Apple
  PROVE  IInv'
  <1> USE DEF IInv, Apple
  <1>1. AppleInv'
    BY AppleStep
  <1>2. CatalogTypes'
    BY DEF CatalogTypes, catalog, overlays
  <1>3. NoOrphans' /\ SelectionInv'
    BY DEF NoOrphans, SelectionInv, catalog
  <1> QED
    BY <1>1, <1>2, <1>3

LEMMA SelectStep ==
  ASSUME IInv, PurgeSelects
  PROVE  IInv'
  <1> USE DEF IInv, PurgeSelects
  <1>1. AppleInv'
    BY AppleUnchanged
  <1>2. CatalogTypes'
    BY DEF CatalogTypes, Candidates, catalog, overlays
  <1>3. NoOrphans'
    BY DEF NoOrphans, catalog
  <1>4. SelectionInv'
    BY SparedUnchanged DEF SelectionInv, Candidates, appleVars
  <1> QED
    BY <1>1, <1>2, <1>3, <1>4

\* A purged CVE has no recorded fix of Apple's, so that table stays as it is.
LEMMA AppleIsSpared ==
  ASSUME IInv, PurgeDeletes
  PROVE  UNCHANGED apple
  <1>1. apple \in [Products -> Maps]
    BY DEF IInv, AppleInv, AppleTypeOK
  <1>2. ASSUME NEW p \in Products, NEW c \in Cves, c \in purging
        PROVE  apple[p][c] = NoAdvisory
    BY <1>2 DEF IInv, SelectionInv, Spared, AppleFixed
  <1>3. ASSUME NEW p \in Products
        PROVE  [c \in Cves |-> IF c \in purging THEN NoAdvisory
                                                ELSE apple[p][c]] = apple[p]
    BY <1>1, <1>2 DEF Maps
  <1> QED
    BY <1>1, <1>3 DEF PurgeDeletes

LEMMA DeleteStep ==
  ASSUME IInv, PurgeDeletes
  PROVE  IInv'
  <1> USE DEF IInv, PurgeDeletes
  <1>1. AppleInv'
    BY AppleIsSpared, AppleUnchanged DEF appleVars
  <1>2. CatalogTypes'
    BY DEF CatalogTypes, Forget, EdgesOf, Likelihood, DebianStatus, UbuntuStatus
  <1>3. NoOrphans'
    BY DEF NoOrphans, Forget, EdgesOf, CatalogTypes
  <1>4. SelectionInv'
    BY DEF SelectionInv
  <1> QED
    BY <1>1, <1>2, <1>3, <1>4

LEMMA DieStep ==
  ASSUME IInv, PurgeDies
  PROVE  IInv'
  BY AppleUnchanged
    DEF IInv, PurgeDies, CatalogTypes, NoOrphans, SelectionInv, catalog, overlays

LEMMA UnchangedStep ==
  ASSUME IInv, UNCHANGED vars
  PROVE  IInv'
  <1> USE DEF IInv, vars
  <1>1. AppleInv'
    BY AppleUnchanged
  <1>2. CatalogTypes'
    BY DEF CatalogTypes, catalog, overlays
  <1>3. NoOrphans'
    BY DEF NoOrphans, catalog
  <1>4. SelectionInv'
    BY SparedUnchanged DEF SelectionInv, appleVars
  <1> QED
    BY <1>1, <1>2, <1>3, <1>4

LEMMA NextInvariant == IInv /\ [Next]_vars => IInv'
  <1> SUFFICES ASSUME IInv, [Next]_vars
               PROVE  IInv'
    OBVIOUS
  <1>1. CASE \E c \in Cves : TakeRow(c)
    BY <1>1, TakeRowStep DEF Ids
  <1>2. CASE Job
    BY <1>2, FeedsStep, SelectStep, AppleCommandStep, DeleteStep, DieStep
      DEF Job
  <1>3. CASE UNCHANGED vars
    BY <1>3, UnchangedStep
  <1> QED
    BY <1>1, <1>2, <1>3 DEF Next, Stream

THEOREM Invariance == Spec => []IInv
  BY InitInvariant, NextInvariant, PTL DEF Spec

\* The overlays, the catalog's keys and Apple's tick keep their types: the
\* ticks and the purge of posture/sources and posture/store.py.
THEOREM OverlaysTypeCorrect == Spec => []TypeOK
  <1>1. IInv => TypeOK
    BY DEF IInv, AppleInv, CatalogTypes, TypeOK
  <1> QED
    BY Invariance, <1>1, PTL

\* Whatever the versions and the sheets, patched is said of a released fix by
\* exactly the versions at it or past it (ubuntu_tracker.py:184-190).
THEOREM PatchedAtFix == Spec => []PatchedIsAtFix
  <1>1. PatchedIsAtFix
    BY NoneMisjudged DEF PatchedIsAtFix, UbuntuSays, UbuntuInjected
  <1> QED
    BY <1>1, PTL

\* Whatever of Apple's pages loads, in either pass and for any products and
\* advisories, the recorded fix is the earliest that did
\* (apple_advisory.py:298-493).
THEOREM EarliestFixHolds == Spec => []EarliestFixWins
  <1>1. IInv => EarliestFixWins
    BY DEF IInv, AppleInv, MapsInv, Best, EarliestFixWins
  <1> QED
    BY Invariance, <1>1, PTL

\* No sequence of ingests and purges leaves a sighting or an edge behind
\* (store.py:1811-1825).
THEOREM NothingOrphaned == Spec => []NoOrphans
  <1>1. IInv => NoOrphans
    BY DEF IInv
  <1> QED
    BY Invariance, <1>1, PTL

\* The purge forgets no known-exploited CVE, nor does a feed (store.py:1755).
THEOREM ExploitedIsKept == Spec => ExploitedNeverForgotten
  <1> DEFINE A == kev \cap defects \subseteq kev' \cap defects'
  <1>1. IInv /\ [Next]_vars => [A]_vars
    <2> SUFFICES ASSUME IInv, Next
                 PROVE  A
      OBVIOUS
    <2>1. CASE PurgeDeletes
      BY <2>1 DEF IInv, SelectionInv, Spared, PurgeDeletes, Forget
    <2>2. CASE PurgeSelects \/ PurgeDies \/ Apple
      BY <2>2 DEF PurgeSelects, PurgeDies, Apple, catalog, overlays
    <2>3. CASE Feeds \/ Stream
      BY <2>3 DEF Feeds, Stream, TakeRow, KevTick, UpsertKev, UbuntuTick,
        EpssTick, DebianTick, catalog, overlays
    <2> QED
      BY <2>1, <2>2, <2>3 DEF Next, Job
  <1> QED
    BY Invariance, <1>1, PTL DEF Spec, ExploitedNeverForgotten

\* When an observer calls a CVE unpatched.
LEMMA DebianUnpatched ==
  ASSUME NEW s \in Sheets, NEW c \in Cves
  PROVE  DebianSays(s, c) = "unpatched" <=> debian[s][c] = "open"
  BY DEF DebianSays, DebianInjected

LEMMA UbuntuUnpatched ==
  ASSUME NEW c \in Cves
  PROVE  /\ UbuntuSays(c, TRUE) = "unpatched" <=> ubuntu[c] = "needed"
         /\ UbuntuSays(c, FALSE) = "unpatched"
              <=> ubuntu[c] \in {"needed", "released"}
  BY DEF UbuntuSays, UbuntuInjected

\* What is open is spared; of the rest Ubuntu's goes with what is purged.
LEMMA UnpatchedIsSpared ==
  ASSUME IInv, PurgeDeletes, NEW c \in Cves
  PROVE  /\ \A s \in Sheets : debian[s][c] = "open" => debian'[s][c] = "open"
         /\ ubuntu[c] = "needed" => ubuntu'[c] = "needed"
         /\ c \notin purging => ubuntu'[c] = ubuntu[c]
  <1>1. ASSUME NEW s \in Sheets, debian[s][c] = "open"
        PROVE  c \notin purging
    BY <1>1 DEF IInv, SelectionInv, Spared, DebianOpen
  <1>2. ubuntu[c] = "needed" => c \notin purging
    BY DEF IInv, SelectionInv, Spared, UbuntuOpen
  <1> QED
    BY <1>1, <1>2 DEF PurgeDeletes

\* What the overlays spare is at least what Debian's and Apple's observers warn
\* of, and Ubuntu's but for devices below a released fix of a CVE the purge has
\* selected (store.py:1732-1792, debian_tracker.py:179, ubuntu_tracker.py:270,
\* apple_advisory.py:600).
THEOREM WarningsOutliveThePurge == Spec => PurgeKeepsWarnings
  <1> DEFINE
        Kept(c) ==
          /\ \A s \in Sheets :
               DebianSays(s, c) = "unpatched" => DebianSays(s, c)' = "unpatched"
          /\ UbuntuSays(c, TRUE) = "unpatched"
               => UbuntuSays(c, TRUE)' = "unpatched"
          /\ UbuntuSays(c, FALSE) = "unpatched"
               => \/ UbuntuSays(c, FALSE)' = "unpatched"
                  \/ ubuntu[c] = "released" /\ c \in purging
          /\ \A p \in Products, a \in Advisories :
               AppleDecide(p, c, Version[a]) = "unpatched"
                 => AppleDecide(p, c, Version[a])' = "unpatched"
        A == purging # {} => \A c \in Cves : Kept(c)
  <1>1. IInv /\ [Next]_vars => [A]_vars
    <2> SUFFICES ASSUME IInv, Next, purging # {}, NEW c \in Cves
                 PROVE  Kept(c)
      OBVIOUS
    <2>1. /\ \A s \in Sheets : debian[s][c] = "open" => debian'[s][c] = "open"
          /\ ubuntu[c] = "needed" => ubuntu'[c] = "needed"
          /\ c \notin purging => ubuntu'[c] = ubuntu[c]
          /\ UNCHANGED apple
      <3>1. CASE PurgeDeletes
        BY <3>1, UnpatchedIsSpared, AppleIsSpared
      <3>2. CASE PurgeDies \/ Stream
        BY <3>2 DEF PurgeDies, Stream, TakeRow, overlays, appleVars
      <3> QED
        BY <3>1, <3>2 DEF Next, Job
    <2>2. ASSUME NEW s \in Sheets, DebianSays(s, c) = "unpatched"
          PROVE  DebianSays(s, c)' = "unpatched"
      <3>1. debian'[s][c] = "open"
        BY <2>1, <2>2, DebianUnpatched
      <3> QED
        BY <3>1 DEF DebianSays, DebianInjected
    <2>3. ASSUME UbuntuSays(c, TRUE) = "unpatched"
          PROVE  UbuntuSays(c, TRUE)' = "unpatched"
      <3>1. ubuntu'[c] = "needed"
        BY <2>1, <2>3, UbuntuUnpatched
      <3> QED
        BY <3>1 DEF UbuntuSays, UbuntuInjected
    <2>4. ASSUME UbuntuSays(c, FALSE) = "unpatched",
                 ~(ubuntu[c] = "released" /\ c \in purging)
          PROVE  UbuntuSays(c, FALSE)' = "unpatched"
      <3>1. ubuntu'[c] \in {"needed", "released"}
        BY <2>1, <2>4, UbuntuUnpatched
      <3> QED
        BY <3>1 DEF UbuntuSays, UbuntuInjected
    <2>5. ASSUME NEW p \in Products, NEW a \in Advisories,
                 AppleDecide(p, c, Version[a]) = "unpatched"
          PROVE  AppleDecide(p, c, Version[a])' = "unpatched"
      BY <2>1, <2>5 DEF AppleDecide
    <2> QED
      BY <2>2, <2>3, <2>4, <2>5
  <1> QED
    BY Invariance, <1>1, PTL DEF Spec, PurgeKeepsWarnings

=============================================================================
