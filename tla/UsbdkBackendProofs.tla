-------------------------- MODULE UsbdkBackendProofs --------------------------
(***************************************************************************)
(* Proofs about UsbdkBackend and SessionTable for any number of contexts,  *)
(* handles, transfers and devices, and a table of any prime size.          *)
(***************************************************************************)
EXTENDS UsbdkBackend, ListLemmas, FiniteSetTheorems, FunctionTheorems, TLAPS

-----------------------------------------------------------------------------
(* The search of the session table                                         *)

LEMMA TimesUpTo ==
    ASSUME NEW a \in Int, NEW b \in Int, NEW d \in Nat, a <= b
    PROVE  a * d <= b * d
<1>1. PICK k \in Nat : b = a + k
  OBVIOUS
<1>2. b * d = a * d + k * d /\ k * d \in Nat /\ a * d \in Int
  BY <1>1
<1> QED
  BY <1>2

LEMMA Division ==
    ASSUME NEW a \in Nat, NEW b \in Nat \ {0}
    PROVE  \E q \in Nat, r \in 0 .. b - 1 : a = b * q + r /\ r = a % b
<1>1. a % b = a - (a \div b) * b
  OBVIOUS
<1>2. a \div b \in Nat /\ a % b \in 0 .. b - 1
  OBVIOUS
<1> QED
  BY <1>1, <1>2

\* Neither of two numbers below a prime has it as a factor, nor has their
\* product: the least multiplier that gives a multiple would leave a smaller one.
LEMMA PrimeProduct ==
    ASSUME NEW p \in Nat, p > 1, \A n \in 2 .. p - 1 : p % n # 0,
           NEW k \in 1 .. p - 1, NEW d \in 1 .. p - 1, NEW q \in Int
    PROVE  k * d # q * p
<1> DEFINE T == {m \in 1 .. p - 1 : \E n \in Int : m * d = n * p}
<1> SUFFICES ASSUME k * d = q * p PROVE FALSE
  OBVIOUS
<1>1. k \in T
  OBVIOUS
<1>2. PICK m \in T : \A j \in T : m <= j
  <2>1. T \in SUBSET Nat
    OBVIOUS
  <2> HIDE DEF T
  <2> QED
    BY <1>1, <2>1, MinExists
<1>3. PICK n \in Int : m * d = n * p
  OBVIOUS
<1>4. m \in 1 .. p - 1
  OBVIOUS
<1>5. CASE m = 1
  <2>1. n * p \in 1 .. p - 1
    BY <1>3, <1>5
  <2>2. n <= 0 \/ n >= 1
    OBVIOUS
  <2>3. CASE n <= 0
    <3>1. n * p <= 0 * p
      BY <2>3, TimesUpTo
    <3> QED
      BY <2>1, <3>1
  <2>4. CASE n >= 1
    <3>1. 1 * p <= n * p
      BY <2>4, TimesUpTo
    <3> QED
      BY <2>1, <3>1
  <2> QED
    BY <2>2, <2>3, <2>4
<1>6. CASE m # 1
  <2>1. PICK a \in Nat, r \in 1 .. m - 1 : p = m * a + r
    <3>1. m \in 2 .. p - 1 /\ m \in Nat \ {0}
      BY <1>4, <1>6
    <3>2. p % m # 0
      BY <3>1
    <3>3. PICK a \in Nat, r \in 0 .. m - 1 : p = m * a + r /\ r = p % m
      BY <3>1, Division
    <3>4. r \in 1 .. m - 1
      BY <3>2, <3>3
    <3> QED
      BY <3>3, <3>4
  <2>2. r * d = (d - a * n) * p
    <3>1. p * d = (m * a + r) * d
      BY <2>1
    <3>2. (m * a + r) * d = a * (m * d) + r * d
      BY <1>4
    <3>3. a * (n * p) = (a * n) * p
      OBVIOUS
    <3>4. (d - a * n) * p = d * p - (a * n) * p
      OBVIOUS
    <3> QED
      BY <1>3, <3>1, <3>2, <3>3, <3>4
  <2>3. d - a * n \in Int
    OBVIOUS
  <2>4. r \in 1 .. p - 1 /\ r < m
    BY <1>4, <2>1
  <2>5. r \in T
    BY <2>2, <2>3, <2>4
  <2>6. m <= r
    BY <1>2, <2>5
  <2> QED
    BY <1>4, <2>4, <2>6
<1> QED
  BY <1>5, <1>6

\* Each string starts below the prime and goes on in steps below it.
LEMMA StartAndStride ==
    ASSUME NEW s \in Strings
    PROVE  /\ HtabSize \in Nat /\ HtabSize > 2
           /\ Main(s) \in 1 .. HtabSize - 1 /\ Stride(s) \in 1 .. HtabSize - 1
<1>1. HtabSize \in Nat /\ HtabSize > 2 /\ Hash[s] \in 0 .. HtabSize - 1
  BY TableAssumption DEF TableAssumption, Strings
<1>2. Main(s) \in 1 .. HtabSize - 1
  BY <1>1 DEF Main
<1>3. Main(s) % (HtabSize - 2) \in 0 .. HtabSize - 3
  <2>1. Main(s) \in Nat /\ HtabSize - 2 \in Nat \ {0}
    BY <1>1, <1>2
  <2>2. \E q \in Nat, r \in 0 .. (HtabSize - 2) - 1 :
          Main(s) = (HtabSize - 2) * q + r /\ r = Main(s) % (HtabSize - 2)
    BY <2>1, Division
  <2> QED
    BY <1>1, <2>2
<1> QED
  BY <1>1, <1>2, <1>3 DEF Stride

\* The recursion has a solution on each initial part, so the search visits what
\* the code computes.
LEMMA VisitedSteps ==
    ASSUME NEW s \in Strings
    PROVE  /\ Visited(s)[0] = Main(s)
           /\ \A n \in 1 .. HtabSize :
                Visited(s)[n] = Onward(Visited(s)[n - 1], Stride(s))
<1> DEFINE Step(v, n) == IF n = 0 THEN Main(s) ELSE Onward(v[n - 1], Stride(s))
           Solves(v, k) == v = [n \in 0 .. k |-> Step(v, n)]
           T == {k \in Nat : ~ \E v : Solves(v, k)}
<1>1. T = {}
  <2> SUFFICES ASSUME T # {} PROVE FALSE
    OBVIOUS
  <2>1. PICK k \in T : \A j \in T : k <= j
    <3>1. T \in SUBSET Nat
      OBVIOUS
    <3> HIDE DEF T
    <3> QED
      BY <3>1, MinExists
  <2>2. CASE k = 0
    <3>1. Solves([n \in 0 .. 0 |-> Main(s)], 0)
      OBVIOUS
    <3> QED
      BY <2>1, <2>2, <3>1
  <2>3. CASE k # 0
    <3>0. k \in Nat /\ k - 1 \in Nat /\ k - 1 < k
      BY <2>1, <2>3
    <3>1. k - 1 \notin T
      <4> HIDE DEF T
      <4> QED
        BY <2>1, <3>0
    <3>2. PICK v : Solves(v, k - 1)
      BY <3>0, <3>1
    <3> DEFINE w == [n \in 0 .. k |-> Step(v, n)]
    <3>3. ASSUME NEW n \in 1 .. k PROVE w[n - 1] = v[n - 1]
      <4>1. n - 1 \in 0 .. k - 1 /\ n - 1 \in 0 .. k
        BY <3>0
      <4>2. w[n - 1] = Step(v, n - 1) /\ v[n - 1] = Step(v, n - 1)
        <5> HIDE DEF Step
        <5> QED
          BY <3>2, <4>1
      <4> QED
        BY <4>2
    <3>4. ASSUME NEW n \in 0 .. k PROVE Step(w, n) = Step(v, n)
      <4>1. n = 0 \/ n \in 1 .. k
        BY <3>0
      <4> HIDE DEF w
      <4> QED
        BY <3>3, <4>1
    <3>5. Solves(w, k)
      BY <3>4
    <3> QED
      BY <2>1, <3>5
  <2> QED
    BY <2>2, <2>3
<1>2. HtabSize \in Nat
  BY StartAndStride
<1>3. \E v : v = [n \in 0 .. HtabSize |-> Step(v, n)]
  BY <1>1, <1>2
<1>4. Visited(s) = CHOOSE v : v = [n \in 0 .. HtabSize |-> Step(v, n)]
  BY DEF Visited
<1> HIDE DEF Step
<1>5. Visited(s) = [n \in 0 .. HtabSize |-> Step(Visited(s), n)]
  BY <1>3, <1>4
<1>6. \A n \in 0 .. HtabSize : Visited(s)[n] = Step(Visited(s), n)
  BY <1>5
<1> QED
  BY <1>2, <1>6 DEF Step

\* The indices are those of Main(s) less n strides, modulo the size.
LEMMA VisitedAre ==
    ASSUME NEW s \in Strings
    PROVE  \A n \in 0 .. HtabSize :
             /\ Visited(s)[n] \in Entries
             /\ \E q \in Int : Visited(s)[n] = Main(s) - n * Stride(s) + q * HtabSize
<1> DEFINE v == Visited(s)
           Good(n) == /\ v[n] \in Entries
                      /\ \E q \in Int : v[n] = Main(s) - n * Stride(s) + q * HtabSize
           T == {n \in 0 .. HtabSize : ~Good(n)}
<1> SUFFICES ASSUME T # {} PROVE FALSE
  OBVIOUS
<1>0. /\ HtabSize \in Nat /\ HtabSize > 2
      /\ Main(s) \in 1 .. HtabSize - 1 /\ Stride(s) \in 1 .. HtabSize - 1
  BY StartAndStride
<1>1. PICK n \in T : \A j \in T : n <= j
  <2>1. T \in SUBSET Nat
    BY <1>0
  <2> HIDE DEF T
  <2> QED
    BY <2>1, MinExists
<1>2. CASE n = 0
  <2>1. v[0] = Main(s) - 0 * Stride(s) + 0 * HtabSize /\ v[0] \in Entries
    BY <1>0, VisitedSteps DEF Entries
  <2> QED
    BY <1>1, <1>2, <2>1
<1>3. CASE n # 0
  <2>1. n \in 1 .. HtabSize /\ n - 1 \in 0 .. HtabSize /\ n - 1 \notin T
    BY <1>0, <1>1, <1>3
  <2>2. Good(n - 1)
    BY <2>1
  <2>3. PICK q \in Int : v[n - 1] = Main(s) - (n - 1) * Stride(s) + q * HtabSize
    BY <2>2
  <2>4. v[n] = Onward(v[n - 1], Stride(s))
    BY <2>1, VisitedSteps
  <2>5. (n - 1) * Stride(s) = n * Stride(s) - Stride(s)
    BY <1>0, <2>1
  <2>6. (q + 1) * HtabSize = q * HtabSize + HtabSize
    BY <1>0
  <2>7. n * Stride(s) \in Int /\ q * HtabSize \in Int /\ (q + 1) * HtabSize \in Int
    BY <1>0, <2>1
  <2>8. PICK a \in Int : a = v[n - 1]
    BY <1>0, <2>2 DEF Entries
  <2>9. CASE a <= Stride(s)
    <3>1. v[n] = HtabSize + a - Stride(s)
      BY <2>4, <2>8, <2>9 DEF Onward
    <3>2. v[n] = Main(s) - n * Stride(s) + (q + 1) * HtabSize
      BY <1>0, <2>3, <2>5, <2>6, <2>7, <2>8, <3>1
    <3>3. v[n] \in Entries
      BY <1>0, <2>2, <2>8, <2>9, <3>1 DEF Entries
    <3> QED
      BY <1>1, <3>2, <3>3
  <2>10. CASE ~(a <= Stride(s))
    <3>1. v[n] = a - Stride(s)
      BY <2>4, <2>8, <2>10 DEF Onward
    <3>2. v[n] = Main(s) - n * Stride(s) + q * HtabSize
      BY <1>0, <2>3, <2>5, <2>7, <2>8, <3>1
    <3>3. v[n] \in Entries
      BY <1>0, <2>2, <2>8, <2>10, <3>1 DEF Entries
    <3> QED
      BY <1>1, <3>2, <3>3
  <2> QED
    BY <2>9, <2>10
<1> QED
  BY <1>2, <1>3

\* Two visits of the same entry are a whole round apart.
LEMMA VisitedApart ==
    ASSUME NEW s \in Strings, NEW m \in 0 .. HtabSize - 1, NEW n \in 0 .. HtabSize - 1, m < n
    PROVE  Visited(s)[m] # Visited(s)[n]
<1>0. /\ HtabSize \in Nat /\ HtabSize > 2
      /\ Main(s) \in 1 .. HtabSize - 1 /\ Stride(s) \in 1 .. HtabSize - 1
      /\ m \in 0 .. HtabSize /\ n \in 0 .. HtabSize
  BY StartAndStride
<1>1. PICK a \in Int : Visited(s)[m] = Main(s) - m * Stride(s) + a * HtabSize
  BY <1>0, VisitedAre
<1>2. PICK b \in Int : Visited(s)[n] = Main(s) - n * Stride(s) + b * HtabSize
  BY <1>0, VisitedAre
<1>3. SUFFICES ASSUME Visited(s)[m] = Visited(s)[n] PROVE FALSE
  OBVIOUS
<1>4. (n - m) * Stride(s) = n * Stride(s) - m * Stride(s)
  BY <1>0
<1>5. (b - a) * HtabSize = b * HtabSize - a * HtabSize
  BY <1>0
<1>6. /\ n * Stride(s) \in Int /\ m * Stride(s) \in Int
      /\ a * HtabSize \in Int /\ b * HtabSize \in Int
  BY <1>0
<1>7. (n - m) * Stride(s) = (b - a) * HtabSize
  BY <1>0, <1>1, <1>2, <1>3, <1>4, <1>5, <1>6
<1>8. n - m \in 1 .. HtabSize - 1 /\ b - a \in Int
  BY <1>0
<1>9. \A k \in 2 .. HtabSize - 1 : HtabSize % k # 0
  BY TableAssumption DEF TableAssumption
<1>10. PICK k \in 1 .. HtabSize - 1, q \in Int : k = n - m /\ q = b - a
  BY <1>8
<1>11. k * Stride(s) # q * HtabSize
  <2>1. HtabSize > 1
    BY <1>0
  <2> QED
    BY <1>0, <1>9, <2>1, PrimeProduct
<1> QED
  BY <1>7, <1>10, <1>11

\* "Because size is prime this guarantees to step through all available indexes"
\* (windows_nt_common.c:235): a search that comes back to where it began has
\* looked at every entry, and it comes back after HtabSize steps.
THEOREM SearchIsComplete ==
    ASSUME NEW s \in Strings
    PROVE  /\ Visited(s)[HtabSize] = Main(s)
           /\ \A n \in 1 .. HtabSize - 1 : Visited(s)[n] # Main(s)
           /\ \A i \in Entries : \E n \in 0 .. HtabSize - 1 : Visited(s)[n] = i
<1> DEFINE v == [n \in 0 .. HtabSize - 1 |-> Visited(s)[n]]
<1>0. /\ HtabSize \in Nat /\ HtabSize > 2
      /\ Main(s) \in 1 .. HtabSize - 1 /\ Stride(s) \in 1 .. HtabSize - 1
  BY StartAndStride
<1>1. Visited(s)[HtabSize] = Main(s)
  <2>1. HtabSize \in 0 .. HtabSize
    BY <1>0
  <2>2. PICK q \in Int : Visited(s)[HtabSize] = Main(s) - HtabSize * Stride(s) + q * HtabSize
    BY <2>1, VisitedAre
  <2>3. (q - Stride(s)) * HtabSize = q * HtabSize - HtabSize * Stride(s)
    BY <1>0
  <2>4. q * HtabSize \in Int /\ HtabSize * Stride(s) \in Int
    BY <1>0
  <2>5. PICK r \in Int : r = q - Stride(s)
    BY <1>0
  <2>6. Visited(s)[HtabSize] = Main(s) + r * HtabSize /\ r * HtabSize \in Int
    BY <1>0, <2>2, <2>3, <2>4, <2>5
  <2>7. Visited(s)[HtabSize] \in 1 .. HtabSize
    BY <2>1, VisitedAre DEF Entries
  <2>8. CASE r = 0
    BY <1>0, <2>6, <2>8
  <2>9. CASE r >= 1
    <3>1. 1 * HtabSize <= r * HtabSize
      BY <1>0, <2>9, TimesUpTo
    <3> QED
      BY <1>0, <2>6, <2>7, <3>1
  <2>10. CASE r <= -1
    <3>1. r * HtabSize <= (-1) * HtabSize
      BY <1>0, <2>10, TimesUpTo
    <3>2. (-1) * HtabSize = -HtabSize
      BY <1>0
    <3> QED
      BY <1>0, <2>6, <2>7, <3>1, <3>2
  <2> QED
    BY <2>5, <2>8, <2>9, <2>10
<1>2. \A n \in 1 .. HtabSize - 1 : Visited(s)[n] # Main(s)
  <2>1. Visited(s)[0] = Main(s)
    BY VisitedSteps
  <2>2. 0 \in 0 .. HtabSize - 1
    BY <1>0
  <2> QED
    BY <2>1, <2>2, VisitedApart
<1>3. v \in Injection(0 .. HtabSize - 1, Entries)
  <2>1. v \in [0 .. HtabSize - 1 -> Entries]
    BY <1>0, VisitedAre
  <2>2. ASSUME NEW m \in 0 .. HtabSize - 1, NEW n \in 0 .. HtabSize - 1, v[m] = v[n]
        PROVE  m = n
    <3>1. m < n \/ n < m \/ m = n
      BY <1>0
    <3> QED
      BY <2>2, <3>1, VisitedApart
  <2> HIDE DEF v
  <2> QED
    BY <2>1, <2>2 DEF Injection, IsInjective
<1>4. IsFiniteSet(Entries) /\ Cardinality(Entries) = HtabSize
  BY <1>0, FS_Interval DEF Entries
<1>5. Cardinality(0 .. HtabSize - 1) = HtabSize
  BY <1>0, FS_Interval
<1>6. v \in Surjection(0 .. HtabSize - 1, Entries)
  BY <1>3, <1>4, <1>5, FS_Injection
<1>7. \A i \in Entries : \E n \in 0 .. HtabSize - 1 : v[n] = i
  BY <1>6 DEF Surjection
<1> QED
  BY <1>1, <1>2, <1>7

-----------------------------------------------------------------------------
(* The session table                                                       *)

UsedEntries(tb) == {i \in Entries : tb.entry[i].used # 0}

\* Each used entry has a string and its first hash, and lies where the search
\* for it comes by used entries only; each string is there once.
WellFormed(tb) ==
    /\ tb \in [entry : [Entries -> [used : 0 .. HtabSize - 1, str : Strings \cup {0}]],
               filled : Nat]
    /\ tb.filled = Cardinality(UsedEntries(tb))
    /\ \A i \in UsedEntries(tb) :
          /\ tb.entry[i].str \in Strings /\ tb.entry[i].used = Main(tb.entry[i].str)
          /\ \E n \in 0 .. HtabSize - 1 :
                /\ Visited(tb.entry[i].str)[n] = i
                /\ \A m \in 0 .. n - 1 : tb.entry[Visited(tb.entry[i].str)[m]].used # 0
    /\ \A i, j \in UsedEntries(tb) : tb.entry[i].str = tb.entry[j].str => i = j

LEMMA EntriesFinite == IsFiniteSet(Entries) /\ Cardinality(Entries) = HtabSize /\ HtabSize \in Nat
<1>1. HtabSize \in Nat
  BY TableAssumption DEF TableAssumption
<1> QED
  BY <1>1, FS_Interval DEF Entries

LEMMA EmptyWellFormed == WellFormed(EmptyTable)
<1>1. HtabSize \in Nat /\ HtabSize > 2
  BY TableAssumption DEF TableAssumption
<1>2. EmptyTable \in [entry : [Entries -> [used : 0 .. HtabSize - 1, str : Strings \cup {0}]],
                      filled : Nat]
  BY <1>1 DEF EmptyTable, Free
<1>3. UsedEntries(EmptyTable) = {}
  BY DEF UsedEntries, EmptyTable, Free
<1>4. EmptyTable.filled = Cardinality(UsedEntries(EmptyTable))
  BY <1>3, FS_EmptySet DEF EmptyTable
<1> QED
  BY <1>2, <1>3, <1>4 DEF WellFormed

\* The search ends: at the latest where it began.
LEMMA FoundEnds ==
    ASSUME NEW tb, NEW s \in Strings
    PROVE  \E n \in 0 .. HtabSize :
             /\ Found(tb, s) = Visited(s)[n] /\ Ends(tb, s, n)
             /\ \A m \in 0 .. n - 1 : ~Ends(tb, s, m)
<1> DEFINE T == {n \in 0 .. HtabSize : Ends(tb, s, n)}
<1>0. HtabSize \in Nat /\ HtabSize > 2
  BY TableAssumption DEF TableAssumption
<1>1. HtabSize \in T
  BY <1>0, SearchIsComplete DEF Ends
<1>2. T \in SUBSET Nat
  BY <1>0
<1>3. PICK n \in T : \A k \in T : n <= k
  <2> HIDE DEF T
  <2> QED
    BY <1>1, <1>2, MinExists
<1>4. n \in 0 .. HtabSize /\ Ends(tb, s, n)
  OBVIOUS
<1>5. ASSUME NEW m \in 0 .. n - 1 PROVE ~Ends(tb, s, m)
  <2>1. m \in 0 .. HtabSize /\ ~(n <= m)
    BY <1>0, <1>4
  <2> QED
    BY <1>3, <2>1
<1>6. \E k \in 0 .. HtabSize : Ends(tb, s, k) /\ \A m \in 0 .. k - 1 : ~Ends(tb, s, m)
  BY <1>4, <1>5
<1> QED
  BY <1>6 DEF Found

\* Where a string that is not in the table would go: an unused entry, unless
\* the table is full.
LEMMA FoundIsFree ==
    ASSUME NEW tb, WellFormed(tb), NEW s \in Strings, ~Holds(tb, Found(tb, s), s),
           tb.filled < HtabSize
    PROVE  /\ Found(tb, s) \in Entries
           /\ tb.entry[Found(tb, s)].used = 0
           /\ \A i \in UsedEntries(tb) : tb.entry[i].str # s
           /\ \E n \in 0 .. HtabSize - 1 :
                /\ Visited(s)[n] = Found(tb, s)
                /\ \A m \in 0 .. n - 1 : tb.entry[Visited(s)[m]].used # 0
<1>0. HtabSize \in Nat /\ HtabSize > 2
  BY TableAssumption DEF TableAssumption
<1>1. PICK n \in 0 .. HtabSize :
        /\ Found(tb, s) = Visited(s)[n] /\ Ends(tb, s, n)
        /\ \A m \in 0 .. n - 1 : ~Ends(tb, s, m)
  BY FoundEnds
<1>2. \A m \in 0 .. n - 1 : tb.entry[Visited(s)[m]].used # 0
  BY <1>1 DEF Ends
<1>3. n # HtabSize
  <2>1. SUFFICES ASSUME n = HtabSize PROVE FALSE
    OBVIOUS
  <2>2. ASSUME NEW i \in Entries PROVE tb.entry[i].used # 0
    BY <1>2, <2>1, SearchIsComplete
  <2>3. UsedEntries(tb) = Entries
    BY <2>2 DEF UsedEntries
  <2> QED
    BY <1>0, <2>3, EntriesFinite DEF WellFormed
<1>4. n \in 0 .. HtabSize - 1 /\ (n > 0 => n \in 1 .. HtabSize - 1)
  BY <1>0, <1>3
<1>5. tb.entry[Visited(s)[n]].used = 0
  BY <1>1, <1>4, SearchIsComplete DEF Ends
<1>6. Visited(s)[n] \in Entries
  BY VisitedAre
<1>7. ASSUME NEW i \in UsedEntries(tb), tb.entry[i].str = s PROVE FALSE
  <2>1. PICK k \in 0 .. HtabSize - 1 :
          Visited(s)[k] = i /\ \A m \in 0 .. k - 1 : tb.entry[Visited(s)[m]].used # 0
    BY <1>7 DEF WellFormed
  <2>2. Holds(tb, i, s) /\ tb.entry[i].used # 0
    BY <1>7 DEF WellFormed, Holds, UsedEntries
  <2>3. Ends(tb, s, k)
    BY <2>1, <2>2 DEF Ends
  <2>4. ~(k < n) /\ k # n /\ ~(n < k)
    <3>1. k < n => k \in 0 .. n - 1
      BY <1>4
    <3>2. n < k => n \in 0 .. k - 1
      BY <1>4
    <3> QED
      BY <1>1, <1>5, <2>1, <2>2, <2>3, <3>1, <3>2
  <2> QED
    BY <1>4, <2>4
<1> QED
  BY <1>1, <1>2, <1>4, <1>5, <1>6, <1>7

\* htab_hash: an entry that is used stays as it is, the session it answers is
\* that of the string, and the table stays well formed.
LEMMA SessionIdSound ==
    ASSUME NEW tb, WellFormed(tb), NEW s \in Strings, NEW copied,
           NEW r, r = SessionId(tb, s, copied)
    PROVE  /\ r.id \in 0 .. HtabSize /\ WellFormed(r.table)
           /\ \A i \in UsedEntries(tb) :
                i \in UsedEntries(r.table) /\ r.table.entry[i] = tb.entry[i]
           /\ r.id # 0 => r.id \in UsedEntries(r.table) /\ r.table.entry[r.id].str = s
<1>0. /\ HtabSize \in Nat /\ HtabSize > 2
      /\ Main(s) \in 1 .. HtabSize - 1
  BY StartAndStride
<1>1. PICK f : f = Found(tb, s)
  OBVIOUS
<1>2. f \in Entries
  BY <1>1, FoundEnds, VisitedAre
<1>3. CASE Holds(tb, f, s)
  <2>1. r = [id |-> f, table |-> tb]
    BY <1>1, <1>3 DEF SessionId
  <2>2. f \in UsedEntries(tb) /\ tb.entry[f].str = s
    BY <1>0, <1>2, <1>3 DEF Holds, UsedEntries
  <2>3. f \in 0 .. HtabSize
    BY <1>0, <1>2 DEF Entries
  <2> QED
    BY <2>1, <2>2, <2>3
<1>4. CASE ~Holds(tb, f, s) /\ (tb.filled >= HtabSize \/ ~copied)
  <2>1. r = [id |-> 0, table |-> tb]
    BY <1>1, <1>4 DEF SessionId
  <2> QED
    BY <1>0, <2>1
<1>5. CASE ~Holds(tb, f, s) /\ ~(tb.filled >= HtabSize) /\ copied
  <2> DEFINE t == [tb EXCEPT !.entry[f] = [used |-> Main(s), str |-> s], !.filled = @ + 1]
  <2>1. r = [id |-> f, table |-> t]
    BY <1>1, <1>5 DEF SessionId
  <2>2. tb.filled \in Nat /\ tb.filled < HtabSize
    BY <1>0, <1>5 DEF WellFormed
  <2>3. /\ tb.entry[f].used = 0
        /\ \A i \in UsedEntries(tb) : tb.entry[i].str # s
        /\ \E n \in 0 .. HtabSize - 1 :
                /\ Visited(s)[n] = f
                /\ \A m \in 0 .. n - 1 : tb.entry[Visited(s)[m]].used # 0
    BY <1>1, <1>5, <2>2, FoundIsFree
  <2>4. /\ t \in [entry : [Entries -> [used : 0 .. HtabSize - 1, str : Strings \cup {0}]],
                  filled : Nat]
        /\ t.filled = tb.filled + 1
        /\ t.entry[f] = [used |-> Main(s), str |-> s]
        /\ \A i \in Entries : i # f => t.entry[i] = tb.entry[i]
    <3>1. /\ tb.entry \in [Entries -> [used : 0 .. HtabSize - 1, str : Strings \cup {0}]]
          /\ tb = [entry |-> tb.entry, filled |-> tb.filled]
      BY DEF WellFormed
    <3>2. t.entry = [tb.entry EXCEPT ![f] = [used |-> Main(s), str |-> s]]
          /\ t.filled = tb.filled + 1 /\ DOMAIN t = {"entry", "filled"}
          /\ t = [x \in DOMAIN t |-> t[x]]
      BY <3>1
    <3>3. [used |-> Main(s), str |-> s] \in [used : 0 .. HtabSize - 1, str : Strings \cup {0}]
      BY <1>0
    <3> HIDE DEF t
    <3>4. t.entry \in [Entries -> [used : 0 .. HtabSize - 1, str : Strings \cup {0}]]
      BY <3>1, <3>2, <3>3
    <3>5. t.filled \in Nat
      BY <2>2, <3>2
    <3>6. /\ t.entry[f] = [used |-> Main(s), str |-> s]
          /\ \A i \in Entries : i # f => t.entry[i] = tb.entry[i]
      BY <1>2, <3>1, <3>2
    <3>7. t \in [entry : [Entries -> [used : 0 .. HtabSize - 1, str : Strings \cup {0}]],
                  filled : Nat]
      BY <3>2, <3>4, <3>5
    <3> QED
      BY <3>2, <3>6, <3>7
  <2> HIDE DEF t
  <2>5. UsedEntries(t) = UsedEntries(tb) \cup {f} /\ f \notin UsedEntries(tb)
    BY <1>0, <1>2, <2>3, <2>4 DEF UsedEntries
  <2>6. t.filled = Cardinality(UsedEntries(t))
    <3>1. IsFiniteSet(UsedEntries(tb))
      BY EntriesFinite, FS_Subset DEF UsedEntries
    <3>2. Cardinality(UsedEntries(t)) = Cardinality(UsedEntries(tb)) + 1
      BY <2>5, <3>1, FS_AddElement
    <3>3. tb.filled = Cardinality(UsedEntries(tb))
      BY DEF WellFormed
    <3> QED
      BY <2>4, <3>2, <3>3
  <2>7. \A i \in Entries : tb.entry[i].used # 0 => t.entry[i].used # 0 /\ t.entry[i] = tb.entry[i]
    BY <2>3, <2>4
  <2>8. \A i \in UsedEntries(tb) : i \in UsedEntries(t) /\ t.entry[i] = tb.entry[i] /\ i # f
    BY <2>5, <2>7 DEF UsedEntries
  <2>9. ASSUME NEW i \in UsedEntries(t)
        PROVE  /\ t.entry[i].str \in Strings /\ t.entry[i].used = Main(t.entry[i].str)
               /\ \E n \in 0 .. HtabSize - 1 :
                    /\ Visited(t.entry[i].str)[n] = i
                    /\ \A m \in 0 .. n - 1 : t.entry[Visited(t.entry[i].str)[m]].used # 0
    <3>1. ASSUME NEW u \in Strings, NEW n \in 0 .. HtabSize - 1, NEW m \in 0 .. n - 1
          PROVE  Visited(u)[m] \in Entries
      <4>1. m \in 0 .. HtabSize
        BY <1>0
      <4> QED
        BY <4>1, VisitedAre
    <3>2. CASE i = f
      BY <2>3, <2>4, <2>7, <3>1, <3>2
    <3>3. CASE i \in UsedEntries(tb)
      <4>1. PICK u : u = tb.entry[i].str
        OBVIOUS
      <4>2. u \in Strings /\ tb.entry[i].used = Main(u)
        BY <3>3, <4>1 DEF WellFormed
      <4>3. PICK n \in 0 .. HtabSize - 1 :
              Visited(u)[n] = i /\ \A m \in 0 .. n - 1 : tb.entry[Visited(u)[m]].used # 0
        BY <3>3, <4>1 DEF WellFormed
      <4>4. t.entry[i].str = u /\ t.entry[i].used = Main(u)
        BY <2>8, <3>3, <4>1, <4>2
      <4>5. \A m \in 0 .. n - 1 : t.entry[Visited(u)[m]].used # 0
        BY <2>7, <3>1, <4>2, <4>3
      <4> QED
        BY <4>2, <4>3, <4>4, <4>5
    <3> QED
      BY <2>5, <3>2, <3>3
  <2>10. \A i, j \in UsedEntries(t) : t.entry[i].str = t.entry[j].str => i = j
    <3>1. \A i, j \in UsedEntries(tb) : tb.entry[i].str = tb.entry[j].str => i = j
      BY DEF WellFormed
    <3>2. t.entry[f].str = s
      BY <2>4
    <3> QED
      BY <2>3, <2>5, <2>8, <3>1, <3>2
  <2>11. WellFormed(t)
    BY <2>4, <2>6, <2>9, <2>10 DEF WellFormed
  <2>12. f \in 0 .. HtabSize
    BY <1>0, <1>2 DEF Entries
  <2> QED
    BY <2>1, <2>4, <2>5, <2>8, <2>11, <2>12
<1> QED
  BY <1>3, <1>4, <1>5

-----------------------------------------------------------------------------
(* Devices: their references and their descriptors                         *)

Device == [refs : Nat, ctx : Contexts \cup {0}, session : 0 .. HtabSize,
           of : Strings \cup {0}, redir : Int, system : Int]
Devices == [1 .. MaxDevices -> Device]
Share(d) == IF d.refs > 0 THEN NumConfigs[d.of] ELSE 0

\* A device that is not in use is cleared.
Cleared(ds) ==
    \A k \in 1 .. MaxDevices : IF ds[k].refs = 0 THEN ds[k] = NoDevice
                               ELSE ds[k].of \in Strings /\ ds[k].ctx \in Contexts

\* The devices differ in their references only.
Same(d, e) == /\ d.ctx = e.ctx /\ d.session = e.session /\ d.of = e.of
              /\ d.redir = e.redir /\ d.system = e.system

LEMMA Bounds == /\ MaxDevices \in Nat \ {0} /\ MaxPlugged \in Nat \ {0} /\ ListStep \in Nat \ {0}
                /\ MaxCalls \in Nat /\ HtabSize \in Nat
                /\ \A s \in Strings : NumConfigs[s] \in Nat \ {0}
  BY UsbdkAssumption, TableAssumption DEF UsbdkAssumption, TableAssumption

LEMMA NoDeviceIsDevice == NoDevice \in Device
  BY Bounds DEF NoDevice, Device

LEMMA ShareType ==
    ASSUME NEW ds \in Devices, Cleared(ds), NEW k \in 1 .. MaxDevices
    PROVE  Share(ds[k]) \in Nat
  BY Bounds DEF Devices, Device, Cleared, Share

\* The sums of the descriptors of the first devices
UpTo(ds) == CHOOSE u : u = [k \in 0 .. MaxDevices |->
                              IF k = 0 THEN 0 ELSE u[k - 1] + Share(ds[k])]

LEMMA UpToSteps ==
    ASSUME NEW ds
    PROVE  /\ HandedOut(ds) = UpTo(ds)[MaxDevices]
           /\ UpTo(ds)[0] = 0
           /\ \A k \in 1 .. MaxDevices : UpTo(ds)[k] = UpTo(ds)[k - 1] + Share(ds[k])
<1> DEFINE Step(u, n) == IF n = 0 THEN 0 ELSE u[n - 1] + Share(ds[n])
           Solves(u, k) == u = [n \in 0 .. k |-> Step(u, n)]
           T == {k \in Nat : ~ \E u : Solves(u, k)}
<1>1. T = {}
  <2> SUFFICES ASSUME T # {} PROVE FALSE
    OBVIOUS
  <2>1. PICK k \in T : \A j \in T : k <= j
    <3>1. T \in SUBSET Nat
      OBVIOUS
    <3> HIDE DEF T
    <3> QED
      BY <3>1, MinExists
  <2>2. CASE k = 0
    <3>1. Solves([n \in 0 .. 0 |-> 0], 0)
      OBVIOUS
    <3> QED
      BY <2>1, <2>2, <3>1
  <2>3. CASE k # 0
    <3>0. k \in Nat /\ k - 1 \in Nat /\ k - 1 < k
      BY <2>1, <2>3
    <3>1. k - 1 \notin T
      <4> HIDE DEF T
      <4> QED
        BY <2>1, <3>0
    <3>2. PICK u : Solves(u, k - 1)
      BY <3>0, <3>1
    <3> DEFINE w == [n \in 0 .. k |-> Step(u, n)]
    <3>3. ASSUME NEW n \in 1 .. k PROVE w[n - 1] = u[n - 1]
      <4>1. n - 1 \in 0 .. k - 1 /\ n - 1 \in 0 .. k
        BY <3>0
      <4>2. w[n - 1] = Step(u, n - 1) /\ u[n - 1] = Step(u, n - 1)
        <5> HIDE DEF Step
        <5> QED
          BY <3>2, <4>1
      <4> QED
        BY <4>2
    <3>4. ASSUME NEW n \in 0 .. k PROVE Step(w, n) = Step(u, n)
      <4>1. n = 0 \/ n \in 1 .. k
        BY <3>0
      <4> HIDE DEF w
      <4> QED
        BY <3>3, <4>1
    <3>5. Solves(w, k)
      BY <3>4
    <3> QED
      BY <2>1, <3>5
  <2> QED
    BY <2>2, <2>3
<1>2. MaxDevices \in Nat
  BY Bounds
<1>3. \E u : u = [n \in 0 .. MaxDevices |-> Step(u, n)]
  BY <1>1, <1>2
<1>4. UpTo(ds) = CHOOSE u : u = [n \in 0 .. MaxDevices |-> Step(u, n)]
  BY DEF UpTo
<1>5. HandedOut(ds) = UpTo(ds)[MaxDevices]
  BY DEF HandedOut, UpTo, Share
<1> HIDE DEF Step
<1>6. UpTo(ds) = [n \in 0 .. MaxDevices |-> Step(UpTo(ds), n)]
  BY <1>3, <1>4
<1>7. \A n \in 0 .. MaxDevices : UpTo(ds)[n] = Step(UpTo(ds), n)
  BY <1>6
<1> QED
  BY <1>2, <1>5, <1>7 DEF Step

\* One device changes what has been handed out by its own share.
LEMMA HandedOutChange ==
    ASSUME NEW ds \in Devices, NEW es \in Devices, Cleared(ds), Cleared(es),
           NEW k \in 1 .. MaxDevices,
           \A j \in 1 .. MaxDevices : j # k => Share(es[j]) = Share(ds[j])
    PROVE  /\ HandedOut(ds) \in Nat /\ HandedOut(es) \in Nat
           /\ HandedOut(es) = HandedOut(ds) - Share(ds[k]) + Share(es[k])
<1> DEFINE Good(n) == /\ UpTo(ds)[n] \in Nat /\ UpTo(es)[n] \in Nat
                      /\ UpTo(es)[n] = UpTo(ds)[n] + (IF n >= k THEN Share(es[k]) - Share(ds[k])
                                                      ELSE 0)
           T == {n \in 0 .. MaxDevices : ~Good(n)}
<1>0. MaxDevices \in Nat \ {0} /\ k \in Nat \ {0}
  BY Bounds
<1>1. T = {}
  <2> SUFFICES ASSUME T # {} PROVE FALSE
    OBVIOUS
  <2>1. PICK n \in T : \A j \in T : n <= j
    <3>1. T \in SUBSET Nat
      BY <1>0
    <3> HIDE DEF T
    <3> QED
      BY <3>1, MinExists
  <2>2. n \in 0 .. MaxDevices /\ ~Good(n)
    BY <2>1
  <2>3. CASE n = 0
    BY <1>0, <2>2, <2>3, UpToSteps
  <2>4. CASE n # 0
    <3>1. n \in 1 .. MaxDevices /\ n - 1 \in 0 .. MaxDevices /\ n - 1 < n
      BY <1>0, <2>2, <2>4
    <3>2. Good(n - 1)
      <4>1. n - 1 \notin T
        <5> HIDE DEF T
        <5> QED
          BY <2>1, <3>1
      <4> QED
        BY <3>1, <4>1
    <3>3. UpTo(ds)[n] = UpTo(ds)[n - 1] + Share(ds[n]) /\ UpTo(es)[n] = UpTo(es)[n - 1] + Share(es[n])
      BY <3>1, UpToSteps
    <3>4. /\ Share(ds[n]) \in Nat /\ Share(es[n]) \in Nat
          /\ Share(ds[k]) \in Nat /\ Share(es[k]) \in Nat
      BY <3>1, ShareType
    <3> QED
      BY <1>0, <2>2, <3>1, <3>2, <3>3, <3>4
  <2> QED
    BY <2>3, <2>4
<1>2. Good(MaxDevices)
  BY <1>0, <1>1
<1>3. Share(ds[k]) \in Nat /\ Share(es[k]) \in Nat
  BY ShareType
<1> QED
  BY <1>0, <1>2, <1>3, UpToSteps

LEMMA HandedOutType ==
    ASSUME NEW ds \in Devices, Cleared(ds)
    PROVE  HandedOut(ds) \in Nat
<1>1. 1 \in 1 .. MaxDevices
  BY Bounds
<1> QED
  BY <1>1, HandedOutChange

\* What the functions of enumeration work on
Kept(s) ==
    /\ s = [x \in DOMAIN s |-> s[x]] /\ {"dev", "configs"} \subseteq DOMAIN s
    /\ s.dev \in Devices /\ Cleared(s.dev) /\ s.configs = HandedOut(s.dev)

\* r is s but for devices and descriptors.
Elsewhere(r, s) == /\ DOMAIN r = DOMAIN s
                   /\ \A x \in DOMAIN s \ {"dev", "configs"} : r[x] = s[x]

LEMMA ReplaceDevice ==
    ASSUME NEW ds \in Devices, NEW k \in 1 .. MaxDevices, NEW d \in Device,
           NEW es, es = [ds EXCEPT ![k] = d]
    PROVE  /\ es \in Devices /\ es[k] = d
           /\ \A j \in 1 .. MaxDevices : j # k => es[j] = ds[j]
  BY DEF Devices

LEMMA CountReferences ==
    ASSUME NEW d \in Device, NEW n \in Nat, NEW e, e = [d EXCEPT !.refs = n]
    PROVE  e \in Device /\ e.refs = n /\ Same(e, d)
  BY DEF Device, Same

LEMMA RefEffect ==
    ASSUME NEW s, Kept(s), NEW k \in 1 .. MaxDevices, s.dev[k].refs > 0,
           NEW r, r = Ref(s, k)
    PROVE  /\ Kept(r) /\ Elsewhere(r, s)
           /\ r.dev[k].refs = s.dev[k].refs + 1 /\ Same(r.dev[k], s.dev[k])
           /\ \A j \in 1 .. MaxDevices : j # k => r.dev[j] = s.dev[j]
<1>1. /\ DOMAIN r = DOMAIN s /\ r = [x \in DOMAIN r |-> r[x]]
      /\ r.dev = [s.dev EXCEPT ![k] = [s.dev[k] EXCEPT !.refs = @ + 1]]
      /\ \A x \in DOMAIN s \ {"dev"} : r[x] = s[x]
  BY DEF Kept, Ref
<1>2. s.dev[k] \in Device /\ s.dev \in Devices
  BY DEF Kept, Devices
<1>3. /\ r.dev \in Devices /\ r.dev[k].refs = s.dev[k].refs + 1 /\ Same(r.dev[k], s.dev[k])
      /\ \A j \in 1 .. MaxDevices : j # k => r.dev[j] = s.dev[j]
  <2>1. s.dev[k].refs + 1 \in Nat
    BY <1>2 DEF Device
  <2>2. PICK d : d = [s.dev[k] EXCEPT !.refs = s.dev[k].refs + 1]
    OBVIOUS
  <2>3. d \in Device /\ d.refs = s.dev[k].refs + 1 /\ Same(d, s.dev[k])
    BY <1>2, <2>1, <2>2, CountReferences
  <2>4. r.dev = [s.dev EXCEPT ![k] = d]
    BY <1>1, <2>2
  <2> QED
    BY <1>2, <2>3, <2>4, ReplaceDevice
<1>4. Cleared(r.dev)
  BY <1>2, <1>3 DEF Cleared, Kept, Same, Device
<1>5. Share(r.dev[k]) = Share(s.dev[k])
  BY <1>2, <1>3 DEF Share, Same, Device
<1>6. HandedOut(r.dev) = HandedOut(s.dev)
  <2>1. \A j \in 1 .. MaxDevices : j # k => Share(r.dev[j]) = Share(s.dev[j])
    BY <1>3
  <2>2. Cleared(s.dev)
    BY DEF Kept
  <2>3. /\ HandedOut(s.dev) \in Nat
        /\ HandedOut(r.dev) = HandedOut(s.dev) - Share(s.dev[k]) + Share(r.dev[k])
    BY <1>2, <1>3, <1>4, <2>1, <2>2, HandedOutChange
  <2>4. Share(s.dev[k]) \in Nat
    BY <1>2, <2>2, ShareType
  <2> QED
    BY <1>5, <2>3, <2>4
<1> QED
  BY <1>1, <1>3, <1>4, <1>6 DEF Kept, Elsewhere

\* libusb_unref_device gives back the descriptors with the last reference.
LEMMA UnrefEffect ==
    ASSUME NEW s, Kept(s), NEW k \in 1 .. MaxDevices, s.dev[k].refs > 0,
           NEW r, r = Unref(s, k)
    PROVE  /\ Kept(r) /\ Elsewhere(r, s)
           /\ r.dev[k].refs = s.dev[k].refs - 1
           /\ r.dev[k].refs > 0 => Same(r.dev[k], s.dev[k])
           /\ \A j \in 1 .. MaxDevices : j # k => r.dev[j] = s.dev[j]
<1>0. s.dev[k] \in Device /\ s.dev \in Devices /\ Cleared(s.dev)
  BY DEF Kept, Devices
<1>1. CASE s.dev[k].refs > 1
  <2>1. r = [s EXCEPT !.dev[k].refs = @ - 1]
    BY <1>1 DEF Unref
  <2>2. /\ DOMAIN r = DOMAIN s /\ r = [x \in DOMAIN r |-> r[x]]
        /\ r.dev = [s.dev EXCEPT ![k] = [s.dev[k] EXCEPT !.refs = @ - 1]]
        /\ \A x \in DOMAIN s \ {"dev"} : r[x] = s[x]
    BY <2>1 DEF Kept
  <2>3. /\ r.dev \in Devices /\ r.dev[k].refs = s.dev[k].refs - 1 /\ Same(r.dev[k], s.dev[k])
        /\ \A j \in 1 .. MaxDevices : j # k => r.dev[j] = s.dev[j]
    <3>1. s.dev[k].refs - 1 \in Nat
      BY <1>0, <1>1 DEF Device
    <3>2. PICK d : d = [s.dev[k] EXCEPT !.refs = s.dev[k].refs - 1]
      OBVIOUS
    <3>3. d \in Device /\ d.refs = s.dev[k].refs - 1 /\ Same(d, s.dev[k])
      BY <1>0, <3>1, <3>2, CountReferences
    <3>4. r.dev = [s.dev EXCEPT ![k] = d]
      BY <2>2, <3>2
    <3> QED
      BY <1>0, <3>3, <3>4, ReplaceDevice
  <2>4. Cleared(r.dev)
    BY <1>0, <1>1, <2>3 DEF Cleared, Same, Device
  <2>5. Share(r.dev[k]) = Share(s.dev[k])
    BY <1>0, <1>1, <2>3 DEF Share, Same, Device
  <2>6. HandedOut(r.dev) = HandedOut(s.dev)
    <3>1. \A j \in 1 .. MaxDevices : j # k => Share(r.dev[j]) = Share(s.dev[j])
      BY <2>3
    <3>2. /\ HandedOut(s.dev) \in Nat
          /\ HandedOut(r.dev) = HandedOut(s.dev) - Share(s.dev[k]) + Share(r.dev[k])
      BY <1>0, <2>3, <2>4, <3>1, HandedOutChange
    <3>3. Share(s.dev[k]) \in Nat
      BY <1>0, ShareType
    <3> QED
      BY <2>5, <3>2, <3>3
  <2> QED
    BY <2>2, <2>3, <2>4, <2>6 DEF Kept, Elsewhere
<1>2. CASE ~(s.dev[k].refs > 1)
  <2>0. s.dev[k].refs = 1
    BY <1>0, <1>2 DEF Device
  <2>1. r = [s EXCEPT !.dev[k] = NoDevice, !.configs = @ - NumConfigs[s.dev[k].of]]
    BY <1>2 DEF Unref
  <2>2. /\ DOMAIN r = DOMAIN s /\ r = [x \in DOMAIN r |-> r[x]]
        /\ r.dev = [s.dev EXCEPT ![k] = NoDevice]
        /\ r.configs = s.configs - NumConfigs[s.dev[k].of]
        /\ \A x \in DOMAIN s \ {"dev", "configs"} : r[x] = s[x]
    BY <2>1 DEF Kept
  <2>3. /\ r.dev \in Devices /\ r.dev[k] = NoDevice /\ r.dev[k].refs = 0
        /\ \A j \in 1 .. MaxDevices : j # k => r.dev[j] = s.dev[j]
    <3>1. NoDevice.refs = 0
      BY DEF NoDevice
    <3> QED
      BY <1>0, <2>2, <3>1, NoDeviceIsDevice DEF Devices
  <2>4. Cleared(r.dev)
    BY <1>0, <2>3 DEF Cleared
  <2>5. Share(r.dev[k]) = 0 /\ Share(s.dev[k]) = NumConfigs[s.dev[k].of]
    BY <2>0, <2>3 DEF Share
  <2>6. HandedOut(r.dev) = HandedOut(s.dev) - NumConfigs[s.dev[k].of]
    <3>1. \A j \in 1 .. MaxDevices : j # k => Share(r.dev[j]) = Share(s.dev[j])
      BY <2>3
    <3>2. /\ HandedOut(s.dev) \in Nat
          /\ HandedOut(r.dev) = HandedOut(s.dev) - Share(s.dev[k]) + Share(r.dev[k])
      BY <1>0, <2>3, <2>4, <3>1, HandedOutChange
    <3>3. Share(s.dev[k]) \in Nat
      BY <1>0, ShareType
    <3> QED
      BY <2>5, <3>2, <3>3
  <2>7. r.configs = HandedOut(r.dev)
    BY <2>2, <2>6 DEF Kept
  <2> QED
    BY <2>0, <2>2, <2>3, <2>4, <2>7 DEF Kept, Elsewhere
<1> QED
  BY <1>1, <1>2

-----------------------------------------------------------------------------
(* A list of devices and its end                                           *)

\* How often a device is among the first n of a list
Occ(ks, n, k) == Cardinality({j \in 1 .. n : ks[j] = k})

LEMMA OccSteps ==
    ASSUME NEW ks, NEW k, NEW n \in Nat
    PROVE  /\ Occ(ks, n, k) \in Nat
           /\ Occ(ks, 0, k) = 0
           /\ Occ(ks, n + 1, k) = Occ(ks, n, k) + (IF ks[n + 1] = k THEN 1 ELSE 0)
<1>1. \A m \in Nat : IsFiniteSet({j \in 1 .. m : ks[j] = k})
  <2> SUFFICES ASSUME NEW m \in Nat PROVE IsFiniteSet({j \in 1 .. m : ks[j] = k})
    OBVIOUS
  <2>1. IsFiniteSet(1 .. m)
    BY FS_Interval
  <2> QED
    BY <2>1, FS_Subset
<1>2. {j \in 1 .. 0 : ks[j] = k} = {}
  OBVIOUS
<1>3. CASE ks[n + 1] = k
  <2>1. {j \in 1 .. n + 1 : ks[j] = k} = {j \in 1 .. n : ks[j] = k} \cup {n + 1}
    BY <1>3
  <2>2. n + 1 \notin {j \in 1 .. n : ks[j] = k}
    OBVIOUS
  <2> QED
    BY <1>1, <1>2, <1>3, <2>1, <2>2, FS_AddElement, FS_EmptySet, FS_CardinalityType DEF Occ
<1>4. CASE ks[n + 1] # k
  <2>1. ASSUME NEW j \in 1 .. n + 1, ks[j] = k PROVE j \in 1 .. n
    BY <1>4, <2>1
  <2>2. {j \in 1 .. n + 1 : ks[j] = k} = {j \in 1 .. n : ks[j] = k}
    BY <2>1
  <2>3. Occ(ks, n + 1, k) = Occ(ks, n, k) /\ Occ(ks, n, k) \in Nat
    BY <1>1, <2>2, FS_CardinalityType DEF Occ
  <2>4. Occ(ks, 0, k) = 0
    BY <1>2, FS_EmptySet DEF Occ
  <2> QED
    BY <1>4, <2>3, <2>4
<1> QED
  BY <1>3, <1>4

LEMMA ListElements ==
    ASSUME NEW ks \in Seq(1 .. MaxDevices)
    PROVE  Len(ks) \in Nat /\ \A i \in 1 .. Len(ks) : ks[i] \in 1 .. MaxDevices
  BY Bounds, ElementOfSeq

LEMMA OccMonotone ==
    ASSUME NEW ks, NEW k, NEW m \in Nat, NEW n \in Nat, m <= n
    PROVE  Occ(ks, m, k) <= Occ(ks, n, k)
<1>1. IsFiniteSet({j \in 1 .. n : ks[j] = k})
  <2>1. IsFiniteSet(1 .. n)
    BY FS_Interval
  <2> QED
    BY <2>1, FS_Subset
<1>2. {j \in 1 .. m : ks[j] = k} \in SUBSET {j \in 1 .. n : ks[j] = k}
  OBVIOUS
<1> QED
  BY <1>1, <1>2, FS_Subset DEF Occ

LEMMA OccPositive ==
    ASSUME NEW ks, Len(ks) \in Nat, NEW i \in 1 .. Len(ks)
    PROVE  Occ(ks, Len(ks), ks[i]) >= 1
<1> DEFINE I == {j \in 1 .. Len(ks) : ks[j] = ks[i]}
<1>1. IsFiniteSet(1 .. Len(ks))
  BY FS_Interval
<1>2. IsFiniteSet(I) /\ {i} \in SUBSET I
  BY <1>1, FS_Subset
<1>3. Cardinality({i}) = 1
  BY FS_Singleton
<1> HIDE DEF I
<1>4. Cardinality({i}) <= Cardinality(I)
  BY <1>2, FS_Subset
<1>5. Cardinality(I) \in Nat
  BY <1>2, FS_CardinalityType
<1> QED
  BY <1>3, <1>4, <1>5 DEF Occ, I

LEMMA OccAppend ==
    ASSUME NEW ks \in Seq(1 .. MaxDevices), NEW k, NEW x \in 1 .. MaxDevices
    PROVE  Occ(Append(ks, x), Len(Append(ks, x)), k)
             = Occ(ks, Len(ks), k) + (IF x = k THEN 1 ELSE 0)
<1> DEFINE ls == Append(ks, x)
<1>1. /\ Len(ks) \in Nat /\ Len(ls) = Len(ks) + 1 /\ ls[Len(ks) + 1] = x
      /\ \A j \in 1 .. Len(ks) : ls[j] = ks[j]
  OBVIOUS
<1> HIDE DEF ls
<1>2. {j \in 1 .. Len(ks) : ls[j] = k} = {j \in 1 .. Len(ks) : ks[j] = k}
  BY <1>1
<1>3. Occ(ls, Len(ks), k) = Occ(ks, Len(ks), k)
  BY <1>2 DEF Occ
<1>4. Occ(ls, Len(ks) + 1, k) = Occ(ls, Len(ks), k) + (IF ls[Len(ks) + 1] = k THEN 1 ELSE 0)
  BY <1>1, OccSteps
<1>5. Occ(ls, Len(ls), k) = Occ(ks, Len(ks), k) + (IF x = k THEN 1 ELSE 0)
  BY <1>1, <1>3, <1>4
<1> QED
  BY <1>5 DEF ls

\* The states of the loop of libusb_free_device_list
After(s, ks) == CHOOSE v : v = [i \in 0 .. Len(ks) |->
                                 IF i = 0 THEN s ELSE Unref(v[i - 1], ks[i])]

LEMMA AfterSteps ==
    ASSUME NEW s, NEW ks, Len(ks) \in Nat
    PROVE  /\ UnrefAll(s, ks) = After(s, ks)[Len(ks)]
           /\ After(s, ks)[0] = s
           /\ \A i \in 1 .. Len(ks) : After(s, ks)[i] = Unref(After(s, ks)[i - 1], ks[i])
<1> DEFINE Step(u, n) == IF n = 0 THEN s ELSE Unref(u[n - 1], ks[n])
           Solves(u, k) == u = [n \in 0 .. k |-> Step(u, n)]
           T == {k \in Nat : ~ \E u : Solves(u, k)}
<1>1. T = {}
  <2> SUFFICES ASSUME T # {} PROVE FALSE
    OBVIOUS
  <2>1. PICK k \in T : \A j \in T : k <= j
    <3>1. T \in SUBSET Nat
      OBVIOUS
    <3> HIDE DEF T
    <3> QED
      BY <3>1, MinExists
  <2>2. CASE k = 0
    <3>1. Solves([n \in 0 .. 0 |-> s], 0)
      OBVIOUS
    <3> QED
      BY <2>1, <2>2, <3>1
  <2>3. CASE k # 0
    <3>0. k \in Nat /\ k - 1 \in Nat /\ k - 1 < k
      BY <2>1, <2>3
    <3>1. k - 1 \notin T
      <4> HIDE DEF T
      <4> QED
        BY <2>1, <3>0
    <3>2. PICK u : Solves(u, k - 1)
      BY <3>0, <3>1
    <3> DEFINE w == [n \in 0 .. k |-> Step(u, n)]
    <3>3. ASSUME NEW n \in 1 .. k PROVE w[n - 1] = u[n - 1]
      <4>1. n - 1 \in 0 .. k - 1 /\ n - 1 \in 0 .. k
        BY <3>0
      <4>2. w[n - 1] = Step(u, n - 1) /\ u[n - 1] = Step(u, n - 1)
        <5> HIDE DEF Step
        <5> QED
          BY <3>2, <4>1
      <4> QED
        BY <4>2
    <3>4. ASSUME NEW n \in 0 .. k PROVE Step(w, n) = Step(u, n)
      <4>1. n = 0 \/ n \in 1 .. k
        BY <3>0
      <4> HIDE DEF w
      <4> QED
        BY <3>3, <4>1
    <3>5. Solves(w, k)
      BY <3>4
    <3> QED
      BY <2>1, <3>5
  <2> QED
    BY <2>2, <2>3
<1>3. \E u : u = [n \in 0 .. Len(ks) |-> Step(u, n)]
  BY <1>1
<1>4. After(s, ks) = CHOOSE u : u = [n \in 0 .. Len(ks) |-> Step(u, n)]
  BY DEF After
<1>5. UnrefAll(s, ks) = After(s, ks)[Len(ks)]
  BY DEF UnrefAll, After
<1> HIDE DEF Step
<1>6. After(s, ks) = [n \in 0 .. Len(ks) |-> Step(After(s, ks), n)]
  BY <1>3, <1>4
<1>7. \A n \in 0 .. Len(ks) : After(s, ks)[n] = Step(After(s, ks), n)
  BY <1>6
<1> QED
  BY <1>5, <1>7 DEF Step

\* libusb_free_device_list takes from each device the references that the list
\* has, and leaves those that somebody else has.
LEMMA UnrefAllEffect ==
    ASSUME NEW s, Kept(s), NEW ks \in Seq(1 .. MaxDevices),
           \A k \in 1 .. MaxDevices : s.dev[k].refs >= Occ(ks, Len(ks), k),
           NEW r, r = UnrefAll(s, ks)
    PROVE  /\ Kept(r) /\ Elsewhere(r, s)
           /\ \A k \in 1 .. MaxDevices :
                /\ r.dev[k].refs = s.dev[k].refs - Occ(ks, Len(ks), k)
                /\ r.dev[k].refs > 0 => Same(r.dev[k], s.dev[k])
<1> DEFINE v == After(s, ks)
           Good(n) == /\ Kept(v[n]) /\ Elsewhere(v[n], s)
                      /\ \A k \in 1 .. MaxDevices :
                           /\ v[n].dev[k].refs = s.dev[k].refs - Occ(ks, n, k)
                           /\ v[n].dev[k].refs > 0 => Same(v[n].dev[k], s.dev[k])
           T == {n \in 0 .. Len(ks) : ~Good(n)}
<1>0. Len(ks) \in Nat /\ (\A i \in 1 .. Len(ks) : ks[i] \in 1 .. MaxDevices)
  BY ListElements
<1>1. \A k \in 1 .. MaxDevices : s.dev[k] \in Device /\ s.dev[k].refs \in Nat
  BY DEF Kept, Devices, Device
<1>2. T = {}
  <2> SUFFICES ASSUME T # {} PROVE FALSE
    OBVIOUS
  <2>1. PICK n \in T : \A j \in T : n <= j
    <3>1. T \in SUBSET Nat
      BY <1>0
    <3> HIDE DEF T
    <3> QED
      BY <3>1, MinExists
  <2>2. n \in 0 .. Len(ks) /\ ~Good(n)
    BY <2>1
  <2>3. CASE n = 0
    <3>1. v[0] = s
      BY <1>0, AfterSteps
    <3>2. \A k \in 1 .. MaxDevices : Occ(ks, 0, k) = 0
      BY OccSteps
    <3>3. Good(0)
      BY <1>1, <3>1, <3>2 DEF Elsewhere, Same
    <3> QED
      BY <2>2, <2>3, <3>3
  <2>4. CASE n # 0
    <3>1. n \in 1 .. Len(ks) /\ n - 1 \in 0 .. Len(ks) /\ n - 1 < n /\ n - 1 \in Nat
      BY <1>0, <2>2, <2>4
    <3>2. Good(n - 1)
      <4>1. n - 1 \notin T
        <5> HIDE DEF T
        <5> QED
          BY <2>1, <3>1
      <4> QED
        BY <3>1, <4>1
    <3>3. PICK k \in 1 .. MaxDevices : k = ks[n]
      BY <1>0, <3>1
    <3>4. v[n] = Unref(v[n - 1], k)
      BY <1>0, <3>1, <3>3, AfterSteps
    <3>5. ASSUME NEW j \in 1 .. MaxDevices
          PROVE  /\ Occ(ks, n, j) = Occ(ks, n - 1, j) + (IF j = k THEN 1 ELSE 0)
                 /\ Occ(ks, n - 1, j) \in Nat /\ Occ(ks, n, j) \in Nat
                 /\ Occ(ks, n, j) <= s.dev[j].refs
      <4>1. (n - 1) + 1 = n /\ n \in Nat /\ n <= Len(ks)
        BY <1>0, <3>1
      <4>2. /\ Occ(ks, n - 1, j) \in Nat /\ Occ(ks, n, j) \in Nat
            /\ Occ(ks, n, j) = Occ(ks, n - 1, j) + (IF ks[n] = j THEN 1 ELSE 0)
        <5>1. PICK p \in Nat : p = n - 1 /\ p + 1 = n
          BY <3>1, <4>1
        <5>2. /\ Occ(ks, p, j) \in Nat
              /\ Occ(ks, p + 1, j) = Occ(ks, p, j) + (IF ks[p + 1] = j THEN 1 ELSE 0)
          BY <5>1, OccSteps
        <5> QED
          BY <5>1, <5>2
      <4>3. Occ(ks, n, j) <= Occ(ks, Len(ks), j)
        BY <1>0, <4>1, OccMonotone
      <4>4. Occ(ks, Len(ks), j) \in Nat
        BY <1>0, OccSteps
      <4> QED
        BY <1>1, <3>3, <4>2, <4>3, <4>4
    <3>6. PICK u : u = v[n - 1]
      OBVIOUS
    <3>7. /\ Kept(u) /\ Elsewhere(u, s)
          /\ \A j \in 1 .. MaxDevices :
               /\ u.dev[j].refs = s.dev[j].refs - Occ(ks, n - 1, j)
               /\ u.dev[j].refs > 0 => Same(u.dev[j], s.dev[j])
      BY <3>2, <3>6
    <3>8. u.dev[k].refs > 0
      <4>1. PICK a \in Nat, b \in Nat, c \in Nat :
               a = Occ(ks, n, k) /\ b = Occ(ks, n - 1, k) /\ c = s.dev[k].refs
        BY <1>1, <3>5
      <4>2. a = b + 1 /\ a <= c
        BY <3>5, <4>1
      <4>3. u.dev[k].refs = c - b
        BY <3>7, <4>1
      <4> QED
        BY <4>2, <4>3
    <3>9. PICK w : w = v[n]
      OBVIOUS
    <3>10. /\ Kept(w) /\ Elsewhere(w, u)
           /\ w.dev[k].refs = u.dev[k].refs - 1
           /\ w.dev[k].refs > 0 => Same(w.dev[k], u.dev[k])
           /\ \A j \in 1 .. MaxDevices : j # k => w.dev[j] = u.dev[j]
      <4>1. w = Unref(u, k)
        BY <3>4, <3>6, <3>9
      <4> QED
        BY <3>7, <3>8, <4>1, UnrefEffect
    <3>11. Elsewhere(w, s)
      BY <3>7, <3>10 DEF Elsewhere
    <3>12. ASSUME NEW j \in 1 .. MaxDevices
           PROVE  /\ w.dev[j].refs = s.dev[j].refs - Occ(ks, n, j)
                  /\ w.dev[j].refs > 0 => Same(w.dev[j], s.dev[j])
      <4>0. PICK a \in Nat, b \in Nat, c \in Nat :
               a = Occ(ks, n, j) /\ b = Occ(ks, n - 1, j) /\ c = s.dev[j].refs
        BY <1>1, <3>5
      <4>1. /\ a = b + (IF j = k THEN 1 ELSE 0) /\ u.dev[j].refs = c - b
            /\ u.dev[j].refs > 0 => Same(u.dev[j], s.dev[j])
        BY <3>5, <3>7, <4>0
      <4>2. CASE j = k
        <5>1. w.dev[j].refs = c - a
          BY <3>10, <4>1, <4>2
        <5>2. w.dev[j].refs > 0 => Same(w.dev[j], s.dev[j])
          BY <3>8, <3>10, <4>1, <4>2 DEF Same
        <5> QED
          BY <4>0, <5>1, <5>2
      <4>3. CASE j # k
        <5>1. w.dev[j] = u.dev[j]
          BY <3>10, <4>3
        <5> QED
          BY <4>0, <4>1, <4>3, <5>1
      <4> QED
        BY <4>2, <4>3
    <3>13. Good(n)
      BY <3>9, <3>10, <3>11, <3>12
    <3> QED
      BY <2>2, <3>13
  <2> QED
    BY <2>3, <2>4
<1>3. Good(Len(ks))
  BY <1>0, <1>2
<1>4. r = v[Len(ks)]
  BY <1>0, AfterSteps
<1> QED
  BY <1>3, <1>4

-----------------------------------------------------------------------------
(* Enumeration                                                             *)

\* The session of a device is the entry of its identity, and its own in its context.
Named(ds, tb) ==
    \A k \in 1 .. MaxDevices : ds[k].refs > 0 /\ ds[k].session # 0 =>
        /\ ds[k].session \in UsedEntries(tb) /\ tb.entry[ds[k].session].str = ds[k].of
        /\ \A j \in (1 .. MaxDevices) \ {k} :
              ds[j].refs > 0 /\ ds[j].ctx = ds[k].ctx => ds[j].session # ds[k].session

\* The entries in use are those of an earlier table and more.
Extends(tb, old) == \A i \in UsedEntries(old) : i \in UsedEntries(tb) /\ tb.entry[i] = old.entry[i]

\* What was in use is, and was the same.
Fewer(es, ds) == \A k \in 1 .. MaxDevices : es[k].refs > 0 => ds[k].refs > 0 /\ Same(es[k], ds[k])

UsedDevices(ds) == {k \in 1 .. MaxDevices : ds[k].refs > 0}

LEMMA NamedStays ==
    ASSUME NEW ds, NEW es, NEW tb, NEW new, Named(ds, tb), Extends(new, tb), Fewer(es, ds)
    PROVE  Named(es, new)
<1> SUFFICES ASSUME NEW k \in 1 .. MaxDevices, es[k].refs > 0, es[k].session # 0
             PROVE  /\ es[k].session \in UsedEntries(new)
                    /\ new.entry[es[k].session].str = es[k].of
                    /\ \A j \in (1 .. MaxDevices) \ {k} :
                         es[j].refs > 0 /\ es[j].ctx = es[k].ctx => es[j].session # es[k].session
  BY DEF Named
<1>1. ds[k].refs > 0 /\ Same(es[k], ds[k])
  BY DEF Fewer
<1>2. ds[k].session = es[k].session /\ ds[k].of = es[k].of /\ ds[k].ctx = es[k].ctx
  BY <1>1 DEF Same
<1>3. /\ ds[k].session \in UsedEntries(tb) /\ tb.entry[ds[k].session].str = ds[k].of
      /\ \A j \in (1 .. MaxDevices) \ {k} :
              ds[j].refs > 0 /\ ds[j].ctx = ds[k].ctx => ds[j].session # ds[k].session
  BY <1>1, <1>2 DEF Named
<1>4. \A j \in 1 .. MaxDevices :
        es[j].refs > 0 => ds[j].refs > 0 /\ ds[j].ctx = es[j].ctx /\ ds[j].session = es[j].session
  BY DEF Fewer, Same
<1> QED
  BY <1>2, <1>3, <1>4 DEF Extends

LEMMA UsedFinite ==
    ASSUME NEW ds
    PROVE  /\ IsFiniteSet(UsedDevices(ds)) /\ Cardinality(UsedDevices(ds)) \in Nat
           /\ Cardinality(UsedDevices(ds)) < MaxDevices =>
                 \E k \in 1 .. MaxDevices : ~(ds[k].refs > 0)
<1>1. IsFiniteSet(1 .. MaxDevices) /\ Cardinality(1 .. MaxDevices) = MaxDevices
  BY Bounds, FS_Interval
<1>2. IsFiniteSet(UsedDevices(ds)) /\ Cardinality(UsedDevices(ds)) \in Nat
  BY <1>1, FS_Subset, FS_CardinalityType DEF UsedDevices
<1>3. ASSUME \A k \in 1 .. MaxDevices : ds[k].refs > 0
      PROVE  Cardinality(UsedDevices(ds)) = MaxDevices
  <2>1. UsedDevices(ds) = 1 .. MaxDevices
    BY <1>3 DEF UsedDevices
  <2> QED
    BY <1>1, <2>1
<1> QED
  BY <1>2, <1>3, Bounds

\* A state of an enumeration for context c that has come by n devices; "own"
\* is the number of its own references to the device "at"
Fields == {"dev", "configs", "table", "list", "at", "stopped"}
References(s, k, own) ==
    dev[k].refs + (IF s.stopped THEN 0 ELSE Occ(s.list, Len(s.list), k))
                + (IF s.at = k THEN own ELSE 0)
Between(c, s, n, own) ==
    /\ Kept(s) /\ DOMAIN s = Fields
    /\ WellFormed(s.table) /\ Extends(s.table, table) /\ Named(s.dev, s.table)
    /\ s.list \in Seq(1 .. MaxDevices) /\ Len(s.list) <= n
    /\ s.at \in 0 .. MaxDevices /\ s.stopped \in BOOLEAN
    /\ Cardinality(UsedDevices(s.dev)) <= Cardinality(UsedDevices(dev)) + n
    /\ \A k \in 1 .. MaxDevices :
         /\ s.dev[k].refs = References(s, k, own)
         /\ dev[k].refs > 0 => Same(s.dev[k], dev[k])
         /\ dev[k].refs = 0 /\ s.dev[k].refs > 0 =>
               s.dev[k].ctx = c /\ s.dev[k].redir = 0 /\ s.dev[k].system = 0
    /\ ~s.stopped => \A i \in 1 .. Len(s.list) : s.dev[s.list[i]].ctx = c

LEMMA KeptElsewhere ==
    ASSUME NEW s, Kept(s), NEW r, DOMAIN r = DOMAIN s, r = [x \in DOMAIN r |-> r[x]],
           r.dev = s.dev, r.configs = s.configs
    PROVE  Kept(r)
  BY DEF Kept

\* A new device takes the first structure that is free.
LEMMA AllocatedEffect ==
    ASSUME NEW s, Kept(s), "at" \in DOMAIN s, Cardinality(UsedDevices(s.dev)) < MaxDevices,
           NEW c \in Contexts, NEW id \in Strings, NEW n \in 0 .. HtabSize,
           NEW r, r = Allocated(s, c, id, n)
    PROVE  \E k \in 1 .. MaxDevices :
             /\ Kept(r) /\ DOMAIN r = DOMAIN s
             /\ \A x \in DOMAIN s \ {"dev", "configs", "at"} : r[x] = s[x]
             /\ r.at = k /\ s.dev[k].refs = 0
             /\ r.dev[k] = [refs |-> 1, ctx |-> c, session |-> n, of |-> id, redir |-> 0,
                            system |-> 0]
             /\ \A j \in 1 .. MaxDevices : j # k => r.dev[j] = s.dev[j]
<1>0. s.dev \in Devices /\ Cleared(s.dev) /\ DOMAIN s.dev = 1 .. MaxDevices
      /\ (\A k \in 1 .. MaxDevices : s.dev[k].refs \in Nat)
  BY DEF Kept, Devices, Device
<1> DEFINE T == {k \in 1 .. MaxDevices : s.dev[k].refs = 0}
<1>1. PICK a \in T : \A j \in T : a <= j
  <2>1. T \in SUBSET Nat
    BY Bounds
  <2>2. T # {}
    BY <1>0, UsedFinite
  <2> HIDE DEF T
  <2> QED
    BY <2>1, <2>2, MinExists
<1>2. a \in DOMAIN s.dev /\ s.dev[a].refs = 0 /\ \A j \in 1 .. a - 1 : s.dev[j].refs > 0
  <2>1. a \in 1 .. MaxDevices /\ s.dev[a].refs = 0
    OBVIOUS
  <2>2. ASSUME NEW j \in 1 .. a - 1 PROVE s.dev[j].refs > 0
    <3>1. j \in 1 .. MaxDevices /\ ~(a <= j)
      BY <2>1, Bounds
    <3>2. j \notin T
      BY <1>1, <3>1
    <3> QED
      BY <1>0, <3>1, <3>2
  <2> QED
    BY <1>0, <2>1, <2>2
<1>3. PICK k : k = CHOOSE j \in DOMAIN s.dev : /\ s.dev[j].refs = 0
                                               /\ \A i \in 1 .. j - 1 : s.dev[i].refs > 0
  OBVIOUS
<1>4. k \in 1 .. MaxDevices /\ s.dev[k].refs = 0
  BY <1>0, <1>2, <1>3
<1>5. PICK d : d = [NoDevice EXCEPT !.refs = 1, !.ctx = c, !.of = id, !.session = n]
  OBVIOUS
<1>6. d = [refs |-> 1, ctx |-> c, session |-> n, of |-> id, redir |-> 0, system |-> 0]
  BY <1>5 DEF NoDevice
<1>7. d \in Device
  BY <1>6, Bounds DEF Device
<1>8. r = [s EXCEPT !.dev[k] = d, !.configs = @ + NumConfigs[id], !.at = k]
  BY <1>3, <1>5 DEF Allocated
<1>9. /\ DOMAIN r = DOMAIN s /\ r = [x \in DOMAIN r |-> r[x]]
      /\ r.dev = [s.dev EXCEPT ![k] = d] /\ r.at = k
      /\ r.configs = s.configs + NumConfigs[id]
      /\ \A x \in DOMAIN s \ {"dev", "configs", "at"} : r[x] = s[x]
  BY <1>8 DEF Kept
<1>10. r.dev \in Devices /\ r.dev[k] = d /\ \A j \in 1 .. MaxDevices : j # k => r.dev[j] = s.dev[j]
  <2>1. PICK es : es = r.dev
    OBVIOUS
  <2>2. es = [s.dev EXCEPT ![k] = d]
    BY <1>9, <2>1
  <2>3. es \in Devices /\ es[k] = d /\ \A j \in 1 .. MaxDevices : j # k => es[j] = s.dev[j]
    BY <1>0, <1>4, <1>7, <2>2, ReplaceDevice
  <2> QED
    BY <2>1, <2>3
<1>11. Cleared(r.dev)
  BY <1>0, <1>4, <1>6, <1>10 DEF Cleared
<1>12. Share(r.dev[k]) = NumConfigs[id] /\ Share(s.dev[k]) = 0
  BY <1>4, <1>6, <1>10 DEF Share
<1>13. HandedOut(r.dev) = HandedOut(s.dev) + NumConfigs[id]
  <2>1. \A j \in 1 .. MaxDevices : j # k => Share(r.dev[j]) = Share(s.dev[j])
    BY <1>10
  <2>2. /\ HandedOut(s.dev) \in Nat
        /\ HandedOut(r.dev) = HandedOut(s.dev) - Share(s.dev[k]) + Share(r.dev[k])
    BY <1>0, <1>4, <1>10, <1>11, <2>1, HandedOutChange
  <2>3. NumConfigs[id] \in Nat
    BY Bounds
  <2> QED
    BY <1>12, <2>2, <2>3
<1>14. Kept(r)
  BY <1>9, <1>10, <1>11, <1>13 DEF Kept
<1> QED
  BY <1>4, <1>6, <1>9, <1>10, <1>14

LEMMA TakenEffect ==
    ASSUME NEW c \in Contexts, NEW s, NEW n \in Nat, Between(c, s, n, 0), ~s.stopped,
           dev \in Devices, Cardinality(UsedDevices(dev)) + n < MaxDevices,
           NEW id \in Strings, NEW goes \in Goes, NEW t, t = Taken(s, c, id, goes)
    PROVE  /\ Between(c, t, n + 1, 1) /\ ~t.stopped /\ t.list = s.list
           /\ t.at # 0 => t.dev[t.at].refs > 0 /\ t.dev[t.at].ctx = c
<1> USE DEF Fields
<1>0. /\ Kept(s) /\ DOMAIN s = Fields /\ s.dev \in Devices /\ DOMAIN s.dev = 1 .. MaxDevices
      /\ WellFormed(s.table) /\ Extends(s.table, table) /\ Named(s.dev, s.table)
      /\ s.list \in Seq(1 .. MaxDevices) /\ Len(s.list) <= n /\ Len(s.list) \in Nat
      /\ \A k \in 1 .. MaxDevices : s.dev[k].refs \in Nat /\ dev[k].refs \in Nat
  <2>1. /\ Kept(s) /\ DOMAIN s = Fields /\ s.list \in Seq(1 .. MaxDevices) /\ Len(s.list) <= n
        /\ WellFormed(s.table) /\ Extends(s.table, table) /\ Named(s.dev, s.table)
    BY DEF Between
  <2>2. s.dev \in Devices
    BY <2>1 DEF Kept
  <2>3. Len(s.list) \in Nat
    BY <2>1, ListElements
  <2>4. DOMAIN s.dev = 1 .. MaxDevices
    BY <2>2 DEF Devices
  <2>5. \A k \in 1 .. MaxDevices : s.dev[k].refs \in Nat /\ dev[k].refs \in Nat
    BY <2>2 DEF Devices, Device
  <2> QED
    BY <2>1, <2>2, <2>3, <2>4, <2>5
<1>1. PICK e : e = SessionId(s.table, id, goes # "no copy")
  OBVIOUS
<1>1a. PICK copied : e = SessionId(s.table, id, copied)
  BY <1>1
<1>2. /\ e.id \in 0 .. HtabSize /\ WellFormed(e.table) /\ Extends(e.table, s.table)
      /\ e.id # 0 => e.id \in UsedEntries(e.table) /\ e.table.entry[e.id].str = id
  <2>1. WellFormed(s.table)
    BY <1>0
  <2>2. /\ e.id \in 0 .. HtabSize /\ WellFormed(e.table)
        /\ \A i \in UsedEntries(s.table) :
                i \in UsedEntries(e.table) /\ e.table.entry[i] = s.table.entry[i]
        /\ e.id # 0 => e.id \in UsedEntries(e.table) /\ e.table.entry[e.id].str = id
    BY <1>1a, <2>1, SessionIdSound
  <2> QED
    BY <2>2 DEF Extends
<1>3. Extends(e.table, table)
  BY <1>0, <1>2 DEF Extends
<1>4. PICK base : base = [s EXCEPT !.table = e.table]
  OBVIOUS
<1>5. /\ DOMAIN base = Fields /\ base = [x \in DOMAIN base |-> base[x]]
      /\ base.table = e.table /\ base.dev = s.dev /\ base.configs = s.configs
      /\ base.list = s.list /\ base.stopped = s.stopped
  BY <1>0, <1>4 DEF Kept
<1>6. Kept(base)
  BY <1>0, <1>5 DEF Kept
<1>7. Fewer(s.dev, s.dev)
  BY DEF Fewer, Same
<1>8. Named(s.dev, e.table)
  BY <1>0, <1>2, <1>7, NamedStays
<1>9. \A k \in 1 .. MaxDevices : Occ(s.list, Len(s.list), k) \in Nat
  BY <1>0, OccSteps
<1>10. \A k \in 1 .. MaxDevices :
         /\ s.dev[k].refs = dev[k].refs + Occ(s.list, Len(s.list), k)
         /\ dev[k].refs > 0 => Same(s.dev[k], dev[k])
         /\ dev[k].refs = 0 /\ s.dev[k].refs > 0 =>
               s.dev[k].ctx = c /\ s.dev[k].redir = 0 /\ s.dev[k].system = 0
  BY <1>0, <1>9 DEF Between, References
<1>11. \A i \in 1 .. Len(s.list) :
         s.list[i] \in 1 .. MaxDevices /\ s.dev[s.list[i]].ctx = c
               /\ s.dev[s.list[i]].refs > 0
  <2> SUFFICES ASSUME NEW i \in 1 .. Len(s.list)
               PROVE  s.list[i] \in 1 .. MaxDevices /\ s.dev[s.list[i]].ctx = c
                      /\ s.dev[s.list[i]].refs > 0
    OBVIOUS
  <2>1. s.list[i] \in 1 .. MaxDevices
    BY <1>0, ListElements
  <2>2. s.dev[s.list[i]].ctx = c
    BY DEF Between
  <2>3. Occ(s.list, Len(s.list), s.list[i]) >= 1
    BY <1>0, OccPositive
  <2>4. PICK k \in 1 .. MaxDevices : k = s.list[i]
    BY <2>1
  <2>5. s.dev[k].refs = dev[k].refs + Occ(s.list, Len(s.list), k) /\ dev[k].refs \in Nat
        /\ Occ(s.list, Len(s.list), k) \in Nat
    BY <1>0, <1>9, <1>10
  <2> QED
    BY <2>1, <2>2, <2>3, <2>4, <2>5
<1>12. Cardinality(UsedDevices(s.dev)) <= Cardinality(UsedDevices(dev)) + n
       /\ Cardinality(UsedDevices(s.dev)) \in Nat /\ Cardinality(UsedDevices(dev)) \in Nat
  BY UsedFinite DEF Between
<1> DEFINE known == {k \in DOMAIN s.dev : /\ s.dev[k].refs > 0 /\ s.dev[k].ctx = c
                                          /\ s.dev[k].session = e.id}
<1>20. CASE known # {}
  <2>1. PICK k : k = CHOOSE j \in known : TRUE
    OBVIOUS
  <2>2. k \in 1 .. MaxDevices /\ s.dev[k].refs > 0 /\ s.dev[k].ctx = c
    BY <1>0, <1>20, <2>1
  <2>3. PICK r : r = Ref(base, k)
    OBVIOUS
  <2>4. t = [r EXCEPT !.at = k]
    BY <1>1, <1>4, <1>20, <2>1, <2>3, <1>5 DEF Taken
  <2> HIDE DEF known
  <2>5. /\ Kept(r) /\ Elsewhere(r, base)
        /\ r.dev[k].refs = base.dev[k].refs + 1 /\ Same(r.dev[k], base.dev[k])
        /\ \A j \in 1 .. MaxDevices : j # k => r.dev[j] = base.dev[j]
    <3>1. base.dev[k].refs > 0
      BY <1>5, <2>2
    <3> QED
      BY <1>6, <2>2, <2>3, <3>1, RefEffect
  <2>6. /\ DOMAIN t = Fields /\ t = [x \in DOMAIN t |-> t[x]]
        /\ t.dev = r.dev /\ t.configs = r.configs /\ t.at = k
        /\ t.list = s.list /\ t.table = e.table /\ t.stopped = s.stopped
    BY <1>5, <2>4, <2>5 DEF Kept, Elsewhere
  <2>7. Kept(t)
    BY <2>5, <2>6 DEF Kept
  <2>8. /\ t.dev[k].refs = s.dev[k].refs + 1 /\ Same(t.dev[k], s.dev[k])
        /\ \A j \in 1 .. MaxDevices : j # k => t.dev[j] = s.dev[j]
    BY <1>5, <2>5, <2>6
  <2>9. \A j \in 1 .. MaxDevices :
          /\ t.dev[j].refs = s.dev[j].refs + (IF j = k THEN 1 ELSE 0)
          /\ Same(t.dev[j], s.dev[j])
    BY <1>0, <2>8 DEF Same
  <2>10. Fewer(t.dev, s.dev) /\ UsedDevices(t.dev) = UsedDevices(s.dev)
    BY <1>0, <2>2, <2>9 DEF Fewer, UsedDevices
  <2>11. Named(t.dev, t.table)
    BY <1>0, <1>2, <2>6, <2>10, NamedStays
  <2>12. ASSUME NEW j \in 1 .. MaxDevices
         PROVE  /\ t.dev[j].refs = References(t, j, 1)
                /\ dev[j].refs > 0 => Same(t.dev[j], dev[j])
                /\ dev[j].refs = 0 /\ t.dev[j].refs > 0 =>
                     t.dev[j].ctx = c /\ t.dev[j].redir = 0 /\ t.dev[j].system = 0
    <3>1. t.dev[j].refs = s.dev[j].refs + (IF j = k THEN 1 ELSE 0) /\ Same(t.dev[j], s.dev[j])
      BY <2>9
    <3>2. PICK a \in Nat, b \in Nat : a = dev[j].refs /\ b = Occ(s.list, Len(s.list), j)
      BY <1>0, <1>9
    <3>3. s.dev[j].refs = a + b
      BY <1>10, <3>2
    <3>4. References(t, j, 1) = a + b + (IF k = j THEN 1 ELSE 0)
      BY <2>6, <3>2 DEF References
    <3>5. dev[j].refs > 0 => Same(t.dev[j], dev[j])
      BY <1>10, <3>1 DEF Same
    <3>6. j = k \/ t.dev[j].refs = s.dev[j].refs
      BY <2>8
    <3>7. dev[j].refs = 0 /\ t.dev[j].refs > 0 => s.dev[j].refs > 0
      BY <2>2, <3>6
    <3> QED
      BY <1>10, <3>1, <3>2, <3>3, <3>4, <3>5, <3>7 DEF Same
  <2>13. \A i \in 1 .. Len(t.list) : t.dev[t.list[i]].ctx = c
    BY <1>11, <2>6, <2>9 DEF Same
  <2>14. Cardinality(UsedDevices(t.dev)) <= Cardinality(UsedDevices(dev)) + (n + 1)
    BY <1>12, <2>10
  <2>15. /\ t.list \in Seq(1 .. MaxDevices) /\ Len(t.list) <= n + 1
         /\ t.at \in 0 .. MaxDevices /\ t.stopped \in BOOLEAN /\ ~t.stopped
    BY <1>0, <2>2, <2>6, Bounds DEF Between
  <2>16. WellFormed(t.table) /\ Extends(t.table, table)
    BY <1>2, <1>3, <2>6
  <2>17. Between(c, t, n + 1, 1)
    BY <2>6, <2>7, <2>11, <2>12, <2>13, <2>14, <2>15, <2>16 DEF Between
  <2>18. t.dev[k].refs > 0 /\ t.dev[k].ctx = c
    BY <1>0, <2>2, <2>8 DEF Same
  <2> QED
    BY <2>6, <2>15, <2>17, <2>18
<1>21. ASSUME known = {}, DOMAIN t = Fields, t = [x \in DOMAIN t |-> t[x]],
              t.dev = s.dev, t.configs = s.configs, t.at = 0, t.list = s.list,
              t.table = e.table, t.stopped = s.stopped
       PROVE  Between(c, t, n + 1, 1) /\ ~t.stopped /\ t.at = 0 /\ t.list = s.list
  <2> HIDE DEF known
  <2>1. Kept(t)
    BY <1>0, <1>21 DEF Kept
  <2>2. \A k \in 1 .. MaxDevices : References(t, k, 1) = dev[k].refs + Occ(s.list, Len(s.list), k) + 0
    BY <1>21, Bounds DEF References
  <2>3. \A k \in 1 .. MaxDevices : t.dev[k].refs = References(t, k, 1)
    <3> SUFFICES ASSUME NEW k \in 1 .. MaxDevices PROVE t.dev[k].refs = References(t, k, 1)
      OBVIOUS
    <3>1. PICK a \in Nat, b \in Nat : a = dev[k].refs /\ b = Occ(s.list, Len(s.list), k)
      BY <1>0, <1>9
    <3>2. t.dev[k].refs = a + b
      BY <1>10, <1>21, <3>1
    <3>3. References(t, k, 1) = a + b + 0
      BY <2>2, <3>1
    <3>4. a + b + 0 = a + b
      OBVIOUS
    <3> HIDE DEF References
    <3> QED
      BY <3>2, <3>3, <3>4, Zenon
  <2>4. Cardinality(UsedDevices(t.dev)) <= Cardinality(UsedDevices(dev)) + (n + 1)
    BY <1>12, <1>21
  <2>5. /\ t.list \in Seq(1 .. MaxDevices) /\ Len(t.list) <= n + 1
        /\ t.at \in 0 .. MaxDevices /\ t.stopped \in BOOLEAN /\ ~t.stopped
    BY <1>0, <1>21, Bounds DEF Between
  <2>6. /\ WellFormed(t.table) /\ Extends(t.table, table) /\ Named(t.dev, t.table)
        /\ \A i \in 1 .. Len(t.list) : t.dev[t.list[i]].ctx = c
    BY <1>2, <1>3, <1>8, <1>11, <1>21
  <2> QED
    BY <1>10, <1>21, <2>1, <2>3, <2>4, <2>5, <2>6 DEF Between
<1>22. CASE known = {} /\ goes = "no device"
  <2>1. t = [base EXCEPT !.at = 0]
    BY <1>1, <1>4, <1>5, <1>22 DEF Taken
  <2> HIDE DEF known
  <2>2. /\ DOMAIN t = Fields /\ t = [x \in DOMAIN t |-> t[x]]
        /\ t.dev = s.dev /\ t.configs = s.configs /\ t.at = 0 /\ t.list = s.list
        /\ t.table = e.table /\ t.stopped = s.stopped
    BY <1>5, <2>1
  <2> QED
    BY <1>21, <1>22, <2>2
<1>23. CASE known = {} /\ goes = "no configs"
  <2>1. t = [Cached(base, id, NumConfigs[id] - 1) EXCEPT !.at = 0]
    BY <1>1, <1>4, <1>5, <1>23 DEF Taken
  <2> HIDE DEF known
  <2>2. PICK r : r = Cached(base, id, NumConfigs[id] - 1)
    OBVIOUS
  <2>3. /\ DOMAIN r = Fields /\ r = [x \in DOMAIN r |-> r[x]]
        /\ r.dev = s.dev /\ r.list = s.list /\ r.table = e.table /\ r.stopped = s.stopped
        /\ r.configs = (s.configs + (NumConfigs[id] - 1)) - (NumConfigs[id] - 1)
    BY <1>5, <2>2 DEF Cached
  <2>4. s.configs \in Int /\ NumConfigs[id] - 1 \in Int
    BY <1>0, Bounds, HandedOutType DEF Kept
  <2>5. r.configs = s.configs
    BY <2>3, <2>4
  <2>6. /\ DOMAIN t = Fields /\ t = [x \in DOMAIN t |-> t[x]]
        /\ t.dev = s.dev /\ t.configs = s.configs /\ t.at = 0 /\ t.list = s.list
        /\ t.table = e.table /\ t.stopped = s.stopped
    BY <2>1, <2>2, <2>3, <2>5
  <2> QED
    BY <1>21, <1>23, <2>6
<1>24. CASE known = {} /\ goes \notin {"no device", "no configs"}
  <2>1. t = Allocated(base, c, id, e.id)
    BY <1>1, <1>4, <1>5, <1>24 DEF Taken
  <2>2. \A j \in 1 .. MaxDevices : ~(s.dev[j].refs > 0 /\ s.dev[j].ctx = c /\ s.dev[j].session = e.id)
    BY <1>0, <1>24
  <2> HIDE DEF known
  <2>3. PICK k \in 1 .. MaxDevices :
             /\ Kept(t) /\ DOMAIN t = DOMAIN base
             /\ \A x \in DOMAIN base \ {"dev", "configs", "at"} : t[x] = base[x]
             /\ t.at = k /\ base.dev[k].refs = 0
             /\ t.dev[k] = [refs |-> 1, ctx |-> c, session |-> e.id, of |-> id, redir |-> 0,
                            system |-> 0]
             /\ \A j \in 1 .. MaxDevices : j # k => t.dev[j] = base.dev[j]
    <3>1. Cardinality(UsedDevices(base.dev)) < MaxDevices
      BY <1>5, <1>12, Bounds
    <3>2. "at" \in DOMAIN base
      BY <1>5
    <3> QED
      BY <1>2, <1>6, <2>1, <3>1, <3>2, AllocatedEffect
  <2>4. /\ DOMAIN t = Fields /\ t.at = k /\ t.list = s.list /\ t.table = e.table
        /\ t.stopped = s.stopped /\ s.dev[k].refs = 0
        /\ t.dev[k].refs = 1 /\ t.dev[k].ctx = c /\ t.dev[k].session = e.id
        /\ t.dev[k].of = id /\ t.dev[k].redir = 0 /\ t.dev[k].system = 0
        /\ \A j \in 1 .. MaxDevices : j # k => t.dev[j] = s.dev[j]
    BY <1>5, <2>3
  <2>5. Named(t.dev, t.table)
    <3> SUFFICES ASSUME NEW j \in 1 .. MaxDevices, t.dev[j].refs > 0, t.dev[j].session # 0
                 PROVE  /\ t.dev[j].session \in UsedEntries(e.table)
                        /\ e.table.entry[t.dev[j].session].str = t.dev[j].of
                        /\ \A i \in (1 .. MaxDevices) \ {j} :
                             t.dev[i].refs > 0 /\ t.dev[i].ctx = t.dev[j].ctx
                               => t.dev[i].session # t.dev[j].session
      BY <2>4 DEF Named
    <3>1. CASE j = k
      BY <1>2, <2>2, <2>4, <3>1
    <3>2. CASE j # k
      BY <1>8, <2>2, <2>4, <3>2 DEF Named
    <3> QED
      BY <3>1, <3>2
  <2>6. UsedDevices(t.dev) = UsedDevices(s.dev) \cup {k} /\ k \notin UsedDevices(s.dev)
    BY <2>4 DEF UsedDevices
  <2>7. Cardinality(UsedDevices(t.dev)) <= Cardinality(UsedDevices(dev)) + (n + 1)
    <3>1. Cardinality(UsedDevices(t.dev)) = Cardinality(UsedDevices(s.dev)) + 1
      BY <2>6, UsedFinite, FS_AddElement
    <3> QED
      BY <1>12, <3>1
  <2>8. ASSUME NEW j \in 1 .. MaxDevices
        PROVE  /\ t.dev[j].refs = References(t, j, 1)
               /\ dev[j].refs > 0 => Same(t.dev[j], dev[j])
               /\ dev[j].refs = 0 /\ t.dev[j].refs > 0 =>
                     t.dev[j].ctx = c /\ t.dev[j].redir = 0 /\ t.dev[j].system = 0
    <3>2. PICK a \in Nat, b \in Nat : a = dev[j].refs /\ b = Occ(s.list, Len(s.list), j)
      BY <1>0, <1>9
    <3>3. s.dev[j].refs = a + b
      BY <1>10, <3>2
    <3>4. References(t, j, 1) = a + b + (IF k = j THEN 1 ELSE 0)
      BY <1>21, <2>4, <3>2 DEF References
    <3>5. CASE j = k
      <4>1. a = 0 /\ b = 0
        BY <2>4, <3>2, <3>3, <3>5
      <4>2. References(t, j, 1) = 0 + 0 + 1
        BY <3>4, <3>5, <4>1, Zenon
      <4>3. References(t, j, 1) = 1
        <5>1. 0 + 0 + 1 = 1
          OBVIOUS
        <5> QED
          BY <4>2, <5>1, Zenon
      <4>4. ~(dev[j].refs > 0)
        BY <3>2, <4>1
      <4> QED
        BY <2>4, <3>5, <4>3, <4>4
    <3>6. CASE j # k
      <4>1. References(t, j, 1) = a + b
        <5>1. a + b + (IF k = j THEN 1 ELSE 0) = a + b
          BY <3>6
        <5> HIDE DEF References
        <5> QED
          BY <3>4, <5>1, Zenon
      <4>2. t.dev[j] = s.dev[j]
        BY <2>4, <3>6
      <4>3. /\ dev[j].refs > 0 => Same(s.dev[j], dev[j])
            /\ dev[j].refs = 0 /\ s.dev[j].refs > 0 =>
                 s.dev[j].ctx = c /\ s.dev[j].redir = 0 /\ s.dev[j].system = 0
        BY <1>10
      <4> QED
        BY <3>3, <4>1, <4>2, <4>3
    <3> QED
      BY <3>5, <3>6
  <2>9. \A i \in 1 .. Len(t.list) : t.dev[t.list[i]].ctx = c
    BY <1>11, <2>4
  <2>10. /\ t.list \in Seq(1 .. MaxDevices) /\ Len(t.list) <= n + 1
         /\ t.at \in 0 .. MaxDevices /\ t.stopped \in BOOLEAN /\ ~t.stopped
    BY <1>0, <2>4, Bounds DEF Between
  <2>11. WellFormed(t.table) /\ Extends(t.table, table) /\ Kept(t)
    BY <1>2, <1>3, <2>3, <2>4
  <2>12. Between(c, t, n + 1, 1)
    BY <2>4, <2>5, <2>7, <2>8, <2>9, <2>10, <2>11 DEF Between
  <2>13. t.dev[t.at].refs > 0 /\ t.dev[t.at].ctx = c
    BY <2>4
  <2> QED
    BY <2>4, <2>10, <2>12, <2>13
<1> QED
  BY <1>20, <1>21, <1>22, <1>23, <1>24


\* Fewer references, those of an enumeration still: what one step leaves.
LEMMA StillBetween ==
    ASSUME NEW c \in Contexts, NEW t, NEW n \in Nat, Between(c, t, n, 1), dev \in Devices,
           NEW l, Kept(l), DOMAIN l = Fields, l.table = t.table, l.at \in 0 .. MaxDevices,
           Fewer(l.dev, t.dev), l.list \in Seq(1 .. MaxDevices), Len(l.list) <= n,
           l.stopped \in BOOLEAN,
           \A k \in 1 .. MaxDevices : l.dev[k].refs = References(l, k, 0),
           ~l.stopped => \A i \in 1 .. Len(l.list) : l.dev[l.list[i]].ctx = c
    PROVE  Between(c, l, n, 0)
<1>1. WellFormed(t.table) /\ Extends(t.table, table) /\ Named(t.dev, t.table)
  BY DEF Between
<1>2. Extends(t.table, t.table)
  BY DEF Extends
<1>3. Named(l.dev, l.table)
  BY <1>1, <1>2, NamedStays
<1>4. Cardinality(UsedDevices(l.dev)) <= Cardinality(UsedDevices(dev)) + n
  <2>1. UsedDevices(l.dev) \in SUBSET UsedDevices(t.dev)
    BY DEF Fewer, UsedDevices
  <2>2. Cardinality(UsedDevices(l.dev)) <= Cardinality(UsedDevices(t.dev))
    BY <2>1, UsedFinite, FS_Subset
  <2>3. Cardinality(UsedDevices(t.dev)) <= Cardinality(UsedDevices(dev)) + n
    BY DEF Between
  <2>4. /\ Cardinality(UsedDevices(l.dev)) \in Nat /\ Cardinality(UsedDevices(t.dev)) \in Nat
        /\ Cardinality(UsedDevices(dev)) \in Nat
    BY UsedFinite
  <2> QED
    BY <2>2, <2>3, <2>4
<1>5. ASSUME NEW k \in 1 .. MaxDevices
      PROVE  /\ dev[k].refs > 0 => Same(l.dev[k], dev[k])
             /\ dev[k].refs = 0 /\ l.dev[k].refs > 0 =>
                  l.dev[k].ctx = c /\ l.dev[k].redir = 0 /\ l.dev[k].system = 0
  <2>1. /\ l.dev[k].refs > 0 => t.dev[k].refs > 0 /\ Same(l.dev[k], t.dev[k])
        /\ dev[k].refs > 0 => Same(t.dev[k], dev[k])
        /\ dev[k].refs = 0 /\ t.dev[k].refs > 0 =>
             t.dev[k].ctx = c /\ t.dev[k].redir = 0 /\ t.dev[k].system = 0
    BY DEF Fewer, Between
  <2>2. Len(l.list) \in Nat
    BY ListElements
  <2>3. PICK a \in Nat, b \in Nat : a = dev[k].refs /\ b = IF l.stopped THEN 0 ELSE Occ(l.list, Len(l.list), k)
    <3>1. dev[k].refs \in Nat
      BY DEF Devices, Device
    <3>2. Occ(l.list, Len(l.list), k) \in Nat
      BY <2>2, OccSteps
    <3> QED
      BY <3>1, <3>2
  <2>4. l.dev[k].refs = a + b + 0
    BY <2>3 DEF References
  <2>5. dev[k].refs > 0 => l.dev[k].refs > 0
    BY <2>3, <2>4
  <2> QED
    BY <2>1, <2>5 DEF Same
<1> QED
  BY <1>1, <1>3, <1>4, <1>5 DEF Between

LEMMA ListedEffect ==
    ASSUME NEW c \in Contexts, NEW s, NEW n \in Nat, Between(c, s, n, 0),
           dev \in Devices, Cardinality(UsedDevices(dev)) + n < MaxDevices,
           NEW id \in Strings, NEW goes \in Goes, NEW l, l = Listed(s, c, id, goes)
    PROVE  Between(c, l, n + 1, 0)
<1>1. CASE s.stopped
  <2>1. l = s
    BY <1>1 DEF Listed
  <2>2. Cardinality(UsedDevices(s.dev)) \in Nat /\ Cardinality(UsedDevices(dev)) \in Nat
    BY UsedFinite
  <2>3. Len(s.list) \in Nat
    BY ListElements DEF Between
  <2>4. /\ Cardinality(UsedDevices(s.dev)) <= Cardinality(UsedDevices(dev)) + n
        /\ Len(s.list) <= n
    BY DEF Between
  <2>5. /\ Cardinality(UsedDevices(s.dev)) <= Cardinality(UsedDevices(dev)) + (n + 1)
        /\ Len(s.list) <= n + 1
    BY <2>2, <2>3, <2>4
  <2> QED
    BY <2>1, <2>5 DEF Between
<1>2. CASE ~s.stopped
  <2>m. PICK m \in Nat : m = n + 1
    OBVIOUS
  <2>1. PICK t : t = Taken(s, c, id, goes)
    OBVIOUS
  <2>2. /\ Between(c, t, n + 1, 1) /\ ~t.stopped /\ t.list = s.list
        /\ t.at # 0 => t.dev[t.at].refs > 0 /\ t.dev[t.at].ctx = c
    BY <1>2, <2>1, TakenEffect
  <2>3. /\ Kept(t) /\ DOMAIN t = Fields /\ t.dev \in Devices /\ t.at \in 0 .. MaxDevices
        /\ t.list \in Seq(1 .. MaxDevices) /\ Len(t.list) \in Nat /\ Len(t.list) <= n
        /\ \A k \in 1 .. MaxDevices : t.dev[k].refs \in Nat /\ dev[k].refs \in Nat
        /\ \A i \in 1 .. Len(t.list) : t.dev[t.list[i]].ctx = c /\ t.list[i] \in 1 .. MaxDevices
    <3>1. /\ Kept(t) /\ DOMAIN t = Fields /\ t.at \in 0 .. MaxDevices
          /\ t.list \in Seq(1 .. MaxDevices) /\ Len(s.list) <= n
          /\ \A i \in 1 .. Len(t.list) : t.dev[t.list[i]].ctx = c
      BY <2>2 DEF Between
    <3>2. t.dev \in Devices
      BY <3>1 DEF Kept
    <3>3. \A k \in 1 .. MaxDevices : t.dev[k].refs \in Nat /\ dev[k].refs \in Nat
      BY <3>2 DEF Devices, Device
    <3> QED
      BY <2>2, <3>1, <3>2, <3>3, ListElements
  <2>4. \A k \in 1 .. MaxDevices : Occ(t.list, Len(t.list), k) \in Nat
    BY <2>3, OccSteps
  <2>5. \A k \in 1 .. MaxDevices :
          t.dev[k].refs = dev[k].refs + Occ(t.list, Len(t.list), k) + (IF t.at = k THEN 1 ELSE 0)
    BY <2>2 DEF Between, References
  <2>6. CASE t.at = 0
    <3>1. l = t
      BY <1>2, <2>1, <2>6 DEF Listed
    <3>2. \A k \in 1 .. MaxDevices : References(t, k, 0) = References(t, k, 1)
      BY <2>6, Bounds DEF References
    <3>3. \A k \in 1 .. MaxDevices : t.dev[k].refs = References(t, k, 0)
      BY <2>2, <3>2 DEF Between
    <3>4. Fewer(t.dev, t.dev)
      BY DEF Fewer, Same
    <3>5. t.stopped \in BOOLEAN /\ Len(t.list) <= n + 1
      BY <2>2, <2>3 DEF Between
    <3> QED
      BY <2>2, <2>3, <3>1, <3>3, <3>4, <3>5, StillBetween
  <2>7. CASE t.at # 0
    <3>1. PICK k \in 1 .. MaxDevices : k = t.at
      BY <2>3, <2>7
    <3>2. t.dev[k].refs > 0 /\ t.dev[k].ctx = c
      BY <2>2, <2>7, <3>1
    <3>3. l = Unref(Appended(t, k, goes # "no memory"), k)
      BY <1>2, <2>1, <2>7, <3>1 DEF Listed
    <3>4. PICK q : q = Appended(t, k, goes # "no memory")
      OBVIOUS
    <3>5. l = Unref(q, k)
      BY <3>3, <3>4
    <3>6. CASE q = [Ref(t, k) EXCEPT !.list = Append(@, k)]
      <4>1. PICK r : r = Ref(t, k)
        OBVIOUS
      <4>2. /\ Kept(r) /\ Elsewhere(r, t)
            /\ r.dev[k].refs = t.dev[k].refs + 1 /\ Same(r.dev[k], t.dev[k])
            /\ \A j \in 1 .. MaxDevices : j # k => r.dev[j] = t.dev[j]
        BY <2>3, <3>2, <4>1, RefEffect
      <4>3. /\ DOMAIN q = Fields /\ q = [x \in DOMAIN q |-> q[x]]
            /\ q.dev = r.dev /\ q.configs = r.configs /\ q.list = Append(t.list, k)
            /\ q.table = t.table /\ q.at = t.at /\ q.stopped = t.stopped
        BY <2>3, <3>6, <4>1, <4>2 DEF Kept, Elsewhere, Fields
      <4>4. Kept(q)
        BY <4>2, <4>3 DEF Kept, Fields
      <4>5. q.dev[k].refs > 0
        BY <2>3, <4>2, <4>3
      <4>6. /\ Kept(l) /\ Elsewhere(l, q)
            /\ l.dev[k].refs = q.dev[k].refs - 1
            /\ l.dev[k].refs > 0 => Same(l.dev[k], q.dev[k])
            /\ \A j \in 1 .. MaxDevices : j # k => l.dev[j] = q.dev[j]
        BY <3>5, <4>4, <4>5, UnrefEffect
      <4>7. /\ DOMAIN l = Fields /\ l.list = Append(t.list, k) /\ l.table = t.table
            /\ l.at = t.at /\ l.stopped = t.stopped
        BY <4>3, <4>6 DEF Elsewhere, Fields
      <4>8. l.dev[k].refs = t.dev[k].refs /\ Same(l.dev[k], t.dev[k])
        BY <2>3, <3>2, <4>2, <4>3, <4>6 DEF Same
      <4>9. \A j \in 1 .. MaxDevices : l.dev[j].refs = t.dev[j].refs /\ Same(l.dev[j], t.dev[j])
        BY <4>2, <4>3, <4>6, <4>8 DEF Same
      <4>10. Fewer(l.dev, t.dev)
        BY <4>9 DEF Fewer
      <4>11. l.list \in Seq(1 .. MaxDevices) /\ Len(l.list) = Len(t.list) + 1
             /\ \A i \in 1 .. Len(l.list) : l.list[i] = IF i <= Len(t.list) THEN t.list[i] ELSE k
        BY <2>3, <4>7
      <4>12. ASSUME NEW j \in 1 .. MaxDevices PROVE l.dev[j].refs = References(l, j, 0)
        <5>1. PICK a \in Nat, b \in Nat : a = dev[j].refs /\ b = Occ(t.list, Len(t.list), j)
          BY <2>3, <2>4
        <5>2. Occ(l.list, Len(l.list), j) = b + (IF k = j THEN 1 ELSE 0)
          BY <2>3, <4>7, <5>1, OccAppend
        <5>3. References(l, j, 0) = a + Occ(l.list, Len(l.list), j) + 0
          BY <2>2, <4>7, <5>1 DEF References
        <5>4. l.dev[j].refs = a + b + (IF k = j THEN 1 ELSE 0)
          BY <2>5, <3>1, <4>9, <5>1
        <5> HIDE DEF References
        <5> QED
          BY <5>2, <5>3, <5>4
      <4>13. \A i \in 1 .. Len(l.list) : l.dev[l.list[i]].ctx = c
        <5> SUFFICES ASSUME NEW i \in 1 .. Len(l.list) PROVE l.dev[l.list[i]].ctx = c
          OBVIOUS
        <5>1. l.list[i] = k \/ (i \in 1 .. Len(t.list) /\ l.list[i] = t.list[i])
          BY <2>3, <4>11
        <5>2. l.list[i] \in 1 .. MaxDevices /\ t.dev[l.list[i]].ctx = c
          BY <2>3, <3>2, <5>1
        <5> QED
          BY <4>9, <5>2 DEF Same
      <4>14. l.at \in 0 .. MaxDevices /\ l.stopped \in BOOLEAN /\ Len(l.list) <= n + 1
        BY <2>2, <2>3, <4>7, <4>11 DEF Between
      <4>15. Between(c, t, m, 1) /\ Len(l.list) <= m /\ (~l.stopped => \A i \in 1 .. Len(l.list) : l.dev[l.list[i]].ctx = c)
        BY <2>2, <2>m, <4>13, <4>14
      <4>16. Kept(l) /\ DOMAIN l = Fields /\ l.table = t.table /\ l.list \in Seq(1 .. MaxDevices)
        BY <4>6, <4>7, <4>11
      <4>17. Between(c, l, m, 0)
        BY <4>10, <4>12, <4>14, <4>15, <4>16, StillBetween
      <4> QED
        BY <2>m, <4>17
    <3>7. CASE q = [UnrefAll(t, t.list) EXCEPT !.stopped = TRUE]
      <4>1. PICK r : r = UnrefAll(t, t.list)
        OBVIOUS
      <4>2. \A j \in 1 .. MaxDevices : t.dev[j].refs >= Occ(t.list, Len(t.list), j)
        <5> SUFFICES ASSUME NEW j \in 1 .. MaxDevices
                     PROVE  t.dev[j].refs >= Occ(t.list, Len(t.list), j)
          OBVIOUS
        <5>1. PICK a \in Nat, b \in Nat : a = dev[j].refs /\ b = Occ(t.list, Len(t.list), j)
          BY <2>3, <2>4
        <5>2. t.dev[j].refs = a + b + (IF t.at = j THEN 1 ELSE 0)
          BY <2>5, <5>1
        <5> QED
          BY <5>1, <5>2
      <4>3. /\ Kept(r) /\ Elsewhere(r, t)
            /\ \A j \in 1 .. MaxDevices :
                 /\ r.dev[j].refs = t.dev[j].refs - Occ(t.list, Len(t.list), j)
                 /\ r.dev[j].refs > 0 => Same(r.dev[j], t.dev[j])
        <5>1. Kept(t) /\ t.list \in Seq(1 .. MaxDevices)
          BY <2>3
        <5> QED
          BY <4>1, <4>2, <5>1, UnrefAllEffect
      <4>4. /\ DOMAIN q = Fields /\ q = [x \in DOMAIN q |-> q[x]]
            /\ q.dev = r.dev /\ q.configs = r.configs /\ q.list = t.list
            /\ q.table = t.table /\ q.at = t.at /\ q.stopped = TRUE
        BY <2>3, <3>7, <4>1, <4>3 DEF Kept, Elsewhere, Fields
      <4>5. Kept(q)
        BY <4>3, <4>4 DEF Kept, Fields
      <4>6. \A j \in 1 .. MaxDevices : q.dev[j].refs = dev[j].refs + (IF k = j THEN 1 ELSE 0)
        <5> SUFFICES ASSUME NEW j \in 1 .. MaxDevices
                     PROVE  q.dev[j].refs = dev[j].refs + (IF k = j THEN 1 ELSE 0)
          OBVIOUS
        <5>1. PICK a \in Nat, b \in Nat : a = dev[j].refs /\ b = Occ(t.list, Len(t.list), j)
          BY <2>3, <2>4
        <5>2. t.dev[j].refs = a + b + (IF k = j THEN 1 ELSE 0)
          BY <2>5, <3>1, <5>1
        <5>3. q.dev[j].refs = t.dev[j].refs - b
          BY <4>3, <4>4, <5>1
        <5> QED
          BY <5>1, <5>2, <5>3
      <4>7. q.dev[k].refs > 0
        BY <2>3, <4>6
      <4>8. /\ Kept(l) /\ Elsewhere(l, q)
            /\ l.dev[k].refs = q.dev[k].refs - 1
            /\ l.dev[k].refs > 0 => Same(l.dev[k], q.dev[k])
            /\ \A j \in 1 .. MaxDevices : j # k => l.dev[j] = q.dev[j]
        BY <3>5, <4>5, <4>7, UnrefEffect
      <4>9. /\ DOMAIN l = Fields /\ l.list = t.list /\ l.table = t.table
            /\ l.at = t.at /\ l.stopped = TRUE
        BY <4>4, <4>8 DEF Elsewhere, Fields
      <4>10. \A j \in 1 .. MaxDevices : l.dev[j].refs = dev[j].refs
        <5> SUFFICES ASSUME NEW j \in 1 .. MaxDevices PROVE l.dev[j].refs = dev[j].refs
          OBVIOUS
        <5>1. q.dev[j].refs = dev[j].refs + (IF k = j THEN 1 ELSE 0) /\ dev[j].refs \in Nat
          BY <2>3, <4>6
        <5>2. l.dev[j].refs = q.dev[j].refs - (IF k = j THEN 1 ELSE 0)
          <6>1. CASE j = k
            BY <4>8, <6>1
          <6>2. CASE j # k
            <7>1. l.dev[j] = q.dev[j]
              BY <4>8, <6>2
            <7> QED
              BY <5>1, <6>2, <7>1
          <6> QED
            BY <6>1, <6>2
        <5> QED
          BY <5>1, <5>2
      <4>11. Fewer(l.dev, t.dev)
        <5> SUFFICES ASSUME NEW j \in 1 .. MaxDevices, l.dev[j].refs > 0
                     PROVE  t.dev[j].refs > 0 /\ Same(l.dev[j], t.dev[j])
          BY DEF Fewer
        <5>1. q.dev[j].refs > 0 /\ Same(l.dev[j], q.dev[j])
          <6>1. CASE j = k
            BY <4>7, <4>8, <6>1
          <6>2. CASE j # k
            BY <4>8, <6>2 DEF Same
          <6> QED
            BY <6>1, <6>2
        <5>2. Same(q.dev[j], t.dev[j])
          BY <4>3, <4>4, <5>1
        <5>3. t.dev[j].refs > 0
          <6>1. PICK a \in Nat, b \in Nat : a = t.dev[j].refs /\ b = Occ(t.list, Len(t.list), j)
            BY <2>3, <2>4
          <6>2. q.dev[j].refs = a - b
            BY <4>3, <4>4, <6>1
          <6> QED
            BY <5>1, <6>1, <6>2
        <5> QED
          BY <5>1, <5>2, <5>3 DEF Same
      <4>12. ASSUME NEW j \in 1 .. MaxDevices PROVE l.dev[j].refs = References(l, j, 0)
        <5>1. PICK a \in Nat : a = dev[j].refs
          BY <2>3
        <5>2. References(l, j, 0) = a + 0 + 0
          BY <4>9, <5>1 DEF References
        <5>3. l.dev[j].refs = a
          BY <4>10, <5>1
        <5> HIDE DEF References
        <5> QED
          BY <5>2, <5>3
      <4>13. l.at \in 0 .. MaxDevices /\ l.stopped \in BOOLEAN /\ Len(l.list) <= n + 1
        <5>1. l.stopped \in BOOLEAN
          BY <4>9
        <5> QED
          BY <2>3, <4>9, <5>1
      <4>14. l.list \in Seq(1 .. MaxDevices) /\ l.stopped
        BY <2>3, <4>9
      <4>15. Between(c, t, m, 1) /\ Len(l.list) <= m /\ (~l.stopped => \A i \in 1 .. Len(l.list) : l.dev[l.list[i]].ctx = c)
        BY <2>2, <2>m, <4>13, <4>14
      <4>16. Kept(l) /\ DOMAIN l = Fields /\ l.table = t.table
        BY <4>8, <4>9 DEF Elsewhere
      <4>17. Between(c, l, m, 0)
        BY <4>11, <4>12, <4>13, <4>14, <4>15, <4>16, StillBetween
      <4> QED
        BY <2>m, <4>17
    <3> QED
      BY <3>4, <3>6, <3>7 DEF Appended
  <2> QED
    BY <2>6, <2>7
<1> QED
  BY <1>1, <1>2

\* The states of an enumeration, of all the devices that are there
Walk(c, ids, bad, goes) ==
    CHOOSE w : w = [i \in 0 .. Len(ids) |->
        IF i = 0 THEN {[dev |-> dev, configs |-> configs, table |-> table, list |-> <<>>,
                        at |-> 0, stopped |-> FALSE]}
        ELSE {Listed(s, c, ids[i], IF ids[i] = bad THEN goes ELSE "well") : s \in w[i - 1]}]

LEMMA ListingSteps ==
    ASSUME NEW c, NEW ids, NEW bad, NEW goes, Len(ids) \in Nat
    PROVE  /\ Listing(c, ids, bad, goes) = Walk(c, ids, bad, goes)[Len(ids)]
           /\ Walk(c, ids, bad, goes)[0]
                = {[dev |-> dev, configs |-> configs, table |-> table, list |-> <<>>,
                    at |-> 0, stopped |-> FALSE]}
           /\ \A i \in 1 .. Len(ids) :
                Walk(c, ids, bad, goes)[i]
                  = {Listed(s, c, ids[i], IF ids[i] = bad THEN goes ELSE "well") :
                        s \in Walk(c, ids, bad, goes)[i - 1]}
<1> DEFINE first == {[dev |-> dev, configs |-> configs, table |-> table, list |-> <<>>,
                      at |-> 0, stopped |-> FALSE]}
           next(S, n) == {Listed(s, c, ids[n], IF ids[n] = bad THEN goes ELSE "well") : s \in S}
           Step(u, n) == IF n = 0 THEN first ELSE next(u[n - 1], n)
           Solves(u, k) == u = [n \in 0 .. k |-> Step(u, n)]
           T == {k \in Nat : ~ \E u : Solves(u, k)}
<1>1. T = {}
  <2> HIDE DEF first, next
  <2> SUFFICES ASSUME T # {} PROVE FALSE
    OBVIOUS
  <2>1. PICK k \in T : \A j \in T : k <= j
    <3>1. T \in SUBSET Nat
      OBVIOUS
    <3> HIDE DEF T
    <3> QED
      BY <3>1, MinExists
  <2>2. CASE k = 0
    <3>1. Solves([n \in 0 .. 0 |-> first], 0)
      OBVIOUS
    <3> QED
      BY <2>1, <2>2, <3>1
  <2>3. CASE k # 0
    <3>0. k \in Nat /\ k - 1 \in Nat /\ k - 1 < k
      BY <2>1, <2>3
    <3>1. k - 1 \notin T
      <4> HIDE DEF T
      <4> QED
        BY <2>1, <3>0
    <3>2. PICK u : Solves(u, k - 1)
      BY <3>0, <3>1
    <3> DEFINE w == [n \in 0 .. k |-> Step(u, n)]
    <3>3. ASSUME NEW n \in 1 .. k PROVE w[n - 1] = u[n - 1]
      <4>1. n - 1 \in 0 .. k - 1 /\ n - 1 \in 0 .. k
        BY <3>0
      <4>2. w[n - 1] = Step(u, n - 1) /\ u[n - 1] = Step(u, n - 1)
        <5> HIDE DEF Step
        <5> QED
          BY <3>2, <4>1
      <4> QED
        BY <4>2
    <3>4. ASSUME NEW n \in 0 .. k PROVE Step(w, n) = Step(u, n)
      <4>1. n = 0 \/ n \in 1 .. k
        BY <3>0
      <4> HIDE DEF w
      <4> QED
        BY <3>3, <4>1
    <3>5. Solves(w, k)
      BY <3>4
    <3> QED
      BY <2>1, <3>5
  <2> QED
    BY <2>2, <2>3
<1>3. \E u : u = [n \in 0 .. Len(ids) |-> Step(u, n)]
  <2> HIDE DEF first, next
  <2> QED
    BY <1>1
<1>4. Walk(c, ids, bad, goes) = CHOOSE u : u = [n \in 0 .. Len(ids) |-> Step(u, n)]
  BY DEF Walk
<1>5. Listing(c, ids, bad, goes) = Walk(c, ids, bad, goes)[Len(ids)]
  BY DEF Listing, Walk
<1> HIDE DEF Step
<1>6. PICK w : w = Walk(c, ids, bad, goes)
  OBVIOUS
<1>7. w = [n \in 0 .. Len(ids) |-> Step(w, n)]
  BY <1>3, <1>4, <1>6
<1>8. \A n \in 0 .. Len(ids) : w[n] = Step(w, n)
  BY <1>7
<1>9. w[0] = first
  <2>1. 0 \in 0 .. Len(ids)
    OBVIOUS
  <2> HIDE DEF first, next
  <2> QED
    BY <1>8, <2>1 DEF Step
<1>10. \A n \in 1 .. Len(ids) : w[n] = next(w[n - 1], n)
  <2> HIDE DEF first, next
  <2> QED
    BY <1>8 DEF Step
<1> QED
  BY <1>5, <1>6, <1>9, <1>10

\* libusb_get_device_list of context c leaves each device with one reference more
\* for each time it is in the new list, and so has it when it gives up.
LEMMA ListingEffect ==
    ASSUME NEW c \in Contexts, NEW ids \in Seq(Strings), NEW bad, NEW goes \in Goes,
           dev \in Devices, Cleared(dev), configs = HandedOut(dev),
           WellFormed(table), Named(dev, table),
           Cardinality(UsedDevices(dev)) + Len(ids) <= MaxDevices,
           NEW s \in Listing(c, ids, bad, goes)
    PROVE  Between(c, s, Len(ids), 0)
<1> DEFINE w == Walk(c, ids, bad, goes)
           Good(n) == \A r \in w[n] : Between(c, r, n, 0)
           T == {n \in 0 .. Len(ids) : ~Good(n)}
<1>0. Len(ids) \in Nat /\ (\A i \in 1 .. Len(ids) : ids[i] \in Strings)
  <2>1. Len(ids) \in Nat
    OBVIOUS
  <2>2. \A i \in 1 .. Len(ids) : ids[i] \in Strings
    BY ElementOfSeq
  <2> QED
    BY <2>1, <2>2
<1>1. Good(0)
  <2> SUFFICES ASSUME NEW r \in w[0] PROVE Between(c, r, 0, 0)
    OBVIOUS
  <2>1. r = [dev |-> dev, configs |-> configs, table |-> table, list |-> <<>>,
             at |-> 0, stopped |-> FALSE]
    BY <1>0, ListingSteps
  <2>2. Kept(r) /\ DOMAIN r = Fields
    BY <2>1 DEF Kept, Fields
  <2>3. /\ r.dev = dev /\ r.table = table /\ r.list = <<>> /\ r.at = 0 /\ ~r.stopped
        /\ r.stopped \in BOOLEAN
    BY <2>1
  <2>4. r.list \in Seq(1 .. MaxDevices) /\ Len(r.list) = 0
    BY <2>3
  <2>5. \A k \in 1 .. MaxDevices : References(r, k, 0) = dev[k].refs
    <3> SUFFICES ASSUME NEW k \in 1 .. MaxDevices PROVE References(r, k, 0) = dev[k].refs
      OBVIOUS
    <3>1. PICK a \in Nat : a = dev[k].refs
      BY DEF Devices, Device
    <3>2. Occ(r.list, Len(r.list), k) = 0
      BY <2>4, OccSteps
    <3>3. References(r, k, 0) = a + 0 + 0
      BY <2>3, <3>1, <3>2, Bounds DEF References
    <3> QED
      BY <3>1, <3>3
  <2>6. Extends(table, table) /\ Named(r.dev, r.table)
    BY <2>3 DEF Extends
  <2>7. Cardinality(UsedDevices(r.dev)) <= Cardinality(UsedDevices(dev)) + 0
    BY <2>3, UsedFinite
  <2>8. \A k \in 1 .. MaxDevices : Same(r.dev[k], dev[k])
    BY <2>3 DEF Same
  <2> QED
    BY <2>2, <2>3, <2>4, <2>5, <2>6, <2>7, <2>8, Bounds DEF Between
<1>2. T = {}
  <2> SUFFICES ASSUME T # {} PROVE FALSE
    OBVIOUS
  <2>1. PICK n \in T : \A j \in T : n <= j
    <3>1. T \in SUBSET Nat
      BY <1>0
    <3> HIDE DEF T
    <3> QED
      BY <3>1, MinExists
  <2>2. n \in 0 .. Len(ids) /\ ~Good(n)
    BY <2>1
  <2>3. n # 0
    BY <1>1, <2>2
  <2>4. PICK p \in Nat : n = p + 1 /\ p \in 0 .. Len(ids) /\ n \in 1 .. Len(ids) /\ p < n /\ p = n - 1
    <3>1. n - 1 \in Nat /\ n = (n - 1) + 1 /\ n - 1 \in 0 .. Len(ids) /\ n \in 1 .. Len(ids) /\ n - 1 < n
      BY <1>0, <2>2, <2>3
    <3> QED
      BY <3>1
  <2>5. Good(p)
    <3>1. p \notin T
      <4> HIDE DEF T
      <4> QED
        BY <1>0, <2>1, <2>4
    <3> QED
      BY <2>4, <3>1
  <2>6. ASSUME NEW r \in w[n] PROVE Between(c, r, n, 0)
    <3>1. w[n] = {Listed(q, c, ids[n], IF ids[n] = bad THEN goes ELSE "well") : q \in w[n - 1]}
      BY <1>0, <2>4, ListingSteps
    <3>2. PICK q \in w[n - 1] : r = Listed(q, c, ids[n], IF ids[n] = bad THEN goes ELSE "well")
      BY <3>1
    <3>3. Between(c, q, p, 0)
      BY <2>4, <2>5, <3>2
    <3>4. PICK g \in Goes : r = Listed(q, c, ids[n], g)
      BY <3>2 DEF Goes
    <3>5. PICK id \in Strings : id = ids[n]
      BY <1>0, <2>4
    <3>6. r = Listed(q, c, id, g)
      BY <3>4, <3>5
    <3>7. Cardinality(UsedDevices(dev)) + p < MaxDevices
      <4>1. Cardinality(UsedDevices(dev)) \in Nat
        BY UsedFinite
      <4> QED
        BY <1>0, <2>4, <4>1, Bounds
    <3>8. Between(c, r, p + 1, 0)
      <4> HIDE DEF w, Good, T
      <4> QED
        BY <3>3, <3>6, <3>7, ListedEffect
    <3> QED
      BY <2>4, <3>8
  <2> QED
    BY <2>2, <2>6
<1>3. Good(Len(ids))
  BY <1>0, <1>2
<1>4. Listing(c, ids, bad, goes) = w[Len(ids)]
  BY <1>0, ListingSteps
<1> QED
  BY <1>3, <1>4

-----------------------------------------------------------------------------
(* The inductive invariant                                                 *)

\* the lists ls of all contexts and the places in them of device k
Places(ls, k) == {p \in Contexts \X (1 .. MaxPlugged) :
                     p[2] \in DOMAIN ls[p[1]] /\ ls[p[1]][p[2]] = k}
Opens(hs, k) == {h \in Handles : hs[h] = k}

Record(x) == /\ x = [f \in DOMAIN x |-> x[f]]
             /\ DOMAIN x = {"st", "kind", "h", "redir", "system", "arrays", "fds", "result",
                           "status", "said"}
             /\ x.st \in {"idle", "flying", "ended", "dropped"} /\ x.fds \in Nat
             /\ x.result \in Results \cup {"none"}

Typed ==
    /\ inits \in Nat /\ stuck \in Nat /\ calls \in Nat /\ calls <= MaxCalls
    /\ on \subseteq Contexts /\ helper \in Loads
    /\ plugged \subseteq Strings /\ IsFiniteSet(plugged) /\ Cardinality(plugged) <= MaxPlugged
    /\ dev \in Devices
    /\ list \in [Contexts -> Seq(1 .. MaxDevices)]
    /\ \A c \in Contexts : Len(list[c]) <= MaxPlugged
    /\ handle \in [Handles -> 0 .. MaxDevices]
    /\ redirected \subseteq [n : Nat \ {0}, of : Strings]
    /\ xfer = [t \in Transfers |-> xfer[t]] /\ \A t \in Transfers : Record(xfer[t])

\* The table is there while it is needed, and names the devices in use.
TableInv ==
    /\ table = NoTable \/ WellFormed(table)
    /\ Named(dev, table)
    /\ leaked \subseteq {HtabSize}

\* What is counted: references, descriptors
CountInv ==
    /\ Cleared(dev) /\ configs = HandedOut(dev)
    /\ \A k \in 1 .. MaxDevices :
         dev[k].refs = Cardinality(Places(list, k)) + Cardinality(Opens(handle, k))

\* Devices belong to a context in use, and are in no other's list.
OwnerInv ==
    /\ \A k \in 1 .. MaxDevices : dev[k].refs > 0 => dev[k].ctx \in on
    /\ \A c \in Contexts : \A i \in 1 .. Len(list[c]) : dev[list[c][i]].ctx = c

\* A redirection is that of one device, and of the identity it has.
RedirInv ==
    /\ \A x \in redirected : x.n <= calls
    /\ \A k \in 1 .. MaxDevices : dev[k].redir <= calls
    /\ \A j, k \in 1 .. MaxDevices : dev[k].redir > 0 /\ dev[j].redir = dev[k].redir => j = k
    /\ \A k \in 1 .. MaxDevices : \A x \in redirected : x.n = dev[k].redir => x.of = dev[k].of
    /\ \A g, h \in Handles : handle[h] # 0 /\ handle[g] = handle[h] /\ g # h
                               => dev[handle[h]].of \in twice

\* A transfer that is not done has an open handle, and is where the device is.
FlightInv ==
    \A t \in Transfers :
        LET x == xfer[t]
        IN  /\ x.st \in {"flying", "ended"} => x.h \in Handles /\ handle[x.h] # 0
            /\ x.st = "flying" =>
                 \/ x.redir = dev[handle[x.h]].redir /\ x.system = dev[handle[x.h]].system
                 \/ dev[handle[x.h]].of \in twice

\* What a cancellation was told, and the result
SaidInv ==
    \A t \in Transfers :
        LET x == xfer[t]
        IN  /\ x.st = "idle" /\ x.said # "none" => x.status = Status(x.result)
            /\ cancelEx /\ x.kind # "control" =>
                 /\ x.said = "ok" => x.st # "flying"
                 /\ x.st \in {"ended", "idle"} => (x.said = "ok" <=> x.result = "canceled")

Sound == /\ Typed /\ SharedWhileUsed /\ HelperThere /\ TableInv /\ CountInv /\ OwnerInv
         /\ RedirInv /\ RedirectedWhileOpen /\ FlightInv /\ SaidInv
         /\ TransferHolds /\ CancelEffective

-----------------------------------------------------------------------------
(* Counting lists and handles                                              *)

LEMMA PlacesFinite ==
    ASSUME NEW ls, NEW k
    PROVE  IsFiniteSet(Places(ls, k)) /\ Cardinality(Places(ls, k)) \in Nat
<1>1. IsFiniteSet(1 .. MaxPlugged)
  BY Bounds, FS_Interval
<1>2. IsFiniteSet(Contexts \X (1 .. MaxPlugged))
  BY <1>1, UsbdkAssumption, FS_Product DEF UsbdkAssumption
<1>3. Places(ls, k) \in SUBSET (Contexts \X (1 .. MaxPlugged))
  BY DEF Places
<1> QED
  BY <1>2, <1>3, FS_Subset, FS_CardinalityType

LEMMA OpensFinite ==
    ASSUME NEW hs, NEW k
    PROVE  IsFiniteSet(Opens(hs, k)) /\ Cardinality(Opens(hs, k)) \in Nat
<1>1. IsFiniteSet(Handles)
  BY UsbdkAssumption DEF UsbdkAssumption
<1>2. Opens(hs, k) \in SUBSET Handles
  BY DEF Opens
<1> QED
  BY <1>1, <1>2, FS_Subset, FS_CardinalityType

\* The lists ms are the lists ls but for that of a context that had none.
Gains(ms, ls, c) == ls[c] = <<>> /\ \A d \in Contexts : d # c => ms[d] = ls[d]

LEMMA PlacesChange ==
    ASSUME NEW ls, NEW ms, NEW c \in Contexts, Gains(ms, ls, c),
           NEW new \in Seq(1 .. MaxDevices), Len(new) <= MaxPlugged, ms[c] = new, NEW k
    PROVE  Cardinality(Places(ms, k)) = Cardinality(Places(ls, k)) + Occ(new, Len(new), k)
<1> DEFINE A == {j \in 1 .. Len(new) : new[j] = k}
           B == {p \in {c} \X (1 .. MaxPlugged) : p[2] \in DOMAIN new /\ new[p[2]] = k}
           f == [j \in A |-> <<c, j>>]
<1>0. Len(new) \in Nat /\ DOMAIN new = 1 .. Len(new) /\ MaxPlugged \in Nat
  BY Bounds
<1>1. IsFiniteSet(A)
  <2>1. IsFiniteSet(1 .. Len(new))
    BY <1>0, FS_Interval
  <2>2. A \in SUBSET (1 .. Len(new))
    OBVIOUS
  <2> QED
    BY <2>1, <2>2, FS_Subset
<1>2. f \in Bijection(A, B)
  <2>1. f \in [A -> B]
    BY <1>0
  <2>2. \A a, b \in A : f[a] = f[b] => a = b
    OBVIOUS
  <2>3. \A p \in B : \E a \in A : f[a] = p
    <3> SUFFICES ASSUME NEW p \in B PROVE \E a \in A : f[a] = p
      OBVIOUS
    <3>1. p[2] \in A /\ p = <<c, p[2]>>
      BY <1>0
    <3>2. f[p[2]] = p
      BY <3>1
    <3> QED
      BY <3>1, <3>2
  <2> HIDE DEF f, A, B
  <2> QED
    BY <2>1, <2>2, <2>3, Fun_IsBij
<1>3. IsFiniteSet(B) /\ Cardinality(B) = Occ(new, Len(new), k)
  <2>1. ExistsBijection(A, B)
    <3> HIDE DEF f, A, B
    <3> QED
      BY <1>2 DEF ExistsBijection
  <2>2. IsFiniteSet(B) /\ Cardinality(B) = Cardinality(A)
    <3> HIDE DEF A, B
    <3> QED
      BY <1>1, <2>1, FS_Bijection
  <2> QED
    BY <2>2 DEF Occ
<1>4. Places(ms, k) = Places(ls, k) \cup B
  <2>1. ms[c] = new /\ \A d \in Contexts : d # c => ms[d] = ls[d]
    BY DEF Gains
  <2>2. DOMAIN ls[c] = {}
    BY DEF Gains
  <2>3. ASSUME NEW p \in Contexts \X (1 .. MaxPlugged)
        PROVE  p \in Places(ms, k) <=> p \in Places(ls, k) \/ p \in B
    <3>1. PICK d \in Contexts, j \in 1 .. MaxPlugged : p = <<d, j>>
      OBVIOUS
    <3>2. p[1] = d /\ p[2] = j
      BY <3>1
    <3>3. p \in Places(ms, k) <=> j \in DOMAIN ms[d] /\ ms[d][j] = k
      BY <3>1, <3>2 DEF Places
    <3>4. p \in Places(ls, k) <=> j \in DOMAIN ls[d] /\ ls[d][j] = k
      BY <3>1, <3>2 DEF Places
    <3>5. p \in B <=> d = c /\ j \in DOMAIN new /\ new[j] = k
      BY <3>1, <3>2
    <3> HIDE DEF B
    <3>6. CASE d = c
      BY <2>1, <2>2, <3>3, <3>4, <3>5, <3>6
    <3>7. CASE d # c
      BY <2>1, <3>3, <3>4, <3>5, <3>7
    <3> QED
      BY <3>6, <3>7
  <2>4. \A p \in B : p \in Contexts \X (1 .. MaxPlugged)
    OBVIOUS
  <2>5. \A p : p \in Places(ms, k) \/ p \in Places(ls, k) => p \in Contexts \X (1 .. MaxPlugged)
    BY DEF Places
  <2> HIDE DEF B
  <2> QED
    BY <2>3, <2>4, <2>5
<1>5. Places(ls, k) \cap B = {}
  <2> SUFFICES ASSUME NEW p \in Places(ls, k), p \in B PROVE FALSE
    OBVIOUS
  <2>1. p[1] = c
    OBVIOUS
  <2>2. p[2] \in DOMAIN ls[p[1]]
    BY DEF Places
  <2> QED
    BY <2>1, <2>2 DEF Gains
<1>6. Cardinality(Places(ms, k)) = Cardinality(Places(ls, k)) + Cardinality(B) - Cardinality({})
  <2> HIDE DEF B
  <2>1. Cardinality(Places(ls, k) \cup B)
          = Cardinality(Places(ls, k)) + Cardinality(B) - Cardinality(Places(ls, k) \cap B)
    BY <1>3, PlacesFinite, FS_Union
  <2> QED
    BY <1>4, <1>5, <2>1
<1>7. Cardinality({}) = 0
  BY FS_EmptySet
<1>8. Occ(new, Len(new), k) \in Nat /\ Cardinality(Places(ls, k)) \in Nat
  BY <1>0, OccSteps, PlacesFinite
<1> HIDE DEF B
<1> QED
  BY <1>3, <1>6, <1>7, <1>8

\* Handles gs are handles hs with h on device k.
Puts(gs, hs, h, k) == gs = [hs EXCEPT ![h] = k]

\* A handle that is opened is one more of its device.
LEMMA OpensChange ==
    ASSUME NEW hs \in [Handles -> 0 .. MaxDevices], NEW h \in Handles, hs[h] = 0,
           NEW k \in 1 .. MaxDevices, NEW gs, Puts(gs, hs, h, k),
           NEW j \in 1 .. MaxDevices
    PROVE  Cardinality(Opens(gs, j)) = Cardinality(Opens(hs, j)) + (IF j = k THEN 1 ELSE 0)
<1>1. CASE j = k
  <2>1. Opens(gs, j) = Opens(hs, j) \cup {h} /\ h \notin Opens(hs, j)
    BY <1>1, Bounds DEF Opens, Puts
  <2>2. Cardinality(Opens(gs, j)) = Cardinality(Opens(hs, j)) + 1
    BY <2>1, OpensFinite, FS_AddElement
  <2> QED
    BY <1>1, <2>2
<1>2. CASE j # k
  <2>1. Opens(gs, j) = Opens(hs, j)
    BY <1>2, Bounds DEF Opens, Puts
  <2>2. Cardinality(Opens(hs, j)) \in Nat
    BY OpensFinite
  <2> QED
    BY <1>2, <2>1, <2>2
<1> QED
  BY <1>1, <1>2

LEMMA OpenPositive ==
    ASSUME NEW hs, NEW h \in Handles
    PROVE  Cardinality(Opens(hs, hs[h])) >= 1
<1>1. {h} \in SUBSET Opens(hs, hs[h])
  BY DEF Opens
<1>2. Cardinality({h}) <= Cardinality(Opens(hs, hs[h]))
  BY <1>1, OpensFinite, FS_Subset
<1>3. Cardinality({h}) = 1
  BY FS_Singleton
<1>4. Cardinality(Opens(hs, hs[h])) \in Nat
  BY OpensFinite
<1> QED
  BY <1>2, <1>3, <1>4

LEMMA PlacePositive ==
    ASSUME NEW ls \in [Contexts -> Seq(1 .. MaxDevices)], NEW c \in Contexts,
           Len(ls[c]) <= MaxPlugged, NEW i \in 1 .. Len(ls[c])
    PROVE  Cardinality(Places(ls, ls[c][i])) >= 1
<1>0. ls[c] \in Seq(1 .. MaxDevices)
  OBVIOUS
<1>1. Len(ls[c]) \in Nat /\ DOMAIN ls[c] = 1 .. Len(ls[c])
  BY <1>0
<1>2. {<<c, i>>} \in SUBSET Places(ls, ls[c][i])
  <2>1. i \in 1 .. MaxPlugged
    BY <1>1, Bounds
  <2> QED
    BY <1>1, <2>1 DEF Places
<1>3. Cardinality({<<c, i>>}) <= Cardinality(Places(ls, ls[c][i]))
  BY <1>2, PlacesFinite, FS_Subset
<1>4. Cardinality({<<c, i>>}) = 1
  BY FS_Singleton
<1>5. Cardinality(Places(ls, ls[c][i])) \in Nat
  BY PlacesFinite
<1> QED
  BY <1>3, <1>4, <1>5

-----------------------------------------------------------------------------
(* What steps that leave handles and transfers alone keep                  *)

LEMMA HeldDevices ==
    ASSUME Sound
    PROVE  /\ \A h \in Handles : handle[h] # 0 =>
                 handle[h] \in 1 .. MaxDevices /\ dev[handle[h]].refs > 0
           /\ \A c \in Contexts : \A i \in 1 .. Len(list[c]) :
                 list[c][i] \in 1 .. MaxDevices /\ dev[list[c][i]].refs > 0
           /\ \A c \in Contexts : list[c] # <<>> => c \in on
           /\ \A k \in 1 .. MaxDevices : dev[k].refs \in Nat /\ dev[k].redir \in Int
           /\ \A c \in Contexts : list[c] \in Seq(1 .. MaxDevices) /\ Len(list[c]) \in Nat
<1>1. \A k \in 1 .. MaxDevices : dev[k].refs \in Nat /\ dev[k].redir \in Int
  BY DEF Sound, Typed, Devices, Device
<1>2. \A k \in 1 .. MaxDevices :
        /\ dev[k].refs = Cardinality(Places(list, k)) + Cardinality(Opens(handle, k))
        /\ Cardinality(Places(list, k)) \in Nat /\ Cardinality(Opens(handle, k)) \in Nat
  BY PlacesFinite, OpensFinite DEF Sound, CountInv
<1>3. ASSUME NEW h \in Handles, handle[h] # 0
      PROVE  handle[h] \in 1 .. MaxDevices /\ dev[handle[h]].refs > 0
  <2>1. handle[h] \in 1 .. MaxDevices
    BY <1>3, Bounds DEF Sound, Typed
  <2>2. PICK k \in 1 .. MaxDevices : k = handle[h]
    BY <2>1
  <2>3. Cardinality(Opens(handle, k)) >= 1
    BY <2>2, OpenPositive
  <2> QED
    BY <1>2, <2>1, <2>2, <2>3
<1>4. \A c \in Contexts : list[c] \in Seq(1 .. MaxDevices) /\ Len(list[c]) \in Nat
  BY DEF Sound, Typed
<1>5. ASSUME NEW c \in Contexts, NEW i \in 1 .. Len(list[c])
      PROVE  list[c][i] \in 1 .. MaxDevices /\ dev[list[c][i]].refs > 0
  <2>1. list[c][i] \in 1 .. MaxDevices
    BY <1>4, ListElements
  <2>2. PICK k \in 1 .. MaxDevices : k = list[c][i]
    BY <2>1
  <2>3. Cardinality(Places(list, list[c][i])) >= 1
    <3>1. list \in [Contexts -> Seq(1 .. MaxDevices)] /\ Len(list[c]) <= MaxPlugged
      BY DEF Sound, Typed
    <3> QED
      BY <3>1, PlacePositive
  <2> QED
    BY <1>2, <2>1, <2>2, <2>3
<1>6. ASSUME NEW c \in Contexts, list[c] # <<>> PROVE c \in on
  <2>1. Len(list[c]) >= 1
    BY <1>4, <1>6, EmptySeq
  <2>2. 1 \in 1 .. Len(list[c])
    BY <1>4, <2>1
  <2>3. PICK k \in 1 .. MaxDevices : k = list[c][1] /\ dev[k].refs > 0
    BY <1>5, <2>2
  <2>4. dev[k].ctx \in on
    BY <2>3 DEF Sound, OwnerInv
  <2>5. dev[k].ctx = c
    BY <2>2, <2>3 DEF Sound, OwnerInv
  <2> QED
    BY <2>4, <2>5
<1> QED
  BY <1>1, <1>3, <1>4, <1>5, <1>6

LEMMA DevicesStay ==
    ASSUME Sound, handle' = handle, redirected' = redirected, xfer' = xfer, twice' = twice,
           cancelEx' = cancelEx, calls' \in Nat, calls <= calls', dev' \in Devices,
           \A k \in 1 .. MaxDevices : Same(dev'[k], dev[k]) \/ dev'[k].redir = 0,
           \A h \in Handles : handle[h] # 0 => Same(dev'[handle[h]], dev[handle[h]])
    PROVE  /\ RedirInv' /\ RedirectedWhileOpen' /\ FlightInv' /\ SaidInv'
           /\ TransferHolds' /\ CancelEffective'
<1>0. /\ \A k \in 1 .. MaxDevices : dev[k].redir \in Int /\ dev'[k].redir \in Int
      /\ calls \in Nat /\ \A x \in redirected : x.n \in Nat \ {0}
  <2>1. \A k \in 1 .. MaxDevices : dev[k].redir \in Int
    BY HeldDevices
  <2>2. \A k \in 1 .. MaxDevices : dev'[k].redir \in Int
    BY DEF Devices, Device
  <2>3. calls \in Nat /\ \A x \in redirected : x.n \in Nat \ {0}
    BY DEF Sound, Typed
  <2> QED
    BY <2>1, <2>2, <2>3
<1>1. \A h \in Handles : handle[h] # 0 =>
        /\ dev'[handle[h]].redir = dev[handle[h]].redir
        /\ dev'[handle[h]].system = dev[handle[h]].system
        /\ dev'[handle[h]].of = dev[handle[h]].of
  BY DEF Same
<1>2. \A k \in 1 .. MaxDevices :
        dev'[k].redir = 0 \/ (dev'[k].redir = dev[k].redir /\ dev'[k].of = dev[k].of)
  BY DEF Same
<1>3. RedirInv'
  <2>1. (\A x \in redirected : x.n <= calls)'
    <3>1. \A x \in redirected : x.n <= calls
      BY DEF Sound, RedirInv
    <3> QED
      BY <1>0, <3>1
  <2>2. \A k \in 1 .. MaxDevices : dev'[k].redir <= calls'
    <3>1. \A k \in 1 .. MaxDevices : dev[k].redir <= calls
      BY DEF Sound, RedirInv
    <3> QED
      BY <1>0, <1>2, <3>1
  <2>3. \A j, k \in 1 .. MaxDevices : dev'[k].redir > 0 /\ dev'[j].redir = dev'[k].redir => j = k
    <3>1. \A j, k \in 1 .. MaxDevices : dev[k].redir > 0 /\ dev[j].redir = dev[k].redir => j = k
      BY DEF Sound, RedirInv
    <3> QED
      BY <1>0, <1>2, <3>1
  <2>4. \A k \in 1 .. MaxDevices : \A x \in redirected' : x.n = dev'[k].redir => x.of = dev'[k].of
    <3>1. \A k \in 1 .. MaxDevices : \A x \in redirected : x.n = dev[k].redir => x.of = dev[k].of
      BY DEF Sound, RedirInv
    <3> QED
      BY <1>0, <1>2, <3>1
  <2>5. (\A g, h \in Handles : handle[h] # 0 /\ handle[g] = handle[h] /\ g # h
                               => dev[handle[h]].of \in twice)'
    <3>1. \A g, h \in Handles : handle[h] # 0 /\ handle[g] = handle[h] /\ g # h
                               => dev[handle[h]].of \in twice
      BY DEF Sound, RedirInv
    <3> QED
      BY <1>1, <3>1
  <2> QED
    BY <2>1, <2>2, <2>3, <2>4, <2>5 DEF RedirInv
<1>4. RedirectedWhileOpen'
  <2>1. RedirectedWhileOpen
    BY DEF Sound
  <2> QED
    BY <1>1, <2>1 DEF RedirectedWhileOpen, Live
<1>5. FlightInv'
  <2>1. FlightInv
    BY DEF Sound
  <2> QED
    BY <1>1, <2>1 DEF FlightInv
<1>6. SaidInv' /\ TransferHolds'
  BY DEF Sound, SaidInv, TransferHolds
<1>7. CancelEffective'
  <2>1. CancelEffective /\ FlightInv
    BY DEF Sound
  <2> SUFFICES ASSUME NEW t \in Transfers, xfer'[t].said # "none", xfer'[t].kind # "control"
               PROVE  /\ xfer'[t].st = "flying" => dev'[handle'[xfer'[t].h]].of \in twice'
                      /\ cancelEx' /\ xfer'[t].st = "idle" =>
                            (xfer'[t].said = "ok" <=> xfer'[t].status = "cancelled")
                              \/ xfer'[t].result = "aborted"
    BY DEF CancelEffective
  <2>2. xfer[t].st = "flying" => xfer[t].h \in Handles /\ handle[xfer[t].h] # 0
    BY <2>1 DEF FlightInv
  <2>3. xfer[t].st = "flying" => dev[handle[xfer[t].h]].of \in twice
    BY <2>1 DEF CancelEffective
  <2>4. cancelEx /\ xfer[t].st = "idle" =>
          (xfer[t].said = "ok" <=> xfer[t].status = "cancelled") \/ xfer[t].result = "aborted"
    BY <2>1 DEF CancelEffective
  <2> QED
    BY <1>1, <2>2, <2>3, <2>4
<1> QED
  BY <1>3, <1>4, <1>5, <1>6, <1>7

LEMMA OnFinite ==
    ASSUME on \subseteq Contexts
    PROVE  IsFiniteSet(on) /\ Cardinality(on) \in Nat
<1>1. IsFiniteSet(Contexts)
  BY UsbdkAssumption DEF UsbdkAssumption
<1> QED
  BY <1>1, FS_Subset, FS_CardinalityType

LEMMA NoneUsed ==
    ASSUME Sound, inits = 0
    PROVE  on = {} /\ \A k \in 1 .. MaxDevices : ~(dev[k].refs > 0)
<1>1. IsFiniteSet(on) /\ Cardinality(on) \in Nat /\ stuck \in Nat
  BY OnFinite DEF Sound, Typed
<1>2. 0 = Cardinality(on) + stuck
  BY DEF Sound, SharedWhileUsed
<1>3. Cardinality(on) = 0
  BY <1>1, <1>2
<1>4. on = {}
  BY <1>1, <1>3, FS_EmptySet
<1> QED
  BY <1>4 DEF Sound, OwnerInv

LEMMA TableIsThere == ASSUME NEW tb, WellFormed(tb) PROVE tb # NoTable
<1>1. tb.filled \in Nat
  BY DEF WellFormed
<1>2. NoTable.filled = -1
  BY DEF NoTable
<1> QED
  BY <1>1, <1>2

\* Steps that leave devices, lists, handles and transfers as they are
LEMMA NothingMoves ==
    ASSUME Sound, UNCHANGED <<dev, configs, list, handle, redirected, xfer, cancelEx, twice>>,
           calls' \in Nat, calls <= calls'
    PROVE  /\ CountInv' /\ RedirInv' /\ RedirectedWhileOpen' /\ FlightInv' /\ SaidInv'
           /\ TransferHolds' /\ CancelEffective'
<1>1. CountInv'
  BY DEF Sound, CountInv
<1>2. dev' \in Devices
  BY DEF Sound, Typed
<1>3. \A k \in 1 .. MaxDevices : Same(dev'[k], dev[k]) \/ dev'[k].redir = 0
  BY DEF Same
<1>4. \A h \in Handles : handle[h] # 0 => Same(dev'[handle[h]], dev[handle[h]])
  BY DEF Same
<1> QED
  BY <1>1, <1>2, <1>3, <1>4, DevicesStay

LEMMA CallCounts ==
    ASSUME Sound, Call
    PROVE  calls \in Nat /\ calls' = calls + 1 /\ calls' \in Nat /\ calls' <= MaxCalls /\ calls <= calls'
  BY Bounds DEF Sound, Typed, Call

LEMMA StepLibInit == ASSUME Sound, NEW c \in Contexts, LibInit(c) PROVE Sound'
<1>0. /\ Call /\ fault = "none" /\ fault' = "none" /\ c \notin on
      /\ UNCHANGED <<dev, configs, list, handle, redirected, xfer, cancelEx, twice, plugged, stuck>>
  BY DEF LibInit, Call, devices
<1>1. PICK ending :
        /\ on' = IF ending = "done" THEN on \cup {c} ELSE on
        /\ IF inits = 0 THEN Begin(ending)
           ELSE /\ inits' = IF ending = "done" THEN inits + 1 ELSE inits
                /\ UNCHANGED <<helper, table, missing, leaked>>
  BY DEF LibInit
<1>2. /\ CountInv' /\ RedirInv' /\ RedirectedWhileOpen' /\ FlightInv' /\ SaidInv'
      /\ TransferHolds' /\ CancelEffective'
  BY <1>0, CallCounts, NothingMoves
<1>3. /\ ending = "done" => inits' = inits + 1
      /\ ending # "done" => inits' = inits
      /\ inits \in Nat
  BY <1>1 DEF Begin, Sound, Typed
<1>4. Typed'
  <2>1. helper' \in Loads
    BY <1>1 DEF Begin, Sound, Typed, Loads
  <2>2. inits' \in Nat /\ on' \subseteq Contexts
    <3>1. inits' \in Nat
      BY <1>3
    <3>2. on \subseteq Contexts
      BY DEF Sound, Typed
    <3> QED
      BY <1>1, <3>1, <3>2
  <2>3. calls' \in Nat /\ calls' <= MaxCalls
    BY <1>0, CallCounts
  <2> QED
    BY <1>0, <2>1, <2>2, <2>3 DEF Sound, Typed
<1>5. TableInv' /\ (inits' > 0 => table' # NoTable)
  <2>0. TableInv /\ (inits > 0 => table # NoTable)
    BY DEF Sound, SharedWhileUsed
  <2>1. CASE UNCHANGED <<table, leaked>> /\ (inits' > 0 => inits > 0)
    BY <1>0, <2>0, <2>1 DEF TableInv
  <2>2. CASE inits = 0 /\ table' = EmptyTable /\ leaked' = leaked
    <3>1. Named(dev, table')
      BY <2>2, NoneUsed DEF Named
    <3> QED
      BY <1>0, <2>0, <2>2, <3>1, EmptyWellFormed, TableIsThere DEF TableInv
  <2>3. CASE inits # 0
    <3>1. UNCHANGED <<table, leaked>> /\ (inits' > 0 => inits > 0)
      BY <1>1, <1>3, <2>3
    <3> QED
      BY <2>1, <3>1
  <2>4. CASE inits = 0 /\ ending = "done"
    <3>1. table' = EmptyTable /\ leaked' = leaked
      BY <1>1, <2>4 DEF Begin
    <3> QED
      BY <2>2, <2>4, <3>1
  <2>5. CASE inits = 0 /\ ending # "done"
    <3>1. UNCHANGED <<table, leaked>>
      BY <1>1, <2>5 DEF Begin
    <3>2. inits' = 0
      BY <1>3, <2>5
    <3> QED
      BY <2>1, <3>1, <3>2
  <2> QED
    BY <2>3, <2>4, <2>5
<1>6. SharedWhileUsed'
  <2>1. IsFiniteSet(on) /\ Cardinality(on) \in Nat /\ stuck \in Nat /\ inits = Cardinality(on) + stuck
    BY OnFinite DEF Sound, Typed, SharedWhileUsed
  <2>2. inits' = Cardinality(on') + stuck'
    <3>1. CASE ending = "done"
      <4>1. on' = on \cup {c}
        BY <1>1, <3>1
      <4>2. Cardinality(on') = Cardinality(on) + 1
        BY <1>0, <2>1, <4>1, FS_AddElement
      <4> QED
        BY <1>0, <1>3, <2>1, <3>1, <4>2
    <3>2. CASE ending # "done"
      BY <1>0, <1>1, <1>3, <2>1, <3>2
    <3> QED
      BY <3>1, <3>2
  <2>3. inits' > 0 => helper' = "loaded" \/ missing'
    <3>1. CASE inits = 0 /\ ending = "done"
      <4>1. PICK loads \in Loads : /\ helper' = IF loads = "none" THEN helper ELSE loads
                                   /\ missing' = (loads # "loaded")
        BY <1>1, <3>1 DEF Begin
      <4>2. CASE loads = "loaded"
        BY <4>1, <4>2
      <4>3. CASE loads # "loaded"
        BY <4>1, <4>3, Zenon
      <4> QED
        BY <4>2, <4>3
    <3>2. CASE inits # 0
      <4>1. inits > 0
        BY <1>3, <3>2
      <4>2. helper = "loaded" \/ missing
        BY <4>1 DEF Sound, SharedWhileUsed
      <4>3. helper' = helper /\ (missing' <=> missing)
        BY <1>1, <3>2
      <4> QED
        BY <4>2, <4>3
    <3>3. CASE inits = 0 /\ ending # "done"
      <4>1. ~(inits' > 0)
        BY <1>3, <3>3
      <4> QED
        BY <4>1
    <3> QED
      BY <3>1, <3>2, <3>3
  <2> QED
    BY <1>5, <2>2, <2>3 DEF SharedWhileUsed
<1>7. HelperThere'
  BY <1>0 DEF HelperThere
<1>8. OwnerInv'
  <2>1. on \subseteq on'
    BY <1>1
  <2> QED
    BY <1>0, <2>1 DEF Sound, OwnerInv
<1> QED
  BY <1>2, <1>4, <1>5, <1>6, <1>7, <1>8 DEF Sound

LEMMA StepLibExit == ASSUME Sound, NEW c \in Contexts, LibExit(c) PROVE Sound'
<1>0. /\ Call /\ fault = "none" /\ fault' = "none" /\ c \in on /\ on' = on \ {c}
      /\ list[c] = <<>> /\ \A h \in Handles : handle[h] # 0 => dev[handle[h]].ctx # c
      /\ UNCHANGED <<dev, configs, list, handle, redirected, xfer, cancelEx, twice, plugged, missing>>
  BY DEF LibExit, Call, devices
<1>1. /\ CountInv' /\ RedirInv' /\ RedirectedWhileOpen' /\ FlightInv' /\ SaidInv'
      /\ TransferHolds' /\ CancelEffective'
  BY <1>0, CallCounts, NothingMoves
<1>2. \/ /\ stuck' = stuck + 1 /\ UNCHANGED <<inits, helper, table, leaked>>
      \/ /\ inits' = inits - 1 /\ UNCHANGED stuck
         /\ IF inits = 1
              THEN /\ helper' = IF helper = "loaded" THEN "unloaded" ELSE helper
                   /\ leaked' = leaked \cup Leaked(table)
                   /\ table' = NoTable
            ELSE UNCHANGED <<helper, table, leaked>>
  BY DEF LibExit, Finishes
<1>3. /\ IsFiniteSet(on) /\ Cardinality(on) \in Nat /\ stuck \in Nat /\ inits \in Nat
      /\ inits = Cardinality(on) + stuck /\ Cardinality(on') = Cardinality(on) - 1
      /\ Cardinality(on') \in Nat /\ on' \subseteq Contexts
  <2>1. IsFiniteSet(on) /\ Cardinality(on) \in Nat /\ stuck \in Nat /\ inits \in Nat
        /\ inits = Cardinality(on) + stuck /\ on' \subseteq Contexts
    BY <1>0, OnFinite DEF Sound, Typed, SharedWhileUsed
  <2>2. Cardinality(on \ {c}) = Cardinality(on) - 1
    BY <1>0, <2>1, FS_RemoveElement
  <2>3. IsFiniteSet(on \ {c})
    BY <2>1, FS_RemoveElement
  <2>4. Cardinality(on \ {c}) \in Nat
    BY <2>3, FS_CardinalityType
  <2> QED
    BY <1>0, <2>1, <2>2, <2>4
<1>4. inits' = Cardinality(on') + stuck' /\ inits' \in Nat /\ stuck' \in Nat
  BY <1>2, <1>3
<1>5. Typed'
  <2>1. helper' \in Loads
    BY <1>2 DEF Sound, Typed, Loads
  <2>2. calls' \in Nat /\ calls' <= MaxCalls
    BY <1>0, CallCounts
  <2> QED
    BY <1>0, <1>3, <1>4, <2>1, <2>2 DEF Sound, Typed
<1>6. \A k \in 1 .. MaxDevices : dev[k].refs > 0 => dev[k].ctx # c
  <2> SUFFICES ASSUME NEW k \in 1 .. MaxDevices, dev[k].refs > 0, dev[k].ctx = c PROVE FALSE
    OBVIOUS
  <2>1. Places(list, k) = {}
    <3> SUFFICES ASSUME NEW p \in Places(list, k) PROVE FALSE
      OBVIOUS
    <3>1. PICK d \in Contexts, j \in 1 .. MaxPlugged : p = <<d, j>>
      BY DEF Places
    <3>2. j \in DOMAIN list[d] /\ list[d][j] = k
      BY <3>1 DEF Places
    <3>3. list[d] \in Seq(1 .. MaxDevices)
      BY DEF Sound, Typed
    <3>4. j \in 1 .. Len(list[d])
      BY <3>2, <3>3, LenProperties
    <3>5. dev[k].ctx = d
      BY <3>2, <3>4 DEF Sound, OwnerInv
    <3>6. DOMAIN list[d] = {}
      BY <1>0, <3>5
    <3> QED
      BY <3>2, <3>6
  <2>2. Opens(handle, k) = {}
    BY <1>0, Bounds DEF Opens
  <2>3. Cardinality(Places(list, k)) = 0 /\ Cardinality(Opens(handle, k)) = 0
    BY <2>1, <2>2, FS_EmptySet
  <2>4. dev[k].refs = Cardinality(Places(list, k)) + Cardinality(Opens(handle, k))
    BY DEF Sound, CountInv
  <2> QED
    BY <2>3, <2>4
<1>7. OwnerInv'
  BY <1>0, <1>6 DEF Sound, OwnerInv
<1>8. TableInv' /\ SharedWhileUsed'
  <2>0. TableInv /\ (inits > 0 => table # NoTable /\ (helper = "loaded" \/ missing))
    BY DEF Sound, SharedWhileUsed
  <2>1. CASE UNCHANGED <<helper, table, leaked>>
    <3>1. inits > 0
      <4>1. on # {}
        BY <1>0
      <4>2. Cardinality(on) # 0
        BY <1>3, <4>1, FS_EmptySet
      <4> QED
        BY <1>3, <4>2
    <3> QED
      BY <1>0, <1>4, <2>0, <2>1, <3>1 DEF TableInv, SharedWhileUsed
  <2>2. CASE inits = 1 /\ inits' = 0 /\ table' = NoTable /\ leaked' = leaked \cup Leaked(table)
    <3>1. on' = {}
      <4>1. Cardinality(on') = 0
        BY <1>3, <1>4, <2>2
      <4>2. IsFiniteSet(on')
        BY <1>0, <1>3, FS_RemoveElement
      <4> QED
        BY <4>1, <4>2, FS_EmptySet
    <3>2. \A k \in 1 .. MaxDevices : ~(dev'[k].refs > 0)
      BY <1>7, <3>1 DEF OwnerInv
    <3>3. Named(dev', table')
      BY <3>2 DEF Named
    <3>4. Leaked(table) \subseteq {HtabSize}
      <4> SUFFICES ASSUME NEW i \in Leaked(table) PROVE i = HtabSize
        OBVIOUS
      <4>1. i \in Entries /\ i \notin 1 .. HtabSize - 1
        BY DEF Leaked, Freed
      <4> QED
        BY <4>1, Bounds DEF Entries
    <3>5. leaked' \subseteq {HtabSize}
      BY <2>0, <2>2, <3>4 DEF TableInv
    <3> QED
      BY <1>4, <2>2, <3>3, <3>5 DEF TableInv, SharedWhileUsed
  <2> QED
    BY <1>2, <1>3, <2>1, <2>2
<1>9. HelperThere'
  BY <1>0 DEF HelperThere
<1> QED
  BY <1>1, <1>5, <1>7, <1>8, <1>9 DEF Sound

LEMMA StepPlug == ASSUME Sound, Plug PROVE Sound'
<1>0. /\ Call /\ fault = "none" /\ fault' = "none" /\ Cardinality(plugged') <= MaxPlugged
      /\ UNCHANGED <<dev, configs, list, handle, redirected, xfer, cancelEx, twice, inits, on,
                     helper, table, stuck, missing, leaked>>
  BY DEF Plug, Call, shared, devices
<1>1. /\ CountInv' /\ RedirInv' /\ RedirectedWhileOpen' /\ FlightInv' /\ SaidInv'
      /\ TransferHolds' /\ CancelEffective'
  BY <1>0, CallCounts, NothingMoves
<1>2. plugged' \subseteq Strings /\ IsFiniteSet(plugged')
  <2>1. PICK out \in {{}} \cup {{s} : s \in plugged}, in \in {{}} \cup {{s} : s \in Strings \ plugged} :
           plugged' = (plugged \ out) \cup in
    BY DEF Plug
  <2>2. plugged \subseteq Strings /\ IsFiniteSet(plugged)
    BY DEF Sound, Typed
  <2>3. in \subseteq Strings /\ IsFiniteSet(in)
    <3>1. CASE in = {}
      BY <3>1, FS_EmptySet
    <3>2. ASSUME NEW i \in Strings \ plugged, in = {i} PROVE in \subseteq Strings /\ IsFiniteSet(in)
      BY <3>2, FS_Singleton
    <3> QED
      BY <3>1, <3>2
  <2>4. IsFiniteSet(plugged \ out)
    BY <2>2, FS_Subset
  <2>5. IsFiniteSet((plugged \ out) \cup in)
    BY <2>3, <2>4, FS_Union
  <2> QED
    BY <2>1, <2>2, <2>3, <2>5
<1>3. Typed'
  BY <1>0, <1>2, CallCounts DEF Sound, Typed
<1>4. SharedWhileUsed' /\ TableInv' /\ OwnerInv'
  BY <1>0 DEF Sound, SharedWhileUsed, TableInv, OwnerInv
<1>5. HelperThere'
  BY <1>0 DEF HelperThere
<1> QED
  BY <1>1, <1>3, <1>4, <1>5 DEF Sound

-----------------------------------------------------------------------------
(* Enumeration keeps the invariant                                         *)

\* The parts of the invariant about devices and what refers to them, when the
\* devices change so that those in use stay what they were
LEMMA DevicesCounted ==
    ASSUME Sound, NEW c \in Contexts, c \in on, NEW tb, NEW ds \in Devices, NEW ls,
           ls \in [Contexts -> Seq(1 .. MaxDevices)],
           \A d \in Contexts : d # c => ls[d] = list[d],
           dev' = ds, list' = ls, on' = on, handle' = handle,
           \A k \in 1 .. MaxDevices :
              ds[k].refs = Cardinality(Places(ls, k)) + Cardinality(Opens(handle, k)),
           \A d \in Contexts : Len(ls[d]) <= MaxPlugged,
           \A i \in 1 .. Len(ls[c]) : ds[ls[c][i]].ctx = c,
           \A k \in 1 .. MaxDevices : ds[k].refs > 0 =>
              \/ dev[k].refs > 0 /\ Same(ds[k], dev[k])
              \/ dev[k].refs = 0 /\ ds[k].ctx = c
    PROVE  OwnerInv' /\ \A h \in Handles : handle[h] # 0 => Same(ds[handle[h]], dev[handle[h]])
<1>1. ASSUME NEW k \in 1 .. MaxDevices, ds[k].refs > 0 PROVE ds[k].ctx \in on
  <2>1. CASE dev[k].refs > 0 /\ Same(ds[k], dev[k])
    BY <2>1 DEF Same, Sound, OwnerInv
  <2>2. CASE ds[k].ctx = c
    BY <2>2
  <2> QED
    BY <1>1, <2>1, <2>2
<1>2. \A k \in 1 .. MaxDevices :
        Cardinality(Places(ls, k)) \in Nat /\ Cardinality(Opens(handle, k)) \in Nat
  BY PlacesFinite, OpensFinite
<1>3. ASSUME NEW d \in Contexts, NEW i \in 1 .. Len(ls[d]) PROVE ds[ls[d][i]].ctx = d
  <2>1. CASE d = c
    BY <1>3, <2>1
  <2>2. CASE d # c
    <3>1. ls[d] = list[d]
      BY <2>2
    <3>2. list[d][i] \in 1 .. MaxDevices /\ dev[list[d][i]].refs > 0
      BY <1>3, <3>1, HeldDevices
    <3>3. PICK k \in 1 .. MaxDevices : k = list[d][i]
      BY <3>2
    <3>4. Cardinality(Places(ls, ls[d][i])) >= 1
      BY <1>3, PlacePositive
    <3>5. ds[k].refs > 0
      <4>1. Cardinality(Places(ls, k)) >= 1
        BY <3>1, <3>3, <3>4
      <4> QED
        BY <1>2, <4>1
    <3>6. Same(ds[k], dev[k])
      <4>1. dev[k].refs > 0 /\ dev[k].refs # 0
        BY <3>2, <3>3, HeldDevices
      <4> QED
        BY <3>5, <4>1
    <3>7. dev[k].ctx = d
      BY <1>3, <3>1, <3>3 DEF Sound, OwnerInv
    <3> QED
      BY <3>1, <3>3, <3>6, <3>7 DEF Same
  <2> QED
    BY <2>1, <2>2
<1>4. ASSUME NEW h \in Handles, handle[h] # 0 PROVE Same(ds[handle[h]], dev[handle[h]])
  <2>1. PICK k \in 1 .. MaxDevices : k = handle[h] /\ dev[k].refs > 0
    BY <1>4, HeldDevices
  <2>2. Cardinality(Opens(handle, k)) >= 1
    BY <2>1, OpenPositive
  <2>3. ds[k].refs > 0
    BY <1>2, <2>2
  <2> QED
    BY <2>1, <2>3
<1>5. OwnerInv'
  BY <1>1, <1>3 DEF OwnerInv
<1> QED
  BY <1>4, <1>5

LEMMA SequencesOf ==
    ASSUME NEW ids \in SetToSeqs(plugged), plugged \subseteq Strings, IsFiniteSet(plugged)
    PROVE  ids \in Seq(Strings) /\ Len(ids) = Cardinality(plugged) /\ Len(ids) \in Nat
<1>1. PICK n \in Nat : n = Cardinality(plugged)
  BY FS_CardinalityType
<1>2. ids \in [1 .. n -> plugged]
  BY <1>1 DEF SetToSeqs
<1>3. ids \in [1 .. n -> Strings]
  BY <1>2
<1> QED
  BY <1>1, <1>3

LEMMA StepGetDeviceList == ASSUME Sound, NEW c \in Contexts, GetDeviceList(c) PROVE Sound'
<1>0. /\ Call /\ fault = "none" /\ c \in on /\ list[c] = <<>>
      /\ Cardinality(plugged) <= MaxDevices - Cardinality(UsedDevices(dev))
      /\ UNCHANGED <<inits, on, helper, stuck, missing, leaked, plugged, handle, redirected,
                     xfer, cancelEx, twice>>
  <2>1. /\ Call /\ fault = "none" /\ c \in on /\ list[c] = <<>>
        /\ UNCHANGED <<inits, on, helper, stuck, missing, leaked, plugged, handle, redirected,
                       xfer, cancelEx, twice>>
    BY DEF GetDeviceList, Call
  <2>2. MaxDevices - Cardinality({k \in DOMAIN dev : dev[k].refs > 0}) >= Cardinality(plugged)
    BY DEF GetDeviceList
  <2>3. DOMAIN dev = 1 .. MaxDevices
    BY DEF Sound, Typed, Devices
  <2>4. {k \in DOMAIN dev : dev[k].refs > 0} = UsedDevices(dev)
    BY <2>3 DEF UsedDevices
  <2>5. PICK a \in Nat, b \in Nat : a = Cardinality(UsedDevices(dev)) /\ b = Cardinality(plugged)
    BY UsedFinite, FS_CardinalityType DEF Sound, Typed
  <2> QED
    BY <2>1, <2>2, <2>4, <2>5, Bounds
<1>1. inits > 0 /\ WellFormed(table) /\ Named(dev, table) /\ (helper = "loaded" \/ missing)
  <2>1. IsFiniteSet(on) /\ Cardinality(on) \in Nat /\ stuck \in Nat /\ inits = Cardinality(on) + stuck
    BY OnFinite DEF Sound, Typed, SharedWhileUsed
  <2>2. Cardinality(on) # 0
    BY <1>0, <2>1, FS_EmptySet
  <2>3. inits > 0
    BY <2>1, <2>2
  <2> QED
    BY <2>3 DEF Sound, SharedWhileUsed, TableInv
<1>2. calls \in Nat /\ calls' \in Nat /\ calls' <= MaxCalls /\ calls <= calls'
  BY <1>0, CallCounts
<1>3. CASE helper # "loaded" /\ UNCHANGED <<devices, table>>
  <2>1. /\ CountInv' /\ RedirInv' /\ RedirectedWhileOpen' /\ FlightInv' /\ SaidInv'
        /\ TransferHolds' /\ CancelEffective'
    BY <1>0, <1>2, <1>3, NothingMoves DEF devices
  <2>2. Typed'
    BY <1>0, <1>2, <1>3 DEF Sound, Typed, devices
  <2>3. SharedWhileUsed' /\ TableInv' /\ OwnerInv'
    BY <1>0, <1>3 DEF Sound, SharedWhileUsed, TableInv, OwnerInv, devices
  <2>4. missing'
    BY <1>0, <1>1, <1>3
  <2>5. HelperThere'
    BY <2>4 DEF HelperThere
  <2> QED
    BY <2>1, <2>2, <2>3, <2>5 DEF Sound
<1>4. ASSUME NEW ids \in SetToSeqs(plugged), NEW bad, NEW goes \in Goes,
             NEW s \in Listing(c, ids, bad, goes),
             /\ dev' = s.dev /\ configs' = s.configs /\ table' = s.table
             /\ list' = [list EXCEPT ![c] = IF s.stopped THEN <<>> ELSE s.list]
             /\ fault' = IF s.stopped THEN "freed twice" ELSE "none"
      PROVE  Sound'
  <2>2. /\ dev' = s.dev /\ configs' = s.configs /\ table' = s.table
        /\ list' = [list EXCEPT ![c] = IF s.stopped THEN <<>> ELSE s.list]
    BY <1>4, Zenon
  <2>3. fault' # "no helper"
    BY <1>4, Zenon
  <2>4. ids \in Seq(Strings) /\ Len(ids) = Cardinality(plugged) /\ Len(ids) \in Nat
        /\ Len(ids) <= MaxPlugged
    BY SequencesOf DEF Sound, Typed
  <2>5. Between(c, s, Len(ids), 0)
    <3>1. Cardinality(UsedDevices(dev)) + Len(ids) <= MaxDevices
      <4>1. Cardinality(UsedDevices(dev)) \in Nat
        BY UsedFinite
      <4> QED
        BY <1>0, <2>4, <4>1, Bounds
    <3>2. dev \in Devices /\ Cleared(dev) /\ configs = HandedOut(dev)
      BY DEF Sound, Typed, CountInv
    <3> QED
      BY <1>1, <2>4, <3>1, <3>2, ListingEffect
  <2>6. PICK ds, new : ds = s.dev /\ new = IF s.stopped THEN <<>> ELSE s.list
    OBVIOUS
  <2>7. /\ dev' = ds /\ list' = [list EXCEPT ![c] = new]
        /\ ds \in Devices /\ Cleared(ds) /\ configs' = HandedOut(ds)
        /\ WellFormed(table') /\ Named(ds, table')
    BY <2>2, <2>5, <2>6 DEF Between, Kept
  <2>8. new \in Seq(1 .. MaxDevices) /\ Len(new) \in Nat /\ Len(new) <= MaxPlugged
    <3>1. s.list \in Seq(1 .. MaxDevices) /\ Len(s.list) <= Len(ids)
      BY <2>5 DEF Between
    <3>2. Len(s.list) \in Nat /\ Len(s.list) <= MaxPlugged
      BY <2>4, <3>1, ListElements, Bounds
    <3>3. CASE s.stopped
      BY <2>6, <3>3, Bounds
    <3>4. CASE ~s.stopped
      BY <2>6, <3>1, <3>2, <3>4
    <3> QED
      BY <3>3, <3>4
  <2>9. PICK ls : ls = [list EXCEPT ![c] = new]
    OBVIOUS
  <2>10. /\ ls \in [Contexts -> Seq(1 .. MaxDevices)] /\ ls[c] = new /\ list' = ls
         /\ \A d \in Contexts : d # c => ls[d] = list[d]
    BY <2>7, <2>8, <2>9 DEF Sound, Typed
  <2>11. \A d \in Contexts : Len(ls[d]) <= MaxPlugged
    BY <2>8, <2>10 DEF Sound, Typed
  <2>12. \A k \in 1 .. MaxDevices :
           ds[k].refs = Cardinality(Places(ls, k)) + Cardinality(Opens(handle, k))
    <3> SUFFICES ASSUME NEW k \in 1 .. MaxDevices
                 PROVE  ds[k].refs = Cardinality(Places(ls, k)) + Cardinality(Opens(handle, k))
      OBVIOUS
    <3>1. Cardinality(Places(ls, k)) = Cardinality(Places(list, k)) + Occ(new, Len(new), k)
      <4>1. Gains(ls, list, c) /\ ls[c] = new
        BY <1>0, <2>10 DEF Gains
      <4> QED
        BY <2>8, <4>1, PlacesChange
    <3>2. dev[k].refs = Cardinality(Places(list, k)) + Cardinality(Opens(handle, k))
      BY DEF Sound, CountInv
    <3>3. PICK p \in Nat, o \in Nat, q \in Nat :
             p = Cardinality(Places(list, k)) /\ o = Cardinality(Opens(handle, k))
             /\ q = Occ(new, Len(new), k)
      BY <2>8, PlacesFinite, OpensFinite, OccSteps
    <3>4. ds[k].refs = References(s, k, 0)
      BY <2>5, <2>6 DEF Between
    <3>5. (IF s.stopped THEN 0 ELSE Occ(s.list, Len(s.list), k)) = q
      <4>1. CASE s.stopped
        <5>1. new = <<>> /\ Len(new) = 0
          BY <2>6, <4>1
        <5> QED
          BY <3>3, <4>1, <5>1, OccSteps
      <4>2. CASE ~s.stopped
        BY <2>6, <3>3, <4>2
      <4> QED
        BY <4>1, <4>2
    <3>6. References(s, k, 0) = dev[k].refs + q + 0
      BY <3>5, Bounds DEF References
    <3>7. dev[k].refs = p + o /\ Cardinality(Places(ls, k)) = p + q
      BY <3>1, <3>2, <3>3
    <3> QED
      BY <3>3, <3>4, <3>6, <3>7
  <2>13. ASSUME NEW k \in 1 .. MaxDevices
         PROVE  /\ ds[k].refs > 0 =>
                     \/ dev[k].refs > 0 /\ Same(ds[k], dev[k])
                     \/ dev[k].refs = 0 /\ ds[k].ctx = c
                /\ Same(ds[k], dev[k]) \/ ds[k].redir = 0
    <3>1. /\ dev[k].refs > 0 => Same(ds[k], dev[k])
          /\ dev[k].refs = 0 /\ ds[k].refs > 0 => ds[k].ctx = c /\ ds[k].redir = 0
      BY <2>5, <2>6 DEF Between
    <3>2. dev[k].refs \in Nat /\ ds[k].refs \in Nat
      BY <2>7, HeldDevices DEF Devices, Device
    <3>3. ds[k].refs = 0 => ds[k].redir = 0
      BY <2>7 DEF Cleared, NoDevice
    <3> QED
      BY <3>1, <3>2, <3>3
  <2>14. \A i \in 1 .. Len(new) : ds[new[i]].ctx = c
    <3>1. CASE s.stopped
      <4>1. Len(new) = 0
        BY <2>6, <3>1
      <4> QED
        BY <4>1
    <3>2. CASE ~s.stopped
      BY <2>5, <2>6, <3>2 DEF Between
    <3> QED
      BY <3>1, <3>2
  <2>15. OwnerInv' /\ \A h \in Handles : handle[h] # 0 => Same(ds[handle[h]], dev[handle[h]])
    BY <1>0, <2>7, <2>10, <2>11, <2>12, <2>13, <2>14, DevicesCounted
  <2>16. /\ RedirInv' /\ RedirectedWhileOpen' /\ FlightInv' /\ SaidInv'
         /\ TransferHolds' /\ CancelEffective'
    BY <1>0, <1>2, <2>7, <2>13, <2>15, DevicesStay
  <2>17. CountInv'
    BY <1>0, <2>7, <2>10, <2>12 DEF CountInv
  <2>18. Typed'
    BY <1>0, <1>2, <2>7, <2>10, <2>11 DEF Sound, Typed
  <2>19. TableInv' /\ SharedWhileUsed'
    <3>1. table' # NoTable
      BY <2>7, TableIsThere
    <3> QED
      BY <1>0, <2>7, <3>1 DEF Sound, TableInv, SharedWhileUsed
  <2>20. HelperThere'
    BY <2>3 DEF HelperThere
  <2> QED
    BY <2>15, <2>16, <2>17, <2>18, <2>19, <2>20 DEF Sound
<1>5. \/ helper # "loaded" /\ UNCHANGED <<devices, table>>
      \/ \E ids \in SetToSeqs(plugged), bad \in plugged \cup {0}, goes \in Goes :
              /\ (bad = 0) = (goes = "well")
              /\ Fails(bad # 0)
              /\ \E s \in Listing(c, ids, bad, goes) :
                    /\ dev' = s.dev /\ configs' = s.configs /\ table' = s.table
                    /\ list' = [list EXCEPT ![c] = IF s.stopped THEN <<>> ELSE s.list]
                    /\ short' = (short \/ s.stopped)
                    /\ fault' = IF s.stopped THEN "freed twice" ELSE "none"
  BY Zenon DEF GetDeviceList
<1> QED
  BY <1>3, <1>4, <1>5, Zenon

LEMMA StepFreeDeviceList == ASSUME Sound, NEW c \in Contexts, FreeDeviceList(c) PROVE Sound'
<1>0. /\ fault = "none" /\ fault' = "none" /\ list[c] # <<>>
      /\ list' = [list EXCEPT ![c] = <<>>]
      /\ UNCHANGED <<inits, on, helper, table, stuck, missing, leaked, plugged, handle, redirected,
                     xfer, cancelEx, twice, calls>>
  BY DEF FreeDeviceList, shared
<1>1. PICK r : /\ r = UnrefAll([dev |-> dev, configs |-> configs], list[c])
               /\ dev' = r.dev /\ configs' = r.configs
  BY DEF FreeDeviceList
<1>2. PICK s : s = [dev |-> dev, configs |-> configs]
  OBVIOUS
<1>3. Kept(s) /\ s.dev = dev
  BY <1>2 DEF Kept, Sound, Typed, CountInv
<1>4. c \in on /\ list[c] \in Seq(1 .. MaxDevices) /\ Len(list[c]) \in Nat
  BY <1>0, HeldDevices
<1>5. PICK ls : ls = [list EXCEPT ![c] = <<>>]
  OBVIOUS
<1>6. /\ ls \in [Contexts -> Seq(1 .. MaxDevices)] /\ ls[c] = <<>> /\ list' = ls
      /\ list = [ls EXCEPT ![c] = list[c]]
      /\ \A d \in Contexts : d # c => ls[d] = list[d]
  <2>1. list \in [Contexts -> Seq(1 .. MaxDevices)] /\ <<>> \in Seq(1 .. MaxDevices)
    BY DEF Sound, Typed
  <2>2. ls \in [Contexts -> Seq(1 .. MaxDevices)] /\ ls[c] = <<>>
        /\ \A d \in Contexts : d # c => ls[d] = list[d]
    BY <1>5, <2>1
  <2>3. list = [ls EXCEPT ![c] = list[c]]
    BY <2>1, <2>2
  <2> QED
    BY <1>0, <1>5, <2>2, <2>3
<1>7. \A k \in 1 .. MaxDevices :
        Cardinality(Places(list, k)) = Cardinality(Places(ls, k)) + Occ(list[c], Len(list[c]), k)
  <2>1. PICK new : new = list[c]
    OBVIOUS
  <2>2. new \in Seq(1 .. MaxDevices) /\ Len(new) <= MaxPlugged
    BY <1>4, <2>1 DEF Sound, Typed
  <2>3. Gains(list, ls, c)
    BY <1>6 DEF Gains
  <2> QED
    BY <2>1, <2>2, <2>3, PlacesChange
<1>8. ASSUME NEW k \in 1 .. MaxDevices
      PROVE  /\ dev[k].refs - Occ(list[c], Len(list[c]), k)
                  = Cardinality(Places(ls, k)) + Cardinality(Opens(handle, k))
             /\ dev[k].refs >= Occ(list[c], Len(list[c]), k)
             /\ Cardinality(Places(ls, k)) + Cardinality(Opens(handle, k)) \in Nat
             /\ Cardinality(Places(ls, k)) + Cardinality(Opens(handle, k)) <= dev[k].refs
  <2>1. dev[k].refs = Cardinality(Places(list, k)) + Cardinality(Opens(handle, k))
    BY DEF Sound, CountInv
  <2>2. PICK p \in Nat, o \in Nat, q \in Nat :
           p = Cardinality(Places(ls, k)) /\ o = Cardinality(Opens(handle, k))
           /\ q = Occ(list[c], Len(list[c]), k)
    BY <1>4, PlacesFinite, OpensFinite, OccSteps
  <2>3. dev[k].refs = p + q + o
    BY <1>7, <2>1, <2>2
  <2> QED
    BY <2>2, <2>3
<1>9. /\ Kept(r)
      /\ \A k \in 1 .. MaxDevices :
           /\ r.dev[k].refs = dev[k].refs - Occ(list[c], Len(list[c]), k)
           /\ r.dev[k].refs > 0 => Same(r.dev[k], dev[k])
  <2>1. r = UnrefAll(s, list[c])
    BY <1>1, <1>2
  <2>2. \A k \in 1 .. MaxDevices : s.dev[k].refs >= Occ(list[c], Len(list[c]), k)
    BY <1>3, <1>8
  <2> QED
    BY <1>3, <1>4, <2>1, <2>2, UnrefAllEffect
<1>10. PICK ds : ds = r.dev
  OBVIOUS
<1>11. /\ dev' = ds /\ ds \in Devices /\ Cleared(ds) /\ configs' = HandedOut(ds)
       /\ \A k \in 1 .. MaxDevices :
            ds[k].refs = Cardinality(Places(ls, k)) + Cardinality(Opens(handle, k))
  <2>1. /\ dev' = ds /\ ds \in Devices /\ Cleared(ds) /\ configs' = HandedOut(ds)
    BY <1>1, <1>9, <1>10 DEF Kept
  <2> QED
    BY <1>8, <1>9, <1>10, <2>1
<1>12. ASSUME NEW k \in 1 .. MaxDevices
       PROVE  /\ ds[k].refs > 0 => dev[k].refs > 0 /\ Same(ds[k], dev[k])
              /\ Same(ds[k], dev[k]) \/ ds[k].redir = 0
  <2>1. ds[k].refs \in Nat /\ dev[k].refs \in Nat
    BY <1>11, HeldDevices DEF Devices, Device
  <2>2. ds[k].refs <= dev[k].refs
    BY <1>8, <1>11
  <2>3. ds[k].refs > 0 => Same(ds[k], dev[k])
    BY <1>9, <1>10
  <2>4. ds[k].refs = 0 => ds[k].redir = 0
    BY <1>11 DEF Cleared, NoDevice
  <2> QED
    BY <2>1, <2>2, <2>3, <2>4
<1>13. \A d \in Contexts : Len(ls[d]) <= MaxPlugged
  <2>1. Len(<<>>) = 0
    OBVIOUS
  <2>2. \A d \in Contexts : Len(list[d]) <= MaxPlugged
    BY DEF Sound, Typed
  <2> QED
    <3>1. ASSUME NEW d \in Contexts PROVE Len(ls[d]) <= MaxPlugged
      <4>1. CASE d = c
        BY <1>6, <2>1, <4>1, Bounds
      <4>2. CASE d # c
        BY <1>6, <2>2, <4>2
      <4> QED
        BY <4>1, <4>2
    <3> QED
      BY <3>1
<1>14. OwnerInv' /\ \A h \in Handles : handle[h] # 0 => Same(ds[handle[h]], dev[handle[h]])
  <2>1. \A i \in 1 .. Len(ls[c]) : ds[ls[c][i]].ctx = c
    BY <1>6
  <2> QED
    BY <1>0, <1>4, <1>6, <1>11, <1>12, <1>13, <2>1, DevicesCounted
<1>15. calls' \in Nat /\ calls <= calls'
  BY <1>0 DEF Sound, Typed
<1>16. /\ RedirInv' /\ RedirectedWhileOpen' /\ FlightInv' /\ SaidInv'
       /\ TransferHolds' /\ CancelEffective'
  BY <1>0, <1>11, <1>12, <1>14, <1>15, DevicesStay
<1>17. CountInv'
  BY <1>0, <1>6, <1>11 DEF CountInv
<1>18. Typed'
  BY <1>0, <1>6, <1>11, <1>13 DEF Sound, Typed
<1>19. TableInv'
  <2>1. Fewer(ds, dev)
    BY <1>12 DEF Fewer
  <2>2. Extends(table, table)
    BY DEF Extends
  <2>3. Named(dev, table)
    BY DEF Sound, TableInv
  <2>4. Named(ds, table)
    BY <2>1, <2>2, <2>3, NamedStays
  <2> QED
    BY <1>0, <1>11, <2>4 DEF Sound, TableInv
<1>20. SharedWhileUsed' /\ HelperThere'
  BY <1>0 DEF Sound, SharedWhileUsed, HelperThere
<1> QED
  BY <1>14, <1>16, <1>17, <1>18, <1>19, <1>20 DEF Sound

-----------------------------------------------------------------------------
(* Transfers keep the invariant                                            *)

\* What the invariant says of one transfer
TransferGood(x) ==
    /\ Record(x)
    /\ x.st \in {"flying", "ended"} => x.h \in Handles /\ handle[x.h] # 0
    /\ x.st = "flying" =>
         \/ x.redir = dev[handle[x.h]].redir /\ x.system = dev[handle[x.h]].system
         \/ dev[handle[x.h]].of \in twice
    /\ x.st = "idle" /\ x.said # "none" => x.status = Status(x.result)
    /\ cancelEx /\ x.kind # "control" =>
         /\ x.said = "ok" => x.st # "flying"
         /\ x.st \in {"ended", "idle"} => (x.said = "ok" <=> x.result = "canceled")
    /\ x.fds = IF x.st = "idle" THEN 0 ELSE 1
    /\ x.arrays <=> x.st # "idle" /\ x.kind = "iso"
    /\ x.said # "none" /\ x.kind # "control" =>
         /\ x.st = "flying" => dev[handle[x.h]].of \in twice
         /\ cancelEx /\ x.st = "idle" => (x.said = "ok" <=> x.status = "cancelled")
                                           \/ x.result = "aborted"

LEMMA TransfersGood == ASSUME Sound PROVE \A t \in Transfers : TransferGood(xfer[t])
<1> SUFFICES ASSUME NEW t \in Transfers PROVE TransferGood(xfer[t])
  OBVIOUS
<1>1. Record(xfer[t])
  BY DEF Sound, Typed
<1> QED
  BY <1>1 DEF Sound, FlightInv, SaidInv, TransferHolds, CancelEffective, TransferGood

LEMMA TransfersOnly ==
    ASSUME Sound, calls' \in Nat, calls <= calls', calls' <= MaxCalls,
           UNCHANGED <<shared, plugged, devices, handle, redirected, cancelEx, fault, failures, twice>>,
           fault = "none", xfer' = [t \in Transfers |-> xfer'[t]],
           \A t \in Transfers : TransferGood(xfer'[t])
    PROVE  Sound'
<1>0. UNCHANGED <<inits, on, helper, table, stuck, missing, leaked, plugged, dev, list, configs,
                  handle, redirected, cancelEx, fault, twice>>
  BY DEF shared, devices
<1>1. \A t \in Transfers : Record(xfer'[t])
  BY DEF TransferGood
<1>2. Typed'
  BY <1>0, <1>1 DEF Sound, Typed
<1>3. SharedWhileUsed' /\ HelperThere' /\ TableInv' /\ CountInv' /\ OwnerInv' /\ RedirectedWhileOpen'
  BY <1>0 DEF Sound, SharedWhileUsed, HelperThere, TableInv, CountInv, OwnerInv,
              RedirectedWhileOpen, Live
<1>4. RedirInv'
  <2>1. calls \in Nat /\ \A k \in 1 .. MaxDevices : dev[k].redir \in Int
    BY HeldDevices DEF Sound, Typed
  <2>2. (\A x \in redirected : x.n <= calls) /\ \A x \in redirected : x.n \in Nat
    BY DEF Sound, RedirInv, Typed
  <2>3. \A k \in 1 .. MaxDevices : dev[k].redir <= calls
    BY DEF Sound, RedirInv
  <2>4. (\A x \in redirected : x.n <= calls') /\ \A k \in 1 .. MaxDevices : dev[k].redir <= calls'
    BY <2>1, <2>2, <2>3
  <2> QED
    BY <1>0, <2>4 DEF Sound, RedirInv
<1>5. FlightInv' /\ SaidInv' /\ TransferHolds' /\ CancelEffective'
  BY <1>0 DEF TransferGood, FlightInv, SaidInv, TransferHolds, CancelEffective
<1> QED
  BY <1>2, <1>3, <1>4, <1>5 DEF Sound

LEMMA StatusOf ==
    ASSUME NEW r \in Results \cup {"none"}
    PROVE  Status(r) = "cancelled" <=> r \in {"canceled", "aborted"}
<1>1. CASE r \in {"canceled", "aborted"}
  BY <1>1, Zenon DEF Status
<1>2. CASE r \notin {"canceled", "aborted"}
  <2>1. CASE r = "ok"
    BY <2>1, <1>2, Zenon DEF Status
  <2>2. CASE r = "timeout"
    BY <2>2, <1>2, Zenon DEF Status
  <2>3. CASE r = "gone"
    BY <2>3, <1>2, Zenon DEF Status
  <2>4. CASE r = "stall"
    BY <2>4, <1>2, Zenon DEF Status
  <2>5. CASE r \notin {"ok", "timeout", "gone", "stall"}
    BY <2>5, <1>2, Zenon DEF Status
  <2> QED
    BY <2>1, <2>2, <2>3, <2>4, <2>5
<1> QED
  BY <1>1, <1>2

LEMMA StepDriverEnds == ASSUME Sound, NEW t \in Transfers, DriverEnds(t) PROVE Sound'
<1>0. /\ fault = "none" /\ xfer[t].st = "flying" /\ calls' = calls
      /\ UNCHANGED <<shared, plugged, devices, handle, redirected, cancelEx, fault, failures, twice>>
  BY DEF DriverEnds
<1>1. PICK r \in Endings : xfer' = [xfer EXCEPT ![t] = Ended(@, r)]
  BY DEF DriverEnds
<1>2. r \in Results \ {"canceled", "aborted"}
  BY UsbdkAssumption DEF UsbdkAssumption
<1>3. PICK x : x = xfer[t]
  OBVIOUS
<1>4. TransferGood(x) /\ Record(x) /\ x.st = "flying"
  BY <1>0, <1>3, TransfersGood DEF TransferGood
<1>5. PICK y : y = [x EXCEPT !.st = "ended", !.result = r]
  OBVIOUS
<1>6. /\ Record(y) /\ y.st = "ended" /\ y.result = r /\ y.h = x.h /\ y.kind = x.kind
      /\ y.arrays = x.arrays /\ y.fds = x.fds /\ y.said = x.said /\ y.status = x.status
  BY <1>2, <1>4, <1>5 DEF Record
<1>7. TransferGood(y)
  BY <1>2, <1>4, <1>6 DEF TransferGood
<1>8. xfer' = [xfer EXCEPT ![t] = y]
  BY <1>1, <1>3, <1>5 DEF Ended
<1>9. xfer' = [u \in Transfers |-> xfer'[u]] /\ \A u \in Transfers : TransferGood(xfer'[u])
  <2>1. xfer = [u \in Transfers |-> xfer[u]]
    BY DEF Sound, Typed
  <2> QED
    BY <1>7, <1>8, <2>1, TransfersGood
<1>10. calls' \in Nat /\ calls <= calls' /\ calls' <= MaxCalls
  BY <1>0 DEF Sound, Typed
<1> QED
  BY <1>0, <1>9, <1>10, TransfersOnly

LEMMA StepHandle == ASSUME Sound, NEW t \in Transfers, Handle(t) PROVE Sound'
<1>0. /\ fault = "none" /\ xfer[t].st = "ended" /\ calls' = calls
      /\ xfer' = [xfer EXCEPT ![t] = [xfer[t] EXCEPT !.st = "idle", !.fds = xfer[t].fds - 1, !.arrays = FALSE,
                                                     !.status = Status(xfer[t].result)]]
      /\ UNCHANGED <<shared, plugged, devices, handle, redirected, cancelEx, fault, failures, twice>>
  <2>1. xfer' = [xfer EXCEPT ![t] = [xfer[t] EXCEPT !.st = "idle", !.fds = xfer[t].fds - 1,
                                                    !.arrays = FALSE,
                                                    !.status = Status(xfer[t].result)]]
    BY Zenon DEF Handle
  <2> QED
    BY <2>1 DEF Handle
<1>3. PICK x : x = xfer[t]
  OBVIOUS
<1>4. TransferGood(x) /\ Record(x) /\ x.st = "ended"
  BY <1>0, <1>3, TransfersGood DEF TransferGood
<1>2. PICK status : status = Status(x.result) /\
                               (status = "cancelled" <=> x.result \in {"canceled", "aborted"})
  <2>1. x.result \in Results \cup {"none"}
    BY <1>4 DEF Record
  <2> QED
    BY <2>1, StatusOf
<1>5. PICK y : y = [xfer[t] EXCEPT !.st = "idle", !.fds = xfer[t].fds - 1, !.arrays = FALSE,
                                   !.status = Status(xfer[t].result)]
  OBVIOUS
<1>6. /\ Record(y) /\ y.st = "idle" /\ y.result = x.result /\ y.kind = x.kind
      /\ ~y.arrays /\ y.fds = 0 /\ y.said = x.said /\ y.status = status
  <2>1. x.fds = 1
    BY <1>4 DEF TransferGood
  <2>2. x.fds - 1 = 0
    BY <2>1
  <2>3. DOMAIN x = {"st", "kind", "h", "redir", "system", "arrays", "fds", "result",
                    "status", "said"}
    BY <1>4 DEF Record
  <2>4. /\ DOMAIN y = DOMAIN x /\ y = [f \in DOMAIN y |-> y[f]]
        /\ y.st = "idle" /\ y.result = x.result /\ y.kind = x.kind
        /\ y.arrays = FALSE /\ y.fds = x.fds - 1 /\ y.said = x.said
        /\ y.status = Status(x.result)
    BY <1>3, <1>5, <2>3
  <2>5. y.fds = 0 /\ y.status = status
    BY <1>2, <2>2, <2>4
  <2>6. y.st \in {"idle", "flying", "ended", "dropped"} /\ y.fds \in Nat
        /\ y.result \in Results \cup {"none"}
    BY <1>4, <2>4, <2>5 DEF Record
  <2> QED
    BY <2>3, <2>4, <2>5, <2>6 DEF Record
<1>7. TransferGood(y)
  <2>1. /\ y.fds = IF y.st = "idle" THEN 0 ELSE 1
        /\ y.arrays <=> y.st # "idle" /\ y.kind = "iso"
        /\ y.status = Status(y.result)
    BY <1>2, <1>6
  <2>2. cancelEx /\ y.kind # "control" => (y.said = "ok" <=> y.result = "canceled")
    BY <1>4, <1>6 DEF TransferGood
  <2>3. cancelEx /\ y.kind # "control" =>
           (y.said = "ok" <=> y.status = "cancelled") \/ y.result = "aborted"
    BY <1>2, <1>6, <2>2
  <2> QED
    BY <1>6, <2>1, <2>2, <2>3 DEF TransferGood
<1>8. xfer' = [xfer EXCEPT ![t] = y]
  BY <1>0, <1>5, Zenon
<1>9. xfer' = [u \in Transfers |-> xfer'[u]] /\ \A u \in Transfers : TransferGood(xfer'[u])
  <2>1. xfer = [u \in Transfers |-> xfer[u]]
    BY DEF Sound, Typed
  <2> QED
    BY <1>7, <1>8, <2>1, TransfersGood
<1>10. calls' \in Nat /\ calls <= calls' /\ calls' <= MaxCalls
  BY <1>0 DEF Sound, Typed
<1> QED
  BY <1>0, <1>9, <1>10, TransfersOnly

LEMMA StepSubmit == ASSUME Sound, NEW t \in Transfers, Submit(t) PROVE Sound'
<1>0. /\ Call /\ fault = "none" /\ xfer[t].st = "idle"
      /\ UNCHANGED <<shared, plugged, devices, handle, redirected, cancelEx, fault, failures, twice>>
  BY DEF Submit, Call
<1>1. PICK h \in Handles, kind \in {"control", "bulk", "iso"} :
        /\ handle[h] # 0
        /\ LET d == dev[handle[h]]
               polled == [NewTransfer EXCEPT !.fds = xfer[t].fds + 1]
           IN  \E how \in Driven(d.redir) :
                xfer' = [xfer EXCEPT ![t] =
                   IF how = "fails" THEN GaveUp(polled)
                   ELSE [polled EXCEPT !.st = IF how = "now" THEN "ended" ELSE "flying",
                                       !.kind = kind, !.h = h, !.redir = d.redir,
                                       !.system = d.system, !.arrays = (kind = "iso"),
                                       !.result = IF how = "now" THEN "ok" ELSE "none"]]
  BY DEF Submit
<1>2. PICK polled, d : polled = [NewTransfer EXCEPT !.fds = xfer[t].fds + 1] /\ d = dev[handle[h]]
  OBVIOUS
<1>3. PICK how : xfer' = [xfer EXCEPT ![t] =
                   IF how = "fails" THEN GaveUp(polled)
                   ELSE [polled EXCEPT !.st = IF how = "now" THEN "ended" ELSE "flying",
                                       !.kind = kind, !.h = h, !.redir = d.redir,
                                       !.system = d.system, !.arrays = (kind = "iso"),
                                       !.result = IF how = "now" THEN "ok" ELSE "none"]]
  BY <1>1, <1>2
<1>4. xfer[t].fds = 0
  BY <1>0, TransfersGood DEF TransferGood
<1>5. /\ DOMAIN polled = {"st", "kind", "h", "redir", "system", "arrays", "fds", "result",
                          "status", "said"}
      /\ polled = [f \in DOMAIN polled |-> polled[f]]
      /\ polled.st = "idle" /\ polled.kind = "none" /\ polled.arrays = FALSE /\ polled.fds = 1
      /\ polled.result = "none" /\ polled.said = "none" /\ polled.status = "none"
  <2>1. polled = [NewTransfer EXCEPT !.fds = 1]
    BY <1>2, <1>4
  <2> QED
    BY <2>1 DEF NewTransfer
<1>6. d.redir \in Int /\ d.system \in Int
  <2>1. handle[h] \in 1 .. MaxDevices
    BY <1>1, HeldDevices
  <2> QED
    BY <1>2, <2>1 DEF Sound, Typed, Devices, Device
<1>7. PICK iso \in BOOLEAN : iso <=> kind = "iso"
  OBVIOUS
<1>8. PICK y : y = IF how = "fails" THEN GaveUp(polled)
                   ELSE [polled EXCEPT !.st = IF how = "now" THEN "ended" ELSE "flying",
                                       !.kind = kind, !.h = h, !.redir = d.redir,
                                       !.system = d.system, !.arrays = (kind = "iso"),
                                       !.result = IF how = "now" THEN "ok" ELSE "none"]
  OBVIOUS
<1>9. TransferGood(y)
  <2>1. CASE how = "fails"
    <3>1. y = [polled EXCEPT !.fds = @ - 1]
      BY <1>8, <2>1 DEF GaveUp
    <3>2. /\ DOMAIN y = DOMAIN polled /\ y = [f \in DOMAIN y |-> y[f]]
          /\ y.st = "idle" /\ y.kind = "none" /\ y.arrays = FALSE /\ y.fds = polled.fds - 1
          /\ y.result = "none" /\ y.said = "none"
      BY <1>5, <3>1
    <3>2a. y.fds = 0
      BY <1>5, <3>2
    <3>3. Record(y)
      BY <1>5, <3>2, <3>2a DEF Record
    <3>4. y.st = "idle" /\ y.kind = "none" /\ ~y.arrays /\ y.fds = 0 /\ y.result = "none" /\ y.said = "none"
      BY <3>2, <3>2a
    <3> QED
      BY <3>3, <3>4 DEF TransferGood
  <2>2. CASE how # "fails"
    <3>1. /\ DOMAIN y = DOMAIN polled /\ y = [f \in DOMAIN y |-> y[f]]
          /\ y.st = (IF how = "now" THEN "ended" ELSE "flying") /\ y.kind = kind /\ y.h = h
          /\ y.redir = d.redir /\ y.system = d.system /\ y.arrays = (kind = "iso")
          /\ y.result = (IF how = "now" THEN "ok" ELSE "none")
          /\ y.fds = 1 /\ y.said = "none" /\ y.status = "none"
      BY <1>5, <1>8, <2>2
    <3>2. DOMAIN y = {"st", "kind", "h", "redir", "system", "arrays", "fds", "result", "status", "said"}
      BY <1>5, <3>1
    <3>3. y.arrays \in BOOLEAN /\ (y.arrays <=> kind = "iso")
      BY <3>1
    <3>4. y.st \in {"ended", "flying"} /\ y.result \in {"ok", "none"}
      BY <3>1
    <3>5. Record(y)
      <4>1. y.result \in Results \cup {"none"}
        BY <3>4 DEF Results
      <4> QED
        BY <3>1, <3>2, <3>4, <4>1 DEF Record
    <3> QED
      BY <1>1, <1>2, <3>1, <3>3, <3>4, <3>5 DEF TransferGood
  <2> QED
    BY <2>1, <2>2
<1>10. xfer' = [xfer EXCEPT ![t] = y]
  BY <1>3, <1>8
<1>11. xfer' = [u \in Transfers |-> xfer'[u]] /\ \A u \in Transfers : TransferGood(xfer'[u])
  <2>1. xfer = [u \in Transfers |-> xfer[u]]
    BY DEF Sound, Typed
  <2> QED
    BY <1>9, <1>10, <2>1, TransfersGood
<1>12. calls' \in Nat /\ calls <= calls' /\ calls' <= MaxCalls
  BY <1>0, CallCounts
<1> QED
  BY <1>0, <1>11, <1>12, TransfersOnly

\* A transfer the driver has ended for a cancellation: of another transfer of
\* its pipe, or of its own, which is told so
LEMMA CancelledGood ==
    ASSUME NEW x, TransferGood(x), x.st = "flying", ~cancelEx, NEW y, y = Ended(x, "canceled")
    PROVE  TransferGood(y)
<1>1. /\ DOMAIN y = DOMAIN x /\ y = [f \in DOMAIN y |-> y[f]]
      /\ y.st = "ended" /\ y.result = "canceled" /\ y.h = x.h /\ y.kind = x.kind
      /\ y.arrays = x.arrays /\ y.fds = x.fds /\ y.said = x.said
  BY DEF TransferGood, Record, Ended
<1>2. "canceled" \in Results
  BY DEF Results
<1>3. Record(y)
  BY <1>1, <1>2 DEF TransferGood, Record
<1> QED
  BY <1>1, <1>3 DEF TransferGood

LEMMA CancelledToldGood ==
    ASSUME NEW x, TransferGood(x), x.st = "flying",
           NEW y, y = [Ended(x, "canceled") EXCEPT !.said = "ok"]
    PROVE  TransferGood(y)
<1>1. /\ DOMAIN y = DOMAIN x /\ y = [f \in DOMAIN y |-> y[f]]
      /\ y.st = "ended" /\ y.result = "canceled" /\ y.h = x.h /\ y.kind = x.kind
      /\ y.arrays = x.arrays /\ y.fds = x.fds /\ y.said = "ok"
  BY DEF TransferGood, Record, Ended
<1>2. "canceled" \in Results
  BY DEF Results
<1>3. Record(y)
  BY <1>1, <1>2 DEF TransferGood, Record
<1> QED
  BY <1>1, <1>3 DEF TransferGood

\* A transfer that is told something, and stays where it is
LEMMA ToldGood ==
    ASSUME NEW x, TransferGood(x), x.st \in {"flying", "ended"}, x.said = "none",
           NEW w, x.kind = "control" \/ w # "ok" \/ ~cancelEx,
           x.kind # "control" /\ x.st = "flying" => dev[handle[x.h]].of \in twice,
           NEW y, y = [x EXCEPT !.said = w]
    PROVE  TransferGood(y)
<1>1. /\ DOMAIN y = DOMAIN x /\ y = [f \in DOMAIN y |-> y[f]]
      /\ y.st = x.st /\ y.result = x.result /\ y.h = x.h /\ y.kind = x.kind
      /\ y.redir = x.redir /\ y.system = x.system
      /\ y.arrays = x.arrays /\ y.fds = x.fds /\ y.said = w
  BY DEF TransferGood, Record
<1>2. Record(y)
  BY <1>1 DEF TransferGood, Record
<1>3. y.st # "idle"
  BY <1>1
<1>4. cancelEx /\ y.kind # "control" => w # "ok"
  BY <1>1
<1>5. cancelEx /\ y.kind # "control" /\ y.st = "ended" => (y.said = "ok" <=> y.result = "canceled")
  BY <1>1, <1>4 DEF TransferGood
<1> QED
  BY <1>1, <1>2, <1>3, <1>4, <1>5 DEF TransferGood

LEMMA StepCancel == ASSUME Sound, NEW t \in Transfers, Cancel(t) PROVE Sound'
<1>0. /\ Call /\ fault = "none" /\ xfer[t].st \in {"flying", "ended"} /\ xfer[t].said = "none"
      /\ UNCHANGED <<shared, plugged, devices, handle, redirected, cancelEx, fault, failures, twice>>
  BY DEF Cancel, Call
<1>1. PICK k : k = handle[xfer[t].h]
  OBVIOUS
<1>2. k # 0 /\ xfer[t].h \in Handles
  BY <1>0, <1>1, TransfersGood DEF TransferGood
<1>3. Live(dev[k].redir) \/ dev[k].of \in twice
  BY <1>1, <1>2 DEF Sound, RedirectedWhileOpen
<1>4. PICK told : told = "no device"
  OBVIOUS
<1>5. told # "ok"
  BY <1>4, Zenon
<1>6. \/ xfer[t].kind = "control" /\ xfer' = Said({}, t, "ok")
      \/ xfer[t].kind # "control" /\ cancelEx /\ Hits(t) /\ xfer' = Said({t}, t, "ok")
      \/ xfer[t].kind # "control" /\ cancelEx /\ ~Hits(t) /\ xfer' = Said({}, t, told)
      \/ xfer[t].kind # "control" /\ ~cancelEx /\ Live(dev[k].redir) /\ xfer' = Said(OnPipe(t), t, "ok")
      \/ xfer[t].kind # "control" /\ ~cancelEx /\ ~Live(dev[k].redir) /\ xfer' = Said({}, t, told)
  BY <1>1, <1>4, Zenon DEF Cancel, Cancels
<1>7. \A u \in Transfers : TransferGood(xfer[u])
  BY TransfersGood
<1>8. calls' \in Nat /\ calls <= calls' /\ calls' <= MaxCalls
  BY <1>0, CallCounts
<1>9. ASSUME NEW ts, NEW w, xfer' = Said(ts, t, w),
             \A u \in Transfers : u \in ts => xfer[u].st = "flying" /\ (u # t => ~cancelEx),
             t \in ts => w = "ok",
             t \notin ts => /\ xfer[t].kind = "control" \/ w # "ok" \/ ~cancelEx
                            /\ xfer[t].kind # "control" /\ xfer[t].st = "flying"
                                 => dev[k].of \in twice
      PROVE  Sound'
  <2>1. xfer' = [u \in Transfers |-> xfer'[u]]
    BY <1>9 DEF Said
  <2>2. ASSUME NEW u \in Transfers PROVE TransferGood(xfer'[u])
    <3>1. PICK x : x = xfer[u]
      OBVIOUS
    <3>2. TransferGood(x)
      BY <1>7, <3>1
    <3>3. CASE u # t /\ u \in ts
      <4>1. xfer'[u] = Ended(x, "canceled")
        BY <1>9, <3>1, <3>3 DEF Said
      <4>2. x.st = "flying" /\ ~cancelEx
        BY <1>9, <3>1, <3>3
      <4> QED
        BY <3>2, <4>1, <4>2, CancelledGood
    <3>4. CASE u # t /\ u \notin ts
      <4>1. xfer'[u] = x
        BY <1>9, <3>1, <3>4 DEF Said
      <4> QED
        BY <3>2, <4>1
    <3>5. CASE u = t /\ u \in ts
      <4>1. xfer'[u] = [Ended(x, "canceled") EXCEPT !.said = "ok"]
        BY <1>9, <3>1, <3>5 DEF Said
      <4>2. x.st = "flying"
        BY <1>9, <3>1, <3>5
      <4> QED
        BY <3>2, <4>1, <4>2, CancelledToldGood
    <3>6. CASE u = t /\ u \notin ts
      <4>1. xfer'[u] = [x EXCEPT !.said = w]
        BY <1>9, <3>1, <3>6 DEF Said
      <4>2. /\ x.kind = "control" \/ w # "ok" \/ ~cancelEx
            /\ x.kind # "control" /\ x.st = "flying" => dev[handle[x.h]].of \in twice
            /\ x.st \in {"flying", "ended"} /\ x.said = "none"
        BY <1>0, <1>1, <1>9, <3>1, <3>6
      <4> QED
        BY <3>2, <4>1, <4>2, ToldGood
    <3> QED
      BY <3>3, <3>4, <3>5, <3>6
  <2> QED
    BY <1>0, <1>8, <2>1, <2>2, TransfersOnly
<1>10. xfer[t].st = "flying" =>
         \/ xfer[t].redir = dev[k].redir /\ xfer[t].system = dev[k].system
         \/ dev[k].of \in twice
  BY <1>1, <1>7 DEF TransferGood
<1>11. CASE xfer[t].kind = "control" /\ xfer' = Said({}, t, "ok")
  BY <1>9, <1>11
<1>12. CASE xfer[t].kind # "control" /\ cancelEx /\ Hits(t) /\ xfer' = Said({t}, t, "ok")
  <2>1. xfer[t].st = "flying"
    BY <1>12 DEF Hits
  <2> QED
    BY <1>9, <1>12, <2>1
<1>13. CASE xfer[t].kind # "control" /\ cancelEx /\ ~Hits(t) /\ xfer' = Said({}, t, told)
  <2>1. xfer[t].st = "flying" => dev[k].of \in twice
    BY <1>1, <1>10, <1>13 DEF Hits
  <2> QED
    BY <1>5, <1>9, <1>13, <2>1
<1>14. CASE xfer[t].kind # "control" /\ ~cancelEx /\ xfer' = Said(OnPipe(t), t, "ok")
  <2>1. \A u \in Transfers : u \in OnPipe(t) => xfer[u].st = "flying"
    BY DEF OnPipe
  <2>2. t \notin OnPipe(t) /\ xfer[t].st = "flying" => dev[k].of \in twice
    BY <1>1, <1>10 DEF OnPipe
  <2>3. PICK ts : ts = OnPipe(t)
    OBVIOUS
  <2> QED
    BY <1>9, <1>14, <2>1, <2>2, <2>3
<1>15. CASE xfer[t].kind # "control" /\ ~cancelEx /\ ~Live(dev[k].redir) /\ xfer' = Said({}, t, told)
  BY <1>3, <1>5, <1>9, <1>15
<1> QED
  BY <1>6, <1>11, <1>12, <1>13, <1>14, <1>15

-----------------------------------------------------------------------------
(* Opening keeps the invariant                                             *)

\* What the invariant says of transfers, of the next state
LEMMA TransfersBack ==
    ASSUME (\A t \in Transfers : TransferGood(xfer[t]))'
    PROVE  FlightInv' /\ SaidInv' /\ TransferHolds' /\ CancelEffective'
  BY DEF TransferGood, FlightInv, SaidInv, TransferHolds, CancelEffective

\* libusb_open of device k, with handle h or without, changes its references and
\* its redirection only; if another handle was open on it, it counts as opened twice.
LEMMA OpenKeeps ==
    ASSUME Sound, NEW h \in Handles, handle[h] = 0, NEW k \in 1 .. MaxDevices, dev[k].refs > 0,
           dev' \in Devices, \A j \in 1 .. MaxDevices : j # k => dev'[j] = dev[j],
           dev'[k].of = dev[k].of, dev'[k].ctx = dev[k].ctx, dev'[k].session = dev[k].session,
           \/ handle' = [handle EXCEPT ![h] = k] /\ dev'[k].refs = dev[k].refs + 1
           \/ handle' = handle /\ dev'[k].refs = dev[k].refs,
           UNCHANGED <<inits, on, helper, table, stuck, missing, leaked, plugged, list, configs,
                       xfer, cancelEx>>,
           twice \subseteq twice', (\E g \in Handles : handle[g] = k) => dev[k].of \in twice'
    PROVE  /\ CountInv' /\ OwnerInv' /\ TableInv' /\ FlightInv' /\ SaidInv'
           /\ TransferHolds' /\ CancelEffective'
           /\ \A f \in Handles : handle[f] # 0 => handle'[f] = handle[f]
           /\ \A f \in Handles : handle'[f] # handle[f] => f = h /\ handle'[f] = k
           /\ handle' \in [Handles -> 0 .. MaxDevices]
           /\ \A f, g \in Handles : handle'[g] # 0 /\ handle'[f] = handle'[g] /\ f # g
                                     => dev'[handle'[g]].of \in twice'
           /\ \A j \in 1 .. MaxDevices : dev'[j].of = dev[j].of
<1>0. /\ dev \in Devices /\ Cleared(dev) /\ configs = HandedOut(dev)
      /\ handle \in [Handles -> 0 .. MaxDevices]
      /\ \A j \in 1 .. MaxDevices : dev[j].refs \in Nat /\ dev'[j].refs \in Nat
  <2>1. \A j \in 1 .. MaxDevices : dev'[j].refs \in Nat
    BY DEF Devices, Device
  <2> QED
    BY <2>1, HeldDevices DEF Sound, Typed, CountInv
<1>1. /\ \A f \in Handles : handle[f] # 0 => handle'[f] = handle[f]
      /\ \A f \in Handles : handle'[f] # handle[f] => f = h /\ handle'[f] = k
      /\ handle' \in [Handles -> 0 .. MaxDevices]
  BY <1>0, Bounds
<1>2. dev'[k].refs > 0 /\ \A j \in 1 .. MaxDevices : dev'[j].of = dev[j].of
  BY <1>0
<1>3. Cleared(dev')
  <2>1. dev[k].of \in Strings /\ dev[k].ctx \in Contexts
    BY <1>0 DEF Cleared
  <2> QED
    BY <1>0, <1>2, <2>1 DEF Cleared
<1>4. configs' = HandedOut(dev')
  <2>1. Share(dev'[k]) = Share(dev[k])
    BY <1>2 DEF Share
  <2>2. /\ HandedOut(dev) \in Nat
        /\ HandedOut(dev') = HandedOut(dev) - Share(dev[k]) + Share(dev'[k])
    <3>1. \A j \in 1 .. MaxDevices : j # k => Share(dev'[j]) = Share(dev[j])
      OBVIOUS
    <3> QED
      BY <1>0, <1>3, <3>1, HandedOutChange
  <2>3. Share(dev[k]) \in Nat
    BY <1>0, ShareType
  <2> QED
    BY <1>0, <2>1, <2>2, <2>3
<1>5. CountInv'
  <2>1. ASSUME NEW j \in 1 .. MaxDevices
        PROVE  dev'[j].refs = Cardinality(Places(list, j)) + Cardinality(Opens(handle', j))
    <3>1. dev[j].refs = Cardinality(Places(list, j)) + Cardinality(Opens(handle, j))
      BY DEF Sound, CountInv
    <3>2. PICK p \in Nat, o \in Nat : p = Cardinality(Places(list, j)) /\ o = Cardinality(Opens(handle, j))
      BY PlacesFinite, OpensFinite
    <3>3. CASE handle' = [handle EXCEPT ![h] = k] /\ dev'[k].refs = dev[k].refs + 1
      <4>1. PICK gs : gs = handle'
        OBVIOUS
      <4>2. Cardinality(Opens(gs, j)) = Cardinality(Opens(handle, j)) + (IF j = k THEN 1 ELSE 0)
        <5>1. PICK hs : hs = handle
          OBVIOUS
        <5>2. Puts(gs, hs, h, k) /\ hs \in [Handles -> 0 .. MaxDevices] /\ hs[h] = 0
          BY <1>0, <3>3, <4>1, <5>1 DEF Puts
        <5>3. Cardinality(Opens(gs, j)) = Cardinality(Opens(hs, j)) + (IF j = k THEN 1 ELSE 0)
          BY <5>2, OpensChange
        <5> QED
          BY <5>1, <5>3
      <4>3. dev'[j].refs = dev[j].refs + (IF j = k THEN 1 ELSE 0)
        BY <1>0, <3>3
      <4> QED
        BY <3>1, <3>2, <4>1, <4>2, <4>3
    <3>4. CASE handle' = handle /\ dev'[k].refs = dev[k].refs
      BY <3>1, <3>4
    <3> QED
      BY <3>3, <3>4
  <2> QED
    BY <1>3, <1>4, <2>1 DEF CountInv
<1>6. OwnerInv'
  <2>1. \A j \in 1 .. MaxDevices : (dev'[j].refs > 0 => dev[j].refs > 0) /\ dev'[j].ctx = dev[j].ctx
    OBVIOUS
  <2>2. \A c \in Contexts : \A i \in 1 .. Len(list[c]) : list[c][i] \in 1 .. MaxDevices
    BY HeldDevices
  <2> QED
    BY <2>1, <2>2 DEF Sound, OwnerInv
<1>7. TableInv'
  <2>1. Named(dev, table) /\ (table = NoTable \/ WellFormed(table)) /\ leaked \subseteq {HtabSize}
    BY DEF Sound, TableInv
  <2>2. PICK ds : ds = dev'
    OBVIOUS
  <2>3. \A j \in 1 .. MaxDevices : /\ ds[j].refs > 0 => dev[j].refs > 0
                                   /\ ds[j].session = dev[j].session /\ ds[j].of = dev[j].of
                                   /\ ds[j].ctx = dev[j].ctx
    BY <2>2
  <2>4. Named(ds, table)
    BY <2>1, <2>3 DEF Named
  <2> QED
    BY <2>1, <2>2, <2>4 DEF TableInv
<1>8. ASSUME NEW t \in Transfers PROVE TransferGood(xfer[t])'
  <2>1. PICK x : x = xfer[t]
    OBVIOUS
  <2>2. TransferGood(x)
    BY <2>1, TransfersGood
  <2>3. x.st \in {"flying", "ended"} => handle'[x.h] = handle[x.h] /\ handle[x.h] \in 1 .. MaxDevices
    BY <1>1, <2>2, HeldDevices DEF TransferGood
  <2>4. ASSUME x.st = "flying" PROVE dev[handle[x.h]].of \in twice => dev'[handle'[x.h]].of \in twice'
    BY <1>2, <2>3, <2>4
  <2>5. ASSUME x.st = "flying"
        PROVE  \/ x.redir = dev'[handle'[x.h]].redir /\ x.system = dev'[handle'[x.h]].system
               \/ dev'[handle'[x.h]].of \in twice'
    <3>1. x.h \in Handles
      BY <2>2, <2>5 DEF TransferGood
    <3>2. CASE handle[x.h] = k
      BY <2>3, <2>5, <3>1, <3>2
    <3>3. CASE handle[x.h] # k
      BY <2>2, <2>3, <2>5, <3>1, <3>3 DEF TransferGood
    <3> QED
      BY <3>2, <3>3
  <2> QED
    BY <2>1, <2>2, <2>3, <2>4, <2>5 DEF TransferGood
<1>9. FlightInv' /\ SaidInv' /\ TransferHolds' /\ CancelEffective'
  BY <1>8, TransfersBack
<1>10. ASSUME NEW f \in Handles, NEW g \in Handles, handle'[g] # 0, handle'[f] = handle'[g], f # g
       PROVE  dev'[handle'[g]].of \in twice'
  <2>1. CASE f = h \/ g = h
    <3>1. CASE handle' = handle
      <4>1. handle[f] = 0 \/ handle[g] = 0
        BY <2>1
      <4> QED
        BY <1>10, <3>1, <4>1
    <3>2. CASE handle' = [handle EXCEPT ![h] = k]
      <4>1. handle'[g] = k /\ \E e \in Handles : handle[e] = k
        BY <1>0, <1>10, <2>1, <3>2
      <4> QED
        BY <4>1
    <3> QED
      BY <3>1, <3>2
  <2>2. CASE f # h /\ g # h
    <3>1. handle'[f] = handle[f] /\ handle'[g] = handle[g]
      BY <1>1, <2>2
    <3>2. dev[handle[g]].of \in twice /\ handle[g] \in 1 .. MaxDevices
      BY <1>10, <3>1, HeldDevices DEF Sound, RedirInv
    <3> QED
      BY <1>2, <3>1, <3>2
  <2> QED
    BY <2>1, <2>2
<1> QED
  BY <1>1, <1>2, <1>5, <1>6, <1>7, <1>9, <1>10

LEMMA StepOpen == ASSUME Sound, NEW h \in Handles, Open(h) PROVE Sound'
<1>0. /\ Call /\ fault = "none" /\ fault' = "none" /\ handle[h] = 0
      /\ UNCHANGED <<inits, on, helper, table, stuck, missing, leaked, plugged, list, configs,
                     xfer, cancelEx>>
  BY DEF Open, Call, shared
<1>1. PICK c \in on, k \in UNION {ToSet(list[d]) : d \in on} :
        /\ k \in ToSet(list[c])
        /\ \/ /\ Opened(k, calls')
              /\ redirected' = redirected \cup {[n |-> calls', of |-> dev[k].of]}
              /\ handle' = [handle EXCEPT ![h] = k]
           \/ /\ dev' = [dev EXCEPT ![k].redir = Invalid]
              /\ redirected' = redirected /\ handle' = handle
        /\ twice' = IF \E g \in Handles : handle[g] = k THEN twice \cup {dev[k].of} ELSE twice
  <2>1. PICK c \in on : \E k \in ToSet(list[c]) :
        /\ \/ /\ Opened(k, calls')
              /\ redirected' = redirected \cup {[n |-> calls', of |-> dev[k].of]}
              /\ handle' = [handle EXCEPT ![h] = k]
           \/ /\ dev' = [dev EXCEPT ![k].redir = Invalid]
              /\ redirected' = redirected /\ handle' = handle
        /\ twice' = IF \E g \in Handles : handle[g] = k THEN twice \cup {dev[k].of} ELSE twice
    BY DEF Open
  <2> QED
    BY <2>1
<1>2. k \in 1 .. MaxDevices /\ dev[k].refs > 0
  <2>1. c \in Contexts
    BY DEF Sound, Typed
  <2>2. list[c] \in Seq(1 .. MaxDevices)
    BY <2>1, HeldDevices
  <2>3. PICK i \in 1 .. Len(list[c]) : k = list[c][i]
    BY <1>1, <2>2 DEF ToSet
  <2> QED
    BY <2>1, <2>3, HeldDevices
<1>3. /\ dev \in Devices /\ dev[k] \in Device /\ calls \in Nat /\ calls' = calls + 1
      /\ calls' \in Nat /\ calls' <= MaxCalls
      /\ redirected \subseteq [n : Nat \ {0}, of : Strings] /\ dev[k].of \in Strings
      /\ \A j \in 1 .. MaxDevices : dev[j].redir \in Int
  <2>1. dev[k].of \in Strings
    BY <1>2 DEF Sound, CountInv, Cleared
  <2> QED
    BY <1>0, <1>2, <2>1, CallCounts, HeldDevices DEF Sound, Typed, Devices
<1>4. /\ dev' \in Devices /\ \A j \in 1 .. MaxDevices : j # k => dev'[j] = dev[j]
      /\ dev'[k].of = dev[k].of /\ dev'[k].ctx = dev[k].ctx /\ dev'[k].session = dev[k].session
      /\ \/ /\ handle' = [handle EXCEPT ![h] = k] /\ dev'[k].refs = dev[k].refs + 1
            /\ redirected' = redirected \cup {[n |-> calls', of |-> dev[k].of]}
            /\ dev'[k].redir = calls'
         \/ /\ handle' = handle /\ dev'[k].refs = dev[k].refs
            /\ redirected' = redirected /\ dev'[k].redir = -1
  <2>1. CASE /\ Opened(k, calls') /\ redirected' = redirected \cup {[n |-> calls', of |-> dev[k].of]}
             /\ handle' = [handle EXCEPT ![h] = k]
    <3>1. PICK r \in Nat : r = calls'
      BY <1>3
    <3>2. PICK m \in Nat : m = dev[k].refs + 1
      BY <1>3 DEF Device
    <3>3. PICK e : e = [dev[k] EXCEPT !.refs = m, !.redir = r, !.system = r]
      OBVIOUS
    <3>4. e \in Device /\ e.of = dev[k].of /\ e.ctx = dev[k].ctx /\ e.session = dev[k].session
          /\ e.refs = m /\ e.redir = r
      <4>1. r \in Int
        BY <3>1
      <4> QED
        BY <1>3, <3>2, <3>3, <4>1 DEF Device
    <3>5. dev' = [dev EXCEPT ![k] = e]
      BY <1>2, <1>3, <2>1, <3>1, <3>2, <3>3 DEF Opened, Devices
    <3>6. dev' \in Devices /\ dev'[k] = e /\ \A j \in 1 .. MaxDevices : j # k => dev'[j] = dev[j]
      <4>1. PICK es, ds : es = dev' /\ ds = dev
        OBVIOUS
      <4>2. es = [ds EXCEPT ![k] = e] /\ ds \in Devices
        BY <1>3, <3>4, <3>5, <4>1
      <4>3. es \in Devices /\ es[k] = e /\ \A j \in 1 .. MaxDevices : j # k => es[j] = ds[j]
        BY <1>2, <3>4, <3>5, <4>2 DEF Devices
      <4> QED
        BY <4>1, <4>3
    <3> QED
      BY <2>1, <3>1, <3>2, <3>4, <3>6
  <2>2. CASE dev' = [dev EXCEPT ![k].redir = Invalid] /\ redirected' = redirected /\ handle' = handle
    <3>1. PICK e : e = [dev[k] EXCEPT !.redir = -1]
      OBVIOUS
    <3>2. e \in Device /\ e.of = dev[k].of /\ e.ctx = dev[k].ctx /\ e.session = dev[k].session
          /\ e.refs = dev[k].refs /\ e.redir = -1
      BY <1>3, <3>1 DEF Device
    <3>3. dev' = [dev EXCEPT ![k] = e]
      BY <1>2, <1>3, <2>2, <3>1 DEF Invalid
    <3>4. dev' \in Devices /\ dev'[k] = e /\ \A j \in 1 .. MaxDevices : j # k => dev'[j] = dev[j]
      <4>1. PICK es, ds : es = dev' /\ ds = dev
        OBVIOUS
      <4>2. es = [ds EXCEPT ![k] = e] /\ ds \in Devices
        BY <1>3, <3>2, <3>3, <4>1
      <4>3. es \in Devices /\ es[k] = e /\ \A j \in 1 .. MaxDevices : j # k => es[j] = ds[j]
        BY <1>2, <3>2, <3>3, <4>2 DEF Devices
      <4> QED
        BY <4>1, <4>3
    <3> QED
      BY <2>2, <3>2, <3>4
  <2> QED
    BY <1>1, <2>1, <2>2
<1>5. twice \subseteq twice' /\ ((\E g \in Handles : handle[g] = k) => dev[k].of \in twice')
  BY <1>1
<1>6. /\ CountInv' /\ OwnerInv' /\ TableInv' /\ FlightInv' /\ SaidInv'
      /\ TransferHolds' /\ CancelEffective'
      /\ \A f \in Handles : handle[f] # 0 => handle'[f] = handle[f]
      /\ \A f \in Handles : handle'[f] # handle[f] => f = h /\ handle'[f] = k
      /\ handle' \in [Handles -> 0 .. MaxDevices]
      /\ \A f, g \in Handles : handle'[g] # 0 /\ handle'[f] = handle'[g] /\ f # g
                                => dev'[handle'[g]].of \in twice'
      /\ \A j \in 1 .. MaxDevices : dev'[j].of = dev[j].of
  BY <1>0, <1>2, <1>4, <1>5, OpenKeeps
<1>7. Typed'
  <2>1. redirected' \subseteq [n : Nat \ {0}, of : Strings]
    <3>1. calls' \in Nat \ {0}
      BY <1>3
    <3>2. [n |-> calls', of |-> dev[k].of] \in [n : Nat \ {0}, of : Strings]
      BY <1>3, <3>1
    <3> QED
      BY <1>3, <1>4, <3>2
  <2> QED
    BY <1>0, <1>3, <1>4, <1>6, <2>1 DEF Sound, Typed
<1>8. SharedWhileUsed' /\ HelperThere'
  BY <1>0 DEF Sound, SharedWhileUsed, HelperThere
<1>9. /\ \A x \in redirected : x.n <= calls /\ x.n \in Nat /\ x.n # 0
      /\ \A j \in 1 .. MaxDevices : dev[j].redir <= calls
      /\ \A i, j \in 1 .. MaxDevices : dev[j].redir > 0 /\ dev[i].redir = dev[j].redir => i = j
      /\ \A j \in 1 .. MaxDevices : \A x \in redirected : x.n = dev[j].redir => x.of = dev[j].of
  BY <1>3 DEF Sound, RedirInv
<1>10. RedirInv'
  <2>1. \A x \in redirected' : x.n <= calls'
    BY <1>3, <1>4, <1>9
  <2>2. \A j \in 1 .. MaxDevices : dev'[j].redir <= calls'
    BY <1>3, <1>4, <1>9
  <2>3. \A i, j \in 1 .. MaxDevices : dev'[j].redir > 0 /\ dev'[i].redir = dev'[j].redir => i = j
    <3> SUFFICES ASSUME NEW i \in 1 .. MaxDevices, NEW j \in 1 .. MaxDevices,
                        dev'[j].redir > 0, dev'[i].redir = dev'[j].redir
                 PROVE  i = j
      OBVIOUS
    <3>1. CASE i = k \/ j = k
      BY <1>3, <1>4, <1>9, <3>1
    <3>2. CASE i # k /\ j # k
      BY <1>4, <1>9, <3>2
    <3> QED
      BY <3>1, <3>2
  <2>4. ASSUME NEW j \in 1 .. MaxDevices, NEW x \in redirected', x.n = dev'[j].redir
        PROVE  x.of = dev'[j].of
    <3>1. CASE x \in redirected
      <4>1. j # k
        BY <1>3, <1>4, <1>9, <2>4, <3>1
      <4> QED
        BY <1>4, <1>9, <2>4, <3>1, <4>1
    <3>2. CASE x = [n |-> calls', of |-> dev[k].of]
      <4>1. x.n = calls' /\ x.of = dev[k].of
        BY <3>2
      <4>2. j = k
        <5>1. dev'[j].redir = calls + 1
          BY <1>3, <2>4, <4>1
        <5>2. j # k => dev'[j].redir <= calls
          BY <1>4, <1>9
        <5> QED
          BY <1>3, <5>1, <5>2
      <4> QED
        BY <1>4, <4>1, <4>2
    <3> QED
      BY <1>4, <3>1, <3>2
  <2> QED
    BY <1>6, <2>1, <2>2, <2>3, <2>4 DEF RedirInv
<1>11. RedirectedWhileOpen'
  <2>0. /\ \A x \in redirected :
              x.of \in twice \/ \E g \in Handles : handle[g] # 0 /\ dev[handle[g]].redir = x.n
        /\ \A g \in Handles : handle[g] # 0 => Live(dev[handle[g]].redir) \/ dev[handle[g]].of \in twice
    BY DEF Sound, RedirectedWhileOpen
  <2>1. ASSUME NEW x \in redirected'
        PROVE  x.of \in twice' \/ \E g \in Handles : handle'[g] # 0 /\ dev'[handle'[g]].redir = x.n
    <3>1. ASSUME NEW g \in Handles, x \in redirected, handle[g] # 0, dev[handle[g]].redir = x.n
          PROVE  x.of \in twice' \/ (handle'[g] # 0 /\ dev'[handle'[g]].redir = x.n)
      <4>1. handle'[g] = handle[g] /\ handle[g] \in 1 .. MaxDevices
        BY <1>6, <3>1, HeldDevices
      <4>2. CASE handle[g] = k
        <5>1. x.of = dev[k].of
          BY <1>2, <1>9, <3>1, <4>2
        <5> QED
          BY <1>5, <4>2, <5>1
      <4>3. CASE handle[g] # k
        BY <1>4, <3>1, <4>1, <4>3
      <4> QED
        BY <4>2, <4>3
    <3>2. CASE x \in redirected
      BY <1>5, <2>0, <3>1, <3>2
    <3>3. CASE x \notin redirected
      <4>1. x.n = calls' /\ handle' = [handle EXCEPT ![h] = k] /\ dev'[k].redir = calls'
        BY <1>4, <2>1, <3>3
      <4>2. handle'[h] = k /\ k # 0
        BY <1>2, <1>6, <4>1 DEF Sound, Typed
      <4> QED
        BY <4>1, <4>2
    <3> QED
      BY <3>2, <3>3
  <2>2. ASSUME NEW g \in Handles, handle'[g] # 0
        PROVE  (\E x \in redirected' : x.n = dev'[handle'[g]].redir) \/ dev'[handle'[g]].of \in twice'
    <3>1. CASE handle'[g] = k
      <4>1. CASE handle' = handle
        <5>1. \E f \in Handles : handle[f] = k
          BY <3>1, <4>1
        <5> QED
          BY <1>4, <1>5, <3>1, <5>1
      <4>2. CASE /\ redirected' = redirected \cup {[n |-> calls', of |-> dev[k].of]}
                 /\ dev'[k].redir = calls'
        <5>1. PICK x : x = [n |-> calls', of |-> dev[k].of]
          OBVIOUS
        <5>2. x \in redirected' /\ x.n = dev'[handle'[g]].redir
          BY <3>1, <4>2, <5>1
        <5> QED
          BY <5>2
      <4> QED
        BY <1>4, <4>1, <4>2
    <3>2. CASE handle'[g] # k
      <4>1. handle'[g] = handle[g] /\ handle[g] # 0
        BY <1>6, <2>2, <3>2
      <4>2. handle[g] \in 1 .. MaxDevices
        BY <4>1, HeldDevices
      <4>3. dev'[handle'[g]] = dev[handle[g]]
        BY <1>4, <3>2, <4>1, <4>2
      <4>4. redirected \subseteq redirected'
        BY <1>4
      <4> QED
        BY <1>5, <2>0, <4>1, <4>3, <4>4 DEF Live
    <3> QED
      BY <3>1, <3>2
  <2> QED
    BY <2>1, <2>2, Zenon DEF RedirectedWhileOpen, Live
<1> QED
  BY <1>6, <1>7, <1>8, <1>10, <1>11 DEF Sound

-----------------------------------------------------------------------------
(* Closing keeps the invariant                                             *)

\* What closing handle h of device k makes of a transfer
AfterClose(x, h, k) ==
    LET y == IF x.st = "flying" /\ x.redir = dev[k].redir THEN Ended(x, "aborted") ELSE x
    IN  IF y.st # "idle" /\ y.h = h THEN [y EXCEPT !.st = "dropped"] ELSE y

LEMMA AfterCloseIs ==
    ASSUME NEW x, Record(x), NEW h, NEW k, NEW y, y = AfterClose(x, h, k)
    PROVE  /\ Record(y) /\ y.h = x.h /\ y.kind = x.kind /\ y.said = x.said /\ y.fds = x.fds
           /\ y.redir = x.redir /\ y.system = x.system
           /\ y.arrays = x.arrays /\ y.status = x.status
           /\ y.st = "idle" <=> x.st = "idle"
           /\ y.st = "flying" => x.st = "flying" /\ x.h # h
           /\ y.st = "ended" => x.st \in {"flying", "ended"} /\ x.h # h
           /\ y.st = "idle" => y.result = x.result
           /\ y.st = "ended" /\ x.st = "ended" => y.result = x.result
           /\ y.st = "ended" /\ x.st = "flying" => y.result = "aborted"
<1>1. PICK z : z = IF x.st = "flying" /\ x.redir = dev[k].redir THEN Ended(x, "aborted") ELSE x
  OBVIOUS
<1>2. y = IF z.st # "idle" /\ z.h = h THEN [z EXCEPT !.st = "dropped"] ELSE z
  BY <1>1 DEF AfterClose
<1>3. "aborted" \in Results
  BY DEF Results
<1>4. /\ DOMAIN z = DOMAIN x /\ z = [f \in DOMAIN z |-> z[f]]
      /\ z.h = x.h /\ z.kind = x.kind /\ z.said = x.said /\ z.fds = x.fds
      /\ z.redir = x.redir /\ z.system = x.system /\ z.arrays = x.arrays /\ z.status = x.status
      /\ \/ z.st = x.st /\ z.result = x.result
         \/ z.st = "ended" /\ x.st = "flying" /\ z.result = "aborted"
  BY <1>1 DEF Record, Ended
<1>5. Record(z)
  BY <1>3, <1>4 DEF Record
<1>6. /\ DOMAIN y = DOMAIN z /\ y = [f \in DOMAIN y |-> y[f]]
      /\ y.h = z.h /\ y.kind = z.kind /\ y.said = z.said /\ y.fds = z.fds
      /\ y.redir = z.redir /\ y.system = z.system /\ y.arrays = z.arrays /\ y.status = z.status
      /\ y.result = z.result
      /\ \/ y.st = z.st /\ (z.st = "idle" \/ z.h # h)
         \/ y.st = "dropped" /\ z.st # "idle"
  BY <1>2, <1>5 DEF Record
<1>7. Record(y)
  BY <1>5, <1>6 DEF Record
<1> QED
  BY <1>4, <1>6, <1>7

LEMMA StepClose == ASSUME Sound, NEW h \in Handles, Close(h) PROVE Sound'
<1>0. /\ Call /\ fault = "none" /\ fault' = "none" /\ handle[h] # 0
      /\ UNCHANGED <<inits, on, helper, table, stuck, missing, leaked, plugged, list, cancelEx, twice>>
  BY DEF Close, Call, shared
<1>1. PICK k : k = handle[h]
  OBVIOUS
<1>2. k \in 1 .. MaxDevices /\ dev[k].refs > 0
  BY <1>0, <1>1, HeldDevices
<1>3. PICK s, r, ds : /\ s = [dev |-> dev, configs |-> configs] /\ r = Unref(s, k) /\ ds = r.dev
  OBVIOUS
<1>4. /\ redirected' = Stopped(dev[k].redir) /\ dev' = ds /\ configs' = r.configs
      /\ xfer' = [t \in Transfers |-> AfterClose(xfer[t], h, k)]
      /\ handle' = [handle EXCEPT ![h] = 0]
  BY <1>1, <1>3 DEF Close, AfterClose
<1>5. Kept(s) /\ s.dev = dev
  BY <1>3 DEF Kept, Sound, Typed, CountInv
<1>6. /\ Kept(r) /\ r.dev[k].refs = dev[k].refs - 1
      /\ r.dev[k].refs > 0 => Same(r.dev[k], dev[k])
      /\ \A j \in 1 .. MaxDevices : j # k => r.dev[j] = dev[j]
  <2>1. s.dev[k].refs > 0
    BY <1>2, <1>5
  <2> QED
    BY <1>2, <1>3, <1>5, <2>1, UnrefEffect
<1>7. /\ ds \in Devices /\ Cleared(ds) /\ configs' = HandedOut(ds)
      /\ \A j \in 1 .. MaxDevices : ds[j].refs \in Nat /\ dev[j].refs \in Nat
  <2>1. /\ ds \in Devices /\ Cleared(ds) /\ configs' = HandedOut(ds)
    BY <1>3, <1>4, <1>6 DEF Kept
  <2>2. \A j \in 1 .. MaxDevices : ds[j].refs \in Nat
    BY <2>1 DEF Devices, Device
  <2> QED
    BY <2>1, <2>2, HeldDevices
<1>8. ASSUME NEW j \in 1 .. MaxDevices
      PROVE  /\ ds[j].refs > 0 => dev[j].refs > 0 /\ Same(ds[j], dev[j])
             /\ Same(ds[j], dev[j]) \/ ds[j].redir = 0
             /\ ds[j].refs = dev[j].refs - (IF j = k THEN 1 ELSE 0)
  <2>1. ds[j].refs = dev[j].refs - (IF j = k THEN 1 ELSE 0)
    BY <1>3, <1>6, <1>7
  <2>2. ds[j].refs > 0 => dev[j].refs > 0
    BY <1>7, <2>1
  <2>3. ds[j].refs > 0 => Same(ds[j], dev[j])
    <3>1. CASE j = k
      BY <1>3, <1>6, <3>1
    <3>2. CASE j # k
      BY <1>3, <1>6, <3>2 DEF Same
    <3> QED
      BY <3>1, <3>2
  <2>4. ds[j].refs = 0 => ds[j].redir = 0
    BY <1>7 DEF Cleared, NoDevice
  <2> QED
    BY <1>7, <2>1, <2>2, <2>3, <2>4
<1>9. PICK hs : hs = [handle EXCEPT ![h] = 0]
  OBVIOUS
<1>10. /\ handle' = hs /\ hs \in [Handles -> 0 .. MaxDevices] /\ hs[h] = 0
       /\ \A g \in Handles : hs[g] # 0 => g # h /\ hs[g] = handle[g]
       /\ \A g \in Handles : g # h => hs[g] = handle[g]
       /\ handle = [hs EXCEPT ![h] = k]
  <2>1. handle \in [Handles -> 0 .. MaxDevices] /\ 0 \in 0 .. MaxDevices
    BY Bounds DEF Sound, Typed
  <2>2. hs \in [Handles -> 0 .. MaxDevices] /\ hs[h] = 0 /\ \A g \in Handles : g # h => hs[g] = handle[g]
    BY <1>9, <2>1
  <2>3. handle = [hs EXCEPT ![h] = k]
    BY <1>1, <1>9, <2>1
  <2> QED
    BY <1>4, <1>9, <2>2, <2>3
<1>11. ASSUME NEW j \in 1 .. MaxDevices
       PROVE  ds[j].refs = Cardinality(Places(list, j)) + Cardinality(Opens(hs, j))
  <2>1. dev[j].refs = Cardinality(Places(list, j)) + Cardinality(Opens(handle, j))
    BY DEF Sound, CountInv
  <2>2. PICK gs : gs = handle
    OBVIOUS
  <2>3. Puts(gs, hs, h, k)
    BY <1>10, <2>2 DEF Puts
  <2>4. Cardinality(Opens(gs, j)) = Cardinality(Opens(hs, j)) + (IF j = k THEN 1 ELSE 0)
    BY <1>2, <1>10, <2>3, OpensChange
  <2>5. PICK p \in Nat, o \in Nat : p = Cardinality(Places(list, j)) /\ o = Cardinality(Opens(hs, j))
    BY PlacesFinite, OpensFinite
  <2> QED
    BY <1>8, <2>1, <2>2, <2>4, <2>5
<1>12. CountInv'
  BY <1>0, <1>4, <1>7, <1>10, <1>11 DEF CountInv
<1>13. ASSUME NEW g \in Handles, hs[g] # 0
       PROVE  /\ hs[g] \in 1 .. MaxDevices /\ handle[g] = hs[g] /\ g # h
              /\ Same(ds[hs[g]], dev[hs[g]])
  <2>1. hs[g] = handle[g] /\ g # h
    BY <1>10, <1>13
  <2>2. PICK j \in 1 .. MaxDevices : j = hs[g]
    BY <1>13, <2>1, HeldDevices
  <2>3. Cardinality(Opens(hs, j)) >= 1
    BY <2>2, OpenPositive
  <2>4. PICK p \in Nat, o \in Nat : p = Cardinality(Places(list, j)) /\ o = Cardinality(Opens(hs, j))
    BY PlacesFinite, OpensFinite
  <2>5. ds[j].refs > 0
    BY <1>11, <2>3, <2>4
  <2> QED
    BY <1>8, <2>1, <2>2, <2>5
<1>14. OwnerInv'
  <2>1. ASSUME NEW j \in 1 .. MaxDevices, ds[j].refs > 0 PROVE ds[j].ctx \in on
    BY <1>8, <2>1 DEF Same, Sound, OwnerInv
  <2>2. ASSUME NEW c \in Contexts, NEW i \in 1 .. Len(list[c]) PROVE ds[list[c][i]].ctx = c
    <3>1. PICK j \in 1 .. MaxDevices : j = list[c][i]
      BY <2>2, HeldDevices
    <3>2. Cardinality(Places(list, j)) >= 1
      <4>1. list \in [Contexts -> Seq(1 .. MaxDevices)] /\ Len(list[c]) <= MaxPlugged
        BY DEF Sound, Typed
      <4> QED
        BY <2>2, <3>1, <4>1, PlacePositive
    <3>3. PICK p \in Nat, o \in Nat : p = Cardinality(Places(list, j)) /\ o = Cardinality(Opens(hs, j))
      BY PlacesFinite, OpensFinite
    <3>4. ds[j].refs > 0
      BY <1>11, <3>2, <3>3
    <3>5. dev[list[c][i]].ctx = c
      BY <2>2 DEF Sound, OwnerInv
    <3> QED
      BY <1>8, <3>1, <3>4, <3>5 DEF Same
  <2> QED
    BY <1>0, <1>4, <2>1, <2>2 DEF OwnerInv
<1>15. TableInv'
  <2>1. Fewer(ds, dev)
    BY <1>8 DEF Fewer
  <2>2. Extends(table, table)
    BY DEF Extends
  <2>3. Named(dev, table)
    BY DEF Sound, TableInv
  <2>4. Named(ds, table)
    BY <2>1, <2>2, <2>3, NamedStays
  <2> QED
    BY <1>0, <1>4, <2>4 DEF Sound, TableInv
<1>16. /\ calls \in Nat /\ calls' = calls + 1 /\ calls' \in Nat /\ calls' <= MaxCalls
       /\ \A j \in 1 .. MaxDevices : dev[j].redir \in Int /\ ds[j].redir \in Int
       /\ \A x \in redirected : x.n \in Nat /\ x.n # 0
       /\ redirected' = {x \in redirected : x.n # dev[k].redir}
  <2>1. \A j \in 1 .. MaxDevices : ds[j].redir \in Int
    BY <1>7 DEF Devices, Device
  <2> QED
    BY <1>0, <1>4, <2>1, CallCounts, HeldDevices DEF Sound, Typed, Stopped
<1>17. /\ \A x \in redirected : x.n <= calls
       /\ \A j \in 1 .. MaxDevices : dev[j].redir <= calls
       /\ \A i, j \in 1 .. MaxDevices : dev[j].redir > 0 /\ dev[i].redir = dev[j].redir => i = j
       /\ \A j \in 1 .. MaxDevices : \A x \in redirected : x.n = dev[j].redir => x.of = dev[j].of
       /\ \A f, g \in Handles : handle[g] # 0 /\ handle[f] = handle[g] /\ f # g
                                 => dev[handle[g]].of \in twice
  BY DEF Sound, RedirInv
<1>18. \A j \in 1 .. MaxDevices :
         ds[j].redir = 0 \/ (ds[j].redir = dev[j].redir /\ ds[j].of = dev[j].of)
  BY <1>8 DEF Same
<1>19. RedirInv'
  <2>1. \A x \in redirected' : x.n <= calls'
    BY <1>16, <1>17
  <2>2. \A j \in 1 .. MaxDevices : ds[j].redir <= calls'
    BY <1>16, <1>17, <1>18
  <2>3. \A i, j \in 1 .. MaxDevices : ds[j].redir > 0 /\ ds[i].redir = ds[j].redir => i = j
    BY <1>16, <1>17, <1>18
  <2>4. \A j \in 1 .. MaxDevices : \A x \in redirected' : x.n = ds[j].redir => x.of = ds[j].of
    BY <1>16, <1>17, <1>18
  <2>5. ASSUME NEW f \in Handles, NEW g \in Handles, hs[g] # 0, hs[f] = hs[g], f # g
        PROVE  ds[hs[g]].of \in twice
    <3>1. hs[f] = handle[f] /\ hs[g] = handle[g] /\ Same(ds[hs[g]], dev[hs[g]])
      BY <1>13, <2>5
    <3> QED
      BY <1>17, <2>5, <3>1 DEF Same
  <2> QED
    BY <1>0, <1>4, <1>10, <2>1, <2>2, <2>3, <2>4, <2>5 DEF RedirInv
<1>20. RedirectedWhileOpen'
  <2>0. /\ \A x \in redirected :
              x.of \in twice \/ \E g \in Handles : handle[g] # 0 /\ dev[handle[g]].redir = x.n
        /\ \A g \in Handles : handle[g] # 0 =>
              (\E x \in redirected : x.n = dev[handle[g]].redir) \/ dev[handle[g]].of \in twice
    <3>1. RedirectedWhileOpen
      BY DEF Sound
    <3>2. \A g \in Handles : handle[g] # 0 => Live(dev[handle[g]].redir) \/ dev[handle[g]].of \in twice
      BY <3>1 DEF RedirectedWhileOpen
    <3>3. \A x \in redirected :
              x.of \in twice \/ \E g \in Handles : handle[g] # 0 /\ dev[handle[g]].redir = x.n
      BY <3>1 DEF RedirectedWhileOpen
    <3> QED
      BY <3>2, <3>3 DEF Live
  <2>1. ASSUME NEW x \in redirected'
        PROVE  x.of \in twice \/ \E g \in Handles : hs[g] # 0 /\ ds[hs[g]].redir = x.n
    <3>1. x \in redirected /\ x.n # dev[k].redir
      BY <1>16
    <3>2. ASSUME NEW g \in Handles, handle[g] # 0, dev[handle[g]].redir = x.n
          PROVE  hs[g] # 0 /\ ds[hs[g]].redir = x.n
      <4>1. g # h
        BY <1>1, <3>1, <3>2
      <4>2. hs[g] = handle[g]
        BY <1>10, <4>1
      <4> QED
        BY <1>13, <3>2, <4>2 DEF Same
    <3> QED
      BY <2>0, <3>1, <3>2
  <2>2. ASSUME NEW g \in Handles, hs[g] # 0
        PROVE  (\E x \in redirected' : x.n = ds[hs[g]].redir) \/ ds[hs[g]].of \in twice
    <3>1. PICK j \in 1 .. MaxDevices :
             /\ j = hs[g] /\ j = handle[g] /\ g # h /\ j # 0
             /\ ds[j].redir = dev[j].redir /\ ds[j].of = dev[j].of
      BY <1>13, <2>2 DEF Same
    <3>2. CASE j = k
      BY <1>1, <1>17, <3>1, <3>2
    <3>3. ASSUME j # k, NEW x \in redirected, x.n = dev[j].redir
          PROVE  x \in redirected' /\ x.n = ds[hs[g]].redir
      <4>1. dev[k].redir # dev[j].redir
        BY <1>2, <1>16, <1>17, <3>3
      <4> QED
        BY <1>16, <3>1, <3>3, <4>1
    <3> QED
      BY <2>0, <3>1, <3>2, <3>3
  <2> QED
    <3>1. ASSUME NEW x \in redirected'
          PROVE  x.of \in twice' \/ \E g \in Handles : handle'[g] # 0 /\ dev'[handle'[g]].redir = x.n
      BY <1>0, <1>4, <1>10, <2>1, <3>1
    <3>2. ASSUME NEW g \in Handles, handle'[g] # 0
          PROVE  (\E x \in redirected' : x.n = dev'[handle'[g]].redir) \/ dev'[handle'[g]].of \in twice'
      BY <1>0, <1>4, <1>10, <2>2, <3>2
    <3> QED
      BY <3>1, <3>2, Zenon DEF RedirectedWhileOpen, Live
<1>21. ASSUME NEW t \in Transfers PROVE TransferGood(xfer[t])' /\ Record(xfer'[t])
  <2>1. PICK x, y : x = xfer[t] /\ y = AfterClose(x, h, k)
    OBVIOUS
  <2>2. TransferGood(x) /\ Record(x) /\ xfer'[t] = y
    BY <1>4, <2>1, TransfersGood DEF TransferGood
  <2>3. /\ Record(y) /\ y.h = x.h /\ y.kind = x.kind /\ y.said = x.said /\ y.fds = x.fds
        /\ y.redir = x.redir /\ y.system = x.system
        /\ y.arrays = x.arrays /\ y.status = x.status
        /\ y.st = "idle" <=> x.st = "idle"
        /\ y.st = "flying" => x.st = "flying" /\ x.h # h
        /\ y.st = "ended" => x.st \in {"flying", "ended"} /\ x.h # h
        /\ y.st = "idle" => y.result = x.result
        /\ y.st = "ended" /\ x.st = "ended" => y.result = x.result
        /\ y.st = "ended" /\ x.st = "flying" => y.result = "aborted"
    BY <2>1, <2>2, AfterCloseIs
  <2>4. y.st \in {"flying", "ended"} =>
           /\ y.h \in Handles /\ hs[y.h] # 0 /\ hs[y.h] = handle[y.h]
           /\ ds[hs[y.h]].redir = dev[handle[y.h]].redir
           /\ ds[hs[y.h]].system = dev[handle[y.h]].system
           /\ ds[hs[y.h]].of = dev[handle[y.h]].of
    <3>1. y.st \in {"flying", "ended"} => y.h \in Handles /\ handle[y.h] # 0 /\ y.h # h
      BY <2>2, <2>3 DEF TransferGood
    <3>2. y.st \in {"flying", "ended"} => hs[y.h] # 0 /\ hs[y.h] = handle[y.h]
      BY <1>10, <3>1
    <3> QED
      BY <1>13, <3>1, <3>2 DEF Same
  <2>5. y.st = "flying" =>
          \/ y.redir = ds[hs[y.h]].redir /\ y.system = ds[hs[y.h]].system
          \/ ds[hs[y.h]].of \in twice
    BY <2>2, <2>3, <2>4 DEF TransferGood
  <2>6. y.st = "idle" /\ y.said # "none" => y.status = Status(y.result)
    <3>1. PICK status : status = Status(x.result)
      OBVIOUS
    <3>2. x.st = "idle" /\ x.said # "none" => x.status = status
      BY <2>2, <3>1 DEF TransferGood
    <3>3. y.st = "idle" => Status(y.result) = status
      BY <2>3, <3>1
    <3> QED
      BY <2>3, <3>2, <3>3
  <2>7. cancelEx /\ y.kind # "control" =>
         /\ y.said = "ok" => y.st # "flying"
         /\ y.st \in {"ended", "idle"} => (y.said = "ok" <=> y.result = "canceled")
    BY <2>2, <2>3 DEF TransferGood
  <2>8. /\ y.fds = IF y.st = "idle" THEN 0 ELSE 1
        /\ y.arrays <=> y.st # "idle" /\ y.kind = "iso"
    BY <2>2, <2>3 DEF TransferGood
  <2>9. y.said # "none" /\ y.kind # "control" =>
         /\ y.st = "flying" => ds[hs[y.h]].of \in twice
         /\ cancelEx /\ y.st = "idle" => (y.said = "ok" <=> y.status = "cancelled")
                                           \/ y.result = "aborted"
    BY <2>2, <2>3, <2>4 DEF TransferGood
  <2> QED
    BY <1>0, <1>4, <1>10, <2>2, <2>3, <2>4, <2>5, <2>6, <2>7, <2>8, <2>9 DEF TransferGood
<1>22. FlightInv' /\ SaidInv' /\ TransferHolds' /\ CancelEffective'
  BY <1>21, TransfersBack
<1>23. Typed'
  <2>1. redirected' \subseteq redirected /\ xfer' = [t \in Transfers |-> xfer'[t]]
    BY <1>4, <1>16
  <2> QED
    BY <1>0, <1>4, <1>7, <1>10, <1>16, <1>21, <2>1 DEF Sound, Typed
<1>24. SharedWhileUsed' /\ HelperThere'
  BY <1>0 DEF Sound, SharedWhileUsed, HelperThere
<1> QED
  BY <1>12, <1>14, <1>15, <1>19, <1>20, <1>22, <1>23, <1>24 DEF Sound

-----------------------------------------------------------------------------
(* The theorems                                                            *)

LEMMA InitSound == Init => Sound
<1> SUFFICES ASSUME Init PROVE Sound
  OBVIOUS
<1>0. /\ inits = 0 /\ on = {} /\ helper = "none" /\ table = NoTable /\ plugged = Plugged
      /\ dev = [k \in 1 .. MaxDevices |-> NoDevice] /\ configs = 0
      /\ list = [c \in Contexts |-> <<>>] /\ handle = [h \in Handles |-> 0]
      /\ redirected = {} /\ xfer = [t \in Transfers |-> NewTransfer]
      /\ calls = 0 /\ fault = "none" /\ stuck = 0 /\ twice = {} /\ leaked = {}
  BY DEF Init
<1>1. /\ dev \in Devices /\ \A k \in 1 .. MaxDevices : dev[k] = NoDevice
      /\ NoDevice.refs = 0 /\ NoDevice.redir = 0
  BY <1>0, NoDeviceIsDevice DEF Devices, NoDevice
<1>2. Cleared(dev)
  BY <1>1 DEF Cleared
<1>3. \A t \in Transfers : xfer[t] = NewTransfer
  BY <1>0
<1>4. /\ DOMAIN NewTransfer = {"st", "kind", "h", "redir", "system", "arrays", "fds", "result",
                               "status", "said"}
      /\ NewTransfer = [f \in DOMAIN NewTransfer |-> NewTransfer[f]]
      /\ NewTransfer.st = "idle" /\ NewTransfer.fds = 0 /\ NewTransfer.result = "none"
      /\ NewTransfer.said = "none" /\ NewTransfer.arrays = FALSE /\ NewTransfer.kind = "none"
  BY DEF NewTransfer
<1>5. \A t \in Transfers : TransferGood(xfer[t])
  <2>1. PICK x : x = NewTransfer
    OBVIOUS
  <2>2. Record(x)
    BY <1>4, <2>1 DEF Record
  <2>3. x.st = "idle" /\ x.fds = 0 /\ x.result = "none" /\ x.said = "none" /\ ~x.arrays /\ x.kind = "none"
    BY <1>4, <2>1
  <2>4. TransferGood(x)
    BY <2>2, <2>3 DEF TransferGood
  <2> QED
    BY <1>3, <2>1, <2>4
<1>6. Typed
  <2>1. \A t \in Transfers : Record(xfer[t])
    BY <1>5 DEF TransferGood
  <2>2. xfer = [t \in Transfers |-> xfer[t]]
    BY <1>0
  <2>3. Plugged \subseteq Strings /\ IsFiniteSet(Plugged) /\ Cardinality(Plugged) <= MaxPlugged
    BY UsbdkAssumption DEF UsbdkAssumption
  <2>4. list \in [Contexts -> Seq(1 .. MaxDevices)] /\ \A c \in Contexts : list[c] = <<>>
    BY <1>0
  <2>5. \A c \in Contexts : Len(list[c]) <= MaxPlugged
    <3>1. Len(<<>>) = 0
      OBVIOUS
    <3> QED
      BY <2>4, <3>1, Bounds
  <2>6. handle \in [Handles -> 0 .. MaxDevices]
    BY <1>0, Bounds
  <2> QED
    BY <1>0, <1>1, <2>1, <2>2, <2>3, <2>4, <2>5, <2>6, Bounds DEF Typed, Loads
<1>7. SharedWhileUsed /\ HelperThere
  <2>1. Cardinality(on) = 0
    BY <1>0, FS_EmptySet
  <2> QED
    BY <1>0, <2>1 DEF SharedWhileUsed, HelperThere
<1>8. TableInv
  BY <1>0, <1>1 DEF TableInv, Named
<1>9. CountInv
  <2>1. HandedOut(dev) = 0
    <3>1. PICK ds : ds = dev
      OBVIOUS
    <3>2. /\ HandedOut(ds) = UpTo(ds)[MaxDevices] /\ UpTo(ds)[0] = 0
          /\ \A k \in 1 .. MaxDevices : UpTo(ds)[k] = UpTo(ds)[k - 1] + Share(ds[k])
      BY UpToSteps
    <3>3. \A k \in 1 .. MaxDevices : Share(ds[k]) = 0
      BY <1>1, <3>1 DEF Share
    <3> DEFINE T == {n \in 0 .. MaxDevices : UpTo(ds)[n] # 0}
    <3>4. T = {}
      <4> SUFFICES ASSUME T # {} PROVE FALSE
        OBVIOUS
      <4>1. PICK n \in T : \A j \in T : n <= j
        <5>1. T \in SUBSET Nat
          BY Bounds
        <5> HIDE DEF T
        <5> QED
          BY <5>1, MinExists
      <4>2. n \in 1 .. MaxDevices /\ n - 1 \in 0 .. MaxDevices /\ n - 1 < n
        BY <3>2, <4>1, Bounds
      <4>3. n - 1 \notin T
        <5> HIDE DEF T
        <5> QED
          BY <4>1, <4>2
      <4>4. UpTo(ds)[n - 1] = 0
        BY <4>2, <4>3
      <4> QED
        BY <3>2, <3>3, <4>1, <4>2, <4>4
    <3>5. MaxDevices \in 0 .. MaxDevices
      BY Bounds
    <3> QED
      BY <3>1, <3>2, <3>4, <3>5
  <2>2. ASSUME NEW k \in 1 .. MaxDevices
        PROVE  Cardinality(Places(list, k)) = 0 /\ Cardinality(Opens(handle, k)) = 0
    <3>1. Places(list, k) = {}
      BY <1>0 DEF Places
    <3>2. Opens(handle, k) = {}
      BY <1>0, Bounds DEF Opens
    <3> QED
      BY <3>1, <3>2, FS_EmptySet
  <2> QED
    BY <1>0, <1>1, <1>2, <2>1, <2>2 DEF CountInv
<1>10. OwnerInv
  <2>1. \A c \in Contexts : Len(list[c]) = 0
    BY <1>0
  <2> QED
    BY <1>1, <2>1 DEF OwnerInv
<1>11. RedirInv /\ RedirectedWhileOpen
  BY <1>0, <1>1 DEF RedirInv, RedirectedWhileOpen
<1>12. FlightInv /\ SaidInv /\ TransferHolds /\ CancelEffective
  BY <1>5 DEF TransferGood, FlightInv, SaidInv, TransferHolds, CancelEffective
<1> QED
  BY <1>6, <1>7, <1>8, <1>9, <1>10, <1>11, <1>12 DEF Sound

LEMMA StepsSound == Sound /\ [Next]_vars => Sound'
<1> SUFFICES ASSUME Sound, [Next]_vars PROVE Sound'
  OBVIOUS
<1>1. CASE UNCHANGED vars
  <2>1. UNCHANGED <<inits, on, helper, table, stuck, missing, leaked, plugged, dev, list, configs,
                    handle, redirected, xfer, cancelEx, calls, fault, twice>>
    BY <1>1 DEF vars, shared, devices
  <2>2. calls' \in Nat /\ calls <= calls'
    BY <2>1 DEF Sound, Typed
  <2>3. /\ CountInv' /\ RedirInv' /\ RedirectedWhileOpen' /\ FlightInv' /\ SaidInv'
        /\ TransferHolds' /\ CancelEffective'
    BY <2>1, <2>2, NothingMoves
  <2>4. Typed' /\ SharedWhileUsed' /\ HelperThere' /\ TableInv' /\ OwnerInv'
    BY <2>1 DEF Sound, Typed, SharedWhileUsed, HelperThere, TableInv, OwnerInv
  <2> QED
    BY <2>3, <2>4 DEF Sound
<1>2. ASSUME NEW c \in Contexts, LibInit(c) \/ LibExit(c) \/ GetDeviceList(c) \/ FreeDeviceList(c)
      PROVE  Sound'
  BY <1>2, StepLibInit, StepLibExit, StepGetDeviceList, StepFreeDeviceList
<1>3. ASSUME NEW h \in Handles, Open(h) \/ Close(h) PROVE Sound'
  BY <1>3, StepOpen, StepClose
<1>4. ASSUME NEW t \in Transfers, Submit(t) \/ DriverEnds(t) \/ Cancel(t) \/ Handle(t) PROVE Sound'
  BY <1>4, StepSubmit, StepDriverEnds, StepCancel, StepHandle
<1>5. CASE Plug
  BY <1>5, StepPlug
<1>6. CASE DeviceCall
  BY <1>1, <1>6 DEF DeviceCall
<1> QED
  BY <1>1, <1>2, <1>3, <1>4, <1>5, <1>6 DEF Next

LEMMA AlwaysSound == Spec => []Sound
<1>1. Init => Sound
  BY InitSound
<1>2. Sound /\ [Next]_vars => Sound'
  BY StepsSound
<1> QED
  BY <1>1, <1>2, PTL DEF Spec

LEMMA SoundIsShared == Sound => SharedSound
<1> SUFFICES ASSUME Sound PROVE SharedSound
  OBVIOUS
<1>0. /\ DOMAIN dev = 1 .. MaxDevices /\ dev \in Devices
      /\ \A t \in Transfers : Record(xfer[t])
  BY DEF Sound, Typed, Devices
<1>1. TypeOK
  <2>1. table # NoTable => table.filled = Cardinality({i \in Entries : table.entry[i].used # 0})
    <3>1. table # NoTable => WellFormed(table)
      BY DEF Sound, TableInv
    <3> QED
      BY <3>1 DEF WellFormed, UsedEntries
  <2>2. \A k \in DOMAIN dev : dev[k].refs \in Nat /\ dev[k].session \in 0 .. HtabSize
    BY <1>0 DEF Devices, Device
  <2>3. \A c \in Contexts : ToSet(list[c]) \subseteq DOMAIN dev
    <3> SUFFICES ASSUME NEW c \in Contexts, NEW k \in ToSet(list[c]) PROVE k \in DOMAIN dev
      OBVIOUS
    <3>1. list[c] \in Seq(1 .. MaxDevices)
      BY HeldDevices
    <3>2. PICK i \in 1 .. Len(list[c]) : k = list[c][i]
      BY <3>1 DEF ToSet
    <3> QED
      BY <1>0, <3>2, HeldDevices
  <2>4. \A t \in Transfers : /\ xfer[t].st \in {"idle", "flying", "ended", "dropped"}
                             /\ xfer[t].fds \in Nat /\ xfer[t].result \in Results \cup {"none"}
    BY <1>0 DEF Record
  <2>5. /\ inits \in Nat /\ on \subseteq Contexts /\ helper \in Loads /\ plugged \subseteq Strings
        /\ calls \in 0 .. MaxCalls /\ \A h \in Handles : handle[h] \in 0 .. MaxDevices
    BY Bounds DEF Sound, Typed
  <2> QED
    BY <2>1, <2>2, <2>3, <2>4, <2>5 DEF TypeOK
<1>2. SessionsName
  <2>1. Named(dev, table)
    BY DEF Sound, TableInv
  <2> QED
    BY <1>0, <2>1 DEF Named, SessionsName, Used
<1>3. SharedWhileUsed /\ HelperThere /\ StringsFreed
  BY DEF Sound, TableInv, StringsFreed
<1> QED
  BY <1>1, <1>2, <1>3 DEF SharedSound

LEMMA SoundIsKept == Sound => NothingKept
<1> SUFFICES ASSUME Sound, NEW k \in DOMAIN dev
             PROVE  /\ dev[k].refs = Cardinality(InLists(k)) + Cardinality(OpenOn(k))
                    /\ configs = HandedOut(dev)
  <2>1. Sound => configs = HandedOut(dev)
    BY DEF Sound, CountInv
  <2> QED
    BY <2>1 DEF NothingKept
<1>1. k \in 1 .. MaxDevices
  BY DEF Sound, Typed, Devices
<1>2. InLists(k) = Places(list, k) /\ OpenOn(k) = Opens(handle, k)
  BY DEF InLists, Places, OpenOn, Opens
<1> QED
  BY <1>1, <1>2 DEF Sound, CountInv

\* What the contexts share lasts as long as one of them is, whichever
\* initialisations fail and in whatever order they exit; the helper is never
\* called when it is not there though it could be loaded; and the session
\* numbers of the devices in use tell them apart, for any size of the table and
\* any hash of the strings (windows_init, windows_exit, htab_hash).
THEOREM UsbdkSharedSound == Spec => []SharedSound
<1>1. Sound => SharedSound
  BY SoundIsShared
<1> QED
  BY <1>1, AlwaysSound, PTL

\* Every reference to a device structure is that of a list or of an open handle,
\* through enumerations that fail at any device and in any way, and the
\* descriptors the helper handed out are those of the structures in use
\* (usbdk_get_device_list, discovered_devs_append, libusb_unref_device).
THEOREM UsbdkNothingKept == Spec => []NothingKept
<1>1. Sound => NothingKept
  BY SoundIsKept
<1> QED
  BY <1>1, AlwaysSound, PTL

\* A device is taken from its Windows driver exactly while a handle is open on
\* it, transfers keep their descriptor and arrays exactly while they are on
\* their way, and a cancellation tells the truth: but for a device that was
\* opened twice (usbdk_open, usbdk_close, usbdk_cancel_transfer).
THEOREM UsbdkTransfersSound == Spec => []TransfersSound
<1>1. Sound => TransfersSound
  BY DEF Sound, TransfersSound
<1> QED
  BY <1>1, AlwaysSound, PTL

==============================================================================
