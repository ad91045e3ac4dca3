------------------------------ MODULE ListLemmas ------------------------------
(***************************************************************************)
(* Lemmas about the linked lists of libuvc (utlist.h) and libusb           *)
(* (libusbi.h) as sequences without repetitions, for the modules of proofs. *)
(***************************************************************************)
EXTENDS Integers, Sequences, SequencesExt, SequenceTheorems, WellFoundedInduction,
        TLAPS

(* A set of natural numbers that is not empty has a least element.          *)
LEMMA MinExists ==
    ASSUME NEW T \in SUBSET Nat, T # {}
    PROVE  \E m \in T : \A k \in T : m <= k
<1> DEFINE R == OpToRel(<, Nat)
<1>1. IsWellFoundedOn(R, Nat)
  BY NatLessThanWellFounded
<1>2. \A x, y \in Nat : <<y, x>> \in R <=> y < x
  BY DEF OpToRel
<1> HIDE DEF R
<1>3. \E x \in T : \A y \in T : ~(<<y, x>> \in R)
  BY <1>1, WFMin
<1>4. PICK x \in T : \A y \in T : ~(<<y, x>> \in R)
  BY <1>3
<1>5. x \in Nat
  OBVIOUS
<1>6. ASSUME NEW y \in T PROVE x <= y
  <2>1. y \in Nat /\ ~(y < x)
    BY <1>2, <1>4, <1>5
  <2> QED
    BY <1>5, <2>1
<1> QED
  BY <1>6

(* DL_DELETE and list_del take one node out of the list and leave the       *)
(* others as they are.                                                      *)
LEMMA ListRemove ==
    ASSUME NEW S, NEW s \in Seq(S), IsInjective(s), NEW i \in 1..Len(s)
    PROVE  /\ RemoveAt(s, i) \in Seq(S)
           /\ Len(RemoveAt(s, i)) = Len(s) - 1
           /\ IsInjective(RemoveAt(s, i))
           /\ ToSet(RemoveAt(s, i)) = ToSet(s) \ {s[i]}
<1> DEFINE left == SubSeq(s, 1, i - 1)
           right == SubSeq(s, i + 1, Len(s))
           r == RemoveAt(s, i)
<1>1. /\ left \in Seq(S) /\ Len(left) = i - 1
      /\ \A j \in 1..(i - 1) : left[j] = s[j]
  <2>1. \A j \in 1..(i - 1) : s[j] \in S
    OBVIOUS
  <2>2. 1 \in Int /\ i - 1 \in Int
    OBVIOUS
  <2>3. /\ SubSeq(s, 1, i - 1) \in Seq(S)
        /\ Len(SubSeq(s, 1, i - 1)) = IF 1 <= i - 1 THEN (i - 1) - 1 + 1 ELSE 0
        /\ \A j \in 1..((i - 1) - 1 + 1) : SubSeq(s, 1, i - 1)[j] = s[1 + j - 1]
    BY <2>1, <2>2, SubSeqProperties
  <2>4. \A j \in 1..(i - 1) : 1 + j - 1 = j
    OBVIOUS
  <2>5. (i - 1) - 1 + 1 = i - 1 /\ (1 <= i - 1 \/ i - 1 = 0)
    OBVIOUS
  <2> HIDE DEF left
  <2>6. left = SubSeq(s, 1, i - 1)
    BY DEF left
  <2> QED
    BY <2>3, <2>4, <2>5, <2>6
<1>2. /\ right \in Seq(S) /\ Len(right) = Len(s) - i
      /\ \A j \in 1..(Len(s) - i) : right[j] = s[i + j]
  <2>1. \A j \in (i + 1)..Len(s) : s[j] \in S
    OBVIOUS
  <2>2. i + 1 \in Int /\ Len(s) \in Int
    OBVIOUS
  <2>3. /\ SubSeq(s, i + 1, Len(s)) \in Seq(S)
        /\ Len(SubSeq(s, i + 1, Len(s))) = IF i + 1 <= Len(s) THEN Len(s) - (i + 1) + 1 ELSE 0
        /\ \A j \in 1..(Len(s) - (i + 1) + 1) : SubSeq(s, i + 1, Len(s))[j] = s[(i + 1) + j - 1]
    BY <2>1, <2>2, SubSeqProperties
  <2>4. \A j \in 1..(Len(s) - i) : (i + 1) + j - 1 = i + j
    OBVIOUS
  <2>5. Len(s) - (i + 1) + 1 = Len(s) - i /\ (i + 1 <= Len(s) \/ Len(s) - i = 0)
    OBVIOUS
  <2> HIDE DEF right
  <2>6. right = SubSeq(s, i + 1, Len(s))
    BY DEF right
  <2> QED
    BY <2>3, <2>4, <2>5, <2>6
<1>3. r = left \o right
  BY DEF RemoveAt
<1> HIDE DEF left, right, r
<1>4. /\ r \in Seq(S) /\ Len(r) = Len(s) - 1
      /\ \A j \in 1..(Len(s) - 1) : r[j] = IF j < i THEN s[j] ELSE s[j + 1]
  <2>1. /\ r \in Seq(S) /\ Len(r) = Len(s) - 1
        /\ \A j \in 1..(Len(s) - 1) :
              r[j] = IF j <= i - 1 THEN left[j] ELSE right[j - (i - 1)]
    <3>1. Len(left) + Len(right) = Len(s) - 1
      BY <1>1, <1>2
    <3>2. /\ left \o right \in Seq(S)
          /\ Len(left \o right) = Len(left) + Len(right)
          /\ \A j \in 1..(Len(left) + Len(right)) : (left \o right)[j] =
                IF j <= Len(left) THEN left[j] ELSE right[j - Len(left)]
      BY <1>1, <1>2, ConcatProperties
    <3> QED
      BY <3>1, <3>2, <1>1, <1>3
  <2>2. ASSUME NEW j \in 1..(Len(s) - 1), j < i
        PROVE  r[j] = s[j]
    BY <2>1, <2>2, <1>1
  <2>3. ASSUME NEW j \in 1..(Len(s) - 1), ~(j < i)
        PROVE  r[j] = s[j + 1]
    <3>1. j - (i - 1) \in 1..(Len(s) - i) /\ i + (j - (i - 1)) = j + 1 /\ ~(j <= i - 1)
      BY <2>3
    <3> QED
      BY <3>1, <2>1, <1>2
  <2> QED
    BY <2>1, <2>2, <2>3
<1>5. DOMAIN s = 1..Len(s) /\ DOMAIN r = 1..(Len(s) - 1)
  BY <1>4, LenProperties
<1>6. IsInjective(r)
  <2> SUFFICES ASSUME NEW a \in 1..(Len(s) - 1), NEW b \in 1..(Len(s) - 1), r[a] = r[b]
               PROVE  a = b
    BY <1>5 DEF IsInjective
  <2> DEFINE up(j) == IF j < i THEN j ELSE j + 1
  <2>1. up(a) \in 1..Len(s) /\ up(b) \in 1..Len(s) /\ s[up(a)] = s[up(b)]
    BY <1>4
  <2>2. up(a) = up(b)
    BY <2>1, <1>5 DEF IsInjective
  <2> QED
    BY <2>2
<1>7. ToSet(r) = ToSet(s) \ {s[i]}
  <2>1. ASSUME NEW x \in ToSet(r) PROVE x \in ToSet(s) \ {s[i]}
    <3>1. PICK j \in 1..(Len(s) - 1) : x = r[j]
      BY <1>5 DEF ToSet
    <3>2. PICK k \in 1..Len(s) : x = s[k] /\ k # i
      BY <3>1, <1>4
    <3> QED
      BY <3>2, <1>5 DEF ToSet, IsInjective
  <2>2. ASSUME NEW x \in ToSet(s) \ {s[i]} PROVE x \in ToSet(r)
    <3>1. PICK k \in 1..Len(s) : x = s[k] /\ k # i
      BY <1>5 DEF ToSet
    <3>2. \E j \in 1..(Len(s) - 1) : x = r[j]
      <4>1. CASE k < i
        BY <4>1, <3>1, <1>4
      <4>2. CASE k > i
        <5>1. k - 1 \in 1..(Len(s) - 1) /\ ~(k - 1 < i) /\ (k - 1) + 1 = k
          BY <4>2
        <5> QED
          BY <5>1, <3>1, <1>4
      <4> QED
        BY <3>1, <4>1, <4>2
    <3> QED
      BY <3>2, <1>5 DEF ToSet
  <2> QED
    BY <2>1, <2>2
<1> QED
  BY <1>4, <1>6, <1>7 DEF r

(* DL_APPEND and list_add_tail add a node at the end.                       *)
LEMMA ListAppend ==
    ASSUME NEW S, NEW s \in Seq(S), IsInjective(s), NEW x \in S, x \notin ToSet(s)
    PROVE  /\ Append(s, x) \in Seq(S)
           /\ Append(s, x) # <<>>
           /\ IsInjective(Append(s, x))
           /\ ToSet(Append(s, x)) = ToSet(s) \cup {x}
<1> DEFINE r == Append(s, x)
<1>1. /\ r \in Seq(S) /\ Len(r) = Len(s) + 1
      /\ \A j \in 1..(Len(s) + 1) : r[j] = IF j = Len(s) + 1 THEN x ELSE s[j]
  OBVIOUS
<1>2. DOMAIN s = 1..Len(s) /\ DOMAIN r = 1..(Len(s) + 1) /\ Len(s) \in Nat
  BY <1>1, LenProperties
<1> HIDE DEF r
<1>3. \A j \in 1..Len(s) : r[j] = s[j] /\ s[j] # x
  BY <1>1, <1>2 DEF ToSet
<1>4. IsInjective(r)
  BY <1>1, <1>2, <1>3 DEF IsInjective
<1>5. ToSet(r) = ToSet(s) \cup {x}
  <2>1. r[Len(s) + 1] = x /\ Len(s) + 1 \in 1..(Len(s) + 1)
    BY <1>1, <1>2
  <2>2. \A j \in 1..(Len(s) + 1) : j \in 1..Len(s) \/ j = Len(s) + 1
    BY <1>2
  <2>3. \A j \in 1..Len(s) : j \in 1..(Len(s) + 1)
    BY <1>2
  <2> QED
    BY <1>2, <1>3, <2>1, <2>2, <2>3 DEF ToSet
<1>6. r # <<>>
  BY <1>1, <1>2
<1> QED
  BY <1>1, <1>4, <1>5, <1>6 DEF r

(* list_add_tail(&new, &cur) puts a node before the one at position i.      *)
LEMMA ListInsert ==
    ASSUME NEW S, NEW s \in Seq(S), IsInjective(s), NEW x \in S, x \notin ToSet(s),
           NEW i \in 1..(Len(s) + 1)
    PROVE  /\ InsertAt(s, i, x) \in Seq(S)
           /\ Len(InsertAt(s, i, x)) = Len(s) + 1
           /\ IsInjective(InsertAt(s, i, x))
           /\ ToSet(InsertAt(s, i, x)) = ToSet(s) \cup {x}
<1> DEFINE left == SubSeq(s, 1, i - 1)
           right == SubSeq(s, i, Len(s))
           r == InsertAt(s, i, x)
<1>1. /\ left \in Seq(S) /\ Len(left) = i - 1
      /\ \A j \in 1..(i - 1) : left[j] = s[j]
  <2>1. \A j \in 1..(i - 1) : s[j] \in S
    OBVIOUS
  <2>2. 1 \in Int /\ i - 1 \in Int
    OBVIOUS
  <2>3. /\ SubSeq(s, 1, i - 1) \in Seq(S)
        /\ Len(SubSeq(s, 1, i - 1)) = IF 1 <= i - 1 THEN (i - 1) - 1 + 1 ELSE 0
        /\ \A j \in 1..((i - 1) - 1 + 1) : SubSeq(s, 1, i - 1)[j] = s[1 + j - 1]
    BY <2>1, <2>2, SubSeqProperties
  <2>4. \A j \in 1..(i - 1) : 1 + j - 1 = j
    OBVIOUS
  <2>5. (i - 1) - 1 + 1 = i - 1 /\ (1 <= i - 1 \/ i - 1 = 0)
    OBVIOUS
  <2> HIDE DEF left
  <2>6. left = SubSeq(s, 1, i - 1)
    BY DEF left
  <2> QED
    BY <2>3, <2>4, <2>5, <2>6
<1>2. /\ right \in Seq(S) /\ Len(right) = Len(s) - i + 1
      /\ \A j \in 1..(Len(s) - i + 1) : right[j] = s[i + j - 1]
  <2>1. \A j \in i..Len(s) : s[j] \in S
    OBVIOUS
  <2>2. i \in Int /\ Len(s) \in Int
    OBVIOUS
  <2>3. /\ SubSeq(s, i, Len(s)) \in Seq(S)
        /\ Len(SubSeq(s, i, Len(s))) = IF i <= Len(s) THEN Len(s) - i + 1 ELSE 0
        /\ \A j \in 1..(Len(s) - i + 1) : SubSeq(s, i, Len(s))[j] = s[i + j - 1]
    BY <2>1, <2>2, SubSeqProperties
  <2>4. i <= Len(s) \/ Len(s) - i + 1 = 0
    OBVIOUS
  <2> HIDE DEF right
  <2>5. right = SubSeq(s, i, Len(s))
    BY DEF right
  <2> QED
    BY <2>3, <2>4, <2>5
<1>3. r = left \o <<x>> \o right
  BY DEF InsertAt
<1> HIDE DEF left, right, r
<1> DEFINE first == left \o <<x>>
<1>4. /\ first \in Seq(S) /\ Len(first) = i
      /\ \A j \in 1..i : first[j] = IF j = i THEN x ELSE s[j]
  <2>1. <<x>> \in Seq(S) /\ Len(<<x>>) = 1 /\ <<x>>[1] = x
    OBVIOUS
  <2>2. /\ left \o <<x>> \in Seq(S)
        /\ Len(left \o <<x>>) = Len(left) + Len(<<x>>)
        /\ \A j \in 1..(Len(left) + Len(<<x>>)) : (left \o <<x>>)[j] =
              IF j <= Len(left) THEN left[j] ELSE <<x>>[j - Len(left)]
    BY <1>1, <2>1, ConcatProperties
  <2>3. Len(left) + Len(<<x>>) = i
    BY <1>1, <2>1
  <2>4. ASSUME NEW j \in 1..i PROVE first[j] = IF j = i THEN x ELSE s[j]
    <3>1. CASE j = i
      <4>1. ~(j <= Len(left)) /\ j - Len(left) = 1
        BY <1>1, <3>1
      <4> QED
        BY <2>1, <2>2, <2>3, <3>1, <4>1
    <3>2. CASE j # i
      <4>1. j <= Len(left) /\ j \in 1..(i - 1)
        BY <1>1, <3>2
      <4> QED
        BY <1>1, <2>2, <2>3, <3>2, <4>1
    <3> QED
      BY <3>1, <3>2
  <2> QED
    BY <2>2, <2>3, <2>4
<1> HIDE DEF first
<1>5. /\ r \in Seq(S) /\ Len(r) = Len(s) + 1
      /\ \A j \in 1..(Len(s) + 1) :
            r[j] = IF j < i THEN s[j] ELSE IF j = i THEN x ELSE s[j - 1]
  <2>1. /\ r \in Seq(S) /\ Len(r) = Len(first) + Len(right)
        /\ \A j \in 1..(Len(first) + Len(right)) :
              r[j] = IF j <= Len(first) THEN first[j] ELSE right[j - Len(first)]
    <3>1. r = first \o right
      BY <1>3 DEF first
    <3> QED
      BY <1>2, <1>4, <3>1, ConcatProperties
  <2>2. Len(first) + Len(right) = Len(s) + 1
    BY <1>2, <1>4
  <2>3. ASSUME NEW j \in 1..(Len(s) + 1)
        PROVE  r[j] = IF j < i THEN s[j] ELSE IF j = i THEN x ELSE s[j - 1]
    <3>1. CASE j <= i
      <4>1. j \in 1..i
        BY <3>1
      <4> QED
        BY <1>4, <2>1, <2>2, <4>1
    <3>2. CASE j > i
      <4>1. j - i \in 1..(Len(s) - i + 1) /\ i + (j - i) - 1 = j - 1 /\ ~(j <= i)
        BY <3>2
      <4> QED
        BY <1>2, <1>4, <2>1, <2>2, <4>1
    <3> QED
      BY <3>1, <3>2
  <2> QED
    BY <2>1, <2>2, <2>3
<1>6. DOMAIN s = 1..Len(s) /\ DOMAIN r = 1..(Len(s) + 1) /\ Len(s) \in Nat
  BY <1>5, LenProperties
<1>7. \A j \in 1..Len(s) : s[j] # x
  BY <1>6 DEF ToSet
<1>8. IsInjective(r)
  <2> SUFFICES ASSUME NEW a \in 1..(Len(s) + 1), NEW b \in 1..(Len(s) + 1), r[a] = r[b]
               PROVE  a = b
    BY <1>6 DEF IsInjective
  <2> DEFINE down(j) == IF j < i THEN j ELSE j - 1
  <2>1. CASE a # i /\ b # i
    <3>1. down(a) \in 1..Len(s) /\ down(b) \in 1..Len(s) /\ s[down(a)] = s[down(b)]
      BY <1>5, <2>1
    <3>2. down(a) = down(b)
      BY <1>6, <3>1 DEF IsInjective
    <3> QED
      BY <2>1, <3>2
  <2>2. CASE a = i \/ b = i
    <3>1. \A j \in 1..(Len(s) + 1) : j # i => r[j] # x
      <4> SUFFICES ASSUME NEW j \in 1..(Len(s) + 1), j # i PROVE r[j] # x
        OBVIOUS
      <4>1. down(j) \in 1..Len(s) /\ r[j] = s[down(j)]
        BY <1>5
      <4> QED
        BY <1>7, <4>1
    <3>2. r[i] = x
      BY <1>5
    <3> QED
      BY <2>2, <3>1, <3>2
  <2> QED
    BY <2>1, <2>2
<1>9. ToSet(r) = ToSet(s) \cup {x}
  <2>1. ASSUME NEW y \in ToSet(r) PROVE y \in ToSet(s) \cup {x}
    <3>1. PICK j \in 1..(Len(s) + 1) : y = r[j]
      BY <1>6 DEF ToSet
    <3>2. y = x \/ \E k \in 1..Len(s) : y = s[k]
      <4>1. CASE j < i
        BY <1>5, <3>1, <4>1
      <4>2. CASE j = i
        BY <1>5, <3>1, <4>2
      <4>3. CASE j > i
        <5>1. j - 1 \in 1..Len(s) /\ r[j] = s[j - 1]
          BY <1>5, <4>3
        <5> QED
          BY <3>1, <5>1
      <4> QED
        BY <4>1, <4>2, <4>3
    <3> QED
      BY <3>2, <1>6 DEF ToSet
  <2>2. x \in ToSet(r)
    BY <1>5, <1>6 DEF ToSet
  <2>3. ASSUME NEW y \in ToSet(s) PROVE y \in ToSet(r)
    <3>1. PICK k \in 1..Len(s) : y = s[k]
      BY <1>6 DEF ToSet
    <3>2. \E j \in 1..(Len(s) + 1) : y = r[j]
      <4>1. CASE k < i
        BY <1>5, <3>1, <4>1
      <4>2. CASE k >= i
        <5>1. k + 1 \in 1..(Len(s) + 1) /\ ~(k + 1 < i) /\ k + 1 # i /\ (k + 1) - 1 = k
          BY <4>2
        <5> QED
          BY <1>5, <3>1, <5>1
      <4> QED
        BY <4>1, <4>2
    <3> QED
      BY <3>2, <1>6 DEF ToSet
  <2> QED
    BY <2>1, <2>2, <2>3
<1> QED
  BY <1>5, <1>8, <1>9 DEF r

=============================================================================
