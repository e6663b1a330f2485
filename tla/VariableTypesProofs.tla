------------------------ MODULE VariableTypesProofs ------------------------
(***************************************************************************)
(* Proofs that isIP, isSubRange, isPrefix, isPrefixRange and isIPWildcard  *)
(* accept the texts of their formats and no others, for texts of any       *)
(* length over any alphabet.                                               *)
(***************************************************************************)
EXTENDS MCVariableTypes, NatRecursion, FiniteSetTheorems, SequenceTheorems

-----------------------------------------------------------------------------
(***************************************************************************)
(* Texts and their parts.                                                  *)
(***************************************************************************)
LEMMA SameText ==
    ASSUME NEW A, NEW s \in Seq(A), NEW t \in Seq(A), Len(s) = Len(t),
           \A k \in 1..Len(s) : s[k] = t[k]
    PROVE  s = t
BY LenProperties

(* What lies strictly between two places of a text.                         *)
LEMMA BetweenIs ==
    ASSUME NEW A, NEW s \in Seq(A), NEW i \in 0..Len(s), NEW j \in 1..(Len(s) + 1), i < j
    PROVE  /\ Between(s, i, j) \in Seq(A)
           /\ Len(Between(s, i, j)) = j - i - 1
           /\ \A k \in 1..(j - i - 1) : Between(s, i, j)[k] = s[i + k]
<1>1. Len(s) \in Nat /\ \A k \in 1..Len(s) : s[k] \in A
    BY LenProperties
<1>2. /\ i + 1 \in Int /\ j - 1 \in Int
      /\ \A k \in (i + 1)..(j - 1) : s[k] \in A
    BY <1>1
<1>3. /\ SubSeq(s, i + 1, j - 1) \in Seq(A)
      /\ Len(SubSeq(s, i + 1, j - 1)) = IF i + 1 <= j - 1 THEN (j - 1) - (i + 1) + 1 ELSE 0
      /\ \A k \in 1..((j - 1) - (i + 1) + 1) :
             SubSeq(s, i + 1, j - 1)[k] = s[(i + 1) + k - 1]
    BY <1>2, SubSeqProperties
<1> QED
    BY <1>1, <1>3 DEF Between

(* The places of a separator are finitely many.                             *)
LEMMA WhereFinite ==
    ASSUME NEW A, NEW s \in Seq(A), NEW c
    PROVE  /\ Where(s, c) \subseteq 1..Len(s) /\ Len(s) \in Nat
           /\ IsFiniteSet(Where(s, c)) /\ Cardinality(Where(s, c)) \in Nat
<1>1. Len(s) \in Nat /\ DOMAIN s = 1..Len(s)
    BY LenProperties
<1>2. Where(s, c) \subseteq 1..Len(s)
    BY <1>1 DEF Where
<1>3. IsFiniteSet(1..Len(s))
    BY <1>1, FS_Interval
<1> QED
    BY <1>1, <1>2, <1>3, FS_Subset, FS_CardinalityType

-----------------------------------------------------------------------------
(***************************************************************************)
(* Split, by the number of separators.                                     *)
(***************************************************************************)
LEMMA SplitLen ==
    ASSUME NEW A, NEW s \in Seq(A), NEW c
    PROVE  Len(Split(s, c)) = Cardinality(Where(s, c)) + 1
<1> DEFINE n == Cardinality(Where(s, c)) + 1
           e(k) == SubSeq(s, Cut(s, c, k - 1) + 1, Cut(s, c, k) - 1)
           V == {e(k) : k \in 1..n}
<1>1. n \in Nat
    BY WhereFinite
<1>2. Split(s, c) = [k \in 1..n |-> e(k)]
    BY DEF Split
<1> HIDE DEF n, e
<1>3. [k \in 1..n |-> e(k)] \in [1..n -> V]
    OBVIOUS
<1>4. [k \in 1..n |-> e(k)] \in Seq(V)
    BY <1>1, <1>3, SeqDef, SMTT(30)
<1> QED
    BY <1>1, <1>2, <1>4, LenProperties DEF n

(* The k-th part is the text between two neighbouring cuts.                *)
LEMMA SplitPart ==
    ASSUME NEW A, NEW s \in Seq(A), NEW c, NEW k \in 1..(Cardinality(Where(s, c)) + 1)
    PROVE  Split(s, c)[k] = Between(s, Cut(s, c, k - 1), Cut(s, c, k))
BY DEF Split, Between

(* The cuts before the first part and after the last one.                  *)
LEMMA Ends ==
    ASSUME NEW A, NEW s \in Seq(A), NEW c
    PROVE  /\ Cut(s, c, 0) = 0
           /\ Cut(s, c, Cardinality(Where(s, c)) + 1) = Last(s)
BY WhereFinite DEF Cut, Last

(* Without the separator the text is its only part.                        *)
LEMMA SplitNone ==
    ASSUME NEW A, NEW s \in Seq(A), NEW c, ~Contains(s, c)
    PROVE  Len(Split(s, c)) = 1 /\ Split(s, c)[1] = s
<1>1. Cardinality(Where(s, c)) = 0
    BY FS_EmptySet DEF Contains
<1>2. Split(s, c)[1] = Between(s, 0, Last(s))
    BY <1>1, Ends, SplitPart
<1>3. Between(s, 0, Last(s)) = SubSeq(s, 1, Len(s))
    BY LenProperties DEF Between, Last
<1>4. Len(Split(s, c)) = 1
    <2>1. Len(Split(s, c)) = Cardinality(Where(s, c)) + 1
        BY SplitLen
    <2> QED
        BY <1>1, <2>1
<1>5. SubSeq(s, 1, Len(s)) = s
    BY SubSeqFull
<1> QED
    BY <1>2, <1>3, <1>4, <1>5

(* Two parts exactly if the separator is there once: what is before it and *)
(* what is after it.                                                       *)
LEMMA SplitOnce ==
    ASSUME NEW A, NEW s \in Seq(A), NEW c
    PROVE  /\ Contains(s, c) => Len(Split(s, c)) >= 2
           /\ Len(Split(s, c)) = 2 <=> \E k \in Where(s, c) : Only(s, c, k)
           /\ \A k \in Where(s, c) : Only(s, c, k) =>
                 /\ Split(s, c)[1] = Between(s, 0, k)
                 /\ Split(s, c)[2] = Between(s, k, Last(s))
<1>1. Contains(s, c) => Cardinality(Where(s, c)) >= 1
    BY WhereFinite, FS_EmptySet DEF Contains
<1>2. Cardinality(Where(s, c)) = 1 <=> \E k \in Where(s, c) : Only(s, c, k)
    BY WhereFinite, FS_Singleton DEF Only
<1>3. ASSUME NEW k \in Where(s, c), Only(s, c, k)
      PROVE  /\ Split(s, c)[1] = Between(s, 0, k)
             /\ Split(s, c)[2] = Between(s, k, Last(s))
    <2>1. Where(s, c) = {k} /\ Cardinality(Where(s, c)) = 1 /\ k \in Nat
        BY <1>2, <1>3, WhereFinite DEF Only
    <2>2. {j \in {k} : j <= k} = {k} /\ Cardinality({k}) = 1
        BY <2>1
    <2>3. (CHOOSE p \in {k} : Cardinality({j \in {k} : j <= p}) = 1) = k
        BY <2>2
    <2>4. Cut(s, c, 1) = k
        BY <2>1, <2>3 DEF Cut
    <2>5. Cut(s, c, 0) = 0 /\ Cut(s, c, Cardinality(Where(s, c)) + 1) = Last(s)
        BY Ends
    <2>6. \A n \in 1..(Cardinality(Where(s, c)) + 1) :
              Split(s, c)[n] = Between(s, Cut(s, c, n - 1), Cut(s, c, n))
        BY SplitPart
    <2>7. Cardinality(Where(s, c)) + 1 = 2
        BY <2>1
    <2>8. /\ Split(s, c)[1] = Between(s, Cut(s, c, 1 - 1), Cut(s, c, 1))
          /\ Split(s, c)[2] = Between(s, Cut(s, c, 2 - 1), Cut(s, c, 2))
        BY <2>6, <2>7
    <2> QED
        BY <2>4, <2>5, <2>7, <2>8
<1>4. Len(Split(s, c)) = Cardinality(Where(s, c)) + 1 /\ Cardinality(Where(s, c)) \in Nat
    BY SplitLen, WhereFinite
<1>5. Contains(s, c) => Len(Split(s, c)) >= 2
    BY <1>1, <1>4
<1>6. Len(Split(s, c)) = 2 <=> \E k \in Where(s, c) : Only(s, c, k)
    BY <1>2, <1>4
<1> QED
    BY <1>3, <1>5, <1>6

(* Three separators make four parts.                                        *)
LEMMA ThreePlaces ==
    ASSUME NEW S \in SUBSET Nat, IsFiniteSet(S)
    PROVE  Cardinality(S) = 3 <=> \E i, j, k \in S : i < j /\ j < k /\ S = {i, j, k}
<1>1. ASSUME Cardinality(S) = 3
      PROVE  \E i, j, k \in S : i < j /\ j < k /\ S = {i, j, k}
    <2>0. ASSUME NEW T, IsFiniteSet(T), Cardinality(T) # 0 PROVE \E x : x \in T
        BY <2>0, FS_EmptySet
    <2>1. PICK x : x \in S
        BY <1>1, <2>0
    <2>2. IsFiniteSet(S \ {x}) /\ Cardinality(S \ {x}) = 2
        BY <1>1, <2>1, FS_RemoveElement
    <2>3. PICK y : y \in S \ {x}
        BY <2>0, <2>2
    <2>4. IsFiniteSet((S \ {x}) \ {y}) /\ Cardinality((S \ {x}) \ {y}) = 1
        BY <2>2, <2>3, FS_RemoveElement
    <2>5. PICK z : (S \ {x}) \ {y} = {z}
        BY <2>4, FS_Singleton
    <2>6. S = {x, y, z} /\ x # y /\ y # z /\ x # z /\ x \in Nat /\ y \in Nat /\ z \in Nat
        BY <2>1, <2>3, <2>5
    <2> QED
        BY <2>6
<1>2. ASSUME NEW i \in S, NEW j \in S, NEW k \in S, i < j, j < k, S = {i, j, k}
      PROVE  Cardinality(S) = 3
    <2>1. IsFiniteSet({i}) /\ Cardinality({i}) = 1
        BY FS_Singleton
    <2>2. IsFiniteSet({i} \cup {j}) /\ Cardinality({i} \cup {j}) = 2
        BY <1>2, <2>1, FS_AddElement
    <2>3. Cardinality(({i} \cup {j}) \cup {k}) = 3
        BY <1>2, <2>2, FS_AddElement
    <2>4. ({i} \cup {j}) \cup {k} = S
        BY <1>2
    <2> QED
        BY <2>3, <2>4
<1> QED
    BY <1>1, <1>2

(* Four parts exactly if there are three separators, and which they are.   *)
LEMMA SplitThrice ==
    ASSUME NEW A, NEW s \in Seq(A), NEW c, NEW i, NEW j, NEW k,
           i < j, j < k, Where(s, c) = {i, j, k}
    PROVE  /\ Len(Split(s, c)) = 4
           /\ Split(s, c)[1] = Between(s, 0, i)
           /\ Split(s, c)[2] = Between(s, i, j)
           /\ Split(s, c)[3] = Between(s, j, k)
           /\ Split(s, c)[4] = Between(s, k, Last(s))
<1> DEFINE W == Where(s, c)
<1>1. /\ W \in SUBSET Nat /\ IsFiniteSet(W)
      /\ i \in Nat /\ j \in Nat /\ k \in Nat
    <2>1. W \subseteq 1..Len(s) /\ Len(s) \in Nat /\ IsFiniteSet(W)
        BY WhereFinite
    <2>2. W \in SUBSET Nat
        BY <2>1
    <2> QED
        BY <2>1, <2>2
<1>2. Cardinality(W) = 3
    BY <1>1, ThreePlaces
<1>3. /\ {m \in W : m <= i} = {i}
      /\ {m \in W : m <= j} = {i} \cup {j}
      /\ {m \in W : m <= k} = W
    BY <1>1
<1>4. /\ Cardinality({m \in W : m <= i}) = 1
      /\ Cardinality({m \in W : m <= j}) = 2
      /\ Cardinality({m \in W : m <= k}) = 3
    <2>1. IsFiniteSet({i}) /\ Cardinality({i}) = 1
        BY FS_Singleton
    <2>2. Cardinality({i} \cup {j}) = IF j \in {i} THEN 1 ELSE 1 + 1
        BY <2>1, FS_AddElement
    <2>3. j \notin {i}
        BY <1>1
    <2>4. 1 + 1 = 2
        OBVIOUS
    <2>5. Cardinality({i} \cup {j}) = 2
        BY <2>2, <2>3, <2>4, Zenon
    <2> QED
        BY <1>2, <1>3, <2>1, <2>5, Zenon
<1> HIDE DEF W
<1> DEFINE rank(p) == Cardinality({m \in W : m <= p})
<1>5. W = {i, j, k} /\ rank(i) = 1 /\ rank(j) = 2 /\ rank(k) = 3
    BY <1>4 DEF W
<1>6. /\ Cut(s, c, 1) = CHOOSE p \in W : rank(p) = 1
      /\ Cut(s, c, 2) = CHOOSE p \in W : rank(p) = 2
      /\ Cut(s, c, 3) = CHOOSE p \in W : rank(p) = 3
    <2>1. Cardinality(Where(s, c)) = 3
        BY <1>2 DEF W
    <2>2. 1 # 0 /\ 2 # 0 /\ 3 # 0 /\ ~(1 > 3) /\ ~(2 > 3) /\ ~(3 > 3)
        OBVIOUS
    <2> QED
        BY <2>1, <2>2, Zenon DEF Cut, W
<1>7. /\ (CHOOSE p \in W : rank(p) = 1) = i
      /\ (CHOOSE p \in W : rank(p) = 2) = j
      /\ (CHOOSE p \in W : rank(p) = 3) = k
    <2> HIDE DEF rank
    <2> QED
        BY <1>5
<1>8. Cut(s, c, 0) = 0 /\ Cut(s, c, Cardinality(W) + 1) = Last(s)
    BY Ends DEF W
<1>9. \A n \in 1..(Cardinality(W) + 1) :
          Split(s, c)[n] = Between(s, Cut(s, c, n - 1), Cut(s, c, n))
    BY SplitPart DEF W
<1>10. Cardinality(W) + 1 = 4
    BY <1>2
<1>11. /\ Split(s, c)[1] = Between(s, Cut(s, c, 1 - 1), Cut(s, c, 1))
       /\ Split(s, c)[2] = Between(s, Cut(s, c, 2 - 1), Cut(s, c, 2))
       /\ Split(s, c)[3] = Between(s, Cut(s, c, 3 - 1), Cut(s, c, 3))
       /\ Split(s, c)[4] = Between(s, Cut(s, c, 4 - 1), Cut(s, c, 4))
    BY <1>9, <1>10
<1>12. Len(Split(s, c)) = Cardinality(W) + 1
    BY SplitLen DEF W
<1>13. Cut(s, c, 1) = i /\ Cut(s, c, 2) = j /\ Cut(s, c, 3) = k
    BY <1>6, <1>7, Zenon
<1>14. 1 - 1 = 0 /\ 2 - 1 = 1 /\ 3 - 1 = 2 /\ 4 - 1 = 3
    OBVIOUS
<1> QED
    BY <1>8, <1>10, <1>11, <1>12, <1>13, <1>14, Zenon

-----------------------------------------------------------------------------
(***************************************************************************)
(* The marks of an address that is not known.                              *)
(***************************************************************************)
LEMMA First ==
    ASSUME NEW S \in SUBSET Nat, S # {}
    PROVE  FirstOf(S) \in S /\ \A j \in S : FirstOf(S) <= j
<1>1. \E k \in S : \A j \in S : k <= j
    BY Least
<1> QED
    BY <1>1 DEF FirstOf

(* A number has no letters in it.                                           *)
LEMMA NumbersHaveNoLetter ==
    ASSUME NEW A, NEW s \in Seq(A), IsNumber(s), NEW k \in 1..Len(s)
    PROVE  s[k] # "l"
<1>1. "l" \notin Digits
    BY DEF Digits, DigitOrder
<1>2. CASE Signed(s) /\ k = 1
    BY <1>2 DEF Signed
<1>3. CASE Signed(s) /\ k # 1
    <2>1. Tail(s) \in Seq(A) /\ Len(Tail(s)) = Len(s) - 1 /\ Tail(s)[k - 1] = s[k]
          /\ k - 1 \in 1..Len(Tail(s)) /\ DOMAIN Tail(s) = 1..Len(Tail(s))
        BY <1>3, HeadTailProperties, LenProperties DEF Signed
    <2> QED
        BY <1>1, <1>3, <2>1 DEF IsNumber, AllDigits, Unsigned
<1>4. CASE ~Signed(s)
    BY <1>1, <1>4, LenProperties DEF IsNumber, AllDigits, Unsigned
<1> QED
    BY <1>2, <1>3, <1>4

(* Three increasing places tell which of them is the first, second and     *)
(* third.                                                                  *)
LEMMA Triple ==
    ASSUME NEW A, NEW t \in Seq(A), Len(t) = 3, NEW a, NEW b, NEW c
    PROVE  t = <<a, b, c>> <=> t[1] = a /\ t[2] = b /\ t[3] = c
<1>1. ASSUME t[1] = a /\ t[2] = b /\ t[3] = c PROVE t = <<a, b, c>>
    <2>1. a \in A /\ b \in A /\ c \in A
        <3>1. 1 \in 1..Len(t) /\ 2 \in 1..Len(t) /\ 3 \in 1..Len(t)
            OBVIOUS
        <3> QED
            BY <1>1, <3>1, ElementOfSeq
    <2>2. <<a, b, c>> \in Seq(A) /\ Len(<<a, b, c>>) = 3
        BY <2>1
    <2>3. \A k \in 1..3 : t[k] = <<a, b, c>>[k]
        BY <1>1
    <2> QED
        BY <2>2, <2>3, SameText
<1> QED
    BY <1>1

(* The start of what follows a place is what lies between two places.       *)
LEMMA StartOfRest ==
    ASSUME NEW A, NEW s \in Seq(A), NEW i \in 0..Len(s), NEW r \in Seq(A),
           Len(r) = Len(s) - i, \A k \in 1..(Len(s) - i) : r[k] = s[i + k],
           NEW p \in 1..Len(r)
    PROVE  Between(r, 0, p) = Between(s, i, i + p)
<1>1. Len(s) \in Nat /\ Len(r) \in Nat
    BY LenProperties
<1>2. /\ Between(r, 0, p) \in Seq(A) /\ Len(Between(r, 0, p)) = p - 0 - 1
      /\ \A k \in 1..(p - 0 - 1) : Between(r, 0, p)[k] = r[0 + k]
    <2>1. 0 \in 0..Len(r) /\ p \in 1..(Len(r) + 1) /\ 0 < p
        BY <1>1
    <2> QED
        BY <2>1, BetweenIs
<1>3. /\ Between(s, i, i + p) \in Seq(A) /\ Len(Between(s, i, i + p)) = (i + p) - i - 1
      /\ \A k \in 1..((i + p) - i - 1) : Between(s, i, i + p)[k] = s[i + k]
    <2>1. i + p \in 1..(Len(s) + 1) /\ i < i + p
        BY <1>1
    <2> QED
        BY <2>1, BetweenIs, SMTT(30)
<1>4. p - 0 - 1 = p - 1 /\ (i + p) - i - 1 = p - 1
      /\ \A k \in 1..(p - 1) : 0 + k = k /\ k \in 1..(Len(s) - i)
    BY <1>1
<1> DEFINE a == Between(r, 0, p)
           b == Between(s, i, i + p)
<1>5. a \in Seq(A) /\ b \in Seq(A) /\ Len(a) = p - 1 /\ Len(b) = p - 1
      /\ \A k \in 1..(p - 1) : a[k] = b[k]
    BY <1>2, <1>3, <1>4
<1> HIDE DEF a, b
<1>6. a = b
    BY <1>5, SameText
<1> QED
    BY <1>6 DEF a, b

(* The marked texts, such as INVALID_IP, are no addresses in digits.       *)
LEMMA MarkedIsUnknown ==
    ASSUME NEW A, NEW s \in Seq(A)
    PROVE  IsMarkedIP(s) /\ Cardinality(Where(s, ".")) # 3 <=> UnknownAddress(s)
<1> DEFINE i == FirstOf(Where(s, "("))
           rest == After(s, "(")
<1>1. Len(s) \in Nat /\ DOMAIN s = 1..Len(s) /\ Where(s, "(") \subseteq 1..Len(s)
      /\ Where(s, "l") \subseteq 1..Len(s)
    BY WhereFinite, LenProperties
<1>2. \/ s # <<>> /\ s[1] = "INVALID_IP"
      \/ Len(s) >= 3 /\ SubSeq(s, 1, 3) = <<"AUTO", "/", "NONE">>
      <=> /\ s # <<>>
          /\ \/ s[1] = "INVALID_IP"
             \/ Len(s) > 2 /\ s[1] = "AUTO" /\ s[2] = "/" /\ s[3] = "NONE"
    <2>1. ASSUME Len(s) >= 3
          PROVE  SubSeq(s, 1, 3) = <<"AUTO", "/", "NONE">>
                 <=> s[1] = "AUTO" /\ s[2] = "/" /\ s[3] = "NONE"
        <3>1. /\ SubSeq(s, 1, 3) \in Seq(A) /\ Len(SubSeq(s, 1, 3)) = 3
              /\ \A k \in 1..3 : SubSeq(s, 1, 3)[k] = s[k]
            <4>1. \A k \in 1..3 : s[k] \in A
                BY <1>1, <2>1, LenProperties
            <4> QED
                BY <4>1, SubSeqProperties
        <3>2. SubSeq(s, 1, 3) = <<"AUTO", "/", "NONE">>
              <=> /\ SubSeq(s, 1, 3)[1] = "AUTO" /\ SubSeq(s, 1, 3)[2] = "/"
                  /\ SubSeq(s, 1, 3)[3] = "NONE"
            <4> DEFINE t == SubSeq(s, 1, 3)
            <4>1. t \in Seq(A) /\ Len(t) = 3
                BY <3>1
            <4> HIDE DEF t
            <4>2. t = <<"AUTO", "/", "NONE">> <=> t[1] = "AUTO" /\ t[2] = "/" /\ t[3] = "NONE"
                BY <4>1, Triple
            <4> QED
                BY <4>2 DEF t
        <3> QED
            BY <3>1, <3>2
    <2>2. Len(s) >= 3 <=> Len(s) > 2
        BY <1>1
    <2>3. Len(s) > 2 => s # <<>>
        OBVIOUS
    <2> QED
        BY <2>1, <2>2, <2>3
<1>3. ASSUME Contains(s, "(")
      PROVE  /\ i \in 1..Len(s) /\ s[i] = "(" /\ \A p \in 1..(i - 1) : s[p] # "("
             /\ rest \in Seq(A) /\ Len(rest) = Len(s) - i
             /\ \A k \in 1..(Len(s) - i) : rest[k] = s[i + k]
    <2>1. Where(s, "(") \in SUBSET Nat /\ Where(s, "(") # {}
        BY <1>1, <1>3 DEF Contains
    <2>2. i \in Where(s, "(") /\ \A j \in Where(s, "(") : i <= j
        BY <2>1, First
    <2>3. rest = SubSeq(s, i + 1, Len(s))
        BY DEF After
    <2> HIDE DEF i, rest
    <2>4. i \in 1..Len(s) /\ s[i] = "("
        BY <1>1, <2>2 DEF Where
    <2>5. \A p \in 1..(i - 1) : s[p] # "("
        BY <1>1, <2>2, <2>4 DEF Where
    <2>6. (Len(s) + 1) - 1 = Len(s)
        BY <1>1
    <2>7. rest = Between(s, i, Len(s) + 1)
        BY <2>3, <2>6, Zenon DEF Between
    <2>8. /\ i \in 0..Len(s) /\ Len(s) + 1 \in 1..(Len(s) + 1) /\ i < Len(s) + 1
          /\ (Len(s) + 1) - i - 1 = Len(s) - i
        BY <1>1, <2>4
    <2>9. /\ rest \in Seq(A) /\ Len(rest) = (Len(s) + 1) - i - 1
          /\ \A k \in 1..((Len(s) + 1) - i - 1) : rest[k] = s[i + k]
        BY <2>7, <2>8, BetweenIs
    <2> QED
        BY <2>4, <2>5, <2>8, <2>9
<1> DEFINE q == FirstOf(Where(rest, "l"))
<1>4. ASSUME Contains(s, "("), Contains(rest, "l")
      PROVE  /\ q \in 1..Len(rest) /\ rest[q] = "l"
             /\ \A p \in 1..Len(rest) : rest[p] = "l" => q <= p
             /\ Before(rest, "l") = Between(s, i, i + q)
    <2>1. rest \in Seq(A) /\ Len(rest) = Len(s) - i /\ i \in 0..Len(s)
          /\ \A k \in 1..(Len(s) - i) : rest[k] = s[i + k]
        BY <1>1, <1>3, <1>4
    <2> HIDE DEF i, rest
    <2>2. /\ Where(rest, "l") \in SUBSET Nat /\ Where(rest, "l") # {}
          /\ Where(rest, "l") \subseteq 1..Len(rest)
          /\ DOMAIN rest = 1..Len(rest)
        BY <1>4, <2>1, WhereFinite, LenProperties DEF Contains
    <2>3. q \in Where(rest, "l") /\ \A j \in Where(rest, "l") : q <= j
        BY <2>2, First
    <2>4. Before(rest, "l") = SubSeq(rest, 1, q - 1)
        BY DEF Before
    <2> HIDE DEF q
    <2>5. q \in 1..Len(rest) /\ rest[q] = "l"
          /\ \A p \in 1..Len(rest) : rest[p] = "l" => q <= p
        BY <2>2, <2>3 DEF Where
    <2>6. Between(rest, 0, q) = Between(s, i, i + q)
        BY <2>1, <2>5, StartOfRest
    <2>7. 0 + 1 = 1
        OBVIOUS
    <2> QED
        BY <2>4, <2>5, <2>6, <2>7 DEF Between
<1> DEFINE Marked == Contains(s, "(") /\ Contains(rest, "l") /\ IsNumber(Before(rest, "l"))
           Shown == \E k \in Where(s, "("), j \in Where(s, "l") :
                        /\ \A p \in 1..(k - 1) : s[p] # "("
                        /\ k < j
                        /\ NumberBetween(s, k, j)
<1>5. ASSUME Marked PROVE Shown
    <2>1. /\ i \in 1..Len(s) /\ s[i] = "(" /\ \A p \in 1..(i - 1) : s[p] # "("
          /\ Len(rest) = Len(s) - i /\ \A k \in 1..(Len(s) - i) : rest[k] = s[i + k]
          /\ q \in 1..Len(rest) /\ rest[q] = "l"
          /\ IsNumber(Between(s, i, i + q))
        BY <1>3, <1>4, <1>5
    <2> HIDE DEF i, rest, q
    <2>2. i + q \in 1..Len(s) /\ i < i + q /\ s[i + q] = "l"
        BY <1>1, <2>1
    <2>3. i \in Where(s, "(") /\ i + q \in Where(s, "l")
        BY <1>1, <2>1, <2>2 DEF Where
    <2> QED
        BY <2>1, <2>2, <2>3 DEF NumberBetween
<1>6. ASSUME Shown PROVE Marked
    <2>1. PICK k \in Where(s, "("), j \in Where(s, "l") :
              /\ \A p \in 1..(k - 1) : s[p] # "("
              /\ k < j
              /\ NumberBetween(s, k, j)
        BY <1>6
    <2>2. Contains(s, "(")
        BY DEF Contains
    <2>3. /\ i \in 1..Len(s) /\ s[i] = "(" /\ \A p \in 1..(i - 1) : s[p] # "("
          /\ rest \in Seq(A) /\ Len(rest) = Len(s) - i
          /\ \A n \in 1..(Len(s) - i) : rest[n] = s[i + n]
        BY <1>3, <2>2
    <2> HIDE DEF i
    <2>4. k = i /\ j \in 1..Len(s) /\ s[j] = "l"
        BY <1>1, <2>1, <2>3 DEF Where
    <2> HIDE DEF rest
    <2>5. j - i \in 1..Len(rest) /\ i + (j - i) = j
        BY <1>1, <2>1, <2>3, <2>4
    <2>6. rest[j - i] = "l"
        BY <2>3, <2>4, <2>5
    <2>7. Contains(rest, "l")
        BY <2>3, <2>5, <2>6, LenProperties DEF Contains, Where
    <2>8. /\ q \in 1..Len(rest) /\ rest[q] = "l" /\ q <= j - i
          /\ Before(rest, "l") = Between(s, i, i + q)
        BY <1>4, <2>2, <2>5, <2>6, <2>7
    <2> HIDE DEF q
    <2>9. q = j - i
        <3> SUFFICES ASSUME q < j - i PROVE FALSE
            BY <2>3, <2>5, <2>8
        <3>1. /\ Between(s, i, j) \in Seq(A) /\ Len(Between(s, i, j)) = j - i - 1
              /\ \A n \in 1..(j - i - 1) : Between(s, i, j)[n] = s[i + n]
            <4>1. i \in 0..Len(s) /\ j \in 1..(Len(s) + 1) /\ i < j
                BY <1>1, <2>1, <2>3, <2>4
            <4> QED
                BY <4>1, BetweenIs
        <3>2. q \in 1..(j - i - 1) /\ s[i + q] = "l"
            BY <2>3, <2>5, <2>8
        <3>3. IsNumber(Between(s, i, j))
            BY <2>1, <2>4 DEF NumberBetween
        <3> QED
            BY <3>1, <3>2, <3>3, NumbersHaveNoLetter
    <2>10. IsNumber(Between(s, i, i + q))
        BY <2>1, <2>4, <2>5, <2>9 DEF NumberBetween
    <2> QED
        BY <2>2, <2>7, <2>8, <2>10
<1>7. IsMarkedIP(s) <=> /\ \/ s # <<>> /\ s[1] = "INVALID_IP"
                           \/ Len(s) >= 3 /\ SubSeq(s, 1, 3) = <<"AUTO", "/", "NONE">>
                        /\ Marked
    BY DEF IsMarkedIP
<1> HIDE DEF Marked
<1> QED
    BY <1>2, <1>5, <1>6, <1>7 DEF UnknownAddress

-----------------------------------------------------------------------------
(***************************************************************************)
(* strconv.Atoi gives an integer: the recursive function of NumberOf       *)
(* exists, and each digit adds its value to ten times what is there.       *)
(***************************************************************************)
LEMMA DigitIsSmall ==
    ASSUME NEW c \in Digits
    PROVE  DigitValue(c) \in Nat
<1> DEFINE place == CHOOSE n \in 1..10 : DigitOrder[n] = c
<1>1. \E n \in 1..10 : DigitOrder[n] = c
    BY DEF Digits
<1>2. place \in 1..10
    <2> HIDE DEF DigitOrder
    <2> QED
        BY <1>1
<1>3. DigitValue(c) = place - 1
    BY Zenon DEF DigitValue
<1> HIDE DEF place
<1> QED
    BY <1>2, <1>3

(* A number without its sign is a text too.                                *)
LEMMA UnsignedIsText ==
    ASSUME NEW A, NEW s \in Seq(A)
    PROVE  Unsigned(s) \in Seq(A) /\ Len(Unsigned(s)) \in Nat
           /\ DOMAIN Unsigned(s) = 1..Len(Unsigned(s))
<1>1. Unsigned(s) \in Seq(A)
    BY HeadTailProperties DEF Unsigned, Signed
<1> QED
    BY <1>1, LenProperties

(* A text of digits stands for an integer.                                 *)
LEMMA NumberIsInteger ==
    ASSUME NEW A, NEW s \in Seq(A), AllDigits(Unsigned(s))
    PROVE  NumberOf(s) \in Int
<1> DEFINE digits == Unsigned(s)
           n == Len(digits)
           Turn(k, v) == IF k \in 1..n THEN 10 * v + DigitValue(digits[k]) ELSE v
           step == [k \in Nat |-> [v \in Nat |-> Turn(k, v)]]
           Body(f) == [k \in 0..n |->
                          IF k = 0 THEN 0 ELSE 10 * f[k - 1] + DigitValue(digits[k])]
           value == CHOOSE f : f = Body(f)
<1>1. n \in Nat /\ DOMAIN digits = 1..n
    BY UnsignedIsText
<1>2. \A k \in 1..n : DigitValue(digits[k]) \in Nat
    BY <1>1, DigitIsSmall DEF AllDigits
<1>3. step \in [Nat -> [Nat -> Nat]]
    <2>1. \A k \in Nat, v \in Nat : Turn(k, v) \in Nat
        <3> HIDE DEF n, digits
        <3> QED
            BY <1>2
    <2> HIDE DEF Turn
    <2> QED
        BY <2>1
<1>4. \A k \in Nat, v \in Nat : step[k][v] = Turn(k, v)
    <2> HIDE DEF Turn
    <2> QED
        OBVIOUS
<1>5. PICK f : Recurs(f, n, Nat, 0, step)
    <2> HIDE DEF step, n
    <2> QED
        BY <1>1, <1>3, Recursion
<1>6. \A k \in 1..n : f[k] = Turn(k, f[k - 1])
    <2> HIDE DEF n, step, Turn
    <2>1. \A k \in 1..n : k \in Nat /\ f[k - 1] \in Nat
        BY <1>1, <1>5 DEF Recurs
    <2> QED
        BY <1>4, <1>5, <2>1 DEF Recurs
<1>7. f = Body(f)
    <2>1. \A k \in 1..n : f[k] = 10 * f[k - 1] + DigitValue(digits[k])
        BY <1>6
    <2>2. f = [k \in 0..n |-> f[k]] /\ f[0] = 0
        BY <1>5 DEF Recurs
    <2> HIDE DEF n, digits
    <2>3. \A k \in 0..n : k = 0 \/ k \in 1..n
        BY <1>1
    <2>4. \A k \in 0..n : f[k] = IF k = 0 THEN 0
                                ELSE 10 * f[k - 1] + DigitValue(digits[k])
        BY <2>1, <2>2, <2>3
    <2> QED
        BY <2>2, <2>4, Zenon
<1>8. value = Body(value)
    <2> HIDE DEF Body
    <2> QED
        BY <1>7
<1>9. NumberOf(s) = IF s[1] = "-" THEN -value[n] ELSE value[n]
    BY Zenon DEF NumberOf
<1> HIDE DEF value
<1>10. value[0] = 0 /\ \A k \in 1..n : value[k] = 10 * value[k - 1] + DigitValue(digits[k])
    <2>1. \A k \in 0..n : value[k] = Body(value)[k]
        BY <1>8, Zenon
    <2>2. 0 \in 0..n /\ \A k \in 1..n : k \in 0..n /\ k # 0
        BY <1>1
    <2> QED
        BY <2>1, <2>2
<1> DEFINE S == {k \in Nat : k <= n => value[k] \in Nat}
<1> HIDE DEF n, digits
<1>11. 0 \in S
    BY <1>10
<1>12. ASSUME NEW k \in Nat, k \in S PROVE k + 1 \in S
    <2>1. ASSUME k + 1 <= n PROVE value[k + 1] \in Nat
        <3>1. k + 1 \in 1..n /\ (k + 1) - 1 = k /\ value[k] \in Nat
            BY <1>1, <1>12, <2>1
        <3>2. value[k + 1] = 10 * value[k] + DigitValue(digits[k + 1])
            BY <1>10, <3>1
        <3> QED
            BY <1>2, <3>1, <3>2
    <2> QED
        BY <2>1
<1>13. n \in S
    <2> HIDE DEF S
    <2> QED
        BY <1>1, <1>11, <1>12, Induction
<1> QED
    BY <1>1, <1>9, <1>13

-----------------------------------------------------------------------------
(***************************************************************************)
(* The formats.                                                            *)
(***************************************************************************)
LEMMA OctetIs ==
    ASSUME NEW A, NEW s \in Seq(A), NEW i \in 0..Len(s), NEW j \in 1..(Len(s) + 1), i < j
    PROVE  IsNumber(Between(s, i, j)) /\ NumberOf(Between(s, i, j)) \in 0..255
           <=> OctetBetween(s, i, j)
<1>1. Between(s, i, j) \in Seq(A)
    BY BetweenIs
<1> DEFINE p == Between(s, i, j)
           x == NumberOf(p)
<1>2. IsNumber(p) => x \in Int
    BY <1>1, NumberIsInteger DEF IsNumber
<1> HIDE DEF x
<1>3. IsNumber(p) => (x \in 0..255 <=> x >= 0 /\ x <= 255)
    <2> SUFFICES ASSUME x \in Int PROVE x \in 0..255 <=> x >= 0 /\ x <= 255
        BY <1>2
    <2> QED
        OBVIOUS
<1> QED
    BY <1>3, Zenon DEF OctetBetween, NumberBetween, x

(* isIP.                                                                    *)
LEMMA IPIsAddress ==
    ASSUME NEW A, NEW s \in Seq(A)
    PROVE  IsIP(s) <=> Address(s)
<1> DEFINE W == Where(s, ".")
           Octet(p) == IsNumber(p) /\ NumberOf(p) \in 0..255
<1>1. /\ W \in SUBSET Nat /\ IsFiniteSet(W) /\ W \subseteq 1..Len(s)
      /\ Len(s) \in Nat /\ Cardinality(W) \in Nat
    <2>1. W \subseteq 1..Len(s) /\ Len(s) \in Nat /\ IsFiniteSet(W) /\ Cardinality(W) \in Nat
        BY WhereFinite
    <2>2. W \in SUBSET Nat
        BY <2>1
    <2> QED
        BY <2>1, <2>2
<1>2. Len(Split(s, ".")) = 4 <=> Cardinality(W) = 3
    <2> DEFINE m == Cardinality(W)
               n == Len(Split(s, "."))
    <2>1. n = m + 1 /\ m \in Nat
        BY <1>1, SplitLen
    <2> HIDE DEF m, n
    <2>2. n = 4 <=> m = 3
        BY <2>1
    <2> QED
        BY <2>2 DEF m, n
<1>3. CASE Cardinality(W) # 3
    <2>1. ~DottedQuad(s)
        BY <1>1, <1>3, ThreePlaces DEF DottedQuad
    <2>2. IsIP(s) <=> IsMarkedIP(s)
        BY <1>2, <1>3 DEF IsIP
    <2> QED
        BY <1>3, <2>1, <2>2, MarkedIsUnknown DEF Address
<1>4. CASE Cardinality(W) = 3
    <2>1. PICK i \in W, j \in W, k \in W : i < j /\ j < k /\ W = {i, j, k}
        BY <1>1, <1>4, ThreePlaces
    <2>2. /\ Split(s, ".")[1] = Between(s, 0, i)
          /\ Split(s, ".")[2] = Between(s, i, j)
          /\ Split(s, ".")[3] = Between(s, j, k)
          /\ Split(s, ".")[4] = Between(s, k, Last(s))
        BY <2>1, SplitThrice
    <2>3. IsIP(s) <=> \A n \in 1..4 : Octet(Split(s, ".")[n])
        BY <1>2, <1>4 DEF IsIP
    <2> HIDE DEF Octet
    <2>4. IsIP(s) <=> /\ Octet(Between(s, 0, i)) /\ Octet(Between(s, i, j))
                      /\ Octet(Between(s, j, k)) /\ Octet(Between(s, k, Last(s)))
        <3>1. \A n \in 1..4 : n = 1 \/ n = 2 \/ n = 3 \/ n = 4
            OBVIOUS
        <3>2. 1 \in 1..4 /\ 2 \in 1..4 /\ 3 \in 1..4 /\ 4 \in 1..4
            OBVIOUS
        <3> QED
            BY <2>2, <2>3, <3>1, <3>2, Zenon
    <2>5. /\ Octet(Between(s, 0, i)) <=> OctetBetween(s, 0, i)
          /\ Octet(Between(s, i, j)) <=> OctetBetween(s, i, j)
          /\ Octet(Between(s, j, k)) <=> OctetBetween(s, j, k)
          /\ Octet(Between(s, k, Last(s))) <=> OctetBetween(s, k, Last(s))
        <3>1. /\ 0 \in 0..Len(s) /\ i \in 0..Len(s) /\ j \in 0..Len(s) /\ k \in 0..Len(s)
              /\ i \in 1..(Len(s) + 1) /\ j \in 1..(Len(s) + 1) /\ k \in 1..(Len(s) + 1)
              /\ Last(s) \in 1..(Len(s) + 1) /\ 0 < i /\ k < Last(s)
            BY <1>1, <2>1 DEF Last
        <3> QED
            BY <2>1, <3>1, OctetIs, SMTT(30) DEF Octet
    <2>6. \A x, y, z \in W : x < y /\ y < z /\ W = {x, y, z} => x = i /\ y = j /\ z = k
        BY <1>1, <2>1
    <2>7. DottedQuad(s) <=> /\ OctetBetween(s, 0, i) /\ OctetBetween(s, i, j)
                            /\ OctetBetween(s, j, k) /\ OctetBetween(s, k, Last(s))
        BY <2>1, <2>6, Zenon DEF DottedQuad
    <2>8. ~UnknownAddress(s)
        BY <1>4 DEF UnknownAddress
    <2> QED
        BY <2>4, <2>5, <2>7, <2>8 DEF Address
<1> QED
    BY <1>3, <1>4

(* The two parts of a text with one separator are texts.                    *)
LEMMA PartsAreTexts ==
    ASSUME NEW A, NEW s \in Seq(A), NEW c, NEW k \in Where(s, c)
    PROVE  Between(s, 0, k) \in Seq(A) /\ Between(s, k, Last(s)) \in Seq(A)
<1>1. /\ k \in 0..Len(s) /\ k \in 1..(Len(s) + 1) /\ 0 \in 0..Len(s) /\ 0 < k
      /\ Last(s) \in 1..(Len(s) + 1) /\ k < Last(s)
    BY WhereFinite DEF Last
<1> QED
    BY <1>1, BetweenIs

(* isSubRange.                                                              *)
LEMMA SubRangeIsRange ==
    ASSUME NEW A, NEW s \in Seq(A)
    PROVE  IsSubRange(s) <=> Range2(s)
BY SplitOnce DEF IsSubRange, Range2, NumberBetween

(* isPrefix.                                                                *)
LEMMA PrefixIsCIDR ==
    ASSUME NEW A, NEW s \in Seq(A)
    PROVE  IsPrefix(s) <=> CIDR(s)
BY SplitOnce, PartsAreTexts, IPIsAddress DEF IsPrefix, CIDR, NumberBetween

(* isPrefixRange.                                                           *)
LEMMA PrefixRangeIsCIDRRange ==
    ASSUME NEW A, NEW s \in Seq(A)
    PROVE  IsPrefixRange(s) <=> CIDRRange(s)
<1>1. CASE ~Contains(s, ":")
    <2>1. Len(Split(s, ":")) = 1 /\ Split(s, ":")[1] = s
        BY <1>1, SplitNone
    <2>2. IsPrefixRange(s) <=> IsPrefix(s)
        <3>1. 1 <= 2 /\ 1 # 2
            OBVIOUS
        <3> QED
            BY <2>1, <3>1, Zenon DEF IsPrefixRange
    <2>3. CIDRRange(s) <=> CIDR(s)
        BY <1>1 DEF CIDRRange, Contains
    <2> QED
        BY <2>2, <2>3, PrefixIsCIDR
<1>2. CASE Contains(s, ":")
    <2>1. IsPrefixRange(s) <=> /\ Len(Split(s, ":")) = 2
                               /\ IsPrefix(Split(s, ":")[1]) /\ IsSubRange(Split(s, ":")[2])
        <3>1. Len(Split(s, ":")) >= 2 /\ Len(Split(s, ":")) \in Nat
            <4>1. Len(Split(s, ":")) = Cardinality(Where(s, ":")) + 1
                BY SplitLen
            <4>2. Cardinality(Where(s, ":")) \in Nat
                BY WhereFinite
            <4>3. Len(Split(s, ":")) >= 2
                BY <1>2, SplitOnce
            <4> QED
                BY <4>1, <4>2, <4>3
        <3> DEFINE n == Len(Split(s, ":"))
        <3>2. n >= 2 /\ n \in Nat
            BY <3>1
        <3> HIDE DEF n
        <3>3. n <= 2 <=> n = 2
            BY <3>2
        <3> QED
            BY <3>3, Zenon DEF IsPrefixRange, n
    <2>2. \A k \in Where(s, ":") : Only(s, ":", k) =>
              /\ IsPrefix(Split(s, ":")[1]) <=> CIDR(Between(s, 0, k))
              /\ IsSubRange(Split(s, ":")[2]) <=> Range2(Between(s, k, Last(s)))
        BY SplitOnce, PartsAreTexts, PrefixIsCIDR, SubRangeIsRange
    <2>3. Len(Split(s, ":")) = 2 <=> \E k \in Where(s, ":") : Only(s, ":", k)
        BY SplitOnce
    <2> QED
        BY <1>2, <2>1, <2>2, <2>3, Zenon DEF CIDRRange
<1> QED
    BY <1>1, <1>2

(* isIPWildcard.                                                            *)
LEMMA IPWildcardIsWildcard ==
    ASSUME NEW A, NEW s \in Seq(A)
    PROVE  IsIPWildcard(s) <=> Wildcard(s)
<1>1. CASE Contains(s, ":")
    <2>1. \A k \in Where(s, ":") : Only(s, ":", k) =>
              /\ IsIP(Split(s, ":")[1]) <=> Address(Between(s, 0, k))
              /\ IsIP(Split(s, ":")[2]) <=> Address(Between(s, k, Last(s)))
        BY SplitOnce, PartsAreTexts, IPIsAddress
    <2>2. Len(Split(s, ":")) = 2 <=> \E k \in Where(s, ":") : Only(s, ":", k)
        BY SplitOnce
    <2> QED
        BY <1>1, <2>1, <2>2, Zenon DEF IsIPWildcard, Wildcard
<1>2. CASE ~Contains(s, ":") /\ Contains(s, "/")
    <2>1. Where(s, ":") = {}
        BY <1>2 DEF Contains
    <2>2. IsIPWildcard(s) <=> IsPrefix(s)
        BY <1>2 DEF IsIPWildcard, IsPrefix
    <2>3. Wildcard(s) <=> CIDR(s)
        BY <1>2, <2>1 DEF Wildcard
    <2> QED
        BY <2>2, <2>3, PrefixIsCIDR
<1>3. CASE ~Contains(s, ":") /\ ~Contains(s, "/")
    <2>1. Where(s, ":") = {} /\ Where(s, "/") = {}
        BY <1>3 DEF Contains
    <2>2. IsIPWildcard(s) <=> IsIP(s)
        BY <1>3 DEF IsIPWildcard
    <2>3. Wildcard(s) <=> Address(s)
        BY <1>3, <2>1 DEF Wildcard, CIDR
    <2> QED
        BY <2>2, <2>3, IPIsAddress
<1> QED
    BY <1>1, <1>2, <1>3

(* Of any text whatever, the five parsers accept what its format says.      *)
THEOREM EveryText ==
    ASSUME NEW A, NEW s \in Seq(A)
    PROVE  /\ IsIP(s) <=> Address(s)
           /\ IsSubRange(s) <=> Range2(s)
           /\ IsPrefix(s) <=> CIDR(s)
           /\ IsPrefixRange(s) <=> CIDRRange(s)
           /\ IsIPWildcard(s) <=> Wildcard(s)
BY IPIsAddress, SubRangeIsRange, PrefixIsCIDR, PrefixRangeIsCIDRRange, IPWildcardIsWildcard

-----------------------------------------------------------------------------
(***************************************************************************)
(* Every text within any number of edits.                                  *)
(***************************************************************************)
Characters ==
    Alphabet \cup {"0", "1", "2", "5", "8", "9", ".", "-", "/", ":", "(", ")", "l",
                  "INVALID_IP", "AUTO", "NONE"}

(* The texts that the run starts from are of its characters.               *)
LEMMA InitText == Init => text \in Seq(Characters)
<1>1. /\ <<"2", "-", "9">> \in Seq(Characters)
      /\ <<"INVALID_IP", "(", "5", "l", ")">> \in Seq(Characters)
      /\ <<"AUTO", "/", "NONE", "(", "5", "l", ")">> \in Seq(Characters)
    BY DEF Characters
<1>2. /\ <<"2", ".", "5", ".", "0", ".", "2", "5", "5">> \in Seq(Characters)
      /\ <<"2", ".", "5", ".", "0", ".", "1", "/", "8">> \in Seq(Characters)
    BY DEF Characters
<1>3. <<"2", ".", "5", ".", "0", ".", "1", ":", "0", ".", "0", ".", "2", ".", "5">>
          \in Seq(Characters)
    BY DEF Characters
<1>4. <<"2", ".", "5", ".", "0", ".", "1", "/", "8", ":", "9", "-", "9">> \in Seq(Characters)
    BY DEF Characters
<1> HIDE DEF Characters
<1> QED
    BY <1>1, <1>2, <1>3, <1>4, Zenon DEF Init, Seeds

(* An edit leaves a text of these characters.                              *)
LEMMA EditText ==
    ASSUME text \in Seq(Characters), [Edit]_vars
    PROVE  text' \in Seq(Characters)
<1>1. Len(text) \in Nat /\ DOMAIN text = 1..Len(text)
      /\ \A n \in 1..Len(text) : text[n] \in Characters
    BY LenProperties
<1>2. Alphabet \subseteq Characters
    BY DEF Characters
<1> HIDE DEF Characters
<1>3. \A i, j \in Int : 1 <= i /\ j <= Len(text) => SubSeq(text, i, j) \in Seq(Characters)
    <2> SUFFICES ASSUME NEW i \in Int, NEW j \in Int, 1 <= i, j <= Len(text)
                 PROVE  SubSeq(text, i, j) \in Seq(Characters)
        OBVIOUS
    <2>1. \A n \in i..j : text[n] \in Characters
        BY <1>1
    <2> QED
        BY <2>1, SubSeqProperties
<1>4. ASSUME NEW k \in DOMAIN text, NEW c \in Alphabet, Replace(k, c)
      PROVE  text' \in Seq(Characters)
    BY <1>1, <1>2, <1>4, ExceptSeq DEF Replace
<1>5. ASSUME NEW k \in 1..(Len(text) + 1), NEW c \in Alphabet, Insert(k, c)
      PROVE  text' \in Seq(Characters)
    <2>1. /\ SubSeq(text, 1, k - 1) \in Seq(Characters)
          /\ SubSeq(text, k, Len(text)) \in Seq(Characters)
          /\ <<c>> \in Seq(Characters)
        BY <1>1, <1>2, <1>3
    <2>2. SubSeq(text, 1, k - 1) \o <<c>> \in Seq(Characters)
        BY <2>1, ConcatProperties
    <2>3. (SubSeq(text, 1, k - 1) \o <<c>>) \o SubSeq(text, k, Len(text)) \in Seq(Characters)
        BY <2>1, <2>2, ConcatProperties
    <2> QED
        BY <1>5, <2>3 DEF Insert
<1>6. ASSUME NEW k \in DOMAIN text, Remove(k)
      PROVE  text' \in Seq(Characters)
    <2>1. /\ SubSeq(text, 1, k - 1) \in Seq(Characters)
          /\ SubSeq(text, k + 1, Len(text)) \in Seq(Characters)
        BY <1>1, <1>3
    <2>2. SubSeq(text, 1, k - 1) \o SubSeq(text, k + 1, Len(text)) \in Seq(Characters)
        BY <2>1, ConcatProperties
    <2> QED
        BY <1>6, <2>2 DEF Remove
<1> QED
    BY <1>4, <1>5, <1>6 DEF Edit, vars

(* The parsers accept the texts of their formats and no others, for texts   *)
(* any number of edits away from a well-formed one: no missing, empty or    *)
(* surplus part, octet out of range, or separator of another format gets    *)
(* through.                                                                 *)
THEOREM ParsersAcceptTheFormats == Spec => []AcceptsExactlyTheFormats
<1>1. text \in Seq(Characters) => AcceptsExactlyTheFormats
    BY EveryText DEF AcceptsExactlyTheFormats
<1>2. text \in Seq(Characters) /\ [Edit]_vars => (text \in Seq(Characters))'
    BY EditText
<1> QED
    BY <1>1, <1>2, InitText, PTL DEF Spec
=============================================================================
